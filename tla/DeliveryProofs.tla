--------------------------- MODULE DeliveryProofs ---------------------------
(* The staged gate, the refinement of the abstract promise Delivery by Push, *)
(* and what serial pushes promise about the questions they ask, for every    *)
(* value of the constants.                                                   *)
EXTENDS PushProofs, WellFoundedInduction

\* What the sending steps of a thread leave alone, and how far they may go.
LEMMA SendingStep ==
  ASSUME TInv, TInv', NEW w \in Workers, NEW e \in Employees,
         \/ PostAccepted(w, e) \/ PostReplayed(w, e) \/ PostRefused(w, e)
         \/ PostRetried(w, e) \/ PostUnanswered(w, e)
  PROVE  /\ job[w].pc = "sending" /\ e \in job[w].todo
         /\ \A v \in Workers : v # w => job'[v] = job[v]
         /\ job'[w].snap = job[w].snap /\ job'[w].run = job[w].run
         /\ job'[w].todo \subseteq job[w].todo
         /\ pushed_state' = pushed_state
         /\ \/ Upsert(w, e) /\ job'[w].delivered = job[w].delivered \cup {e}
            \/ /\ UNCHANGED target
               /\ job'[w].delivered \subseteq
                    {x \in job[w].delivered \cup {e} :
                       x \in job[w].delivered \/ Key(w, e) \in idempotency}
  <1>1. job[w] \in Job
    BY DEF TInv, TypeOK
  <1>2. job[w].pc = "sending" /\ e \in job[w].todo /\ pushed_state' = pushed_state
    BY DEF Sending, agent, PostAccepted, PostReplayed, PostRefused, PostRetried,
           PostUnanswered
  <1>3. \A v \in Workers : v # w => job'[v] = job[v]
    BY DEF Leave, PostAccepted, PostReplayed, PostRefused, PostRetried,
           PostUnanswered, TInv, TypeOK
  <1>4. CASE PostAccepted(w, e)
    BY <1>1, <1>2, <1>3, <1>4 DEF PostAccepted, Leave, TInv, TypeOK, Job
  <1>5. CASE PostReplayed(w, e)
    BY <1>1, <1>2, <1>3, <1>5 DEF PostReplayed, Leave, TInv, TypeOK, Job, target
  <1>6. CASE PostRefused(w, e)
    BY <1>1, <1>2, <1>3, <1>6 DEF PostRefused, Leave, TInv, TypeOK, Job, target
  <1>7. CASE PostRetried(w, e)
    BY <1>1, <1>2, <1>3, <1>7 DEF PostRetried, TInv, TypeOK, Job, target
  <1>8. CASE PostUnanswered(w, e)
    BY <1>1, <1>2, <1>3, <1>8 DEF PostUnanswered, Leave, TInv, TypeOK, Job, target
  <1> QED
    BY <1>4, <1>5, <1>6, <1>7, <1>8

\* A step of a thread that is neither of those nor a claim: no thread starts
\* sending, and those that send go on unchanged.
Elsewhere ==
  \A w \in Workers : job'[w].pc = "sending" => job'[w] = job[w]

LEMMA ElsewhereSteps ==
  ASSUME TInv, TInv', NEW w \in Workers,
         \/ Begin(w) \/ Finish(w) \/ Propose(w) \/ FinishRollback(w) \/ Fail(w)
         \/ \E v \in Values \cup {NoValue} : NameField(w, v)
         \/ \E e \in Employees : Delete(w, e)
  PROVE  Elsewhere
  <1>1. \A v \in Workers : v # w => job'[v] = job[v]
    BY DEF Begin, BeginPush, BeginRollback, Finish, Propose, FinishRollback, Fail,
           Stop, StopRollback, StopUnheard, Died, NameField, Delete, TInv, TypeOK
  <1>2. \A X, Y : /\ [job[w] EXCEPT !.pc = "repair", !.example = NoValue].pc = "repair"
                  /\ [job[w] EXCEPT !.pc = "propose", !.example = Y,
                                    !.examples = X].pc = "propose"
                  /\ [job[w] EXCEPT !.todo = X, !.delivered = Y].pc = job[w].pc
    BY DEF TInv, TypeOK, Job
  <1>4. job'[w].pc # "sending"
    <2>1. CASE Begin(w)
      <3>1. PICK r \in Runs : BeginPush(w, r) \/ BeginRollback(w, r)
        BY <2>1 DEF Begin
      <3>2. \/ job'[w] = [Idle EXCEPT !.pc = "claim", !.run = r]
            \/ \E X : job'[w] = [Idle EXCEPT !.pc = "deleting", !.run = r,
                                             !.todo = X]
        BY <3>1 DEF BeginPush, BeginRollback, TInv, TypeOK
      <3>3. \A X : /\ [Idle EXCEPT !.pc = "claim", !.run = r].pc = "claim"
                   /\ [Idle EXCEPT !.pc = "deleting", !.run = r,
                                   !.todo = X].pc = "deleting"
        BY IdleType DEF Job
      <3> QED
        BY <3>2, <3>3
    <2>2. CASE Finish(w)
      <3>1. \/ job'[w] = Idle
            \/ \E X : job'[w] = [Idle EXCEPT !.pc = "repair",
                                   !.run = job[w].run, !.examples = X]
        BY <2>2 DEF Finish, TInv, TypeOK
      <3>2. \A X : [Idle EXCEPT !.pc = "repair", !.run = job[w].run,
                                !.examples = X].pc = "repair"
        BY IdleType DEF Job
      <3> QED
        BY <3>1, <3>2, IdleType
    <2>3. CASE Propose(w)
      <3>1. \/ job'[w] = Idle
            \/ job'[w] = [job[w] EXCEPT !.pc = "repair", !.example = NoValue]
        BY <2>3 DEF Propose, TInv, TypeOK
      <3> QED
        BY <1>2, <3>1, IdleType
    <2>4. CASE FinishRollback(w) \/ Fail(w)
      BY <2>4, IdleType DEF FinishRollback, Fail, Stop, StopRollback, StopUnheard,
                            Died, TInv, TypeOK
    <2>5. ASSUME NEW v \in Values \cup {NoValue}, NameField(w, v)
          PROVE  job'[w].pc # "sending"
      <3>1. job'[w] = [job[w] EXCEPT !.pc = "propose", !.example = v,
                                     !.examples = job[w].examples \ {v}]
        BY <2>5 DEF NameField, TInv, TypeOK
      <3> QED
        BY <1>2, <3>1
    <2>6. ASSUME NEW e \in Employees, Delete(w, e)
          PROVE  job'[w].pc # "sending"
      <3>1. /\ job[w].pc = "deleting"
            /\ \E X, Y : job'[w] = [job[w] EXCEPT !.todo = X, !.delivered = Y]
        BY <2>6 DEF Delete, TInv, TypeOK
      <3> QED
        BY <1>2, <3>1
    <2> QED
      BY <2>1, <2>2, <2>3, <2>4, <2>5, <2>6
  <1> QED
    BY <1>1, <1>4 DEF Elsewhere

\* A person changes no thread, and nothing that is held or believed.
LEMMA HumanSteps ==
  Human => UNCHANGED <<job, target, pushed_state>>
  <1>1. \A q, action, typed, all :
          Answer(q, action, typed, all) => UNCHANGED <<job, target, pushed_state>>
    BY DEF Answer
  <1>2. \A r, e, v, ps : Fill(r, e, v, ps) => UNCHANGED <<job, target, pushed_state>>
    BY DEF Fill
  <1> QED
    BY <1>1, <1>2 DEF Human, FillRefused, FillOther

\* A person, a kill and a restart of the target change no thread that sends,
\* nor what is held or believed.
LEMMA OutsideSteps ==
  ASSUME Kill \/ RestartTarget \/ Human \/ UNCHANGED vars
  PROVE  Elsewhere /\ UNCHANGED <<target_employees, pushed_state>>
  <1>1. CASE Kill
    <2>1. \A w \in Workers : job'[w].pc = "idle"
      BY <1>1, IdleType DEF Kill
    <2> QED
      BY <1>1, <2>1 DEF Kill, Elsewhere, agent, target
  <1>2. CASE RestartTarget
    BY <1>2 DEF RestartTarget, Elsewhere, agent
  <1>3. CASE Human
    BY <1>3, HumanSteps DEF Elsewhere, target
  <1>4. CASE UNCHANGED vars
    BY <1>4 DEF vars, Elsewhere, agent, target
  <1> QED
    BY <1>1, <1>2, <1>3, <1>4

\* What a claim leaves a thread with.
LEMMA ClaimStep ==
  ASSUME TInv, NEW w \in Workers, Claim(w)
  PROVE  /\ \A v \in Workers : v # w => job'[v] = job[v]
         /\ job'[w].delivered = {}
         /\ \A e \in job'[w].todo : job'[w].snap[e] \in Complete
         /\ UNCHANGED <<pushed_state, target>>
  <1>1. job[w] \in Job /\ job[w].run \in Runs /\ job[w].delivered = {}
    BY DEF TInv, TypeOK, FreshClaim, Job, Claim
  <1>2. /\ \A v \in Workers : v # w => job'[v] = job[v]
        /\ job'[w].delivered = {}
        /\ job'[w].todo \subseteq Sendable(job[w].run)
        /\ job'[w].snap = [e \in Employees |->
             IF e \in Candidates(job[w].run) THEN records[job[w].run][e].data
                                             ELSE NoValue]
    BY <1>1 DEF Claim, TInv, TypeOK, Job
  <1>3. \A e \in Sendable(job[w].run) :
          /\ e \in Employees /\ e \in Candidates(job[w].run)
          /\ records[job[w].run][e].data \in Complete
    BY DEF Sendable, Candidates
  <1>4. UNCHANGED <<pushed_state, target>>
    BY DEF Claim, target
  <1> QED
    BY <1>2, <1>3, <1>4
-----------------------------------------------------------------------------
(* The staged gate. *)

\* What is left to send is staged, and so is what the target holds.
Staged ==
  /\ \A w \in Workers : job[w].pc = "sending" =>
       \A e \in job[w].todo : job[w].snap[e] \in Complete
  /\ OnlyStagedReachesTarget

LEMMA StagedUpsert ==
  ASSUME TInv, Staged, NEW w \in Workers, NEW e \in Employees,
         job[w].pc = "sending", e \in job[w].todo, Upsert(w, e)
  PROVE  OnlyStagedReachesTarget'
  <1>1. target_employees' = [target_employees EXCEPT
          ![e] = [run |-> job[w].run, data |-> job[w].snap[e]]]
    BY DEF Upsert
  <1>2. job[w].snap[e] \in Complete \ Refusable
    BY DEF Upsert, Staged
  <1> QED
    BY <1>1, <1>2 DEF Staged, OnlyStagedReachesTarget, TInv, TypeOK

\* Whatever is edited while a push is under way, the target never holds a
\* payload the strict model or its own rules refuse (push.py, _push_run;
\* upsert_employee).
THEOREM StagedCorrect == Spec => []OnlyStagedReachesTarget
  <1>1. Init => TInv /\ Staged
    <2> SUFFICES ASSUME Init PROVE Staged
      BY TypeInit
    <2> QED
      BY IdleType DEF Init, Staged, OnlyStagedReachesTarget
  <1>2. TInv /\ Staged /\ [Next]_vars => TInv' /\ Staged'
    <2> SUFFICES ASSUME TInv, Staged, [Next]_vars, TInv' PROVE Staged'
      BY TypeNext
    <2>1. ASSUME NEW w \in Workers, NEW e \in Employees,
                 \/ PostAccepted(w, e) \/ PostReplayed(w, e) \/ PostRefused(w, e)
                 \/ PostRetried(w, e) \/ PostUnanswered(w, e)
          PROVE  Staged'
      <3>1. OnlyStagedReachesTarget'
        BY <2>1, SendingStep, StagedUpsert DEF Staged, OnlyStagedReachesTarget, target
      <3> QED
        BY <2>1, <3>1, SendingStep DEF Staged
    <2>2. ASSUME NEW w \in Workers, Claim(w)  PROVE Staged'
      BY <2>2, ClaimStep DEF Staged, OnlyStagedReachesTarget, target
    <2>3. ASSUME Elsewhere, \/ UNCHANGED target_employees
                            \/ \E e \in Employees : target_employees' =
                                 [target_employees EXCEPT ![e] = NoValue]
          PROVE  Staged'
      BY <2>3 DEF Staged, OnlyStagedReachesTarget, Elsewhere, TInv, TypeOK
    <2>4. ASSUME NEW w \in Workers, NEW e \in Employees, StopUnheard(w, e)
          PROVE  Staged'
      <3>1. job[w].pc = "sending" /\ e \in job[w].todo /\ Upsert(w, e)
        BY <2>4 DEF StopUnheard, Sending
      <3> QED
        BY <2>4, <3>1, ElsewhereSteps, StagedUpsert DEF Fail, Elsewhere, Staged
    <2>5. ASSUME NEW w \in Workers,
                 \/ Begin(w) \/ Finish(w) \/ Propose(w) \/ FinishRollback(w)
                 \/ Stop(w) \/ StopRollback(w)
                 \/ \E v \in Values \cup {NoValue} : NameField(w, v)
                 \/ \E e \in Employees : Delete(w, e)
          PROVE  Staged'
      <3>1. Elsewhere
        BY <2>5, ElsewhereSteps DEF Fail
      <3> QED
        BY <2>3, <2>5, <3>1
          DEF Begin, BeginPush, BeginRollback, Finish, Propose, FinishRollback,
              Stop, StopRollback, NameField, Delete, target
    <2>6. ASSUME Kill \/ RestartTarget \/ Human \/ UNCHANGED vars  PROVE Staged'
      BY <2>3, <2>6, OutsideSteps
    <2> QED
      BY <2>1, <2>2, <2>4, <2>5, <2>6 DEF Next, Run, Exchange, Fail
  <1>3. TInv /\ Staged => OnlyStagedReachesTarget
    BY DEF Staged
  <1> QED
    BY <1>1, <1>2, <1>3, PTL DEF Spec
-----------------------------------------------------------------------------
(* Push implements Delivery. *)

\* What a thread was answered 200 for has its key taken.
Backed ==
  \A w \in Workers : job[w].pc = "sending" =>
    \A e \in job[w].delivered : <<job[w].run, e>> \in idempotency

\* The belief of the abstract specification.
believed ==
  [e \in Employees |-> IF pushed_state[e] = NoValue THEN NoValue
                                                    ELSE pushed_state[e].run]

\* The two steps of Delivery that change the belief.
LEMMA CountStep ==
  ASSUME NEW r \in Runs, NEW es \in SUBSET Employees, UNCHANGED idempotency,
         \A e \in es : <<r, e>> \in idempotency,
         believed' = [e \in Employees |-> IF e \in es THEN r ELSE believed[e]]
  PROVE  Promise!Next
  BY DEF Promise!Next, Promise!Count, believed

LEMMA UncountStep ==
  ASSUME NEW es \in SUBSET Employees, UNCHANGED idempotency,
         believed' = [e \in Employees |-> IF e \in es THEN NoValue ELSE believed[e]]
  PROVE  Promise!Next
  BY DEF Promise!Next, Promise!Uncount, believed

\* A thread that finishes counts what it delivered.
LEMMA FinishCounts ==
  ASSUME TInv, Backed, NEW w \in Workers, Finish(w)
  PROVE  Promise!Next
  <1> DEFINE es == job[w].delivered
             r == job[w].run
  <1>1. r \in Runs /\ es \in SUBSET Employees /\ job[w].pc = "sending"
    BY DEF TInv, TypeOK, Job, Finish
  <1>2. \A e \in es : <<r, e>> \in idempotency
    BY <1>1 DEF Backed
  <1>3. UNCHANGED idempotency
    BY DEF Finish, target
  <1>4. \A e \in es : /\ [run |-> r, data |-> job[w].snap[e]] # NoValue
                      /\ [run |-> r, data |-> job[w].snap[e]].run = r
    BY <1>1, PushAssumption DEF TInv, Read, Row
  <1>5. believed' = [e \in Employees |-> IF e \in es THEN r ELSE believed[e]]
    <2>1. pushed_state' = [e \in Employees |->
            IF e \in es THEN [run |-> r, data |-> job[w].snap[e]]
                        ELSE pushed_state[e]]
      BY DEF Finish
    <2> QED
      BY <1>4, <2>1 DEF believed
  <1> QED
    BY <1>1, <1>2, <1>3, <1>5, CountStep

\* A rollback that ends stops counting what it deleted.
LEMMA RollbackUncounts ==
  ASSUME TInv, NEW w \in Workers, FinishRollback(w)
  PROVE  Promise!Next
  <1> DEFINE es == job[w].delivered
  <1>1. es \in SUBSET Employees
    BY DEF TInv, TypeOK, Job
  <1>2. UNCHANGED idempotency
    BY DEF FinishRollback, target
  <1>3. believed' = [e \in Employees |-> IF e \in es THEN NoValue ELSE believed[e]]
    BY DEF FinishRollback, believed
  <1> QED
    BY <1>1, <1>2, <1>3, UncountStep

\* A payload that is stored takes a key that was free.
LEMMA UpsertAccepts ==
  ASSUME TInv, NEW w \in Workers, NEW e \in Employees, Upsert(w, e),
         UNCHANGED pushed_state
  PROVE  Promise!Next
  <1>1. job[w].run \in Runs
    BY DEF TInv, TypeOK, Job
  <1>2. Promise!Accept(job[w].run, e)
    BY DEF Upsert, Key, Promise!Accept
  <1> QED
    BY <1>1, <1>2 DEF Promise!Next

\* Push implements Delivery as long as the target does not restart (push.py
\* against the keys of mock_target_api.py): each key is taken at most once,
\* and nothing is counted as delivered that the target did not take.
THEOREM DeliveryImplemented == "restart" \notin Env => (Spec => DeliverySpec)
  <1> SUFFICES ASSUME "restart" \notin Env PROVE Spec => DeliverySpec
    OBVIOUS
  <1>1. Init => TInv /\ Backed /\ Promise!Init
    <2> SUFFICES ASSUME Init PROVE Backed /\ Promise!Init
      BY TypeInit
    <2> QED
      BY IdleType DEF Init, Backed, Promise!Init
  <1>2. TInv /\ Backed /\ [Next]_vars
          => TInv' /\ Backed'
             /\ [Promise!Next]_<<idempotency, believed>>
    <2> SUFFICES ASSUME TInv, Backed, [Next]_vars, TInv'
                 PROVE  Backed' /\ [Promise!Next]_<<idempotency, believed>>
      BY TypeNext
    <2>1. ASSUME NEW w \in Workers, NEW e \in Employees,
                 \/ PostAccepted(w, e) \/ PostReplayed(w, e) \/ PostRefused(w, e)
                 \/ PostRetried(w, e) \/ PostUnanswered(w, e)
          PROVE  Backed' /\ [Promise!Next]_<<idempotency, believed>>
      <3>1. CASE Upsert(w, e) /\ job'[w].delivered = job[w].delivered \cup {e}
        <4>1. idempotency' = idempotency \cup {<<job[w].run, e>>}
          BY <3>1 DEF Upsert, Key
        <4>2. Backed'
          BY <2>1, <3>1, <4>1, SendingStep DEF Backed
        <4> QED
          BY <2>1, <3>1, <4>2, SendingStep, UpsertAccepts
      <3>2. CASE /\ UNCHANGED target
                 /\ job'[w].delivered \subseteq
                      {x \in job[w].delivered \cup {e} :
                         x \in job[w].delivered \/ Key(w, e) \in idempotency}
        <4>1. Backed'
          BY <2>1, <3>2, SendingStep DEF Backed, Key, target
        <4> QED
          BY <2>1, <3>2, <4>1, SendingStep DEF believed, target
      <3> QED
        BY <2>1, <3>1, <3>2, SendingStep
    <2>2. ASSUME NEW w \in Workers, Claim(w)
          PROVE  Backed' /\ [Promise!Next]_<<idempotency, believed>>
      BY <2>2, ClaimStep DEF Backed, believed, target
    <2>3. ASSUME Elsewhere, idempotency \subseteq idempotency'  PROVE Backed'
      BY <2>3 DEF Backed, Elsewhere
    <2>4. ASSUME NEW w \in Workers, NEW e \in Employees, StopUnheard(w, e)
          PROVE  Backed' /\ [Promise!Next]_<<idempotency, believed>>
      <3>1. Elsewhere
        BY <2>4, ElsewhereSteps DEF Fail
      <3> QED
        BY <2>3, <2>4, <3>1, UpsertAccepts DEF StopUnheard, Upsert
    <2>5. ASSUME NEW w \in Workers, Finish(w) \/ FinishRollback(w)
          PROVE  Backed' /\ [Promise!Next]_<<idempotency, believed>>
      <3>1. Elsewhere
        BY <2>5, ElsewhereSteps
      <3>2. Backed'
        BY <2>3, <2>5, <3>1 DEF Finish, FinishRollback, target
      <3> QED
        BY <2>5, <3>2, FinishCounts, RollbackUncounts
    <2>6. ASSUME NEW w \in Workers,
                 \/ Begin(w) \/ Propose(w) \/ Stop(w) \/ StopRollback(w)
                 \/ \E v \in Values \cup {NoValue} : NameField(w, v)
                 \/ \E e \in Employees : Delete(w, e)
          PROVE  Backed' /\ [Promise!Next]_<<idempotency, believed>>
      <3>1. Elsewhere
        BY <2>6, ElsewhereSteps DEF Fail
      <3>2. UNCHANGED <<idempotency, pushed_state>>
        BY <2>6 DEF Begin, BeginPush, BeginRollback, Propose, Stop, StopRollback,
                    NameField, Delete, agent, target
      <3> QED
        BY <2>3, <3>1, <3>2 DEF believed
    <2>7. ASSUME Kill \/ Human \/ UNCHANGED vars
          PROVE  Backed' /\ [Promise!Next]_<<idempotency, believed>>
      <3>1. UNCHANGED idempotency
        BY <2>7, HumanSteps DEF Kill, vars, target
      <3> QED
        BY <2>3, <2>7, <3>1, OutsideSteps DEF believed
    <2>8. ~RestartTarget
      BY DEF RestartTarget
    <2> QED
      BY <2>1, <2>2, <2>4, <2>5, <2>6, <2>7, <2>8 DEF Next, Run, Exchange, Fail
  <1>3. DeliverySpec <=> Promise!Init /\ [][Promise!Next]_<<idempotency, believed>>
    BY DEF DeliverySpec, Promise!Spec, believed
  <1> QED
    BY <1>1, <1>2, <1>3, PTL DEF Spec
-----------------------------------------------------------------------------
(* What a finished push leaves behind, where pushes and rollbacks of a run    *)
(* are serial.                                                                *)

\* A run that is being sent is not done.
SendingStage ==
  \A w \in Workers : job[w].pc = "sending" =>
    stage[job[w].run] \in {"pushing", "reconciled"}

\* What a thread has read of a run is every record it has not been told of.
HandledOf(j) == j.todo \cup j.delivered \cup j.refused \cup j.unanswered \cup j.incomplete

SendingFor(w, r) == job[w].pc = "sending" /\ job[w].run = r

SentOrSaid ==
  \A w \in Workers, r \in Runs : SendingFor(w, r) =>
    \A e \in Candidates(r) : e \in HandledOf(job[w]) \/ Said(r, e)

\* An employee has one outcome.
OneOutcome ==
  \A w \in Workers : job[w].pc = "sending" =>
    /\ job[w].delivered \cap (job[w].todo \cup job[w].unanswered) = {}
    /\ job[w].todo \cap job[w].unanswered = {}

\* A rollback deletes what its run delivered.
DeletesItsOwn ==
  \A w \in Workers : job[w].pc = "deleting" =>
    /\ \A e \in job[w].todo \cup job[w].delivered : <<job[w].run, e>> \in push_attempts
    /\ job[w].delivered \subseteq disturbed

\* The refusals of a record, answered or not.
RefusalsOf(r, e) ==
  {q \in escalations : q.run = r /\ q.employee = e /\ q.code = "PUSH_REJECTED"}

\* What is sent differs from the last refusal of the record that was open.
RefusedAfresh ==
  \A w \in Workers, r \in Runs, e \in Employees :
    (SendingFor(w, r) /\ e \in job[w].todo \cup job[w].refused) =>
      \A p \in OpenRefusals(r, e) : p.payload = job[w].snap[e] =>
        \E b \in RefusalsOf(r, e) :
          b.payload # job[w].snap[e] /\ p.asked < b.asked

\* ... and from what the run has delivered.
NotYetDelivered ==
  \A w \in Workers : job[w].pc = "sending" =>
    \A e \in job[w].todo \cup job[w].refused \cup job[w].unanswered :
      pushed_state[e] # [run |-> job[w].run, data |-> job[w].snap[e]]

Numbered == \A q \in escalations : q.asked <= asked

SaidInv ==
  /\ SendingStage /\ SentOrSaid /\ OneOutcome /\ DeletesItsOwn
  /\ RefusedAfresh /\ NotYetDelivered /\ Numbered
  /\ NothingGoesQuiet /\ NoSecondCopy /\ AnsweredIsClosed

\* A question keeps what it is about.
SameQuestion(q, n) ==
  n.asked = q.asked /\ n.payload = q.payload /\ SameRecord(q, n)

\* The rows of a table after a step that asks nothing.
Rewritten(f) ==
  /\ f \in [escalations -> escalations']
  /\ \A n \in escalations' : \E q \in escalations : n = f[q]
  /\ \A q \in escalations : SameQuestion(q, f[q]) /\ (f[q].open => q.open)

\* ... of which those that are closed were answered.
KeepsQuestions ==
  \E f : /\ Rewritten(f)
         /\ \A q \in escalations :
              q.open => f[q].open \/ <<q.run, q.employee>> \in touched'

LEMMA NothingAsked == UNCHANGED escalations => KeepsQuestions
  <1> SUFFICES ASSUME UNCHANGED escalations PROVE KeepsQuestions
    OBVIOUS
  <1> DEFINE f == [q \in escalations |-> q]
  <1>1. Rewritten(f)
    BY DEF Rewritten, SameQuestion, SameRecord
  <1>2. \A q \in escalations : f[q] = q
    OBVIOUS
  <1> HIDE DEF f
  <1> QED
    BY <1>1, <1>2 DEF KeepsQuestions

\* A thread goes on sending what it has read.
GoesOn(j, k) ==
  /\ k.run = j.run /\ k.snap = j.snap /\ HandledOf(j) \subseteq HandledOf(k)
  /\ k.todo \cup k.refused \subseteq j.todo \cup j.refused
  /\ k.unanswered \subseteq j.todo \cup j.unanswered
  /\ k.delivered \cap (k.todo \cup k.unanswered) = {} /\ k.todo \cap k.unanswered = {}

Onward ==
  \A w \in Workers : job'[w].pc = "sending" =>
    job[w].pc = "sending" /\ GoesOn(job[w], job'[w])

LEMMA ElsewhereGoesOn ==
  ASSUME OneOutcome, Elsewhere
  PROVE  Onward
  BY DEF OneOutcome, Elsewhere, Onward, GoesOn

\* What is believed is lost only to the rollback of a run that delivered it.
LosesToRollback ==
  \A e \in Employees :
    \/ pushed_state'[e] = pushed_state[e]
    \/ /\ pushed_state'[e] = NoValue /\ e \in disturbed'
       /\ \E s \in Runs : /\ <<s, e>> \in push_attempts' /\ stage'[s] # "done"
                          /\ \A w \in Workers :
                               job'[w].pc = "sending" => job'[w].run # s

\* What has been said of a record stays said.
LEMMA StaysSaid ==
  ASSUME KeepsQuestions, LosesToRollback, touched \subseteq touched',
         disturbed \subseteq disturbed', push_attempts \subseteq push_attempts',
         NEW r \in Runs, NEW e \in Employees, Said(r, e),
         \/ stage'[r] = "done"
         \/ \E w \in Workers : job'[w].pc = "sending" /\ job'[w].run = r
  PROVE  Said(r, e)'
  <1>1. CASE <<r, e>> \in touched \/ TakenByAnother(r, e)
    BY <1>1 DEF Said, TakenByAnother
  <1>2. CASE pushed_state[e] # NoValue
    <2>1. CASE pushed_state'[e] = pushed_state[e]
      BY <1>2, <2>1 DEF Said
    <2>2. CASE pushed_state'[e] # pushed_state[e]
      <3>1. PICK s \in Runs : /\ <<s, e>> \in push_attempts' /\ stage'[s] # "done"
                              /\ \A w \in Workers :
                                   job'[w].pc = "sending" => job'[w].run # s
        BY <2>2 DEF LosesToRollback
      <3>2. s # r /\ e \in disturbed'
        BY <2>2, <3>1 DEF LosesToRollback
      <3> QED
        BY <3>1, <3>2 DEF Said, TakenByAnother
    <2> QED
      BY <2>1, <2>2
  <1>3. ASSUME NEW q \in escalations, q.run = r, q.employee = e, q.open
        PROVE  Said(r, e)'
    <2>1. PICK f : /\ Rewritten(f)
                   /\ \A x \in escalations :
                        x.open => f[x].open \/ <<x.run, x.employee>> \in touched'
      BY DEF KeepsQuestions
    <2>2. f[q] \in escalations' /\ f[q].run = r /\ f[q].employee = e
      BY <1>3, <2>1 DEF Rewritten, SameQuestion, SameRecord
    <2>3. f[q].open \/ <<r, e>> \in touched'
      BY <1>3, <2>1
    <2> QED
      BY <2>2, <2>3 DEF Said
  <1> QED
    BY <1>1, <1>2, <1>3 DEF Said

\* A step that asks nothing, delivers nothing and claims nothing.
LEMMA SaidFrame ==
  ASSUME TInv, SaidInv, KeepsQuestions, LosesToRollback, Onward,
         DeletesItsOwn', SendingStage', UNCHANGED asked,
         touched \subseteq touched', disturbed \subseteq disturbed',
         push_attempts \subseteq push_attempts',
         \A r \in Runs : stage'[r] = "done" => stage[r] = "done",
         \A r \in Runs : \A e \in Candidates(r)' :
           e \in Candidates(r) \/ <<r, e>> \in touched',
         job' \in [Workers -> Job]
  PROVE  SaidInv'
  <1> USE DEF SaidInv
  <1>1. \A w \in Workers : job'[w].pc = "sending" =>
          job'[w].run \in Runs /\ job'[w].todo \cup job'[w].refused \cup job'[w].unanswered
                                    \subseteq Employees
    BY DEF Job
  <1>f. PICK f : Rewritten(f)
    BY DEF KeepsQuestions
  <1>2. NothingGoesQuiet'
    <2> SUFFICES ASSUME NEW r \in Runs, stage'[r] = "done", NEW e \in Candidates(r)'
                 PROVE  Said(r, e)'
      BY DEF NothingGoesQuiet
    <2>1. CASE <<r, e>> \in touched'
      BY <2>1 DEF Said
    <2>2. CASE e \in Candidates(r)
      <3>1. Said(r, e) /\ e \in Employees
        BY <2>2 DEF NothingGoesQuiet, Candidates
      <3> QED
        BY <3>1, StaysSaid
    <2> QED
      BY <2>1, <2>2
  <1>3. SentOrSaid'
    <2> SUFFICES ASSUME NEW w \in Workers, NEW r \in Runs, SendingFor(w, r)',
                        NEW e \in Candidates(r)'
                 PROVE  e \in HandledOf(job'[w]) \/ Said(r, e)'
      BY DEF SentOrSaid
    <2>1. /\ job'[w].pc = "sending" /\ job'[w].run = r
          /\ SendingFor(w, r) /\ HandledOf(job[w]) \subseteq HandledOf(job'[w])
      BY DEF SendingFor, Onward, GoesOn
    <2>2. CASE <<r, e>> \in touched'
      BY <2>2 DEF Said
    <2>3. CASE e \in Candidates(r) /\ Said(r, e)
      <3>1. e \in Employees
        BY <2>3 DEF Candidates
      <3> QED
        BY <2>1, <2>3, <3>1, StaysSaid
    <2>4. CASE e \in Candidates(r) /\ e \in HandledOf(job[w])
      BY <2>1, <2>4
    <2> QED
      BY <2>1, <2>2, <2>3, <2>4 DEF SentOrSaid
  <1>4. OneOutcome'
    BY DEF Onward, GoesOn, OneOutcome
  <1>5. RefusedAfresh'
    <2> SUFFICES ASSUME NEW w \in Workers, NEW r \in Runs, NEW e \in Employees,
                        SendingFor(w, r)', e \in job'[w].todo \cup job'[w].refused,
                        NEW n \in OpenRefusals(r, e)', n.payload = job'[w].snap[e]
                 PROVE  \E b \in RefusalsOf(r, e)' :
                          b.payload # job'[w].snap[e] /\ n.asked < b.asked
      BY DEF RefusedAfresh
    <2>1. /\ SendingFor(w, r) /\ job[w].snap = job'[w].snap
          /\ e \in job[w].todo \cup job[w].refused
      BY DEF SendingFor, Onward, GoesOn
    <2>2. PICK q \in escalations : n = f[q]
      BY <1>f DEF OpenRefusals, Rewritten
    <2>3. q \in OpenRefusals(r, e) /\ q.payload = n.payload /\ q.asked = n.asked
      BY <1>f, <2>2 DEF OpenRefusals, Rewritten, SameQuestion, SameRecord
    <2>4. PICK b \in RefusalsOf(r, e) :
            b.payload # job[w].snap[e] /\ q.asked < b.asked
      BY <2>1, <2>3 DEF RefusedAfresh
    <2>5. f[b] \in RefusalsOf(r, e)' /\ f[b].payload = b.payload /\ f[b].asked = b.asked
      BY <1>f, <2>4 DEF RefusalsOf, Rewritten, SameQuestion, SameRecord
    <2> QED
      BY <2>1, <2>3, <2>4, <2>5
  <1>6. NotYetDelivered'
    <2> SUFFICES ASSUME NEW w \in Workers, job'[w].pc = "sending",
                        NEW e \in job'[w].todo \cup job'[w].refused \cup job'[w].unanswered
                 PROVE  pushed_state'[e] # [run |-> job'[w].run, data |-> job'[w].snap[e]]
      BY DEF NotYetDelivered
    <2>1. /\ job[w].pc = "sending" /\ job[w].run = job'[w].run /\ job[w].snap = job'[w].snap
          /\ e \in job[w].todo \cup job[w].refused \cup job[w].unanswered
          /\ e \in Employees /\ e \in job[w].todo \cup job[w].unanswered \cup job[w].refused
      BY <1>1 DEF Onward, GoesOn
    <2>2. job'[w].snap[e] \in Values
      BY <2>1 DEF TInv, Read
    <2>3. [run |-> job'[w].run, data |-> job'[w].snap[e]] # NoValue
      BY <1>1, <2>2, PushAssumption DEF Row
    <2> QED
      BY <2>1, <2>3 DEF NotYetDelivered, LosesToRollback
  <1>7. Numbered'
    BY <1>f DEF Numbered, Rewritten, SameQuestion
  <1>8. NoSecondCopy'
    <2> SUFFICES ASSUME NEW m \in escalations', NEW n \in escalations',
                        m # n, m.open, n.open, m.code = "PUSH_REJECTED", SameRecord(m, n),
                        m.payload = n.payload, m.asked <= n.asked
                 PROVE  \E b \in escalations' :
                          /\ SameRecord(m, b) /\ b.payload # m.payload
                          /\ m.asked < b.asked /\ b.asked < n.asked
      BY DEF NoSecondCopy
    <2>1. PICK p \in escalations, q \in escalations : m = f[p] /\ n = f[q]
      BY <1>f DEF Rewritten
    <2>2. /\ p # q /\ p.open /\ q.open /\ p.code = "PUSH_REJECTED" /\ SameRecord(p, q)
          /\ p.payload = q.payload /\ p.asked <= q.asked
      BY <1>f, <2>1 DEF Rewritten, SameQuestion, SameRecord
    <2>3. PICK b \in escalations : /\ SameRecord(p, b) /\ b.payload # p.payload
                                   /\ p.asked < b.asked /\ b.asked < q.asked
      BY <2>2 DEF NoSecondCopy
    <2>4. f[b] \in escalations' /\ SameQuestion(b, f[b]) /\ SameQuestion(p, m) /\ SameQuestion(q, n)
      BY <1>f, <2>1 DEF Rewritten
    <2> QED
      BY <2>3, <2>4 DEF SameQuestion, SameRecord
  <1>9. AnsweredIsClosed'
    <2> SUFFICES ASSUME NEW n \in escalations', n.open, n.code = "PUSH_UNREACHABLE"
                 PROVE  pushed_state'[n.employee] # [run |-> n.run, data |-> n.payload]
      BY DEF AnsweredIsClosed
    <2>1. PICK q \in escalations : n = f[q]
      BY <1>f DEF Rewritten
    <2>2. /\ q.open /\ q.code = "PUSH_UNREACHABLE" /\ q \in Escalation
          /\ n.employee = q.employee /\ n.run = q.run /\ n.payload = q.payload
      BY <1>f, <2>1 DEF Rewritten, SameQuestion, SameRecord, TInv, TypeOK
    <2>3. pushed_state[q.employee] # [run |-> q.run, data |-> q.payload]
      BY <2>2 DEF AnsweredIsClosed
    <2>4. [run |-> q.run, data |-> q.payload] # NoValue /\ q.employee \in Employees
      BY <2>2, PushAssumption DEF Escalation, Row
    <2> QED
      BY <2>2, <2>3, <2>4 DEF LosesToRollback
  <1> QED
    BY <1>2, <1>3, <1>4, <1>5, <1>6, <1>7, <1>8, <1>9

\* ... nor loses what is believed.
LEMMA SaidQuiet ==
  ASSUME TInv, TInv', SaidInv, KeepsQuestions, Onward, DeletesItsOwn',
         UNCHANGED <<asked, pushed_state, push_attempts>>,
         touched \subseteq touched', disturbed \subseteq disturbed',
         \A r \in Runs : \/ stage'[r] = stage[r]
                         \/ stage[r] = "pushing" /\ stage'[r] = "reconciled",
         \A r \in Runs : \A e \in Candidates(r)' :
           e \in Candidates(r) \/ <<r, e>> \in touched'
  PROVE  SaidInv'
  <1>1. SendingStage'
    <2>1. \A w \in Workers : job'[w].pc = "sending" =>
            job[w].pc = "sending" /\ job'[w].run = job[w].run /\ job[w].run \in Runs
      BY DEF Onward, GoesOn, TInv, TypeOK, Job
    <2> QED
      BY <2>1 DEF SaidInv, SendingStage
  <1>2. LosesToRollback
    BY DEF LosesToRollback
  <1>3. job' \in [Workers -> Job]
    BY DEF TInv, TypeOK
  <1> QED
    BY <1>1, <1>2, <1>3, SaidFrame

LEMMA SameCandidates == UNCHANGED records => \A r \in Runs : Candidates(r)' = Candidates(r)
  BY DEF Candidates

\* The rollbacks that go on unchanged go on deleting what is their own.
LEMMA DeletesStay ==
  ASSUME DeletesItsOwn, push_attempts \subseteq push_attempts', disturbed \subseteq disturbed',
         \A v \in Workers : job'[v].pc = "deleting" => job'[v] = job[v]
  PROVE  DeletesItsOwn'
  BY DEF DeletesItsOwn

LEMMA SaidBegin ==
  ASSUME TInv, TInv', SaidInv, NEW w \in Workers, Begin(w)
  PROVE  SaidInv'
  <1>1. PICK r \in Runs : BeginPush(w, r) \/ BeginRollback(w, r)
    BY DEF Begin
  <1>2. UNCHANGED <<agent, touched, disturbed>> /\ \A v \in Workers : v # w => job'[v] = job[v]
    BY <1>1 DEF BeginPush, BeginRollback, TInv, TypeOK
  <1>3. DeletesItsOwn'
    <2>1. CASE BeginPush(w, r)
      <3>1. job'[w] = [Idle EXCEPT !.pc = "claim", !.run = r]
        BY <2>1 DEF BeginPush, TInv, TypeOK
      <3>2. job'[w].pc = "claim"
        BY <3>1, IdleType DEF Job
      <3> QED
        BY <1>2, <3>2, DeletesStay DEF SaidInv, agent
    <2>2. CASE BeginRollback(w, r)
      <3> DEFINE es == {e \in Employees : <<r, e>> \in push_attempts}
      <3>1. job'[w] = [Idle EXCEPT !.pc = "deleting", !.run = r, !.todo = es]
        BY <2>2 DEF BeginRollback, TInv, TypeOK
      <3>2. job'[w].run = r /\ job'[w].todo = es /\ job'[w].delivered = {}
        BY <3>1, IdleType DEF Job
      <3> QED
        BY <1>2, <3>2 DEF SaidInv, DeletesItsOwn, agent
    <2> QED
      BY <1>1, <2>1, <2>2
  <1>4. Onward
    BY ElsewhereSteps, ElsewhereGoesOn DEF SaidInv
  <1>5. KeepsQuestions
    BY <1>2, NothingAsked DEF agent
  <1> QED
    BY <1>2, <1>3, <1>4, <1>5, SaidQuiet, SameCandidates DEF agent

\* The threads that give up, and the steps of a repair and of a deletion.
LEMMA SaidFail ==
  ASSUME TInv, TInv', SaidInv, NEW w \in Workers, Fail(w)
  PROVE  SaidInv'
  <1>1. /\ UNCHANGED <<records, escalations, asked, push_attempts, pushed_state, touched>>
        /\ disturbed \subseteq disturbed' /\ job' = [job EXCEPT ![w] = Idle]
    BY DEF Fail, Stop, StopRollback, StopUnheard, Upsert, Died, agent
  <1>2. \A r \in Runs : \/ stage'[r] = stage[r]
                        \/ stage[r] = "pushing" /\ stage'[r] = "reconciled"
    BY DEF Fail, Stop, StopRollback, StopUnheard, Died, agent, TInv, TypeOK
  <1>3. DeletesItsOwn'
    BY <1>1, IdleType, DeletesStay DEF SaidInv, TInv, TypeOK
  <1>4. Onward
    BY ElsewhereSteps, ElsewhereGoesOn DEF SaidInv
  <1>5. KeepsQuestions
    BY <1>1, NothingAsked
  <1> QED
    BY <1>1, <1>2, <1>3, <1>4, <1>5, SaidQuiet, SameCandidates

\* The rows of a table of which some were completed.
LEMMA SomeRewritten ==
  ASSUME NEW f, f = [q \in escalations |-> f[q]],
         \A q \in escalations : SameQuestion(q, f[q]) /\ f[q].open = q.open,
         escalations' = {f[q] : q \in escalations}
  PROVE  KeepsQuestions
  <1>1. f \in [escalations -> escalations'] /\ \A n \in escalations' : \E q \in escalations : n = f[q]
    OBVIOUS
  <1> QED
    BY <1>1 DEF KeepsQuestions, Rewritten

LEMMA SaidRepair ==
  ASSUME TInv, TInv', SaidInv, NEW w \in Workers,
         Propose(w) \/ \E v \in Values \cup {NoValue} : NameField(w, v)
  PROVE  SaidInv'
  <1>1. /\ UNCHANGED <<stage, records, asked, push_attempts, pushed_state, disturbed, touched>>
        /\ \A v \in Workers : v # w => job'[v] = job[v]
    BY DEF Propose, NameField, TInv, TypeOK
  <1>j. job[w] \in Job
    BY DEF TInv, TypeOK
  <1>2. job'[w].pc # "deleting"
    <2>1. CASE Propose(w)
      <3>1. \/ job'[w] = Idle
            \/ job'[w] = [job[w] EXCEPT !.pc = "repair", !.example = NoValue]
        BY <2>1 DEF Propose, TInv, TypeOK
      <3>2. [job[w] EXCEPT !.pc = "repair", !.example = NoValue].pc = "repair"
        BY <1>j DEF Job
      <3> QED
        BY <3>1, <3>2, IdleType
    <2>2. ASSUME NEW v \in Values \cup {NoValue}, NameField(w, v)  PROVE job'[w].pc # "deleting"
      <3>1. job'[w] = [job[w] EXCEPT !.pc = "propose", !.example = v,
                                     !.examples = job[w].examples \ {v}]
        BY <2>2 DEF NameField, TInv, TypeOK
      <3> QED
        BY <1>j, <3>1 DEF Job
    <2> QED
      BY <2>1, <2>2
  <1>3. KeepsQuestions
    <2>t. \A q \in escalations : q \in Escalation
      BY DEF TInv, TypeOK
    <2>1. CASE Propose(w)
      <3>1. PICK u \in Values \cup {NoValue} : escalations' =
              {IF About(w, job[w].example, q) /\ u # NoValue
               THEN [q EXCEPT !.repair_field = TRUE, !.suggested = u] ELSE q : q \in escalations}
        BY <2>1 DEF Propose
      <3> DEFINE f == [q \in escalations |-> IF About(w, job[w].example, q) /\ u # NoValue
                        THEN [q EXCEPT !.repair_field = TRUE, !.suggested = u] ELSE q]
      <3>2. \A q \in escalations : SameQuestion(q, f[q]) /\ f[q].open = q.open
        BY <2>t DEF SameQuestion, SameRecord, Escalation
      <3>3. f = [q \in escalations |-> f[q]] /\ escalations' = {f[q] : q \in escalations}
        BY <3>1
      <3> HIDE DEF f
      <3> QED
        BY <3>2, <3>3, SomeRewritten
    <2>2. ASSUME NEW v \in Values \cup {NoValue}, NameField(w, v)  PROVE KeepsQuestions
      <3>1. PICK named \in BOOLEAN : escalations' =
              {IF About(w, v, q) /\ named THEN [q EXCEPT !.repair_field = TRUE] ELSE q : q \in escalations}
        BY <2>2 DEF NameField
      <3> DEFINE f == [q \in escalations |-> IF About(w, v, q) /\ named
                        THEN [q EXCEPT !.repair_field = TRUE] ELSE q]
      <3>2. \A q \in escalations : SameQuestion(q, f[q]) /\ f[q].open = q.open
        BY <2>t DEF SameQuestion, SameRecord, Escalation
      <3>3. f = [q \in escalations |-> f[q]] /\ escalations' = {f[q] : q \in escalations}
        BY <3>1
      <3> HIDE DEF f
      <3> QED
        BY <3>2, <3>3, SomeRewritten
    <2> QED
      BY <2>1, <2>2
  <1>4. DeletesItsOwn'
    BY <1>1, <1>2, DeletesStay DEF SaidInv
  <1>5. Onward
    BY ElsewhereSteps, ElsewhereGoesOn DEF SaidInv
  <1> QED
    BY <1>1, <1>3, <1>4, <1>5, SaidQuiet, SameCandidates

\* The questions ps are closed, and nothing else happens to the table.
Closes(ps) ==
  escalations' = (escalations \ ps) \cup {[p EXCEPT !.open = FALSE] : p \in ps}

\* What a person closes, they have answered.
LEMMA SomeClosed ==
  ASSUME TInv, NEW ps \in SUBSET escalations, NEW r \in Runs, NEW es \in SUBSET Employees,
         \A p \in ps : p.run = r /\ p.employee \in es,
         Closes(ps),
         touched' = touched \cup ({r} \X es)
  PROVE  KeepsQuestions
  <1> DEFINE f == [q \in escalations |-> IF q \in ps THEN [q EXCEPT !.open = FALSE] ELSE q]
  <1>t. \A q \in escalations : q \in Escalation
    BY DEF TInv, TypeOK
  <1>1. \A q \in escalations : f[q] = IF q \in ps THEN [q EXCEPT !.open = FALSE] ELSE q
    OBVIOUS
  <1>2. f \in [escalations -> escalations'] /\ \A n \in escalations' : \E q \in escalations : n = f[q]
    BY DEF Closes
  <1>3. \A q \in escalations : SameQuestion(q, f[q]) /\ (f[q].open => q.open)
    BY <1>t, <1>1 DEF SameQuestion, SameRecord, Escalation
  <1>4. \A q \in escalations : q \in ps => <<q.run, q.employee>> \in touched'
    OBVIOUS
  <1>5. \A q \in escalations : q.open => f[q].open \/ <<q.run, q.employee>> \in touched'
    BY <1>1, <1>4
  <1> HIDE DEF f
  <1> QED
    BY <1>2, <1>3, <1>5 DEF KeepsQuestions, Rewritten

LEMMA SaidAnswer ==
  ASSUME TInv, TInv', SaidInv,
         NEW ps \in SUBSET escalations, NEW r \in Runs, NEW es \in SUBSET Employees,
         \A p \in ps : p.run = r /\ p.employee \in es, Answered(r, es),
         Closes(ps),
         \A s \in Runs, x \in Employees :
           (s # r \/ x \notin es) => records'[s][x] = records[s][x],
         UNCHANGED <<stage, asked, push_attempts, pushed_state, job>>
  PROVE  SaidInv'
  <1>1. touched' = touched \cup ({r} \X es) /\ disturbed \subseteq disturbed'
    BY DEF Answered
  <1>2. KeepsQuestions
    BY <1>1, SomeClosed
  <1>3. \A s \in Runs : \A e \in Candidates(s)' : e \in Candidates(s) \/ <<s, e>> \in touched'
    BY <1>1 DEF Candidates
  <1>4. Onward
    BY ElsewhereGoesOn DEF SaidInv, Elsewhere
  <1>5. DeletesItsOwn'
    BY <1>1, DeletesStay DEF SaidInv
  <1> QED
    BY <1>1, <1>2, <1>3, <1>4, <1>5, SaidQuiet

\* What a person does.
LEMMA SaidHuman ==
  ASSUME TInv, TInv', SaidInv, Human
  PROVE  SaidInv'
  <1>t. \A q \in escalations : q.run \in Runs /\ q.employee \in Employees
    BY DEF TInv, TypeOK, Escalation
  <1>1. ASSUME NEW q \in escalations, NEW action, NEW typed, NEW all,
               Answer(q, action, typed, all)
        PROVE  SaidInv'
    <2>c. PICK ps, es : ps = Closed(q, action, typed, all) /\ es = {p.employee : p \in ps}
      OBVIOUS
    <2>1. ps \in SUBSET escalations /\ \A p \in ps : p.run = q.run
      BY <2>c DEF Closed, Selected
    <2>2. es \in SUBSET Employees /\ \A p \in ps : p.employee \in es
      BY <1>t, <2>c, <2>1
    <2>3. /\ Answered(q.run, es)
          /\ Closes(ps)
          /\ UNCHANGED <<stage, asked, push_attempts, pushed_state, job>>
      BY <1>1, <2>c DEF Answer, Closes
    <2>4. ASSUME NEW s \in Runs, NEW x \in Employees, s # q.run \/ x \notin es
          PROVE  records'[s][x] = records[s][x]
      <3>1. x \notin es => {p \in ps : p.employee = x /\ p.code = "PUSH_REJECTED"} = {}
        BY <2>c
      <3> QED
        BY <1>1, <1>t, <2>c, <2>4, <3>1 DEF Answer, TInv, TypeOK
    <2>5. \A s \in Runs, x \in Employees :
            (s # q.run \/ x \notin es) => records'[s][x] = records[s][x]
      BY <2>4
    <2>6. q.run \in Runs /\ \A p \in ps : p.run = q.run /\ p.employee \in es
      BY <1>t, <2>1, <2>2
    <2> QED
      BY <2>1, <2>2, <2>3, <2>5, <2>6, SaidAnswer
  <1>2. ASSUME NEW r \in Runs, NEW e \in Employees, NEW v \in Values,
               NEW ps \in SUBSET escalations, \A p \in ps : p.run = r /\ p.employee = e,
               Fill(r, e, v, ps)
        PROVE  SaidInv'
    <2>1. /\ Answered(r, {e})
          /\ Closes(ps)
          /\ UNCHANGED <<stage, asked, push_attempts, pushed_state, job>>
      BY <1>2 DEF Fill, Closes
    <2>2. \A s \in Runs, x \in Employees :
            (s # r \/ x \notin {e}) => records'[s][x] = records[s][x]
      BY <1>2 DEF Fill, TInv, TypeOK
    <2> QED
      BY <1>2, <2>1, <2>2, SaidAnswer
  <1>3. ASSUME NEW q \in escalations, NEW v \in Values, FillRefused(q, v)
        PROVE  SaidInv'
    BY <1>t, <1>2, <1>3 DEF FillRefused
  <1>4. ASSUME NEW r \in Runs, NEW e \in Employees, NEW v \in Values,
               FillOther(r, e, v)
        PROVE  SaidInv'
    BY <1>2, <1>4 DEF FillOther
  <1> QED
    BY <1>1, <1>3, <1>4 DEF Human

\* A kill and a restart of the target.
LEMMA SaidOutside ==
  ASSUME TInv, TInv', SaidInv, Kill \/ RestartTarget \/ UNCHANGED vars
  PROVE  SaidInv'
  <1>1. UNCHANGED <<agent, disturbed, touched>>
    BY DEF Kill, RestartTarget, vars
  <1>2. \A v \in Workers : job'[v].pc = "deleting" => job'[v] = job[v]
    BY IdleType DEF Kill, RestartTarget, vars
  <1>3. Onward
    BY OutsideSteps, ElsewhereGoesOn DEF SaidInv
  <1>4. KeepsQuestions
    BY <1>1, NothingAsked DEF agent
  <1>5. DeletesItsOwn'
    BY <1>1, <1>2, DeletesStay DEF SaidInv, agent
  <1> QED
    BY <1>1, <1>3, <1>4, <1>5, SaidQuiet, SameCandidates DEF agent

\* A request to the target, and its answer.
LEMMA SaidPost ==
  ASSUME TInv, TInv', SaidInv, NEW w \in Workers, NEW e \in Employees,
         \/ PostAccepted(w, e) \/ PostReplayed(w, e) \/ PostRefused(w, e)
         \/ PostRetried(w, e) \/ PostUnanswered(w, e)
  PROVE  SaidInv'
  <1>1. UNCHANGED <<agent, touched>> /\ disturbed \subseteq disturbed'
    BY DEF PostAccepted, PostReplayed, PostRefused, PostRetried, PostUnanswered, Upsert
  <1>2. /\ \A v \in Workers : v # w => job'[v] = job[v]
        /\ job[w].pc = "sending" /\ e \in job[w].todo /\ job[w] \in Job
    BY SendingStep DEF TInv, TypeOK
  <1>3. OneOutcome
    BY DEF SaidInv
  <1>4. job'[w].pc = "sending" /\ GoesOn(job[w], job'[w])
    <2>1. CASE PostAccepted(w, e) \/ PostReplayed(w, e)
      <3>1. job'[w] = [[job[w] EXCEPT !.delivered = @ \cup {e}]
                         EXCEPT !.todo = @ \ {e}, !.current = NoValue, !.attempt = 0]
        BY <2>1 DEF PostAccepted, PostReplayed, Leave, TInv, TypeOK
      <3>2. /\ job'[w].todo = job[w].todo \ {e} /\ job'[w].delivered = job[w].delivered \cup {e}
            /\ job'[w].pc = "sending" /\ job'[w].run = job[w].run /\ job'[w].snap = job[w].snap
            /\ job'[w].refused = job[w].refused /\ job'[w].unanswered = job[w].unanswered
            /\ job'[w].incomplete = job[w].incomplete
        BY <1>2, <3>1 DEF Job
      <3> QED
        BY <1>2, <1>3, <3>2 DEF GoesOn, HandledOf, OneOutcome
    <2>2. CASE PostRefused(w, e)
      <3>1. job'[w] = [[job[w] EXCEPT !.refused = @ \cup {e}]
                         EXCEPT !.todo = @ \ {e}, !.current = NoValue, !.attempt = 0]
        BY <2>2 DEF PostRefused, Leave, TInv, TypeOK
      <3>2. /\ job'[w].todo = job[w].todo \ {e} /\ job'[w].delivered = job[w].delivered
            /\ job'[w].pc = "sending" /\ job'[w].run = job[w].run /\ job'[w].snap = job[w].snap
            /\ job'[w].refused = job[w].refused \cup {e} /\ job'[w].unanswered = job[w].unanswered
            /\ job'[w].incomplete = job[w].incomplete
        BY <1>2, <3>1 DEF Job
      <3> QED
        BY <1>2, <1>3, <3>2 DEF GoesOn, HandledOf, OneOutcome
    <2>3. CASE PostRetried(w, e)
      <3>1. job'[w] = [job[w] EXCEPT !.current = e, !.attempt = @ + 1]
        BY <2>3 DEF PostRetried, TInv, TypeOK
      <3>2. /\ job'[w].todo = job[w].todo /\ job'[w].delivered = job[w].delivered
            /\ job'[w].pc = "sending" /\ job'[w].run = job[w].run /\ job'[w].snap = job[w].snap
            /\ job'[w].refused = job[w].refused /\ job'[w].unanswered = job[w].unanswered
            /\ job'[w].incomplete = job[w].incomplete
        BY <1>2, <3>1 DEF Job
      <3> QED
        BY <1>2, <1>3, <3>2 DEF GoesOn, HandledOf, OneOutcome
    <2>4. CASE PostUnanswered(w, e)
      <3>1. job'[w] = [[job[w] EXCEPT !.unanswered = @ \cup {e}]
                         EXCEPT !.todo = @ \ {e}, !.current = NoValue, !.attempt = 0]
        BY <2>4 DEF PostUnanswered, Leave, TInv, TypeOK
      <3>2. /\ job'[w].todo = job[w].todo \ {e} /\ job'[w].delivered = job[w].delivered
            /\ job'[w].pc = "sending" /\ job'[w].run = job[w].run /\ job'[w].snap = job[w].snap
            /\ job'[w].refused = job[w].refused /\ job'[w].unanswered = job[w].unanswered \cup {e}
            /\ job'[w].incomplete = job[w].incomplete
        BY <1>2, <3>1 DEF Job
      <3> QED
        BY <1>2, <1>3, <3>2 DEF GoesOn, HandledOf, OneOutcome
    <2> QED
      BY <2>1, <2>2, <2>3, <2>4
  <1>5. Onward
    BY <1>2, <1>3, <1>4 DEF Onward, GoesOn, OneOutcome
  <1>6. DeletesItsOwn'
    BY <1>1, <1>2, <1>4, DeletesStay DEF SaidInv, agent
  <1>7. KeepsQuestions
    BY <1>1, NothingAsked DEF agent
  <1> QED
    BY <1>1, <1>5, <1>6, <1>7, SaidQuiet, SameCandidates DEF agent

\* A deletion.
LEMMA SaidDelete ==
  ASSUME TInv, TInv', SaidInv, NEW w \in Workers, NEW e \in Employees, Delete(w, e)
  PROVE  SaidInv'
  <1>1. /\ UNCHANGED <<agent, touched>> /\ disturbed \subseteq disturbed'
        /\ \A v \in Workers : v # w => job'[v] = job[v]
    BY DEF Delete, TInv, TypeOK
  <1>2. DeletesItsOwn'
    <2>1. job'[w] = [job[w] EXCEPT !.todo = @ \ {e},
            !.delivered = IF target_employees[e] = NoValue THEN @ ELSE @ \cup {e}]
      BY DEF Delete, TInv, TypeOK
    <2>2. /\ job'[w].run = job[w].run /\ job'[w].todo = job[w].todo \ {e}
          /\ job'[w].delivered = IF target_employees[e] = NoValue THEN job[w].delivered
                                 ELSE job[w].delivered \cup {e}
      BY <2>1 DEF TInv, TypeOK, Job
    <2>3. /\ job[w].pc = "deleting" /\ e \in job[w].todo
          /\ target_employees[e] # NoValue => e \in disturbed'
      BY DEF Delete
    <2> QED
      BY <1>1, <2>2, <2>3 DEF SaidInv, DeletesItsOwn, agent
  <1>3. Onward
    BY ElsewhereSteps, ElsewhereGoesOn DEF SaidInv
  <1>4. KeepsQuestions
    BY <1>1, NothingAsked DEF agent
  <1> QED
    BY <1>1, <1>2, <1>3, <1>4, SaidQuiet, SameCandidates DEF agent

\* The end of a rollback, next to which nothing of its run is being sent.
LEMMA SaidRollback ==
  ASSUME TInv, TInv', SaidInv, Alone, NEW w \in Workers, FinishRollback(w)
  PROVE  SaidInv'
  <1> DEFINE r == job[w].run
  <1>1. /\ UNCHANGED <<records, escalations, asked, push_attempts, disturbed, touched>>
        /\ job' = [job EXCEPT ![w] = Idle] /\ stage' = [stage EXCEPT ![r] = "rolled_back"]
        /\ job[w].pc = "deleting" /\ r \in Runs
    BY DEF FinishRollback, TInv, TypeOK, Job
  <1>2. Elsewhere
    BY ElsewhereSteps
  <1>3. \A v \in Workers : job'[v].pc = "sending" =>
          job'[v] = job[v] /\ job[v].run # r /\ job[v].run \in Runs
    <2>1. \A v \in Workers : job[v].pc = "sending" => job[v].run # r
      BY <1>1 DEF Alone
    <2> QED
      BY <1>2, <2>1 DEF Elsewhere, TInv, TypeOK, Job
  <1>4. SendingStage'
    BY <1>1, <1>3 DEF SaidInv, SendingStage, TInv, TypeOK
  <1>5. LosesToRollback
    <2>1. pushed_state' = [e \in Employees |->
            IF e \in job[w].delivered THEN NoValue ELSE pushed_state[e]]
      BY DEF FinishRollback
    <2>2. \A e \in job[w].delivered : e \in disturbed' /\ <<r, e>> \in push_attempts'
      BY <1>1 DEF SaidInv, DeletesItsOwn
    <2>3. stage'[r] # "done"
      BY <1>1 DEF TInv, TypeOK
    <2>4. \A v \in Workers : job'[v].pc = "sending" => job'[v].run # r
      BY <1>3
    <2> QED
      BY <1>1, <2>1, <2>2, <2>3, <2>4 DEF LosesToRollback
  <1>6. DeletesItsOwn'
    BY <1>1, IdleType, DeletesStay DEF SaidInv, TInv, TypeOK
  <1>7. Onward
    BY <1>2, ElsewhereGoesOn DEF SaidInv
  <1>8. KeepsQuestions
    BY <1>1, NothingAsked
  <1>9. \A s \in Runs : stage'[s] = "done" => stage[s] = "done"
    BY <1>1 DEF TInv, TypeOK
  <1>10. job' \in [Workers -> Job]
    BY DEF TInv, TypeOK
  <1> QED
    BY <1>1, <1>4, <1>5, <1>6, <1>7, <1>8, <1>9, <1>10, SaidFrame, SameCandidates

\* Some numbers have a least one.
LEMMA SmallestNat ==
  ASSUME NEW T \in SUBSET Nat, T # {}
  PROVE  \E x \in T : \A y \in T : x <= y
  <1>1. PICK x \in T : \A y \in T : ~ (<<y, x>> \in OpToRel(<, Nat))
    BY NatLessThanWellFounded, WFMin
  <1>2. \A y \in T : ~(y < x)
    BY <1>1 DEF OpToRel
  <1> QED
    BY <1>2

\* Of some questions one was asked last.
LEMMA AskedLast ==
  ASSUME TInv, Numbered, NEW S \in SUBSET escalations, S # {}
  PROVE  \E q \in S : \A p \in S : p.asked <= q.asked
  <1> DEFINE ages == {asked - q.asked : q \in S}
  <1>1. asked \in Nat /\ \A q \in S : q.asked \in Nat /\ q.asked <= asked
    BY DEF TInv, TypeOK, Escalation, Numbered
  <1>2. ages \in SUBSET Nat /\ ages # {}
    BY <1>1
  <1>3. PICK n \in ages : \A m \in ages : n <= m
    BY <1>2, SmallestNat
  <1>4. PICK q \in S : n = asked - q.asked
    OBVIOUS
  <1>5. ASSUME NEW p \in S  PROVE p.asked <= q.asked
    <2>1. n <= asked - p.asked
      BY <1>3
    <2> QED
      BY <1>1, <1>4, <2>1
  <1> QED
    BY <1>5

\* What is claimed differs from the last open refusal.
LEMMA ClaimedAfresh ==
  ASSUME TInv, Numbered, NEW r \in Runs, NEW e \in Employees, ~RefusedUnchanged(r, e),
         NEW p \in OpenRefusals(r, e), p.payload = records[r][e].data
  PROVE  \E b \in RefusalsOf(r, e) : b.payload # records[r][e].data /\ p.asked < b.asked
  <1>1. OpenRefusals(r, e) \in SUBSET escalations
    BY DEF OpenRefusals
  <1>2. PICK b \in OpenRefusals(r, e) : \A q \in OpenRefusals(r, e) : q.asked <= b.asked
    BY <1>1, AskedLast
  <1>3. b.payload # records[r][e].data
    BY <1>2 DEF RefusedUnchanged
  <1>4. p.asked \in Nat /\ b.asked \in Nat
    BY <1>1 DEF TInv, TypeOK, Escalation
  <1>5. p.asked # b.asked
    <2> SUFFICES ASSUME p.asked = b.asked PROVE RefusedUnchanged(r, e)
      OBVIOUS
    <2> QED
      BY <1>2 DEF RefusedUnchanged
  <1>6. b \in RefusalsOf(r, e)
    BY DEF OpenRefusals, RefusalsOf
  <1> QED
    BY <1>2, <1>3, <1>4, <1>5, <1>6

\* A push claims its run, and is then the only one that sends for it.
LEMMA SaidClaim ==
  ASSUME TInv, TInv', SaidInv, Alone', NEW w \in Workers, Claim(w)
  PROVE  SaidInv'
  <1> DEFINE r == job[w].run
             read == [e \in Employees |-> IF e \in Candidates(r)
                                          THEN records[r][e].data ELSE NoValue]
             todo == {e \in Sendable(r) : ~Unchanged(r, e) /\ ~RefusedUnchanged(r, e)}
  <1> USE DEF SaidInv
  <1>1. /\ job[w] \in Job /\ r \in Runs
        /\ job[w].delivered = {} /\ job[w].refused = {} /\ job[w].unanswered = {}
    BY DEF Claim, TInv, TypeOK, Job, FreshClaim
  <1>2. /\ UNCHANGED <<records, escalations, asked, push_attempts, pushed_state, disturbed>>
        /\ stage' = [stage EXCEPT ![r] = "pushing"]
        /\ touched' = {k \in touched : k[1] # r}
        /\ \A v \in Workers : v # w => job'[v] = job[v]
    BY DEF Claim, TInv, TypeOK
  <1>3. /\ job'[w].pc = "sending" /\ job'[w].run = r /\ job'[w].snap = read
        /\ job'[w].todo = todo /\ job'[w].incomplete = Candidates(r) \ Sendable(r)
        /\ job'[w].delivered = {} /\ job'[w].refused = {} /\ job'[w].unanswered = {}
    BY <1>1 DEF Claim, TInv, TypeOK, Job
  <1>4. \A e \in todo : /\ e \in Employees /\ e \in Candidates(r)
                        /\ job'[w].snap[e] = records[r][e].data
                        /\ records[r][e].data \in Values
    BY <1>1, <1>3 DEF Sendable, Candidates, TInv, TypeOK
  <1>5. \A v \in Workers : v # w /\ job'[v].pc = "sending" =>
          job'[v] = job[v] /\ job[v].run # r /\ job[v].run \in Runs
    BY <1>2, <1>3 DEF Alone, TInv, TypeOK, Job
  <1>6. ASSUME NEW s \in Runs, s # r, NEW e \in Employees, Said(s, e)  PROVE Said(s, e)'
    BY <1>2, <1>6 DEF Said, TakenByAnother
  <1> HIDE DEF r, read, todo
  <1>7. NothingGoesQuiet'
    <2> SUFFICES ASSUME NEW s \in Runs, stage'[s] = "done", NEW e \in Candidates(s)'
                 PROVE  Said(s, e)'
      BY DEF NothingGoesQuiet
    <2>1. s # r /\ stage[s] = "done"
      BY <1>1, <1>2 DEF TInv, TypeOK
    <2>2. e \in Candidates(s) /\ e \in Employees
      BY <1>2 DEF Candidates
    <2> QED
      BY <1>6, <2>1, <2>2 DEF NothingGoesQuiet
  <1>8. SendingStage'
    BY <1>1, <1>2, <1>3, <1>5 DEF SendingStage, TInv, TypeOK
  <1>9. SentOrSaid'
    <2> SUFFICES ASSUME NEW v \in Workers, NEW s \in Runs, SendingFor(v, s)',
                        NEW e \in Candidates(s)'
                 PROVE  e \in HandledOf(job'[v]) \/ Said(s, e)'
      BY DEF SentOrSaid
    <2>1. e \in Candidates(s) /\ e \in Employees
      BY <1>2 DEF Candidates
    <2>2. CASE v = w
      <3>1. s = r
        BY <1>3, <2>2 DEF SendingFor
      <3>2. CASE e \notin Sendable(r) \/ e \in todo
        BY <1>3, <2>1, <2>2, <3>1, <3>2 DEF HandledOf
      <3>3. CASE Unchanged(r, e)
        BY <1>2, <3>1, <3>3 DEF Unchanged, Said
      <3>4. CASE RefusedUnchanged(r, e)
        BY <1>2, <3>1, <3>4 DEF RefusedUnchanged, OpenRefusals, Said
      <3> QED
        BY <3>2, <3>3, <3>4 DEF todo
    <2>3. CASE v # w
      <3>1. job'[v] = job[v] /\ SendingFor(v, s) /\ s # r
        BY <1>5, <2>3 DEF SendingFor
      <3> QED
        BY <1>6, <2>1, <3>1 DEF SentOrSaid
    <2> QED
      BY <2>2, <2>3
  <1>10. OneOutcome'
    BY <1>2, <1>3 DEF OneOutcome
  <1>11. DeletesItsOwn'
    BY <1>2, <1>3 DEF DeletesItsOwn
  <1>12. RefusedAfresh'
    <2> SUFFICES ASSUME NEW v \in Workers, NEW s \in Runs, NEW e \in Employees,
                        SendingFor(v, s)', e \in job'[v].todo \cup job'[v].refused,
                        NEW p \in OpenRefusals(s, e)', p.payload = job'[v].snap[e]
                 PROVE  \E b \in RefusalsOf(s, e)' :
                          b.payload # job'[v].snap[e] /\ p.asked < b.asked
      BY DEF RefusedAfresh
    <2>1. p \in OpenRefusals(s, e) /\ RefusalsOf(s, e)' = RefusalsOf(s, e)
      BY <1>2 DEF OpenRefusals, RefusalsOf
    <2>2. CASE v = w
      <3>1. s = r /\ e \in todo
        BY <1>3, <2>2 DEF SendingFor
      <3>2. ~RefusedUnchanged(r, e) /\ job'[v].snap[e] = records[r][e].data
        BY <1>4, <2>2, <3>1 DEF todo
      <3>3. \E b \in RefusalsOf(s, e) : b.payload # records[s][e].data /\ p.asked < b.asked
        BY <2>1, <3>1, <3>2, ClaimedAfresh
      <3> QED
        BY <2>1, <3>1, <3>2, <3>3
    <2>3. CASE v # w
      <3>1. job'[v] = job[v] /\ SendingFor(v, s)
        BY <1>5, <2>3 DEF SendingFor
      <3> QED
        BY <2>1, <3>1 DEF RefusedAfresh
    <2> QED
      BY <2>2, <2>3
  <1>13. NotYetDelivered'
    <2> SUFFICES ASSUME NEW v \in Workers, job'[v].pc = "sending",
                        NEW e \in job'[v].todo \cup job'[v].refused \cup job'[v].unanswered
                 PROVE  pushed_state'[e] # [run |-> job'[v].run, data |-> job'[v].snap[e]]
      BY DEF NotYetDelivered
    <2>1. CASE v = w
      <3>1. e \in todo /\ ~Unchanged(r, e)
        BY <1>3, <2>1 DEF todo
      <3>2. [run |-> r, data |-> records[r][e].data] # NoValue
        BY <1>1, <1>4, <3>1, PushAssumption DEF Row
      <3> QED
        BY <1>2, <1>3, <1>4, <2>1, <3>1, <3>2 DEF Unchanged
    <2>2. CASE v # w
      BY <1>2, <1>5, <2>2 DEF NotYetDelivered
    <2> QED
      BY <2>1, <2>2
  <1>14. Numbered' /\ NoSecondCopy' /\ AnsweredIsClosed'
    BY <1>2 DEF Numbered, NoSecondCopy, AnsweredIsClosed
  <1> QED
    BY <1>7, <1>8, <1>9, <1>10, <1>11, <1>12, <1>13, <1>14

\* What the last transaction of a push leaves in the table of questions.
LEMMA FinishQuestions ==
  ASSUME TInv, NEW w \in Workers, Finish(w)
  PROVE  /\ \A n \in escalations' :
              \/ n \in escalations /\ ~AnsweredNow(w, n)
              \/ n.code = "PUSH_UNREACHABLE" /\ ~n.open
              \/ \E e \in job[w].refused : n = Question(w, "PUSH_REJECTED", e)
              \/ \E e \in job[w].unanswered : n = Question(w, "PUSH_UNREACHABLE", e)
         /\ \A q \in escalations : ~AnsweredNow(w, q) => q \in escalations'
         /\ \A e \in job[w].refused : Question(w, "PUSH_REJECTED", e) \in escalations'
         /\ \A e \in job[w].unanswered : Question(w, "PUSH_UNREACHABLE", e) \in escalations'
  <1>1. escalations' =
          {IF AnsweredNow(w, q) THEN [q EXCEPT !.open = FALSE] ELSE q : q \in escalations}
            \cup NewQuestions(w)
    BY DEF Finish
  <1>2. \A q \in escalations : AnsweredNow(w, q) =>
          /\ [q EXCEPT !.open = FALSE].code = "PUSH_UNREACHABLE"
          /\ ~[q EXCEPT !.open = FALSE].open
    BY DEF AnsweredNow, TInv, TypeOK, Escalation
  <1>3. ASSUME NEW q \in escalations, ~AnsweredNow(w, q)  PROVE q \in escalations'
    BY <1>1, <1>3
  <1>4. ASSUME NEW n \in escalations'
        PROVE  \/ n \in escalations /\ ~AnsweredNow(w, n)
               \/ n.code = "PUSH_UNREACHABLE" /\ ~n.open
               \/ n \in NewQuestions(w)
    BY <1>1, <1>2
  <1> QED
    BY <1>1, <1>3, <1>4 DEF NewQuestions

\* What is asked is asked last.
LEMMA FinishNumbers ==
  ASSUME TInv, Numbered, NEW w \in Workers, Finish(w)
  PROVE  Numbered'
  <1>1. asked \in Nat /\ asked' \in {asked, asked + 1} /\ \A q \in escalations : q \in Escalation
    BY DEF Finish, TInv, TypeOK
  <1>2. ASSUME NEW n \in NewQuestions(w)  PROVE n.asked <= asked'
    BY <1>1, <1>2 DEF NewQuestions, Question, Finish
  <1>3. ASSUME NEW q \in escalations
        PROVE  q.asked <= asked' /\ [q EXCEPT !.open = FALSE].asked <= asked'
    <2>1. q.asked \in Nat /\ q.asked <= asked /\ [q EXCEPT !.open = FALSE].asked = q.asked
      BY <1>1 DEF Escalation, Numbered
    <2> QED
      BY <1>1, <2>1
  <1> QED
    BY <1>2, <1>3 DEF Finish, Numbered

\* No second copy is asked by a push that has read what was refused.
LEMMA FinishCopies ==
  ASSUME TInv, NoSecondCopy, RefusedAfresh, Numbered, NEW w \in Workers, Finish(w)
  PROVE  NoSecondCopy'
  <1> DEFINE r == job[w].run
             Asks(e) == Question(w, "PUSH_REJECTED", e)
  <1>1. r \in Runs /\ job[w].refused \subseteq Employees /\ asked \in Nat /\ SendingFor(w, r)
    BY DEF TInv, TypeOK, Job, Finish, SendingFor
  <1>q. \A q \in escalations : q.asked \in Nat /\ q.asked <= asked
    BY DEF TInv, TypeOK, Escalation, Numbered
  <1>2. \A e \in Employees : /\ Asks(e).asked = asked + 1 /\ Asks(e).run = r
                             /\ Asks(e).employee = e /\ Asks(e).code = "PUSH_REJECTED"
                             /\ Asks(e).payload = job[w].snap[e]
    BY DEF Question
  <1> SUFFICES ASSUME NEW m \in escalations', NEW n \in escalations',
                      m # n, m.open, n.open, m.code = "PUSH_REJECTED", SameRecord(m, n),
                      m.payload = n.payload, m.asked <= n.asked
               PROVE  \E b \in escalations' :
                        /\ SameRecord(m, b) /\ b.payload # m.payload
                        /\ m.asked < b.asked /\ b.asked < n.asked
    BY DEF NoSecondCopy
  <1>3. \A x \in {m, n} : \/ x \in escalations
                          \/ \E e \in job[w].refused : x = Asks(e)
    <2>1. m.code = "PUSH_REJECTED" /\ n.code = "PUSH_REJECTED"
      BY DEF SameRecord
    <2>2. \A e : Question(w, "PUSH_UNREACHABLE", e).code = "PUSH_UNREACHABLE"
      BY DEF Question
    <2> HIDE DEF Asks
    <2> QED
      BY <2>1, <2>2, FinishQuestions DEF Asks
  <1>4. \A b \in escalations : b.code = "PUSH_REJECTED" => b \in escalations'
    BY FinishQuestions DEF AnsweredNow
  <1> HIDE DEF Asks, r
  <1>5. CASE m \in escalations /\ n \in escalations
    <2>1. PICK b \in escalations : /\ SameRecord(m, b) /\ b.payload # m.payload
                                   /\ m.asked < b.asked /\ b.asked < n.asked
      BY <1>5 DEF NoSecondCopy
    <2> QED
      BY <1>4, <2>1 DEF SameRecord
  <1>6. ASSUME m \in escalations, NEW e \in job[w].refused, n = Asks(e)
        PROVE  \E b \in escalations' :
                 /\ SameRecord(m, b) /\ b.payload # m.payload
                 /\ m.asked < b.asked /\ b.asked < n.asked
    <2>1. e \in Employees
      BY <1>1
    <2>2. m \in OpenRefusals(r, e) /\ m.payload = job[w].snap[e]
      BY <1>2, <1>6, <2>1 DEF OpenRefusals, SameRecord
    <2>3. PICK b \in RefusalsOf(r, e) : b.payload # job[w].snap[e] /\ m.asked < b.asked
      BY <1>1, <2>1, <2>2 DEF RefusedAfresh
    <2>4. b \in escalations /\ SameRecord(m, b) /\ b.code = "PUSH_REJECTED"
      BY <2>2, <2>3 DEF RefusalsOf, OpenRefusals, SameRecord
    <2>5. b.asked < n.asked
      BY <1>1, <1>2, <1>q, <1>6, <2>1, <2>4
    <2> QED
      BY <1>4, <2>2, <2>3, <2>4, <2>5
  <1>7. ASSUME n \in escalations, NEW e \in job[w].refused, m = Asks(e)
        PROVE  FALSE
    BY <1>1, <1>2, <1>q, <1>7
  <1>8. ASSUME NEW d \in job[w].refused, m = Asks(d), NEW e \in job[w].refused, n = Asks(e)
        PROVE  FALSE
    <2>1. d = e
      BY <1>1, <1>2, <1>8 DEF SameRecord
    <2> QED
      BY <1>8, <2>1
  <1> QED
    BY <1>3, <1>5, <1>6, <1>7, <1>8

\* What is delivered leaves no question of its run open.
LEMMA FinishAnswers ==
  ASSUME TInv, AnsweredIsClosed, OneOutcome, NotYetDelivered, NEW w \in Workers, Finish(w)
  PROVE  AnsweredIsClosed'
  <1> DEFINE r == job[w].run
  <1>1. pushed_state' = [e \in Employees |->
          IF e \in job[w].delivered THEN [run |-> r, data |-> job[w].snap[e]]
                                    ELSE pushed_state[e]]
    BY DEF Finish
  <1>2. job[w].pc = "sending" /\ job[w].unanswered \subseteq Employees
    BY DEF Finish, TInv, TypeOK, Job
  <1> SUFFICES ASSUME NEW n \in escalations', n.open, n.code = "PUSH_UNREACHABLE"
               PROVE  pushed_state'[n.employee] # [run |-> n.run, data |-> n.payload]
    BY DEF AnsweredIsClosed
  <1>3. CASE n \in escalations /\ ~AnsweredNow(w, n)
    <2>1. n.employee \in Employees
      BY <1>3 DEF TInv, TypeOK, Escalation
    <2>2. CASE n.employee \notin job[w].delivered
      BY <1>1, <1>3, <2>1, <2>2 DEF AnsweredIsClosed
    <2>3. CASE n.employee \in job[w].delivered /\ n.run # r
      BY <1>1, <2>1, <2>3
    <2> QED
      BY <1>3, <2>2, <2>3 DEF AnsweredNow
  <1>4. ASSUME NEW e \in job[w].unanswered, n = Question(w, "PUSH_UNREACHABLE", e)
        PROVE  pushed_state'[n.employee] # [run |-> n.run, data |-> n.payload]
    <2>1. n.run = r /\ n.employee = e /\ n.payload = job[w].snap[e]
      BY <1>4 DEF Question
    <2>2. e \notin job[w].delivered /\ pushed_state[e] # [run |-> r, data |-> job[w].snap[e]]
      BY <1>2 DEF OneOutcome, NotYetDelivered
    <2> QED
      BY <1>1, <1>2, <2>1, <2>2
  <1>5. \A e : Question(w, "PUSH_REJECTED", e).code # "PUSH_UNREACHABLE"
    BY DEF Question
  <1> QED
    BY <1>3, <1>4, <1>5, FinishQuestions

\* A push ends: what it read is delivered, asked about, or was said before.
LEMMA SaidFinish ==
  ASSUME TInv, TInv', SaidInv, Alone, NEW w \in Workers, Finish(w)
  PROVE  SaidInv'
  <1> USE DEF SaidInv
  <1>r. PICK r \in Runs : r = job[w].run
    BY DEF TInv, TypeOK, Job
  <1>1. /\ job[w] \in Job /\ r \in Runs /\ SendingFor(w, r) /\ job[w].todo = {}
        /\ job[w].pc = "sending"
    BY <1>r DEF Finish, TInv, TypeOK, Job, SendingFor
  <1>2. /\ stage' = [stage EXCEPT ![r] = "done"]
        /\ push_attempts' = push_attempts \cup ({r} \X job[w].delivered)
        /\ pushed_state' = [e \in Employees |->
             IF e \in job[w].delivered THEN [run |-> r, data |-> job[w].snap[e]]
                                       ELSE pushed_state[e]]
        /\ records' = [records EXCEPT ![r] = [e \in Employees |->
             IF e \in job[w].incomplete THEN [@[e] EXCEPT !.status = "incomplete"]
                                        ELSE @[e]]]
        /\ UNCHANGED <<disturbed, touched>>
        /\ \A v \in Workers : v # w => job'[v] = job[v]
    BY <1>r DEF Finish, TInv, TypeOK
  <1>3. Elsewhere
    BY ElsewhereSteps
  <1>4. \A v \in Workers : job'[v].pc = "sending" =>
          job'[v] = job[v] /\ job[v].run # r /\ job[v].run \in Runs
    <2>1. \A v \in Workers : v # w /\ job[v].pc = "sending" => job[v].run # r
      BY <1>r, <1>1 DEF Alone
    <2>2. job'[w].pc = "sending" => job'[w] = job[w]
      BY <1>3 DEF Elsewhere
    <2>3. job'[w].todo = {} => job'[w].pc # "sending"
      <3>1. \/ job'[w] = Idle
            \/ \E X : job'[w] = [Idle EXCEPT !.pc = "repair", !.run = r, !.examples = X]
        BY <1>r DEF Finish, TInv, TypeOK
      <3>2. \A X : [Idle EXCEPT !.pc = "repair", !.run = r, !.examples = X].pc = "repair"
        BY IdleType DEF Job
      <3> QED
        BY <3>1, <3>2, IdleType
    <2>4. job'[w].pc # "sending"
      BY <1>1, <2>2, <2>3
    <2> QED
      BY <1>3, <2>1, <2>4 DEF Elsewhere, TInv, TypeOK, Job
  <1>5. /\ \A e \in job[w].delivered : [run |-> r, data |-> job[w].snap[e]] # NoValue
        /\ job[w].delivered \cup job[w].refused \cup job[w].unanswered \subseteq Employees
    BY <1>r, <1>1, PushAssumption DEF TInv, Read, Row, Job
  <1>6. \A e \in Employees : pushed_state[e] # NoValue => pushed_state'[e] # NoValue
    BY <1>2, <1>5
  <1>7. ASSUME NEW s \in Runs, NEW e \in Employees, Said(s, e)  PROVE Said(s, e)'
    <2>1. CASE <<s, e>> \in touched \/ pushed_state[e] # NoValue \/ TakenByAnother(s, e)
      BY <1>2, <1>6, <2>1 DEF Said, TakenByAnother
    <2>2. ASSUME NEW q \in escalations, q.run = s, q.employee = e, q.open
          PROVE  Said(s, e)'
      <3>1. CASE AnsweredNow(w, q)
        <4>1. pushed_state'[e] # NoValue
          BY <1>r, <1>2, <1>5, <2>2, <3>1 DEF AnsweredNow
        <4> QED
          BY <4>1 DEF Said
      <3>2. CASE ~AnsweredNow(w, q)
        BY <2>2, <3>2, FinishQuestions DEF Said
      <3> QED
        BY <3>1, <3>2
    <2> QED
      BY <1>7, <2>1, <2>2 DEF Said
  <1>8. \A s \in Runs : \A e \in Candidates(s)' : e \in Candidates(s) /\ e \in Employees
    BY <1>1, <1>2 DEF Candidates, CandidateStatus, TInv, TypeOK
  <1>9. \A e \in Candidates(r)' : e \notin job[w].incomplete
    BY <1>1, <1>2 DEF Candidates, CandidateStatus, TInv, TypeOK
  <1>10. NothingGoesQuiet'
    <2> SUFFICES ASSUME NEW s \in Runs, stage'[s] = "done", NEW e \in Candidates(s)'
                 PROVE  Said(s, e)'
      BY DEF NothingGoesQuiet
    <2>1. e \in Candidates(s) /\ e \in Employees
      BY <1>8
    <2>2. CASE s # r
      BY <1>2, <1>7, <2>1, <2>2 DEF NothingGoesQuiet, TInv, TypeOK
    <2>3. CASE s = r
      <3>1. CASE Said(r, e)
        BY <1>1, <1>7, <2>1, <2>3, <3>1
      <3>2. CASE e \in job[w].delivered
        <4>1. pushed_state'[e] # NoValue
          BY <1>2, <1>5, <3>2
        <4> QED
          BY <4>1 DEF Said
      <3>3. CASE e \in job[w].refused \cup job[w].unanswered
        <4>1. \A code : /\ Question(w, code, e).run = r /\ Question(w, code, e).employee = e
                        /\ Question(w, code, e).open
          BY <1>r DEF Question
        <4> QED
          BY <2>3, <3>3, <4>1, FinishQuestions DEF Said
      <3> QED
        BY <1>1, <1>9, <2>1, <2>3, <3>1, <3>2, <3>3 DEF SentOrSaid, HandledOf
    <2> QED
      BY <2>2, <2>3
  <1>11. SendingStage'
    BY <1>2, <1>4 DEF SendingStage, TInv, TypeOK
  <1>12. SentOrSaid'
    <2> SUFFICES ASSUME NEW v \in Workers, NEW s \in Runs, SendingFor(v, s)',
                        NEW e \in Candidates(s)'
                 PROVE  e \in HandledOf(job'[v]) \/ Said(s, e)'
      BY DEF SentOrSaid
    <2>1. job'[v] = job[v] /\ SendingFor(v, s)
      BY <1>4 DEF SendingFor
    <2>2. e \in HandledOf(job[v]) \/ Said(s, e)
      BY <1>8, <2>1 DEF SentOrSaid
    <2> QED
      BY <1>7, <1>8, <2>1, <2>2
  <1>13. OneOutcome'
    BY <1>4 DEF OneOutcome
  <1>14. DeletesItsOwn'
    <2>1. job'[w].pc # "deleting"
      <3>1. \/ job'[w] = Idle
            \/ \E X : job'[w] = [Idle EXCEPT !.pc = "repair", !.run = r, !.examples = X]
        BY <1>r DEF Finish, TInv, TypeOK
      <3>2. \A X : [Idle EXCEPT !.pc = "repair", !.run = r, !.examples = X].pc = "repair"
        BY IdleType DEF Job
      <3> QED
        BY <3>1, <3>2, IdleType
    <2> QED
      BY <1>2, <2>1, DeletesStay
  <1>15. RefusedAfresh'
    <2> SUFFICES ASSUME NEW v \in Workers, NEW s \in Runs, NEW e \in Employees,
                        SendingFor(v, s)', e \in job'[v].todo \cup job'[v].refused,
                        NEW p \in OpenRefusals(s, e)', p.payload = job'[v].snap[e]
                 PROVE  \E b \in RefusalsOf(s, e)' :
                          b.payload # job'[v].snap[e] /\ p.asked < b.asked
      BY DEF RefusedAfresh
    <2>1. job'[v] = job[v] /\ SendingFor(v, s) /\ s # r
      BY <1>4 DEF SendingFor
    <2>2. p \in OpenRefusals(s, e)
      <3>1. \A code, x : Question(w, code, x).run = r
        BY <1>r DEF Question
      <3> QED
        BY <2>1, <3>1, FinishQuestions DEF OpenRefusals
    <2>3. PICK b \in RefusalsOf(s, e) : b.payload # job[v].snap[e] /\ p.asked < b.asked
      BY <2>1, <2>2 DEF RefusedAfresh
    <2>4. b \in RefusalsOf(s, e)'
      BY <2>3, FinishQuestions DEF RefusalsOf, AnsweredNow
    <2> QED
      BY <2>1, <2>3, <2>4
  <1>16. NotYetDelivered'
    <2> SUFFICES ASSUME NEW v \in Workers, job'[v].pc = "sending",
                        NEW e \in job'[v].todo \cup job'[v].refused \cup job'[v].unanswered
                 PROVE  pushed_state'[e] # [run |-> job'[v].run, data |-> job'[v].snap[e]]
      BY DEF NotYetDelivered
    <2>1. job'[v] = job[v] /\ job[v].pc = "sending" /\ job[v].run # r /\ e \in Employees
      BY <1>4 DEF TInv, TypeOK, Job
    <2>2. pushed_state[e] # [run |-> job[v].run, data |-> job[v].snap[e]]
      BY <2>1 DEF NotYetDelivered
    <2> QED
      BY <1>2, <2>1, <2>2
  <1>17. Numbered' /\ NoSecondCopy' /\ AnsweredIsClosed'
    BY FinishNumbers, FinishCopies, FinishAnswers
  <1> QED
    BY <1>10, <1>11, <1>12, <1>13, <1>14, <1>15, <1>16, <1>17

\* Where pushes and rollbacks of a run are serial, SaidInv is inductive.
LEMMA SaidInit == Init => TInv /\ SaidInv /\ Alone
  <1> SUFFICES ASSUME Init PROVE SaidInv /\ Alone
    BY TypeInit
  <1>1. \A w \in Workers : job[w].pc = "idle"
    BY IdleType DEF Init
  <1>2. escalations = {} /\ \A r \in Runs : stage[r] # "done"
    BY DEF Init
  <1>3. SendingStage /\ SentOrSaid /\ OneOutcome /\ DeletesItsOwn /\ RefusedAfresh
          /\ NotYetDelivered /\ Alone
    BY <1>1 DEF SendingStage, SentOrSaid, SendingFor, OneOutcome, DeletesItsOwn,
                RefusedAfresh, NotYetDelivered, Alone
  <1>4. Numbered /\ NothingGoesQuiet /\ NoSecondCopy /\ AnsweredIsClosed
    BY <1>2 DEF Numbered, NothingGoesQuiet, NoSecondCopy, AnsweredIsClosed
  <1> QED
    BY <1>3, <1>4 DEF SaidInv

LEMMA SaidNext ==
  TInv /\ SaidInv /\ Alone /\ [Next /\ Alone']_vars => (TInv /\ SaidInv /\ Alone)'
  <1> SUFFICES ASSUME TInv, SaidInv, Alone, [Next /\ Alone']_vars
               PROVE  TInv' /\ SaidInv' /\ Alone'
    OBVIOUS
  <1>1. TInv'
    BY TypeNext
  <1>2. Alone'
    BY DEF Alone, vars
  <1>3. ASSUME NEW w \in Workers, Begin(w) \/ Run(w) \/ Fail(w)  PROVE SaidInv'
    BY <1>1, <1>2, <1>3, SaidBegin, SaidFail, SaidRepair, SaidRollback, SaidDelete, SaidPost,
       SaidClaim, SaidFinish DEF Run, Exchange
  <1>4. ASSUME Human  PROVE SaidInv'
    BY <1>1, <1>4, SaidHuman
  <1>5. ASSUME Kill \/ RestartTarget \/ UNCHANGED vars  PROVE SaidInv'
    BY <1>1, <1>5, SaidOutside
  <1> QED
    BY <1>1, <1>2, <1>3, <1>4, <1>5 DEF Next

\* Where pushes and rollbacks of a run are serial, a finished push loses no
\* record without saying so, whatever fails, answers or is undone meanwhile
\* (push.py, the last transaction; decide_push).
THEOREM QuietCorrect == SerialSpec => []NothingGoesQuiet
  <1>1. TInv /\ SaidInv /\ Alone => NothingGoesQuiet
    BY DEF SaidInv
  <1> QED
    BY <1>1, SaidInit, SaidNext, PTL DEF SerialSpec

\* There, what was refused and has not changed is not asked about again
\* (push.py, already_refused).
THEOREM CopyCorrect == SerialSpec => []NoSecondCopy
  <1>1. TInv /\ SaidInv /\ Alone => NoSecondCopy
    BY DEF SaidInv
  <1> QED
    BY <1>1, SaidInit, SaidNext, PTL DEF SerialSpec

\* There, "the target never answered" is not asked about what has been
\* delivered since (push.py:340).
THEOREM AnsweredCorrect == SerialSpec => []AnsweredIsClosed
  <1>1. TInv /\ SaidInv /\ Alone => AnsweredIsClosed
    BY DEF SaidInv
  <1> QED
    BY <1>1, SaidInit, SaidNext, PTL DEF SerialSpec

-----------------------------------------------------------------------------
(* The flag of a run, and who holds it: here pushes may overlap.              *)

HeldBy(w, r) == job[w].pc = "sending" /\ job[w].run = r

\* A step of one thread that claims no stage for another, and leaves the stage
\* of every run it stops sending.
LEMMA HeldFrame ==
  ASSUME PushingIsHeld, NEW w \in Workers, \A v \in Workers : v # w => job'[v] = job[v],
         \A r \in Runs : stage'[r] = "pushing" =>
           \/ HeldBy(w, r)'
           \/ stage[r] = "pushing" /\ ~HeldBy(w, r)
  PROVE  PushingIsHeld'
  <1> SUFFICES ASSUME NEW r \in Runs, stage'[r] = "pushing", ~HeldBy(w, r)'
               PROVE  \E v \in Workers : job'[v].pc = "sending" /\ job'[v].run = r
    BY DEF PushingIsHeld, HeldBy
  <1>1. stage[r] = "pushing" /\ ~HeldBy(w, r)
    OBVIOUS
  <1>2. PICK v \in Workers : job[v].pc = "sending" /\ job[v].run = r
    BY <1>1 DEF PushingIsHeld
  <1> QED
    BY <1>1, <1>2 DEF HeldBy

LEMMA HeldStep ==
  ASSUME TInv, TInv', PushingIsHeld, NEW w \in Workers, Begin(w) \/ Run(w) \/ Fail(w)
  PROVE  PushingIsHeld'
  <1>1. /\ job \in [Workers -> Job] /\ stage \in [Runs -> Stage]
        /\ job[w] \in Job /\ job[w].run \in Runs
    BY DEF TInv, TypeOK, Job
  <1>2. ASSUME NEW e \in Employees,
               \/ PostAccepted(w, e) \/ PostReplayed(w, e) \/ PostRefused(w, e)
               \/ PostRetried(w, e) \/ PostUnanswered(w, e)
        PROVE  PushingIsHeld'
    <2>1. /\ \A v \in Workers : v # w => job'[v] = job[v]
          /\ job'[w].run = job[w].run
      BY <1>2, SendingStep
    <2>2. stage' = stage
      BY <1>2 DEF agent, PostAccepted, PostReplayed, PostRefused, PostRetried,
                  PostUnanswered
    <2>3. job'[w].pc = job[w].pc
      <3>1. CASE PostAccepted(w, e)
        BY <1>1, <3>1 DEF PostAccepted, Leave, Job
      <3>2. CASE PostReplayed(w, e)
        BY <1>1, <3>2 DEF PostReplayed, Leave, Job
      <3>3. CASE PostRefused(w, e)
        BY <1>1, <3>3 DEF PostRefused, Leave, Job
      <3>4. CASE PostRetried(w, e)
        BY <1>1, <3>4 DEF PostRetried, Job
      <3>5. CASE PostUnanswered(w, e)
        BY <1>1, <3>5 DEF PostUnanswered, Leave, Job
      <3> QED
        BY <1>2, <3>1, <3>2, <3>3, <3>4, <3>5
    <2> QED
      BY <2>1, <2>2, <2>3, HeldFrame DEF HeldBy
  <1>3. CASE Claim(w)
    <2>1. \A v \in Workers : v # w => job'[v] = job[v]
      BY <1>3, ClaimStep
    <2>2. /\ stage' = [stage EXCEPT ![job[w].run] = "pushing"]
          /\ job[w].pc = "claim" /\ job'[w].pc = "sending" /\ job'[w].run = job[w].run
      BY <1>1, <1>3 DEF Claim, Job
    <2> QED
      BY <1>1, <2>1, <2>2, HeldFrame DEF HeldBy
  <1>4. ASSUME \A v \in Workers : v # w => job'[v] = job[v],
               \/ job[w].pc # "sending" /\ UNCHANGED stage
               \/ \E s \in Stage \ {"pushing"} : stage' = [stage EXCEPT ![job[w].run] = s]
        PROVE  PushingIsHeld'
    BY <1>1, <1>4, HeldFrame DEF HeldBy
  <1>5. ASSUME \A v \in Workers : v # w => job'[v] = job[v], Died(w)
        PROVE  PushingIsHeld'
    <2>1. \A r \in Runs : stage'[r] = "pushing" => stage[r] = "pushing" /\ r # job[w].run
      BY <1>1, <1>5 DEF Died
    <2> QED
      BY <1>5, <2>1, HeldFrame DEF HeldBy
  <1>6. ASSUME \/ Begin(w) \/ Finish(w) \/ Propose(w) \/ FinishRollback(w) \/ Fail(w)
               \/ \E v \in Values \cup {NoValue} : NameField(w, v)
               \/ \E e \in Employees : Delete(w, e)
        PROVE  PushingIsHeld'
    <2>1. \A v \in Workers : v # w => job'[v] = job[v]
      BY <1>6 DEF Begin, BeginPush, BeginRollback, Finish, Propose, FinishRollback, Fail,
                  Stop, StopRollback, StopUnheard, Died, NameField, Delete, TInv, TypeOK
    <2>2. CASE Begin(w)
      BY <1>4, <2>1, <2>2 DEF Begin, BeginPush, BeginRollback, agent
    <2>3. CASE Finish(w)
      <3>1. stage' = [stage EXCEPT ![job[w].run] = "done"] /\ "done" \in Stage \ {"pushing"}
        BY <2>3 DEF Finish, Stage
      <3> QED
        BY <1>4, <2>1, <3>1
    <2>4. CASE FinishRollback(w)
      <3>1. /\ stage' = [stage EXCEPT ![job[w].run] = "rolled_back"]
            /\ "rolled_back" \in Stage \ {"pushing"}
        BY <2>4 DEF FinishRollback, Stage
      <3> QED
        BY <1>4, <2>1, <3>1
    <2>5. CASE Fail(w)
      BY <1>4, <1>5, <2>1, <2>5 DEF Fail, Stop, StopUnheard, StopRollback, agent
    <2>6. CASE \/ Propose(w) \/ \E v \in Values \cup {NoValue} : NameField(w, v)
               \/ \E e \in Employees : Delete(w, e)
      BY <1>4, <2>1, <2>6 DEF Propose, NameField, Delete, agent
    <2> QED
      BY <1>6, <2>2, <2>3, <2>4, <2>5, <2>6
  <1> QED
    BY <1>2, <1>3, <1>6 DEF Run, Exchange

\* The flag never outlives the pushes as long as the process lives, however
\* they overlap, die or are rolled back (push_run): the safety half of
\* StageReleased.
THEOREM PushingHeld == "kill" \notin Env => (Spec => []PushingIsHeld)
  <1> SUFFICES ASSUME "kill" \notin Env  PROVE Spec => []PushingIsHeld
    OBVIOUS
  <1>1. Init => TInv /\ PushingIsHeld
    BY TypeInit DEF Init, PushingIsHeld
  <1>2. TInv /\ PushingIsHeld /\ [Next]_vars => TInv' /\ PushingIsHeld'
    <2> SUFFICES ASSUME TInv, PushingIsHeld, [Next]_vars, TInv' PROVE PushingIsHeld'
      BY TypeNext
    <2>1. CASE RestartTarget \/ UNCHANGED vars
      BY <2>1 DEF RestartTarget, vars, agent, PushingIsHeld
    <2>2. CASE Human
      <3>1. \A q, action, typed, all : Answer(q, action, typed, all) => UNCHANGED <<stage, job>>
        BY DEF Answer
      <3>2. \A r, e, v, ps : Fill(r, e, v, ps) => UNCHANGED <<stage, job>>
        BY DEF Fill
      <3> QED
        BY <2>2, <3>1, <3>2 DEF Human, FillRefused, FillOther, PushingIsHeld
    <2>3. ASSUME NEW w \in Workers, Begin(w) \/ Run(w) \/ Fail(w)  PROVE PushingIsHeld'
      BY <2>3, HeldStep
    <2> QED
      BY <2>1, <2>2, <2>3 DEF Next, Kill
  <1> QED
    BY <1>1, <1>2, PTL DEF Spec
=============================================================================
