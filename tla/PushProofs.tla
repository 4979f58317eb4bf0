----------------------------- MODULE PushProofs -----------------------------
(* Theorems about Push, for every value of its constants. *)
EXTENDS Push, TLAPS

\* The locals of an idle thread are well typed.
LEMMA IdleType ==
  /\ Idle \in Job /\ Idle.pc = "idle" /\ Idle.delivered = {}
  /\ Idle.refused = {} /\ Idle.unanswered = {} /\ Idle.todo = {}
  <1>1. (CHOOSE r \in Runs : TRUE) \in Runs
    BY PushAssumption
  <1> QED
    BY <1>1, PushAssumption DEF Idle, Job, NobodyRead

\* Changing the locals of a thread within their types leaves them typed.
LEMMA LeaveType ==
  ASSUME NEW j \in Job, NEW S \in SUBSET Employees,
         NEW e \in Employees \cup {NoValue}, NEW n \in 0..MaxRetries
  PROVE  [j EXCEPT !.todo = S, !.current = e, !.attempt = n] \in Job
  BY DEF Job

LEMMA RetryType ==
  ASSUME NEW j \in Job, NEW e \in Employees, NEW n \in 0..MaxRetries
  PROVE  [j EXCEPT !.current = e, !.attempt = n] \in Job
  BY DEF Job

LEMMA DeleteType ==
  ASSUME NEW j \in Job, NEW S \in SUBSET Employees, NEW D \in SUBSET Employees
  PROVE  [j EXCEPT !.todo = S, !.delivered = D] \in Job
  BY DEF Job

LEMMA NameType ==
  ASSUME NEW j \in Job, NEW v \in Values \cup {NoValue},
         NEW X \in SUBSET (Values \cup {NoValue})
  PROVE  [j EXCEPT !.pc = "propose", !.example = v, !.examples = X] \in Job
  BY DEF Job

LEMMA RepairType ==
  ASSUME NEW j \in Job, NEW v \in Values \cup {NoValue}
  PROVE  [j EXCEPT !.pc = "repair", !.example = v] \in Job
  BY DEF Job

LEMMA FinishType ==
  ASSUME NEW j \in Job, NEW r \in Runs, NEW X \in SUBSET (Values \cup {NoValue})
  PROVE  [j EXCEPT !.pc = "repair", !.run = r, !.examples = X] \in Job
  BY DEF Job

\* The same for the rows of the escalations table.
LEMMA RowUpdates ==
  ASSUME NEW q \in Escalation, NEW u \in Values \cup {NoValue}
  PROVE  /\ [q EXCEPT !.open = FALSE] \in Escalation
         /\ [q EXCEPT !.repair_field = TRUE] \in Escalation
         /\ [q EXCEPT !.repair_field = TRUE, !.suggested = u] \in Escalation
  <1>1. [q EXCEPT !.open = FALSE] \in Escalation
    BY DEF Escalation
  <1>2. [q EXCEPT !.repair_field = TRUE] \in Escalation
    BY DEF Escalation
  <1>3. [q EXCEPT !.repair_field = TRUE, !.suggested = u] \in Escalation
    BY DEF Escalation
  <1> QED
    BY <1>1, <1>2, <1>3

\* Every question a push raises is a row of the table.
LEMMA QuestionType ==
  ASSUME NEW w \in Workers, NEW e \in Employees, TypeOK,
         job[w].snap[e] \in Values,
         NEW code \in {"PUSH_REJECTED", "PUSH_UNREACHABLE"}
  PROVE  Question(w, code, e) \in Escalation
  BY PushAssumption DEF Question, Escalation, TypeOK, Job

\* What a thread is sending, or was answered for, it has read.
Read ==
  \A w \in Workers :
    job[w].pc = "sending" =>
      \A e \in job[w].todo \cup job[w].delivered \cup job[w].refused
                 \cup job[w].unanswered : job[w].snap[e] \in Values

\* A push that has claimed nothing has delivered nothing.
FreshClaim ==
  \A w \in Workers : job[w].pc = "claim" =>
    /\ job[w].delivered = {} /\ job[w].refused = {} /\ job[w].unanswered = {}

TInv == TypeOK /\ Read /\ FreshClaim

\* Type correctness holds initially.
LEMMA TypeInit == Init => TInv
  <1> SUFFICES ASSUME Init PROVE TInv
    OBVIOUS
  <1>1. \A w \in Workers : job[w] = Idle
    BY DEF Init
  <1>2. job \in [Workers -> Job]
    BY IdleType DEF Init
  <1>3. TypeOK
    BY <1>2, PushAssumption DEF Init, TypeOK, Stage, Status, CandidateStatus
  <1>4. Read /\ FreshClaim
    BY <1>1, IdleType DEF Read, FreshClaim
  <1> QED
    BY <1>3, <1>4 DEF TInv

\* A thread that ends, or has not started, keeps the types.
LEMMA TypeIdle ==
  ASSUME TInv, NEW w \in Workers, job' = [job EXCEPT ![w] = Idle]
  PROVE  job' \in [Workers -> Job] /\ Read' /\ FreshClaim'
  BY IdleType DEF TInv, TypeOK, Read, FreshClaim

\* So does one whose new locals are well typed.
LEMMA TypeJob ==
  ASSUME TInv, NEW w \in Workers, NEW j \in Job,
         job' = [job EXCEPT ![w] = j],
         j.pc = "sending" =>
           \A e \in j.todo \cup j.delivered \cup j.refused \cup j.unanswered :
             j.snap[e] \in Values,
         j.pc = "claim" =>
           j.delivered = {} /\ j.refused = {} /\ j.unanswered = {}
  PROVE  job' \in [Workers -> Job] /\ Read' /\ FreshClaim'
  BY DEF TInv, TypeOK, Read, FreshClaim

\* Starting a thread keeps the types.
LEMMA TypeBegin ==
  ASSUME TInv, NEW w \in Workers, Begin(w)
  PROVE  TInv'
  <1> USE IdleType, PushAssumption
  <1>1. ASSUME NEW r \in Runs, BeginPush(w, r)  PROVE TInv'
    <2> DEFINE j == [Idle EXCEPT !.pc = "claim", !.run = r]
    <2>1. j \in Job /\ j.pc = "claim" /\ j.delivered = {} /\ j.refused = {}
          /\ j.unanswered = {}
      BY DEF Job
    <2>2. job' = [job EXCEPT ![w] = j]
      BY <1>1 DEF BeginPush
    <2>3. job' \in [Workers -> Job] /\ Read' /\ FreshClaim'
      BY <2>1, <2>2, TypeJob
    <2> QED
      BY <1>1, <2>3 DEF BeginPush, TInv, TypeOK, agent, target, bounds
  <1>2. ASSUME NEW r \in Runs, BeginRollback(w, r)  PROVE TInv'
    <2> DEFINE j == [Idle EXCEPT !.pc = "deleting", !.run = r,
                      !.todo = {e \in Employees : <<r, e>> \in push_attempts}]
    <2>1. j \in Job /\ j.pc = "deleting"
      BY DEF Job
    <2>2. job' = [job EXCEPT ![w] = j]
      BY <1>2 DEF BeginRollback
    <2>3. job' \in [Workers -> Job] /\ Read' /\ FreshClaim'
      BY <2>1, <2>2, TypeJob
    <2> QED
      BY <1>2, <2>3 DEF BeginRollback, TInv, TypeOK, agent, target, bounds
  <1> QED
    BY <1>1, <1>2 DEF Begin

\* Claiming and sending keep the types.
LEMMA TypeExchange ==
  ASSUME TInv, NEW w \in Workers,
         Claim(w) \/ \E e \in Employees : Exchange(w, e)
  PROVE  TInv'
  <1> USE PushAssumption DEF TInv
  <1>j. job[w] \in Job
    BY DEF TypeOK
  <1>1. CASE Claim(w)
    <2>1. \A e \in Employees : records[job[w].run][e].data \in Values
      BY <1>j DEF TypeOK, Job
    <2>2. job'[w] \in Job /\ job' = [job EXCEPT ![w] = job'[w]]
      BY <1>1, <1>j, <2>1 DEF Claim, TypeOK, Job, Candidates, Sendable
    <2>3. TypeOK'
      BY <1>1, <1>j, <2>2 DEF Claim, TypeOK, Job, Stage, target, bounds
    <2>4. \A e \in job'[w].todo : job'[w].snap[e] \in Values
      BY <1>1, <1>j, <2>1 DEF Claim, TypeOK, Job, Candidates, Sendable
    <2>5. /\ job'[w].pc = "sending" /\ job'[w].delivered = {}
          /\ job'[w].refused = {} /\ job'[w].unanswered = {}
      BY <1>1, <1>j DEF Claim, TypeOK, Job, FreshClaim
    <2>6. Read' /\ FreshClaim'
      BY <2>2, <2>4, <2>5, TypeJob
    <2> QED
      BY <2>3, <2>6
  <1>2. ASSUME NEW e \in Employees, Sending(w, e),
               NEW j \in Job, Leave(w, e, j),
               j.snap = job[w].snap, j.todo = job[w].todo,
               j.pc = job[w].pc, j.delivered \subseteq job[w].delivered \cup {e},
               j.refused \subseteq job[w].refused \cup {e},
               j.unanswered \subseteq job[w].unanswered \cup {e}
        PROVE  job' \in [Workers -> Job] /\ Read' /\ FreshClaim'
    <2> DEFINE k == [j EXCEPT !.todo = @ \ {e}, !.current = NoValue,
                              !.attempt = 0]
    <2>z. 0 \in 0..MaxRetries /\ NoValue \in Employees \cup {NoValue}
          /\ j.todo \ {e} \in SUBSET Employees
      BY <1>2 DEF Job
    <2>a. k \in Job
      BY <1>2, <2>z, LeaveType
    <2>b. k.todo = j.todo \ {e} /\ k.pc = j.pc /\ k.snap = j.snap
          /\ k.delivered = j.delivered /\ k.refused = j.refused
          /\ k.unanswered = j.unanswered
      BY <1>2 DEF Job
    <2>1. k \in Job /\ k.todo = j.todo \ {e} /\ k.pc = "sending"
          /\ k.snap = j.snap /\ k.delivered = j.delivered
          /\ k.refused = j.refused /\ k.unanswered = j.unanswered
      BY <1>2, <2>a, <2>b DEF Sending
    <2>2. job' = [job EXCEPT ![w] = k]
      BY <1>2 DEF Leave
    <2>3. \A x \in k.todo \cup k.delivered \cup k.refused \cup k.unanswered :
            k.snap[x] \in Values
      BY <1>2, <2>1 DEF Read, Sending
    <2> QED
      BY <2>1, <2>2, <2>3, TypeJob
  <1>3. ASSUME NEW e \in Employees, PostAccepted(w, e)  PROVE TInv'
    <2> DEFINE j == [job[w] EXCEPT !.delivered = @ \cup {e}]
    <2>1. j \in Job /\ j.snap = job[w].snap /\ j.todo = job[w].todo
          /\ j.pc = job[w].pc /\ j.refused = job[w].refused
          /\ j.unanswered = job[w].unanswered
          /\ j.delivered = job[w].delivered \cup {e}
      BY <1>j DEF Job
    <2>2. job' \in [Workers -> Job] /\ Read' /\ FreshClaim'
      BY <1>2, <1>3, <2>1 DEF PostAccepted
    <2>3. job[w].snap[e] \in Values
      BY <1>3 DEF PostAccepted, Sending, Read
    <2> QED
      BY <1>3, <1>j, <2>2, <2>3 DEF PostAccepted, Upsert, TypeOK, agent, bounds, Key,
                               Row, Job
  <1>4. ASSUME NEW e \in Employees, PostReplayed(w, e)  PROVE TInv'
    <2> DEFINE j == [job[w] EXCEPT !.delivered = @ \cup {e}]
    <2>1. j \in Job /\ j.snap = job[w].snap /\ j.todo = job[w].todo
          /\ j.pc = job[w].pc /\ j.refused = job[w].refused
          /\ j.unanswered = job[w].unanswered
          /\ j.delivered = job[w].delivered \cup {e}
      BY <1>j DEF Job
    <2>2. job' \in [Workers -> Job] /\ Read' /\ FreshClaim'
      BY <1>2, <1>4, <2>1 DEF PostReplayed
    <2> QED
      BY <1>4, <2>2 DEF PostReplayed, TypeOK, agent, target, bounds
  <1>5. ASSUME NEW e \in Employees, PostRefused(w, e)  PROVE TInv'
    <2> DEFINE j == [job[w] EXCEPT !.refused = @ \cup {e}]
    <2>1. j \in Job /\ j.snap = job[w].snap /\ j.todo = job[w].todo
          /\ j.pc = job[w].pc /\ j.delivered = job[w].delivered
          /\ j.unanswered = job[w].unanswered
          /\ j.refused = job[w].refused \cup {e}
      BY <1>j DEF Job
    <2>2. job' \in [Workers -> Job] /\ Read' /\ FreshClaim'
      BY <1>2, <1>5, <2>1 DEF PostRefused
    <2> QED
      BY <1>5, <2>2 DEF PostRefused, TypeOK, agent, target, bounds
  <1>6. ASSUME NEW e \in Employees, PostUnanswered(w, e)  PROVE TInv'
    <2> DEFINE j == [job[w] EXCEPT !.unanswered = @ \cup {e}]
    <2>1. j \in Job /\ j.snap = job[w].snap /\ j.todo = job[w].todo
          /\ j.pc = job[w].pc /\ j.delivered = job[w].delivered
          /\ j.refused = job[w].refused
          /\ j.unanswered = job[w].unanswered \cup {e}
      BY <1>j DEF Job
    <2>2. job' \in [Workers -> Job] /\ Read' /\ FreshClaim'
      BY <1>2, <1>6, <2>1 DEF PostUnanswered
    <2> QED
      BY <1>6, <2>2 DEF PostUnanswered, TypeOK, agent, target, bounds
  <1>7. ASSUME NEW e \in Employees, PostRetried(w, e)  PROVE TInv'
    <2> DEFINE j == [job[w] EXCEPT !.current = e, !.attempt = @ + 1]
    <2>1. job' = [job EXCEPT ![w] = j]
      BY <1>7 DEF PostRetried
    <2>a. job[w].attempt \in 0..MaxRetries /\ job[w].attempt < MaxRetries
      BY <1>j, <1>7 DEF Job, PostRetried
    <2>b. job[w].attempt + 1 \in 0..MaxRetries
      BY <2>a
    <2>c. j \in Job
      BY <1>j, <2>b, RetryType
    <2>2. j \in Job /\ j.snap = job[w].snap /\ j.todo = job[w].todo
          /\ j.pc = job[w].pc /\ j.delivered = job[w].delivered
          /\ j.refused = job[w].refused /\ j.unanswered = job[w].unanswered
      BY <1>j, <2>c DEF Job
    <2>3. job' \in [Workers -> Job] /\ Read' /\ FreshClaim'
      BY <2>1, <2>2, TypeJob DEF Read, FreshClaim
    <2> QED
      BY <1>7, <2>3 DEF PostRetried, TypeOK, agent, target, bounds
  <1>8. ASSUME NEW e \in Employees, Delete(w, e)  PROVE TInv'
    <2> DEFINE j == [job[w] EXCEPT !.todo = @ \ {e},
          !.delivered = IF target_employees[e] = NoValue THEN @ ELSE @ \cup {e}]
    <2>1. job' = [job EXCEPT ![w] = j]
      BY <1>8 DEF Delete
    <2>a. job[w].todo \ {e} \in SUBSET Employees
          /\ (IF target_employees[e] = NoValue THEN job[w].delivered
              ELSE job[w].delivered \cup {e}) \in SUBSET Employees
      BY <1>j DEF Job
    <2>b. j \in Job
      BY <1>j, <2>a, DeleteType
    <2>2. j \in Job /\ j.pc = "deleting"
      BY <1>j, <1>8, <2>b DEF Job, Delete
    <2>3. job' \in [Workers -> Job] /\ Read' /\ FreshClaim'
      BY <2>1, <2>2, TypeJob
    <2> QED
      BY <1>8, <2>3 DEF Delete, TypeOK, agent, bounds
  <1> QED
    BY <1>1, <1>3, <1>4, <1>5, <1>6, <1>7, <1>8 DEF Exchange

\* The last transactions, the corrections and the ends of threads keep them.
LEMMA TypeFinish ==
  ASSUME TInv, NEW w \in Workers,
         \/ Finish(w) \/ Propose(w) \/ FinishRollback(w) \/ Fail(w)
         \/ \E v \in Values \cup {NoValue} : NameField(w, v)
  PROVE  TInv'
  <1> USE PushAssumption DEF TInv
  <1>j. job[w] \in Job
    BY DEF TypeOK
  <1>1. CASE Finish(w)
    <2> DEFINE news == NewQuestions(w)
               ex == {job[w].snap[e] : e \in job[w].refused} \cup
                     {NoValue : e \in job[w].unanswered}
               j == [Idle EXCEPT !.pc = "repair", !.run = job[w].run,
                                 !.examples = ex]
    <2>1. \A e \in job[w].delivered \cup job[w].refused \cup job[w].unanswered :
            e \in Employees /\ job[w].snap[e] \in Values
      BY <1>1, <1>j DEF Finish, Read, Job
    <2>2. news \subseteq Escalation
      BY <2>1, QuestionType DEF NewQuestions
    <2>3. \A q \in escalations :
            [q EXCEPT !.open = FALSE] \in Escalation
      BY RowUpdates DEF TypeOK
    <2>4. escalations' \subseteq Escalation
      BY <1>1, <2>2, <2>3 DEF Finish, TypeOK
    <2>5. records' \in [Runs -> [Employees -> [status: Status, data: Values]]]
      <3> DEFINE r == job[w].run
                 Rec == [status: Status, data: Values]
                 f == [e \in Employees |->
                         IF e \in job[w].incomplete
                         THEN [records[r][e] EXCEPT !.status = "incomplete"]
                         ELSE records[r][e]]
      <3>1. r \in Runs /\ \A e \in Employees : records[r][e] \in Rec
        BY <1>j DEF TypeOK, Job
      <3>2. \A x \in Rec : [x EXCEPT !.status = "incomplete"] \in Rec
        BY DEF Status
      <3>3. f \in [Employees -> Rec]
        BY <3>1, <3>2
      <3>4. records' = [records EXCEPT ![r] = f]
        BY <1>1, <3>1 DEF Finish, TypeOK
      <3> QED
        BY <3>1, <3>3, <3>4 DEF TypeOK
    <2>6. pushed_state' \in [Employees -> Row \cup {NoValue}]
      BY <1>1, <1>j, <2>1 DEF Finish, TypeOK, Job, Row
    <2>7. job' \in [Workers -> Job] /\ Read' /\ FreshClaim'
      <3>0. job[w].run \in Runs /\ ex \in SUBSET (Values \cup {NoValue})
        BY <1>j, <2>1 DEF Job
      <3>1. j \in Job /\ j.pc = "repair"
        BY <3>0, IdleType, FinishType DEF Job
      <3>2. CASE news = {}
        BY <1>1, <3>2, TypeIdle DEF Finish
      <3>3. CASE news # {}
        BY <1>1, <3>1, <3>3, TypeJob DEF Finish
      <3> QED
        BY <3>2, <3>3
    <2>8. push_attempts' \subseteq Runs \X Employees /\ asked' \in Nat
          /\ stage' \in [Runs -> Stage]
      BY <1>1, <1>j DEF Finish, TypeOK, Job, Stage
    <2> QED
      BY <1>1, <2>4, <2>5, <2>6, <2>7, <2>8 DEF Finish, TypeOK, target, bounds
  <1>2. ASSUME NEW v \in Values \cup {NoValue}, NameField(w, v)  PROVE TInv'
    <2> DEFINE j == [job[w] EXCEPT !.pc = "propose", !.example = v,
                                   !.examples = @ \ {v}]
    <2>a. job[w].examples \ {v} \in SUBSET (Values \cup {NoValue})
      BY <1>j DEF Job
    <2>1. j \in Job /\ j.pc = "propose"
      BY <1>j, <2>a, NameType DEF Job
    <2>2. job' = [job EXCEPT ![w] = j]
      BY <1>2 DEF NameField
    <2>3. job' \in [Workers -> Job] /\ Read' /\ FreshClaim'
      BY <2>1, <2>2, TypeJob
    <2>4. \A q \in escalations : [q EXCEPT !.repair_field = TRUE] \in Escalation
      BY RowUpdates DEF TypeOK
    <2>5. escalations' \subseteq Escalation
      <3>1. PICK named \in BOOLEAN : escalations' =
              {IF About(w, v, q) /\ named
               THEN [q EXCEPT !.repair_field = TRUE] ELSE q : q \in escalations}
        BY <1>2 DEF NameField
      <3>2. \A q \in escalations :
              (IF About(w, v, q) /\ named
               THEN [q EXCEPT !.repair_field = TRUE] ELSE q) \in Escalation
        BY <2>4 DEF TypeOK
      <3> QED
        BY <3>1, <3>2
    <2> QED
      BY <1>2, <2>3, <2>5 DEF NameField, TypeOK, target, bounds
  <1>3. CASE Propose(w)
    <2> DEFINE j == [job[w] EXCEPT !.pc = "repair", !.example = NoValue]
    <2>1. j \in Job /\ j.pc = "repair"
      BY <1>j, RepairType DEF Job
    <2>2. job' \in [Workers -> Job] /\ Read' /\ FreshClaim'
      <3>1. CASE job[w].examples = {}
        BY <1>3, <3>1, TypeIdle DEF Propose
      <3>2. CASE job[w].examples # {}
        BY <1>3, <2>1, <3>2, TypeJob DEF Propose, TypeOK
      <3> QED
        BY <3>1, <3>2
    <2>3. \A q \in escalations, u \in Values \cup {NoValue} :
            [q EXCEPT !.repair_field = TRUE, !.suggested = u] \in Escalation
      BY RowUpdates DEF TypeOK
    <2>4. escalations' \subseteq Escalation
      <3>1. PICK u \in Values \cup {NoValue} : escalations' =
              {IF About(w, job[w].example, q) /\ u # NoValue
               THEN [q EXCEPT !.repair_field = TRUE, !.suggested = u]
               ELSE q : q \in escalations}
        BY <1>3 DEF Propose
      <3>2. \A q \in escalations :
              (IF About(w, job[w].example, q) /\ u # NoValue
               THEN [q EXCEPT !.repair_field = TRUE, !.suggested = u]
               ELSE q) \in Escalation
        BY <2>3 DEF TypeOK
      <3> QED
        BY <3>1, <3>2
    <2> QED
      BY <1>3, <2>2, <2>4 DEF Propose, TypeOK, target, bounds
  <1>4. CASE FinishRollback(w)
    BY <1>4, <1>j, TypeIdle
      DEF FinishRollback, TypeOK, Job, Stage, target, bounds
  <1>5. CASE Stop(w)
    BY <1>5, <1>j, TypeIdle DEF Stop, Died, TypeOK, Job, Stage, target, bounds
  <1>6. ASSUME NEW e \in Employees, StopUnheard(w, e)  PROVE TInv'
    <2>1. job[w].snap[e] \in Values /\ job[w].run \in Runs
      BY <1>6, <1>j DEF StopUnheard, Sending, Read, Job
    <2>2. [run |-> job[w].run, data |-> job[w].snap[e]] \in Row
      BY <2>1 DEF Row
    <2>3. /\ target_employees' \in [Employees -> Row \cup {NoValue}]
          /\ idempotency' \subseteq Runs \X Employees
          /\ disturbed' \subseteq Employees
      BY <1>6, <2>1, <2>2 DEF StopUnheard, Upsert, Key, TypeOK
    <2>4. /\ job' \in [Workers -> Job] /\ Read' /\ FreshClaim'
          /\ stage' \in [Runs -> Stage]
      BY <1>6, <2>1, TypeIdle DEF StopUnheard, Died, TypeOK, Stage
    <2> QED
      BY <1>6, <2>3, <2>4 DEF StopUnheard, TypeOK, bounds
  <1>7. CASE StopRollback(w)
    BY <1>7, TypeIdle DEF StopRollback, TypeOK, agent, target, bounds
  <1> QED
    BY <1>1, <1>2, <1>3, <1>4, <1>5, <1>6, <1>7 DEF Fail

\* So does what a person answers.
LEMMA TypeHuman ==
  ASSUME TInv, Human
  PROVE  TInv'
  <1> USE PushAssumption DEF TInv
  <1>1. ASSUME NEW ps \in SUBSET escalations
        PROVE  (escalations \ ps) \cup {[p EXCEPT !.open = FALSE] : p \in ps}
                 \subseteq Escalation
    BY RowUpdates DEF TypeOK
  <1>2. ASSUME NEW r \in Runs, NEW es \in SUBSET Employees, Answered(r, es)
        PROVE  /\ disturbed' \subseteq Employees
               /\ touched' \subseteq Runs \X Employees
               /\ answers' \in 0..MaxAnswers
    BY <1>2 DEF Answered, TypeOK
  <1>3. ASSUME NEW q \in escalations, NEW action \in {"reject", "approve", "edit"},
               NEW typed \in Values \cup {NoValue}, NEW all \in BOOLEAN,
               Answer(q, action, typed, all)
        PROVE  TInv'
    <2> DEFINE ps == Closed(q, action, typed, all)
               value == [p \in ps |-> ValueFor(p, q, action, typed)]
               repairs(e) == {p \in ps : p.employee = e
                                         /\ p.code = "PUSH_REJECTED"}
    <2>q. q \in Escalation /\ q.run \in Runs
      BY DEF TypeOK, Escalation
    <2>1. ps \in SUBSET escalations
      BY DEF Closed, Selected
    <2>2. \A p \in ps : p \in Escalation
                        /\ value[p] \in Values \cup {NoValue}
      BY <2>q, <2>1 DEF ValueFor, TypeOK, Escalation
    <2>3. ASSUME NEW record \in [status: Status, data: Values],
                 NEW e \in Employees, NEW last \in repairs(e)
          PROVE  Repaired(record, repairs(e), action, value, last)
                   \in [status: Status, data: Values]
      <3> DEFINE excluded == action = "reject"
                             \/ \E p \in repairs(e) : value[p] = NoValue
      <3>1. CASE excluded
        <4>1. [record EXCEPT !.status = "excluded"]
                \in [status: Status, data: Values]
          BY DEF Status
        <4> QED
          BY <3>1, <4>1 DEF Repaired
      <3>2. CASE ~excluded /\ ~last.repair_field
        BY <3>2 DEF Repaired
      <3>3. CASE ~excluded /\ last.repair_field
        <4>2. value[last] \in Values
          BY <2>2, <3>3
        <4>3. (IF record.status = "excluded" THEN "clean" ELSE record.status)
                \in Status
          BY DEF Status, CandidateStatus
        <4> HIDE DEF value
        <4> QED
          BY <3>3, <4>2, <4>3 DEF Repaired
      <3> QED
        BY <3>1, <3>2, <3>3
    <2>4. records' \in [Runs -> [Employees -> [status: Status, data: Values]]]
      <3>l. PICK last \in [Employees -> ps] :
              /\ \A e \in Employees : repairs(e) # {} => last[e] \in MayBeLast(repairs(e))
              /\ records' = [records EXCEPT ![q.run] = [e \in Employees |->
                   IF repairs(e) = {} THEN @[e]
                   ELSE Repaired(@[e], repairs(e), action, value, last[e])]]
        BY <1>3 DEF Answer
      <3> DEFINE Rec == [status: Status, data: Values]
                 f == [e \in Employees |->
                         IF repairs(e) = {} THEN records[q.run][e]
                         ELSE Repaired(records[q.run][e], repairs(e), action,
                                       value, last[e])]
      <3>1. \A e \in Employees : records[q.run][e] \in Rec
        BY <2>q DEF TypeOK
      <3>2. f \in [Employees -> Rec]
        BY <2>3, <3>1, <3>l DEF MayBeLast
      <3>3. records' = [records EXCEPT ![q.run] = f]
        BY <3>l
      <3> QED
        BY <2>q, <3>2, <3>3 DEF TypeOK
    <2>5. escalations' \subseteq Escalation
      BY <1>1, <1>3, <2>1 DEF Answer
    <2>6. /\ disturbed' \subseteq Employees
          /\ touched' \subseteq Runs \X Employees
          /\ answers' \in 0..MaxAnswers
      <3>1. {p.employee : p \in ps} \in SUBSET Employees
        BY <2>2 DEF Escalation
      <3>2. Answered(q.run, {p.employee : p \in ps})
        BY <1>3 DEF Answer
      <3> QED
        BY <1>2, <2>q, <3>1, <3>2
    <2> QED
      BY <1>3, <2>4, <2>5, <2>6
        DEF Answer, TypeOK, Read, FreshClaim, target
  <1>4. ASSUME NEW r \in Runs, NEW e \in Employees, NEW v \in Values,
               NEW ps \in SUBSET escalations, Fill(r, e, v, ps)
        PROVE  TInv'
    <2>1. records' \in [Runs -> [Employees -> [status: Status, data: Values]]]
      <3> DEFINE new == [status |-> IF records[r][e].status \in CandidateStatus
                                    THEN records[r][e].status
                                    ELSE IF v \in Complete THEN "clean"
                                         ELSE "incomplete",
                         data |-> v]
      <3>1. new \in [status: Status, data: Values]
        BY DEF TypeOK, Status, CandidateStatus
      <3>2. records' = [records EXCEPT ![r][e] = new]
        BY <1>4 DEF Fill
      <3> HIDE DEF new
      <3> QED
        BY <3>1, <3>2 DEF TypeOK
    <2>2. escalations' \subseteq Escalation
      BY <1>1, <1>4 DEF Fill
    <2>3. /\ disturbed' \subseteq Employees
          /\ touched' \subseteq Runs \X Employees
          /\ answers' \in 0..MaxAnswers
      <3>1. Answered(r, {e})
        BY <1>4 DEF Fill
      <3> QED
        BY <1>2, <3>1
    <2> QED
      BY <1>4, <2>1, <2>2, <2>3 DEF Fill, TypeOK, Read, FreshClaim, target
  <1>5. ASSUME NEW q \in escalations, NEW v \in Values, FillRefused(q, v)
        PROVE  TInv'
    <2>1. q.run \in Runs /\ q.employee \in Employees
      BY DEF TypeOK, Escalation
    <2> QED
      BY <1>4, <1>5, <2>1 DEF FillRefused
  <1>6. ASSUME NEW r \in Runs, NEW e \in Employees, NEW v \in Values,
               FillOther(r, e, v)
        PROVE  TInv'
    BY <1>4, <1>6 DEF FillOther
  <1> QED
    BY <1>3, <1>5, <1>6 DEF Human

\* Every step keeps the types.
LEMMA TypeNext ==
  ASSUME TInv, [Next]_vars
  PROVE  TInv'
  <1>1. ASSUME NEW w \in Workers, Begin(w) \/ Run(w) \/ Fail(w)  PROVE TInv'
    BY <1>1, TypeBegin, TypeExchange, TypeFinish DEF Run
  <1>2. CASE Kill
    BY <1>2, IdleType DEF Kill, TInv, TypeOK, Read, FreshClaim, agent, target,
                          bounds
  <1>3. CASE RestartTarget
    BY <1>3 DEF RestartTarget, TInv, TypeOK, Read, FreshClaim, agent, bounds
  <1>4. CASE Human
    BY <1>4, TypeHuman
  <1>5. CASE UNCHANGED vars
    BY <1>5 DEF vars, TInv, TypeOK, Read, FreshClaim, agent, target, bounds
  <1> QED
    BY <1>1, <1>2, <1>3, <1>4, <1>5 DEF Next

\* TypeOK is an invariant (push.py, mock_target_api.py, resolve.py): no
\* interleaving of pushes, rollbacks, answers and crashes leaves a table, or a
\* local of a thread, with a value of the wrong kind.
THEOREM TypeCorrect == Spec => []TypeOK
  <1>1. Init => TInv
    BY TypeInit
  <1>2. TInv /\ [Next]_vars => TInv'
    BY TypeNext
  <1>3. TInv => TypeOK
    BY DEF TInv
  <1> QED
    BY <1>1, <1>2, <1>3, PTL DEF Spec
-----------------------------------------------------------------------------
(* Belief. *)

\* What a thread still has to send of an undisturbed employee is what the
\* record says.
SendsTheRecord ==
  \A w \in Workers : job[w].pc = "sending" =>
    \A e \in job[w].todo \ disturbed :
      job[w].snap[e] = records[job[w].run][e].data

\* Nobody has anything recorded about an undisturbed employee the target does
\* not hold.
UnheldIsUnknown ==
  \A e \in Employees \ disturbed : target_employees[e] = NoValue =>
    /\ pushed_state[e] = NoValue
    /\ \A r \in Runs : <<r, e>> \notin idempotency
    /\ \A w \in Workers : job[w].pc = "sending" => e \notin job[w].delivered

\* The record, the keys, the deliveries and the belief of an undisturbed
\* employee the target holds all agree with the target.
HeldIsAgreed ==
  \A e \in Employees \ disturbed : target_employees[e] # NoValue =>
    /\ records[target_employees[e].run][e].data = target_employees[e].data
    /\ \A r \in Runs : <<r, e>> \in idempotency => r = target_employees[e].run
    /\ \A w \in Workers : (job[w].pc = "sending" /\ e \in job[w].delivered) =>
         /\ job[w].run = target_employees[e].run
         /\ job[w].snap[e] = target_employees[e].data
    /\ pushed_state[e] \in {NoValue, target_employees[e]}

BInv == SendsTheRecord /\ UnheldIsUnknown /\ HeldIsAgreed

\* A step that only touches threads that are not sending keeps BInv.
LEMMA BeliefQuiet ==
  ASSUME TInv, BInv, NEW w \in Workers, NEW j \in Job,
         job' = [job EXCEPT ![w] = j], j.pc # "sending",
         UNCHANGED <<records, pushed_state, target_employees, idempotency,
                     disturbed>>
  PROVE  BInv'
  BY DEF TInv, TypeOK, BInv, SendsTheRecord, UnheldIsUnknown, HeldIsAgreed

\* An employee the target accepts for a run is held as that run has it, and
\* what else was recorded of it, if it stays undisturbed, said the same.
LEMMA BeliefUpsert ==
  ASSUME TInv, BInv, NEW w \in Workers, NEW e \in Employees,
         Sending(w, e), Upsert(w, e), NEW j \in Job,
         job' = [job EXCEPT ![w] = j],
         \/ j.pc # "sending"
         \/ /\ j.snap = job[w].snap /\ j.run = job[w].run
            /\ j.todo \subseteq job[w].todo
            /\ j.delivered \subseteq job[w].delivered \cup {e},
         UNCHANGED <<records, pushed_state>>
  PROVE  BInv'
  <1> USE PushAssumption
  <1> DEFINE r == job[w].run
             d == job[w].snap[e]
  <1>0. job[w] \in Job /\ r \in Runs /\ job[w].pc = "sending" /\ e \in job[w].todo
    BY DEF TInv, TypeOK, Job, Sending
  <1>1. /\ target_employees' = [target_employees EXCEPT ![e] = [run |-> r, data |-> d]]
        /\ target_employees'[e] = [run |-> r, data |-> d]
        /\ \A x \in Employees : x # e => target_employees'[x] = target_employees[x]
        /\ idempotency' = idempotency \cup {<<r, e>>}
    BY DEF Upsert, Key, TInv, TypeOK
  <1>2. d \in Values /\ [run |-> r, data |-> d] \in Row
        /\ [run |-> r, data |-> d] # NoValue
    BY <1>0 DEF TInv, Read, Row
  <1>3. disturbed \subseteq disturbed'
    BY DEF Upsert
  <1>4. e \notin disturbed' =>
          /\ e \notin disturbed
          /\ target_employees[e] # NoValue => target_employees[e].run = r
    BY DEF Upsert
  <1>5. e \notin disturbed => d = records[r][e].data
    BY <1>0 DEF BInv, SendsTheRecord
  <1>6. e \notin disturbed' /\ target_employees[e] # NoValue
          => target_employees[e] = [run |-> r, data |-> d]
    <2> SUFFICES ASSUME e \notin disturbed', target_employees[e] # NoValue
                 PROVE target_employees[e] = [run |-> r, data |-> d]
      OBVIOUS
    <2>1. target_employees[e] \in Row
      BY DEF TInv, TypeOK
    <2>2. target_employees[e].run = r /\ target_employees[e].data = d
      BY <1>4, <1>5 DEF BInv, HeldIsAgreed
    <2> QED
      BY <2>1, <2>2 DEF Row
  <1>7. SendsTheRecord'
    <2> SUFFICES ASSUME NEW v \in Workers, job'[v].pc = "sending",
                        NEW x \in job'[v].todo \ disturbed'
                 PROVE  job'[v].snap[x] = records[job'[v].run][x].data
      BY DEF SendsTheRecord
    <2>1. x \notin disturbed
      BY <1>3
    <2>2. CASE v = w
      BY <1>0, <2>1, <2>2 DEF BInv, SendsTheRecord, TInv, TypeOK
    <2>3. CASE v # w
      BY <2>1, <2>3 DEF BInv, SendsTheRecord, TInv, TypeOK
    <2> QED
      BY <2>2, <2>3
  <1>8. UnheldIsUnknown'
    <2> SUFFICES ASSUME NEW x \in Employees \ disturbed',
                        target_employees'[x] = NoValue
                 PROVE  /\ pushed_state[x] = NoValue
                        /\ \A s \in Runs : <<s, x>> \notin idempotency'
                        /\ \A v \in Workers : job'[v].pc = "sending"
                                                => x \notin job'[v].delivered
      BY DEF UnheldIsUnknown
    <2>1. x # e /\ target_employees[x] = NoValue /\ x \notin disturbed
      BY <1>1, <1>2, <1>3
    <2> QED
      BY <1>0, <1>1, <2>1 DEF BInv, UnheldIsUnknown, TInv, TypeOK
  <1>9. HeldIsAgreed'
    <2> SUFFICES ASSUME NEW x \in Employees \ disturbed',
                        target_employees'[x] # NoValue
                 PROVE  /\ records[target_employees'[x].run][x].data
                             = target_employees'[x].data
                        /\ \A s \in Runs : <<s, x>> \in idempotency'
                             => s = target_employees'[x].run
                        /\ \A v \in Workers :
                             (job'[v].pc = "sending" /\ x \in job'[v].delivered) =>
                               /\ job'[v].run = target_employees'[x].run
                               /\ job'[v].snap[x] = target_employees'[x].data
                        /\ pushed_state[x] \in {NoValue, target_employees'[x]}
      BY DEF HeldIsAgreed
    <2>1. CASE x # e
      BY <1>0, <1>1, <1>3, <2>1 DEF BInv, HeldIsAgreed, TInv, TypeOK
    <2>2. CASE x = e /\ target_employees[e] = NoValue
      BY <1>0, <1>1, <1>2, <1>4, <1>5, <2>2 DEF BInv, UnheldIsUnknown, TInv, TypeOK
    <2>3. CASE x = e /\ target_employees[e] # NoValue
      BY <1>0, <1>1, <1>2, <1>4, <1>5, <1>6, <2>3 DEF BInv, HeldIsAgreed, TInv, TypeOK
    <2> QED
      BY <2>1, <2>2, <2>3
  <1> QED
    BY <1>7, <1>8, <1>9 DEF BInv
\* A sender that goes on without the target changing, and counts as delivered
\* only what the target had already accepted, keeps BInv.
LEMMA BeliefExchange ==
  ASSUME TInv, BInv, NEW w \in Workers, job[w].pc = "sending", NEW j \in Job,
         job' = [job EXCEPT ![w] = j],
         j.snap = job[w].snap, j.run = job[w].run, j.todo \subseteq job[w].todo,
         \A x \in j.delivered \ job[w].delivered :
           x \in job[w].todo /\ <<job[w].run, x>> \in idempotency,
         UNCHANGED <<records, pushed_state, target_employees, idempotency,
                     disturbed>>
  PROVE  BInv'
  <1>1. /\ job[w] \in Job /\ job[w].run \in Runs
        /\ job'[w] = j /\ \A v \in Workers : v # w => job'[v] = job[v]
    BY DEF TInv, TypeOK, Job
  <1>2. SendsTheRecord'
    BY <1>1 DEF BInv, SendsTheRecord
  <1>3. UnheldIsUnknown'
    BY <1>1 DEF BInv, UnheldIsUnknown
  <1>4. HeldIsAgreed'
    <2> SUFFICES ASSUME NEW x \in Employees \ disturbed,
                        target_employees[x] # NoValue,
                        NEW v \in Workers, job'[v].pc = "sending",
                        x \in job'[v].delivered
                 PROVE  /\ job'[v].run = target_employees[x].run
                        /\ job'[v].snap[x] = target_employees[x].data
      BY DEF HeldIsAgreed, BInv
    <2>1. CASE v = w /\ x \notin job[w].delivered
      <3>1. x \in job[w].todo /\ <<job[w].run, x>> \in idempotency
        BY <1>1, <2>1
      <3>2. job[w].run = target_employees[x].run
        BY <1>1, <3>1 DEF BInv, HeldIsAgreed
      <3>3. job[w].snap[x] = records[job[w].run][x].data
        BY <3>1 DEF BInv, SendsTheRecord
      <3>4. records[target_employees[x].run][x].data = target_employees[x].data
        BY DEF BInv, HeldIsAgreed
      <3> QED
        BY <1>1, <2>1, <3>2, <3>3, <3>4
    <2>2. CASE v = w /\ x \in job[w].delivered
      BY <1>1, <2>2 DEF BInv, HeldIsAgreed
    <2>3. CASE v # w
      BY <1>1, <2>3 DEF BInv, HeldIsAgreed
    <2> QED
      BY <2>1, <2>2, <2>3
  <1> QED
    BY <1>2, <1>3, <1>4 DEF BInv

\* What a claim reads is what the records say.
LEMMA BeliefClaim ==
  ASSUME TInv, BInv, NEW w \in Workers, Claim(w)
  PROVE  BInv'
  <1> DEFINE r == job[w].run
             read == [e \in Employees |-> IF e \in Candidates(r)
                                          THEN records[r][e].data ELSE NoValue]
  <1>1. /\ job[w] \in Job /\ r \in Runs /\ job[w].delivered = {}
        /\ \A v \in Workers : v # w => job'[v] = job[v]
    BY DEF TInv, TypeOK, FreshClaim, Job, Claim
  <1>2. /\ job'[w].run = r /\ job'[w].delivered = {} /\ job'[w].snap = read
        /\ job'[w].todo \subseteq Candidates(r)
    BY <1>1 DEF Claim, TInv, TypeOK, Job, Sendable
  <1>3. UNCHANGED <<records, pushed_state, target_employees, idempotency, disturbed>>
    BY DEF Claim, target
  <1>4. SendsTheRecord'
    <2> SUFFICES ASSUME NEW v \in Workers, job'[v].pc = "sending",
                        NEW x \in job'[v].todo \ disturbed
                 PROVE  job'[v].snap[x] = records[job'[v].run][x].data
      BY <1>3 DEF SendsTheRecord
    <2>1. CASE v = w
      <3>1. x \in Candidates(r) /\ x \in Employees
        BY <1>2, <2>1 DEF Candidates
      <3> QED
        BY <1>2, <2>1, <3>1
    <2>2. CASE v # w
      BY <1>1, <2>2 DEF BInv, SendsTheRecord
    <2> QED
      BY <2>1, <2>2
  <1>5. UnheldIsUnknown'
    BY <1>1, <1>2, <1>3 DEF BInv, UnheldIsUnknown
  <1>6. HeldIsAgreed'
    BY <1>1, <1>2, <1>3 DEF BInv, HeldIsAgreed
  <1> QED
    BY <1>4, <1>5, <1>6 DEF BInv

\* The last transaction of a push records what the target holds.
LEMMA BeliefFinish ==
  ASSUME TInv, BInv, NEW w \in Workers, Finish(w)
  PROVE  BInv'
  <1> DEFINE r == job[w].run
  <1>1. /\ job[w] \in Job /\ r \in Runs /\ job[w].pc = "sending"
        /\ job[w].delivered \subseteq Employees
        /\ \A v \in Workers : v # w => job'[v] = job[v]
        /\ UNCHANGED <<target_employees, idempotency, disturbed>>
    BY DEF TInv, TypeOK, Job, Finish, target
  <1>2. job'[w].pc # "sending"
    <2>1. \/ job' = [job EXCEPT ![w] = Idle]
          \/ \E X : job' = [job EXCEPT ![w] = [Idle EXCEPT
                      !.pc = "repair", !.run = r, !.examples = X]]
      BY DEF Finish
    <2>2. \A X : [Idle EXCEPT !.pc = "repair", !.run = r, !.examples = X].pc
                   = "repair"
      BY IdleType DEF Job
    <2> QED
      BY <2>1, <2>2, IdleType DEF TInv, TypeOK
  <1>3. \A s \in Runs, x \in Employees : records'[s][x].data = records[s][x].data
    <2>1. \A x \in Employees : records[r][x] \in [status: Status, data: Values]
      BY <1>1 DEF TInv, TypeOK
    <2>2. records' = [records EXCEPT ![r] = [x \in Employees |->
            IF x \in job[w].incomplete
            THEN [records[r][x] EXCEPT !.status = "incomplete"]
            ELSE records[r][x]]]
      BY DEF Finish
    <2> QED
      BY <1>1, <2>1, <2>2 DEF TInv, TypeOK
  <1>4. pushed_state' = [x \in Employees |->
          IF x \in job[w].delivered THEN [run |-> r, data |-> job[w].snap[x]]
                                    ELSE pushed_state[x]]
    BY DEF Finish
  <1>5. SendsTheRecord'
    <2> SUFFICES ASSUME NEW v \in Workers, job'[v].pc = "sending",
                        NEW x \in job'[v].todo \ disturbed
                 PROVE  job'[v].snap[x] = records'[job'[v].run][x].data
      BY <1>1 DEF SendsTheRecord
    <2>1. v # w /\ job'[v] = job[v]
      BY <1>1, <1>2
    <2>2. job[v].run \in Runs /\ x \in Employees
      BY <2>1 DEF TInv, TypeOK, Job
    <2> QED
      BY <1>3, <2>1, <2>2 DEF BInv, SendsTheRecord
  <1>6. UnheldIsUnknown'
    BY <1>1, <1>2, <1>4 DEF BInv, UnheldIsUnknown
  <1>7. HeldIsAgreed'
    <2> SUFFICES ASSUME NEW x \in Employees \ disturbed,
                        target_employees[x] # NoValue
                 PROVE  /\ records'[target_employees[x].run][x].data
                             = target_employees[x].data
                        /\ \A s \in Runs : <<s, x>> \in idempotency
                             => s = target_employees[x].run
                        /\ \A v \in Workers :
                             (job'[v].pc = "sending" /\ x \in job'[v].delivered) =>
                               /\ job'[v].run = target_employees[x].run
                               /\ job'[v].snap[x] = target_employees[x].data
                        /\ pushed_state'[x] \in {NoValue, target_employees[x]}
      BY <1>1 DEF HeldIsAgreed
    <2>1. target_employees[x] \in Row /\ target_employees[x].run \in Runs
      BY DEF TInv, TypeOK, Row
    <2>2. records'[target_employees[x].run][x].data = target_employees[x].data
      BY <1>3, <2>1 DEF BInv, HeldIsAgreed
    <2>3. pushed_state'[x] \in {NoValue, target_employees[x]}
      <3>1. CASE x \in job[w].delivered
        <4>1. r = target_employees[x].run /\ job[w].snap[x] = target_employees[x].data
          BY <1>1, <3>1 DEF BInv, HeldIsAgreed
        <4> QED
          BY <1>4, <2>1, <3>1, <4>1 DEF Row
      <3>2. CASE x \notin job[w].delivered
        BY <1>4, <3>2 DEF BInv, HeldIsAgreed
      <3> QED
        BY <3>1, <3>2
    <2> QED
      BY <1>1, <1>2, <2>2, <2>3 DEF BInv, HeldIsAgreed
  <1> QED
    BY <1>5, <1>6, <1>7 DEF BInv

\* A deletion moves the employee, and the end of a rollback only forgets.
LEMMA BeliefRollback ==
  ASSUME TInv, BInv, NEW w \in Workers,
         FinishRollback(w) \/ \E e \in Employees : Delete(w, e)
  PROVE  BInv'
  <1>1. CASE FinishRollback(w)
    <2>1. /\ job' = [job EXCEPT ![w] = Idle]
          /\ UNCHANGED <<records, target_employees, idempotency, disturbed>>
          /\ \A e \in Employees : pushed_state'[e] \in {NoValue, pushed_state[e]}
      BY <1>1 DEF FinishRollback, target
    <2> QED
      BY <2>1, IdleType
        DEF TInv, TypeOK, BInv, SendsTheRecord, UnheldIsUnknown, HeldIsAgreed
  <1>2. ASSUME NEW e \in Employees, Delete(w, e)  PROVE BInv'
    <2>1. /\ disturbed \subseteq disturbed'
          /\ \A x \in Employees \ disturbed' :
               target_employees'[x] = target_employees[x]
          /\ UNCHANGED <<records, pushed_state, idempotency>>
      BY <1>2 DEF Delete, TInv, TypeOK, agent
    <2>2. \A v \in Workers : job'[v].pc = "sending" => job'[v] = job[v]
      <3>1. job[w] \in Job /\ job[w].pc = "deleting"
        BY <1>2 DEF Delete, TInv, TypeOK
      <3>2. job'[w].pc = "deleting" /\ \A v \in Workers : v # w => job'[v] = job[v]
        BY <1>2, <3>1 DEF Delete, TInv, TypeOK, Job
      <3> QED
        BY <3>2
    <2>3. SendsTheRecord'
      BY <2>1, <2>2 DEF BInv, SendsTheRecord
    <2>4. UnheldIsUnknown'
      BY <2>1, <2>2 DEF BInv, UnheldIsUnknown
    <2>5. HeldIsAgreed'
      BY <2>1, <2>2 DEF BInv, HeldIsAgreed
    <2> QED
      BY <2>3, <2>4, <2>5 DEF BInv
  <1> QED
    BY <1>1, <1>2

\* An answer that changes what the target was given moves the employee.
LEMMA BeliefAnswer ==
  ASSUME TInv, BInv, NEW r \in Runs, NEW es, Answered(r, es),
         \A s \in Runs, x \in Employees :
           (s # r \/ x \notin es) => records'[s][x].data = records[s][x].data,
         UNCHANGED <<pushed_state, target_employees, idempotency, job>>
  PROVE  BInv'
  <1>1. disturbed \subseteq disturbed'
    BY DEF Answered
  <1>2. ASSUME NEW s \in Runs, NEW x \in Employees \ disturbed', Committed(s, x)
        PROVE  records'[s][x].data = records[s][x].data
    BY <1>2 DEF Answered
  <1>3. SendsTheRecord'
    <2> SUFFICES ASSUME NEW v \in Workers, job[v].pc = "sending",
                        NEW x \in job[v].todo \ disturbed'
                 PROVE  job[v].snap[x] = records'[job[v].run][x].data
      BY DEF SendsTheRecord
    <2>1. job[v].run \in Runs /\ x \in Employees
      BY DEF TInv, TypeOK, Job
    <2>2. Committed(job[v].run, x)
      BY DEF Committed
    <2> QED
      BY <1>1, <1>2, <2>1, <2>2 DEF BInv, SendsTheRecord
  <1>4. UnheldIsUnknown'
    BY <1>1 DEF BInv, UnheldIsUnknown
  <1>5. HeldIsAgreed'
    <2>1. ASSUME NEW x \in Employees \ disturbed', target_employees[x] # NoValue
          PROVE  records'[target_employees[x].run][x].data = target_employees[x].data
      <3>1. target_employees[x].run \in Runs
        BY <2>1 DEF TInv, TypeOK, Row
      <3>2. Committed(target_employees[x].run, x)
        BY <2>1 DEF Committed
      <3> QED
        BY <1>1, <1>2, <2>1, <3>1, <3>2 DEF BInv, HeldIsAgreed
    <2> QED
      BY <1>1, <2>1 DEF BInv, HeldIsAgreed
  <1> QED
    BY <1>3, <1>4, <1>5 DEF BInv

\* Every exchange with the target keeps BInv.
LEMMA BeliefSend ==
  ASSUME TInv, BInv, NEW w \in Workers, NEW e \in Employees,
         \/ PostAccepted(w, e) \/ PostReplayed(w, e) \/ PostRefused(w, e)
         \/ PostRetried(w, e) \/ PostUnanswered(w, e),
         TInv'
  PROVE  BInv'
  <1>1. job[w] \in Job /\ job'[w] \in Job /\ job[w].pc = "sending"
    BY DEF TInv, TypeOK, Sending, PostAccepted, PostReplayed, PostRefused,
           PostRetried, PostUnanswered
  <1>2. e \in job[w].todo
    BY DEF Sending, PostAccepted, PostReplayed, PostRefused, PostRetried,
           PostUnanswered
  <1>3. CASE PostAccepted(w, e)
    <2>1. job' = [job EXCEPT ![w] = job'[w]]
      BY <1>3 DEF PostAccepted, Leave, TInv, TypeOK
    <2>2. /\ job'[w].snap = job[w].snap /\ job'[w].run = job[w].run
          /\ job'[w].todo \subseteq job[w].todo
          /\ job'[w].delivered \subseteq job[w].delivered \cup {e}
      BY <1>1, <1>3 DEF PostAccepted, Leave, TInv, TypeOK, Job
    <2>3. Sending(w, e) /\ Upsert(w, e) /\ UNCHANGED <<records, pushed_state>>
      BY <1>3 DEF PostAccepted, agent
    <2> QED
      BY <1>1, <2>1, <2>2, <2>3, BeliefUpsert
  <1>4. CASE \/ PostReplayed(w, e) \/ PostRefused(w, e)
             \/ PostRetried(w, e) \/ PostUnanswered(w, e)
    <2>1. job' = [job EXCEPT ![w] = job'[w]]
      BY <1>4 DEF PostReplayed, PostRefused, PostRetried, PostUnanswered, Leave,
                  TInv, TypeOK
    <2>2. /\ job'[w].snap = job[w].snap /\ job'[w].run = job[w].run
          /\ job'[w].todo \subseteq job[w].todo
          /\ job'[w].delivered = job[w].delivered
               \/ /\ <<job[w].run, e>> \in idempotency
                  /\ job'[w].delivered = job[w].delivered \cup {e}
      <3>1. CASE PostReplayed(w, e)
        BY <1>1, <3>1 DEF PostReplayed, Leave, TInv, TypeOK, Job, Key
      <3>2. CASE PostRefused(w, e)
        BY <1>1, <3>2 DEF PostRefused, Leave, TInv, TypeOK, Job
      <3>3. CASE PostRetried(w, e)
        BY <1>1, <3>3 DEF PostRetried, TInv, TypeOK, Job
      <3>4. CASE PostUnanswered(w, e)
        BY <1>1, <3>4 DEF PostUnanswered, Leave, TInv, TypeOK, Job
      <3> QED
        BY <1>4, <3>1, <3>2, <3>3, <3>4
    <2>3. \A x \in job'[w].delivered \ job[w].delivered :
            x \in job[w].todo /\ <<job[w].run, x>> \in idempotency
      BY <1>2, <2>2
    <2>4. UNCHANGED <<records, pushed_state, target_employees, idempotency,
                      disturbed>>
      BY <1>4 DEF PostReplayed, PostRefused, PostRetried, PostUnanswered, agent,
                  target
    <2> QED
      BY <1>1, <2>1, <2>2, <2>3, <2>4, BeliefExchange
  <1> QED
    BY <1>3, <1>4

\* A thread that starts, or dies, keeps BInv.
LEMMA BeliefBegin ==
  ASSUME TInv, BInv, TInv', NEW w \in Workers,
         Begin(w) \/ Fail(w) \/ Propose(w)
           \/ \E v \in Values \cup {NoValue} : NameField(w, v)
  PROVE  BInv'
  <1>1. job'[w] \in Job
    BY DEF TInv, TypeOK
  <1>2. ASSUME NEW e \in Employees, StopUnheard(w, e)  PROVE BInv'
    <2>1. /\ Sending(w, e) /\ Upsert(w, e) /\ job' = [job EXCEPT ![w] = Idle]
          /\ UNCHANGED <<records, pushed_state>>
      BY <1>2 DEF StopUnheard, Died
    <2> QED
      BY <2>1, IdleType, BeliefUpsert
  <1>3. CASE ~ \E e \in Employees : StopUnheard(w, e)
    <2>1. job' = [job EXCEPT ![w] = job'[w]]
      BY <1>3 DEF Begin, Fail, BeginPush, BeginRollback, Stop, StopRollback,
                  Died, Propose, NameField, TInv, TypeOK
    <2>2. job'[w].pc # "sending"
      <3>1. CASE Begin(w)
        <4>1. PICK r \in Runs : BeginPush(w, r) \/ BeginRollback(w, r)
          BY <3>1 DEF Begin
        <4>2. \/ job'[w] = [Idle EXCEPT !.pc = "claim", !.run = r]
              \/ \E X : job'[w] = [Idle EXCEPT !.pc = "deleting", !.run = r,
                                              !.todo = X]
          BY <4>1 DEF BeginPush, BeginRollback, TInv, TypeOK
        <4>3. \A X : /\ [Idle EXCEPT !.pc = "claim", !.run = r].pc = "claim"
                     /\ [Idle EXCEPT !.pc = "deleting", !.run = r,
                                     !.todo = X].pc = "deleting"
          BY IdleType DEF Job
        <4> QED
          BY <4>2, <4>3
      <3>2. CASE Stop(w) \/ StopRollback(w)
        BY <3>2, IdleType DEF Stop, StopRollback, Died, TInv, TypeOK
      <3>3. CASE Propose(w)
        <4>1. \/ job'[w] = Idle
              \/ job'[w] = [job[w] EXCEPT !.pc = "repair", !.example = NoValue]
          BY <3>3 DEF Propose, TInv, TypeOK
        <4>2. [job[w] EXCEPT !.pc = "repair", !.example = NoValue].pc = "repair"
          BY DEF TInv, TypeOK, Job
        <4> QED
          BY <4>1, <4>2, IdleType
      <3>4. CASE \E v \in Values \cup {NoValue} : NameField(w, v)
        <4>1. PICK v \in Values \cup {NoValue} : NameField(w, v)
          BY <3>4
        <4>3. job'[w] = [job[w] EXCEPT !.pc = "propose", !.example = v,
                                       !.examples = job[w].examples \ {v}]
          BY <4>1 DEF NameField, TInv, TypeOK
        <4>2. \A X : [job[w] EXCEPT !.pc = "propose", !.example = v,
                                    !.examples = X].pc = "propose"
          BY DEF TInv, TypeOK, Job
        <4> QED
          BY <4>2, <4>3
      <3> QED
        BY <1>3, <3>1, <3>2, <3>3, <3>4 DEF Fail
    <2>3. UNCHANGED <<records, pushed_state, target_employees, idempotency,
                      disturbed>>
      BY <1>3 DEF Begin, Fail, BeginPush, BeginRollback, Stop, StopRollback,
                  Propose, NameField, agent, target
    <2> QED
      BY <1>1, <2>1, <2>2, <2>3, BeliefQuiet
  <1> QED
    BY <1>2, <1>3

\* A person's answer keeps BInv.
LEMMA BeliefHuman ==
  ASSUME TInv, BInv, Human
  PROVE  BInv'
  <1>1. ASSUME NEW q \in escalations, NEW action, NEW typed, NEW all,
               Answer(q, action, typed, all)
        PROVE  BInv'
    <2> DEFINE ps == Closed(q, action, typed, all)
               es == {p.employee : p \in ps}
    <2>1. q.run \in Runs
      BY DEF TInv, TypeOK, Escalation
    <2>2. /\ Answered(q.run, es)
          /\ UNCHANGED <<pushed_state, target_employees, idempotency, job>>
      BY <1>1 DEF Answer, target
    <2>3. ASSUME NEW s \in Runs, NEW x \in Employees, s # q.run \/ x \notin es
          PROVE  records'[s][x].data = records[s][x].data
      <3>1. x \notin es => {p \in ps : p.employee = x /\ p.code = "PUSH_REJECTED"} = {}
        OBVIOUS
      <3> QED
        BY <1>1, <2>1, <2>3, <3>1 DEF Answer, TInv, TypeOK
    <2> HIDE DEF ps, es
    <2> QED
      BY <2>1, <2>2, <2>3, BeliefAnswer
  <1>2. ASSUME NEW r \in Runs, NEW e \in Employees, NEW v \in Values,
               NEW ps, Fill(r, e, v, ps)
        PROVE  BInv'
    <2>1. /\ Answered(r, {e})
          /\ UNCHANGED <<pushed_state, target_employees, idempotency, job>>
      BY <1>2 DEF Fill, target
    <2>2. \A s \in Runs, x \in Employees :
            (s # r \/ x \notin {e}) => records'[s][x].data = records[s][x].data
      BY <1>2 DEF Fill, TInv, TypeOK
    <2> QED
      BY <2>1, <2>2, BeliefAnswer
  <1>3. ASSUME NEW q \in escalations, NEW v \in Values, FillRefused(q, v)
        PROVE  BInv'
    <2>1. q.run \in Runs /\ q.employee \in Employees
      BY DEF TInv, TypeOK, Escalation
    <2> QED
      BY <1>2, <1>3, <2>1 DEF FillRefused
  <1>4. ASSUME NEW r \in Runs, NEW e \in Employees, NEW v \in Values,
               FillOther(r, e, v)
        PROVE  BInv'
    BY <1>2, <1>4 DEF FillOther
  <1> QED
    BY <1>1, <1>3, <1>4 DEF Human

\* What the agent believes it delivered is what the target holds, of every
\* employee nobody moved since (push.py, pushed_state, idempotency_key).
THEOREM BeliefCorrect == Spec => []BeliefMatchesTarget
  <1>1. Init => TInv /\ BInv
    <2> SUFFICES ASSUME Init PROVE BInv
      BY TypeInit
    <2>1. \A w \in Workers : job[w].pc = "idle"
      BY IdleType DEF Init
    <2> QED
      BY <2>1 DEF Init, BInv, SendsTheRecord, UnheldIsUnknown, HeldIsAgreed
  <1>2. TInv /\ BInv /\ [Next]_vars => TInv' /\ BInv'
    <2> SUFFICES ASSUME TInv, BInv, [Next]_vars  PROVE TInv' /\ BInv'
      OBVIOUS
    <2>0. TInv'
      BY TypeNext
    <2>1. ASSUME NEW w \in Workers, Begin(w) \/ Run(w) \/ Fail(w)  PROVE BInv'
      BY <2>0, <2>1, BeliefBegin, BeliefSend, BeliefClaim, BeliefFinish,
         BeliefRollback DEF Run, Exchange
    <2>2. CASE Kill
      <3>1. \A w \in Workers : job'[w].pc = "idle"
        BY <2>2, IdleType DEF Kill
      <3> QED
        BY <2>0, <2>2, <3>1 DEF Kill, agent, target, BInv, SendsTheRecord,
                          UnheldIsUnknown, HeldIsAgreed
    <2>3. CASE RestartTarget
      BY <2>0, <2>3 DEF RestartTarget, agent, BInv, SendsTheRecord, UnheldIsUnknown,
                  HeldIsAgreed
    <2>4. CASE Human
      BY <2>0, <2>4, BeliefHuman
    <2>5. CASE UNCHANGED vars
      BY <2>0, <2>5 DEF vars, agent, target, BInv, SendsTheRecord, UnheldIsUnknown,
                  HeldIsAgreed
    <2> QED
      BY <2>0, <2>1, <2>2, <2>3, <2>4, <2>5 DEF Next
  <1>3. TInv /\ BInv => BeliefMatchesTarget
    BY DEF BInv, UnheldIsUnknown, HeldIsAgreed, BeliefMatchesTarget
  <1> QED
    BY <1>1, <1>2, <1>3, PTL DEF Spec

=============================================================================
