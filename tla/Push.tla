-------------------------------- MODULE Push --------------------------------
(***************************************************************************)
(* The push engine (app/agent/push.py) against the target system           *)
(* (tools/mock_target_api.py), with the human answers that change what the *)
(* next push sends (app/agent/resolve.py, the fill page of routes.py).     *)
(*                                                                         *)
(* Every push and every rollback is a background thread.  A thread works   *)
(* from what it read in its first transaction and writes nothing to its    *)
(* own database before its last one; in between it only talks to the       *)
(* target.  The actions below are those transactions and requests.         *)
(*                                                                         *)
(* A record's data is one of Values.  Those in Complete satisfy the strict *)
(* model, those in Refusable break a rule of the target (HTTP 422).  All   *)
(* refusals have one stated reason and differ in the offending value, so   *)
(* they share a signature, and the exact message is the value.             *)
(***************************************************************************)
EXTENDS Integers, FiniteSets

CONSTANTS
  Runs,        \* rows of the runs table
  Employees,   \* employee ids; a run holds one record per employee
  Workers,     \* background threads
  Values,      \* what the data of a record may be
  Complete,    \* the values the strict model accepts
  Refusable,   \* the values a deterministic rule of the target refuses
  NoValue,     \* None, and the absence of a row
  MaxRetries,  \* policy push.max_retries
  MaxThreads,  \* bound: pushes and rollbacks started in one behaviour
  MaxAnswers,  \* bound: what a person changes in one behaviour
  Env          \* which moves the surroundings make, a subset of EnvMoves

EnvMoves == {"answer", "stale", "fill", "rollback", "stop", "kill", "restart"}

Row == [run: Runs, data: Values]

ASSUME PushAssumption ==
  /\ Runs # {}
  /\ Complete \subseteq Values
  /\ Refusable \subseteq Values
  /\ NoValue \notin Values
  /\ NoValue \notin Row
  /\ NoValue \notin Employees
  /\ MaxRetries \in Nat
  /\ MaxThreads \in Nat
  /\ MaxAnswers \in Nat
  /\ Env \subseteq EnvMoves

VARIABLES
  stage,             \* runs.stage
  records,           \* the reconciled records, by run and employee
  escalations,       \* the PUSH_* questions, one per row
  asked,             \* how many transactions have asked any
  push_attempts,     \* <<run, employee>> with an attempt of outcome 'success'
  pushed_state,      \* what the agent believes the target holds
  target_employees,  \* what the target holds
  idempotency,       \* the keys the target has answered 200 for
  job,               \* the local variables of each thread
  threads,           \* how many threads were ever started
  answers,           \* how many answers a person ever gave
  disturbed,         \* history: employees a person, a rollback or another
                     \* run moved after the target was given them
  touched            \* history: records a person answered for since the last
                     \* push of their run read them

agent == <<stage, records, escalations, asked, push_attempts, pushed_state>>
target == <<target_employees, idempotency>>
bounds == <<threads, answers>>
vars == <<agent, target, job, bounds, disturbed, touched>>

CandidateStatus == {"merged_survivor", "clean"}
Status == CandidateStatus \cup {"blocked", "incomplete", "excluded"}
Stage == {"reconciled", "pushing", "done", "rolled_back"}

Escalation ==
  [asked: Nat,                      \* the transaction that asked: row order
   run: Runs, employee: Employees,
   code: {"PUSH_REJECTED", "PUSH_UNREACHABLE"},
   payload: Values,                 \* context.payload
   repair_field: BOOLEAN,           \* does the context name a field
   suggested: Values \cup {NoValue},
   open: BOOLEAN]

Job ==
  [pc: {"idle", "claim", "sending", "repair", "propose", "deleting"},
   run: Runs,
   snap: [Employees -> Values \cup {NoValue}],  \* the candidates as read
   todo: SUBSET Employees, current: Employees \cup {NoValue},
   attempt: 0..MaxRetries,
   delivered: SUBSET Employees, refused: SUBSET Employees,
   unanswered: SUBSET Employees, incomplete: SUBSET Employees,
   examples: SUBSET (Values \cup {NoValue}), example: Values \cup {NoValue}]

NobodyRead == [e \in Employees |-> NoValue]

\* The locals of a thread that is not running.
Idle ==
  [pc |-> "idle", run |-> CHOOSE r \in Runs : TRUE,
   snap |-> NobodyRead, todo |-> {}, current |-> NoValue, attempt |-> 0,
   delivered |-> {}, refused |-> {}, unanswered |-> {}, incomplete |-> {},
   examples |-> {}, example |-> NoValue]

TypeOK ==
  /\ stage \in [Runs -> Stage]
  /\ records \in [Runs -> [Employees -> [status: Status, data: Values]]]
  /\ escalations \subseteq Escalation
  /\ asked \in Nat
  /\ push_attempts \subseteq Runs \X Employees
  /\ pushed_state \in [Employees -> Row \cup {NoValue}]
  /\ target_employees \in [Employees -> Row \cup {NoValue}]
  /\ idempotency \subseteq Runs \X Employees
  /\ job \in [Workers -> Job]
  /\ threads \in 0..MaxThreads /\ answers \in 0..MaxAnswers
  /\ disturbed \subseteq Employees
  /\ touched \subseteq Runs \X Employees

\* Runs whose records have just been reconciled, nothing sent yet.
Init ==
  /\ stage = [r \in Runs |-> "reconciled"]
  /\ records \in [Runs -> [Employees ->
                     [status: {"merged_survivor", "blocked"}, data: Values]]]
  /\ escalations = {} /\ asked = 0 /\ push_attempts = {}
  /\ pushed_state = [e \in Employees |-> NoValue]
  /\ target_employees = [e \in Employees |-> NoValue]
  /\ idempotency = {}
  /\ job = [w \in Workers |-> Idle]
  /\ threads = 0 /\ answers = 0 /\ disturbed = {} /\ touched = {}

-----------------------------------------------------------------------------
(* Starting a push. *)

\* _push_run, the SELECT of the stage: it reads outside of any transaction.
BeginPush(w, r) ==
  /\ job[w].pc = "idle" /\ threads < MaxThreads
  /\ stage[r] # "pushing"
  /\ threads' = threads + 1
  /\ job' = [job EXCEPT ![w] = [Idle EXCEPT !.pc = "claim", !.run = r]]
  /\ UNCHANGED <<agent, target, disturbed, touched, answers>>

Candidates(r) ==
  {e \in Employees : records[r][e].status \in CandidateStatus}

\* Mutant: the strict model is never consulted.
SendableUnstaged(r) == Candidates(r)

Sendable(r) == {e \in Candidates(r) : records[r][e].data \in Complete}

\* already_pushed: byte-identical to what was last pushed, by whichever run.
Unchanged(r, e) ==
  /\ pushed_state[e] # NoValue
  /\ pushed_state[e].data = records[r][e].data

\* already_refused: a dict built row by row, the last open question wins.
OpenRefusals(r, e) ==
  {q \in escalations : q.run = r /\ q.employee = e /\ q.open
                       /\ q.code = "PUSH_REJECTED"}

\* Mutant: the open questions are not read.
RefusedUnchangedIgnored(r, e) == FALSE

RefusedUnchanged(r, e) ==
  \E q \in OpenRefusals(r, e) :
    /\ \A p \in OpenRefusals(r, e) : p.asked <= q.asked
    /\ q.payload = records[r][e].data

\* _push_run, the transaction that claims the stage and reads everything.
Claim(w) ==
  LET r == job[w].run IN
  /\ job[w].pc = "claim"
  /\ stage' = [stage EXCEPT ![r] = "pushing"]
  /\ job' = [job EXCEPT ![w] = [job[w] EXCEPT
       !.pc = "sending",
       !.snap = [e \in Employees |-> IF e \in Candidates(r)
                                     THEN records[r][e].data ELSE NoValue],
       !.todo = {e \in Sendable(r) : /\ ~Unchanged(r, e)
                                     /\ ~RefusedUnchanged(r, e)},
       !.incomplete = Candidates(r) \ Sendable(r)]]
  /\ touched' = {k \in touched : k[1] # r}
  /\ UNCHANGED <<records, escalations, asked, push_attempts, pushed_state,
                 target, bounds, disturbed>>
-----------------------------------------------------------------------------
(* Sending: one action per exchange with the target. *)

\* idempotency_key: of the run and the employee, not of the payload.
Key(w, e) == <<job[w].run, e>>

\* The loop is at employee e: a new one, or the one it is retrying.
Sending(w, e) ==
  /\ job[w].pc = "sending" /\ e \in job[w].todo
  /\ job[w].current \in {e, NoValue}

\* The loop leaves employee e with an outcome, and goes on.
Leave(w, e, j) ==
  job' = [job EXCEPT ![w] = [j EXCEPT !.todo = @ \ {e}, !.current = NoValue,
                                      !.attempt = 0]]

\* What upsert_employee stores when no rule refuses the payload.
Upsert(w, e) ==
  /\ Key(w, e) \notin idempotency
  /\ job[w].snap[e] \notin Refusable
  /\ target_employees' = [target_employees EXCEPT
       ![e] = [run |-> job[w].run, data |-> job[w].snap[e]]]
  /\ idempotency' = idempotency \cup {Key(w, e)}
  /\ disturbed' = IF /\ target_employees[e] # NoValue
                     /\ target_employees[e].run # job[w].run
                  THEN disturbed \cup {e} ELSE disturbed

PostAccepted(w, e) ==
  /\ Sending(w, e)
  /\ Upsert(w, e)
  /\ Leave(w, e, [job[w] EXCEPT !.delivered = @ \cup {e}])
  /\ UNCHANGED <<agent, bounds, touched>>

\* A known key is answered as it was the first time, whatever the payload.
PostReplayed(w, e) ==
  /\ Sending(w, e)
  /\ Key(w, e) \in idempotency
  /\ Leave(w, e, [job[w] EXCEPT !.delivered = @ \cup {e}])
  /\ UNCHANGED <<agent, target, bounds, disturbed, touched>>

\* HTTP 422, never retried.
PostRefused(w, e) ==
  /\ Sending(w, e)
  /\ Key(w, e) \notin idempotency
  /\ job[w].snap[e] \in Refusable
  /\ Leave(w, e, [job[w] EXCEPT !.refused = @ \cup {e}])
  /\ UNCHANGED <<agent, target, bounds, disturbed, touched>>

\* Mutants: one retry too many; a retry count that starts over.
PostRetriedTooOften(w, e) ==
  /\ Sending(w, e)
  /\ Key(w, e) \notin idempotency
  /\ job[w].attempt <= MaxRetries
  /\ job' = [job EXCEPT ![w] = [job[w] EXCEPT !.current = e, !.attempt = @ + 1]]
  /\ UNCHANGED <<agent, target, bounds, disturbed, touched>>

PostRetriedForever(w, e) ==
  /\ Sending(w, e)
  /\ Key(w, e) \notin idempotency
  /\ job' = [job EXCEPT ![w] = [job[w] EXCEPT !.current = e,
                                   !.attempt = (@ + 1) % (MaxRetries + 1)]]
  /\ UNCHANGED <<agent, target, bounds, disturbed, touched>>

\* HTTP 500 or 429, which the policy retries.
PostRetried(w, e) ==
  /\ Sending(w, e)
  /\ Key(w, e) \notin idempotency
  /\ job[w].attempt < MaxRetries
  /\ job' = [job EXCEPT ![w] = [job[w] EXCEPT !.current = e, !.attempt = @ + 1]]
  /\ UNCHANGED <<agent, target, bounds, disturbed, touched>>

\* Mutant: running out of attempts passes for an answer.
PostUnansweredDelivered(w, e) ==
  /\ Sending(w, e)
  /\ Key(w, e) \notin idempotency
  /\ job[w].attempt = MaxRetries
  /\ Leave(w, e, [job[w] EXCEPT !.delivered = @ \cup {e}])
  /\ UNCHANGED <<agent, target, bounds, disturbed, touched>>

\* The same, on the last attempt.
PostUnanswered(w, e) ==
  /\ Sending(w, e)
  /\ Key(w, e) \notin idempotency
  /\ job[w].attempt = MaxRetries
  /\ Leave(w, e, [job[w] EXCEPT !.unanswered = @ \cup {e}])
  /\ UNCHANGED <<agent, target, bounds, disturbed, touched>>
-----------------------------------------------------------------------------
(* The last transaction of a push, and the corrections it then looks for. *)

\* decide_push and create_or_merge_escalation: one row per record.
Question(w, code, e) ==
  [asked |-> asked + 1, run |-> job[w].run, employee |-> e, code |-> code,
   payload |-> job[w].snap[e], repair_field |-> FALSE, suggested |-> NoValue,
   open |-> TRUE]

\* Mutant: what the target never answered is counted and not asked about.
NewQuestionsRefused(w) ==
  {Question(w, "PUSH_REJECTED", e) : e \in job[w].refused}

NewQuestions(w) ==
  {Question(w, "PUSH_REJECTED", e) : e \in job[w].refused}
    \cup {Question(w, "PUSH_UNREACHABLE", e) : e \in job[w].unanswered}

\* Mutant: an answer closes nothing.
AnsweredNowNone(w, q) == FALSE

\* "The target never answered" is closed for what has just been delivered.
AnsweredNow(w, q) ==
  /\ q.run = job[w].run /\ q.employee \in job[w].delivered
  /\ q.code = "PUSH_UNREACHABLE"

Finish(w) ==
  LET r == job[w].run IN
  /\ job[w].pc = "sending" /\ job[w].todo = {}
  /\ push_attempts' = push_attempts \cup ({r} \X job[w].delivered)
  /\ pushed_state' = [e \in Employees |->
       IF e \in job[w].delivered THEN [run |-> r, data |-> job[w].snap[e]]
                                 ELSE pushed_state[e]]
  /\ escalations' =
       {IF AnsweredNow(w, q) THEN [q EXCEPT !.open = FALSE] ELSE q :
          q \in escalations} \cup NewQuestions(w)
  /\ asked' = IF NewQuestions(w) = {} THEN asked ELSE asked + 1
  /\ records' = [records EXCEPT ![r] = [e \in Employees |->
       IF e \in job[w].incomplete THEN [@[e] EXCEPT !.status = "incomplete"]
                                  ELSE @[e]]]
  /\ stage' = [stage EXCEPT ![r] = "done"]
  /\ job' = [job EXCEPT ![w] =
       IF NewQuestions(w) = {} THEN Idle
       ELSE [Idle EXCEPT !.pc = "repair", !.run = r,
               !.examples = {job[w].snap[e] : e \in job[w].refused} \cup
                            {NoValue : e \in job[w].unanswered}]]
  /\ UNCHANGED <<target, bounds, disturbed, touched>>

\* The open questions that carry the refusal a repair is about.
About(w, v, q) ==
  /\ q.run = job[w].run /\ q.code = "PUSH_REJECTED" /\ q.open
  /\ q.payload = v

\* _propose_repairs, first step: the message names a field, or does not.
NameField(w, v) ==
  /\ job[w].pc = "repair" /\ v \in job[w].examples
  /\ job' = [job EXCEPT ![w] = [job[w] EXCEPT !.pc = "propose", !.example = v,
                                         !.examples = @ \ {v}]]
  /\ \E named \in BOOLEAN : escalations' =
       {IF About(w, v, q) /\ named THEN [q EXCEPT !.repair_field = TRUE] ELSE q :
          q \in escalations}
  /\ UNCHANGED <<stage, records, asked, push_attempts, pushed_state, target,
                 bounds, disturbed, touched>>

\* Second step: the model proposes a value, proposes none, or fails.
Propose(w) ==
  /\ job[w].pc = "propose"
  /\ \E u \in Values \cup {NoValue} : escalations' =
       {IF About(w, job[w].example, q) /\ u # NoValue
        THEN [q EXCEPT !.repair_field = TRUE, !.suggested = u] ELSE q :
          q \in escalations}
  /\ job' = [job EXCEPT ![w] = IF job[w].examples = {} THEN Idle
                               ELSE [job[w] EXCEPT !.pc = "repair",
                                                   !.example = NoValue]]
  /\ UNCHANGED <<stage, records, asked, push_attempts, pushed_state, target,
                 bounds, disturbed, touched>>
-----------------------------------------------------------------------------
(* A push that dies: an unreachable or silent target, a locked database, a  *)
(* shutdown noticed at a tick.  push_run repairs the stage and re-raises.   *)

Pushing(w) == job[w].pc \in {"claim", "sending", "repair", "propose"}

\* Mutant: no handler around _push_run.
DiedUnhandled(w) ==
  /\ job' = [job EXCEPT ![w] = Idle]
  /\ UNCHANGED stage

Died(w) ==
  /\ stage' = [stage EXCEPT ![job[w].run] = IF @ = "pushing" THEN "reconciled"
                                                            ELSE @]
  /\ job' = [job EXCEPT ![w] = Idle]

Stop(w) ==
  /\ "stop" \in Env /\ Pushing(w)
  /\ Died(w)
  /\ UNCHANGED <<records, escalations, asked, push_attempts, pushed_state,
                 target, bounds, disturbed, touched>>

\* The request was applied and its answer never came back.
StopUnheard(w, e) ==
  /\ "stop" \in Env /\ Sending(w, e)
  /\ Upsert(w, e)
  /\ Died(w)
  /\ UNCHANGED <<records, escalations, asked, push_attempts, pushed_state,
                 bounds, touched>>

\* The agent's process is killed: no handler runs, only the database is left.
Kill ==
  /\ "kill" \in Env /\ \E w \in Workers : job[w].pc # "idle"
  /\ job' = [w \in Workers |-> Idle]
  /\ UNCHANGED <<agent, target, bounds, disturbed, touched>>

\* The target restarts: its rows are on disk, its idempotency keys are not.
RestartTarget ==
  /\ "restart" \in Env /\ idempotency # {}
  /\ idempotency' = {}
  /\ UNCHANGED <<agent, target_employees, job, bounds, disturbed, touched>>
-----------------------------------------------------------------------------
(* rollback_run.  Nothing looks at the stage, and nothing catches a failure. *)

BeginRollback(w, r) ==
  /\ "rollback" \in Env /\ job[w].pc = "idle" /\ threads < MaxThreads
  /\ threads' = threads + 1
  /\ job' = [job EXCEPT ![w] = [Idle EXCEPT !.pc = "deleting", !.run = r,
               !.todo = {e \in Employees : <<r, e>> \in push_attempts}]]
  /\ UNCHANGED <<agent, target, disturbed, touched, answers>>

\* DELETE /employees/{id}: 200 and the row goes, or 404.
Delete(w, e) ==
  /\ job[w].pc = "deleting" /\ e \in job[w].todo
  /\ target_employees' = [target_employees EXCEPT ![e] = NoValue]
  /\ job' = [job EXCEPT ![w] = [job[w] EXCEPT !.todo = @ \ {e},
       !.delivered = IF target_employees[e] = NoValue THEN @ ELSE @ \cup {e}]]
  /\ disturbed' = IF target_employees[e] = NoValue THEN disturbed
                                                  ELSE disturbed \cup {e}
  /\ UNCHANGED <<agent, idempotency, bounds, touched>>

FinishRollback(w) ==
  /\ job[w].pc = "deleting" /\ job[w].todo = {}
  /\ pushed_state' = [e \in Employees |->
       IF e \in job[w].delivered THEN NoValue ELSE pushed_state[e]]
  /\ stage' = [stage EXCEPT ![job[w].run] = "rolled_back"]
  /\ job' = [job EXCEPT ![w] = Idle]
  /\ UNCHANGED <<records, escalations, asked, push_attempts, target, bounds,
                 disturbed, touched>>

StopRollback(w) ==
  /\ "stop" \in Env /\ job[w].pc = "deleting"
  /\ job' = [job EXCEPT ![w] = Idle]
  /\ UNCHANGED <<agent, target, bounds, disturbed, touched>>
-----------------------------------------------------------------------------
(* What a person does between, and during, pushes. *)

\* The target has been given this run's record, or a thread is about to.
Committed(r, e) ==
  \/ target_employees[e] # NoValue /\ target_employees[e].run = r
  \/ \E w \in Workers : /\ job[w].pc = "sending" /\ job[w].run = r
                        /\ e \in job[w].todo

\* The history a change of some records of run r leaves behind.
Answered(r, es) ==
  /\ disturbed' = disturbed \cup
       {e \in es : /\ Committed(r, e)
                   /\ records'[r][e].data # records[r][e].data}
  /\ touched' = touched \cup ({r} \X es)
  /\ answers < MaxAnswers /\ answers' = answers + 1

\* A form posted from a page loaded before the question was closed.
Answerable(q) == q.open \/ "stale" \in Env

\* resolve_escalation: the rows an answer is applied to, and the value each
\* of them gets.  Approving takes each row's own suggestion and leaves a row
\* without one open; a typed value, or an edit, is the same for all.
Selected(q, all) ==
  IF all THEN {p \in escalations : p.run = q.run /\ p.code = q.code /\ p.open}
         ELSE {q}

OwnSuggestion(action, typed) == action = "approve" /\ typed = NoValue

ValueFor(p, q, action, typed) ==
  CASE OwnSuggestion(action, typed) -> p.suggested
    [] typed # NoValue              -> typed
    [] action = "reject"            -> NoValue
    [] OTHER                        -> q.suggested

Closed(q, action, typed, all) ==
  {p \in Selected(q, all) :
     p.code = "PUSH_REJECTED" /\ OwnSuggestion(action, typed)
       => p.suggested # NoValue}

\* The rows whose value a record may end with: they are applied in the order
\* of a SELECT that states none, and those that name no field change nothing.
MayBeLast(ps) == {p \in ps : p.repair_field \/ \A x \in ps : ~x.repair_field}

\* _apply_push_repair, for the closed rows of one record.
Repaired(record, ps, action, value, last) ==
  IF action = "reject" \/ \E p \in ps : value[p] = NoValue
  THEN [record EXCEPT !.status = "excluded"]
  ELSE IF ~last.repair_field THEN record
  ELSE [status |-> IF record.status = "excluded" THEN "clean" ELSE record.status,
        data |-> value[last]]

Answer(q, action, typed, all) ==
  LET ps == Closed(q, action, typed, all)
      value == [p \in ps |-> ValueFor(p, q, action, typed)]
      repairs(e) == {p \in ps : p.employee = e /\ p.code = "PUSH_REJECTED"}
  IN
  /\ "answer" \in Env /\ Answerable(q) /\ ps # {}
  /\ \E last \in [Employees -> ps] :
       /\ \A e \in Employees : repairs(e) # {} => last[e] \in MayBeLast(repairs(e))
       /\ records' = [records EXCEPT ![q.run] = [e \in Employees |->
            IF repairs(e) = {} THEN @[e]
            ELSE Repaired(@[e], repairs(e), action, value, last[e])]]
  /\ escalations' = (escalations \ ps) \cup {[p EXCEPT !.open = FALSE] : p \in ps}
  /\ Answered(q.run, {p.employee : p \in ps})
  /\ UNCHANGED <<stage, asked, push_attempts, pushed_state, target, job, threads>>

\* _apply_filled_values, for one row of the fill page.  ps is the question
\* the row came with: none when the page is about another question, whose
\* rule the record breaks, and that is what promotes a blocked record.
Fill(r, e, v, ps) ==
  /\ \A q \in ps : Answerable(q)
  /\ records' = [records EXCEPT ![r][e] =
       [status |-> IF @.status \in CandidateStatus THEN @.status
                   ELSE IF v \in Complete THEN "clean" ELSE "incomplete",
        data |-> v]]
  /\ escalations' = (escalations \ ps) \cup {[p EXCEPT !.open = FALSE] : p \in ps}
  /\ Answered(r, {e})
  /\ UNCHANGED <<stage, asked, push_attempts, pushed_state, target, job, threads>>

FillRefused(q, v) ==
  /\ "answer" \in Env
  /\ q.code = "PUSH_REJECTED" /\ q.repair_field
  /\ Fill(q.run, q.employee, v, {q})

FillOther(r, e, v) ==
  /\ "fill" \in Env
  /\ records[r][e].status # "excluded"
  /\ Fill(r, e, v, {})
-----------------------------------------------------------------------------
Exchange(w, e) ==
  \/ PostAccepted(w, e) \/ PostReplayed(w, e) \/ PostRefused(w, e)
  \/ PostRetried(w, e) \/ PostUnanswered(w, e) \/ Delete(w, e)

\* What a thread does on its own once it is started.
Run(w) ==
  \/ Claim(w) \/ Finish(w) \/ Propose(w) \/ FinishRollback(w)
  \/ \E v \in Values \cup {NoValue} : NameField(w, v)
  \/ \E e \in Employees : Exchange(w, e)

Begin(w) == \E r \in Runs : BeginPush(w, r) \/ BeginRollback(w, r)

Fail(w) == Stop(w) \/ StopRollback(w) \/ \E e \in Employees : StopUnheard(w, e)

Human ==
  \/ \E q \in escalations :
       \/ \E all \in BOOLEAN :
            \/ Answer(q, "reject", NoValue, all)
            \/ \E action \in {"approve", "edit"} :
                 \E v \in Values \cup {NoValue} : Answer(q, action, v, all)
       \/ \E v \in Values : FillRefused(q, v)
  \/ \E r \in Runs, e \in Employees, v \in Values : FillOther(r, e, v)

Next ==
  \/ \E w \in Workers : Begin(w) \/ Run(w) \/ Fail(w)
  \/ Kill \/ RestartTarget \/ Human

Spec == Init /\ [][Next]_vars

\* While a run is being sent no other thread sends or deletes for it.  The code
\* does not see to it: the stage is read outside of the transaction that
\* writes "pushing", and a rollback does not look at it.
Alone ==
  \A v, w \in Workers :
    (/\ job[v].pc = "sending" /\ job[w].pc \in {"sending", "deleting"}
     /\ job[v].run = job[w].run) => v = w

\* The behaviours in which pushes and rollbacks of one run are serial.
SerialSpec == Init /\ [][Next /\ Alone']_vars

\* The thread pool runs every thread that is started.
FairSpec == Spec /\ \A w \in Workers : WF_vars(Run(w))
-----------------------------------------------------------------------------
(* Properties. *)

\* What the agent believes it delivered is what the target holds, for every
\* employee nobody moved after the target was given it: overlapping pushes,
\* retries, lost answers, kills and target restarts never make the two differ
\* (push.py, pushed_state and the idempotency key).
BeliefMatchesTarget ==
  \A e \in Employees \ disturbed :
    pushed_state[e] # NoValue => target_employees[e] = pushed_state[e]

\* The staged gate: whatever is edited while a push is under way, the target
\* never holds a payload that fails the strict model or breaks its own rules.
OnlyStagedReachesTarget ==
  \A e \in Employees :
    target_employees[e] # NoValue
      => target_employees[e].data \in Complete \ Refusable

\* Another run has delivered the employee too, and it was moved since: an
\* overwriting push or a rollback asks nobody whose record it takes.
TakenByAnother(r, e) ==
  e \in disturbed /\ \E s \in Runs \ {r} : <<s, e>> \in push_attempts

\* Whoever looks at the run can tell what became of the record.
Said(r, e) ==
  \/ <<r, e>> \in touched
  \/ pushed_state[e] # NoValue
  \/ \E q \in escalations : q.run = r /\ q.employee = e /\ q.open
  \/ TakenByAnother(r, e)

\* A finished push loses no record without saying so: each one it could have
\* sent is believed delivered or has an open question, unless a person has
\* answered for it since, or another run has taken it (push.py, final
\* transaction; decide_push).  Where pushes and rollbacks of a run are serial.
NothingGoesQuiet ==
  \A r \in Runs : stage[r] = "done" => \A e \in Candidates(r) : Said(r, e)

SameRecord(p, q) == p.run = q.run /\ p.employee = q.employee /\ p.code = q.code

\* What was refused and has not changed is not asked about again: between two
\* open questions about one refused payload the record was refused with another
\* (already_refused, which keeps the last open question of a record).  Where
\* pushes of a run are serial.
NoSecondCopy ==
  \A p, q \in escalations :
    (/\ p # q /\ p.open /\ q.open /\ p.code = "PUSH_REJECTED"
     /\ SameRecord(p, q) /\ p.payload = q.payload /\ p.asked <= q.asked)
      => \E b \in escalations : /\ SameRecord(p, b) /\ b.payload # p.payload
                                /\ p.asked < b.asked /\ b.asked < q.asked

\* "'The target never answered for this one' stops being true the moment it
\* does" (push.py:340): no such question is open about what its run has
\* delivered since.  Where pushes of a run are serial.
AnsweredIsClosed ==
  \A q \in escalations :
    q.open /\ q.code = "PUSH_UNREACHABLE"
      => pushed_state[q.employee] # [run |-> q.run, data |-> q.payload]

\* Every thread that is started ends: retries are bounded, and each employee,
\* each refusal and each deletion is dealt with once.
ThreadEnds == \A w \in Workers : job[w].pc # "idle" ~> job[w].pc = "idle"

\* While a run is "pushing" some push of it is sending, unless the process was
\* killed: whichever of two pushes dies or ends, and whatever is rolled back
\* meanwhile, the run that nobody sends can be pushed again (the handler of
\* push_run; start_push turns away a run that is "pushing").
PushingIsHeld ==
  \A r \in Runs : stage[r] = "pushing" =>
    \E w \in Workers : job[w].pc = "sending" /\ job[w].run = r

\* "'pushing' is what stops a second push starting": the flag never outlives
\* the pushes, whatever kills them short of the process itself (push_run).
StageReleased == \A r \in Runs : stage[r] = "pushing" ~> stage[r] # "pushing"

\* The abstract promise of the push: the target takes each idempotency key at
\* most once, and the agent counts as delivered only keys the target took.
Promise == INSTANCE Delivery WITH
  accepted <- idempotency,
  believed <- [e \in Employees |-> IF pushed_state[e] = NoValue THEN NoValue
                                   ELSE pushed_state[e].run]
DeliverySpec == Promise!Spec

(* What comments in push.py claim and the code does not do. *)

\* push.py:174, "'pushing' is what stops a second push starting".
OnePushAtATime ==
  \A v, w \in Workers :
    (job[v].pc = "sending" /\ job[w].pc = "sending" /\ job[v].run = job[w].run)
      => v = w

\* push.py:266-269, "there is already an open question about this record, and
\* nothing about it has changed since", so that there is no second copy of it:
\* a record that is refused, changed, refused and changed back gets one.
OneCopy ==
  \A p, q \in escalations :
    (/\ p.open /\ q.open /\ p.code = "PUSH_REJECTED"
     /\ SameRecord(p, q) /\ p.payload = q.payload) => p = q

\* push.py:202-207, a corrected record reaches the target when its run is
\* pushed again: between pushes, what the agent recorded is what is held.
CorrectionReachesTarget ==
  (\A w \in Workers : job[w].pc = "idle") =>
    \A e \in Employees :
      pushed_state[e] # NoValue => target_employees[e] = pushed_state[e]

\* push.py:190, "what was already sent is recorded".
SentIsRecorded ==
  (\A w \in Workers : job[w].pc = "idle") =>
    \A e \in Employees :
      target_employees[e] # NoValue
        => <<target_employees[e].run, e>> \in push_attempts
=============================================================================
