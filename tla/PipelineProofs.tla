--------------------------- MODULE PipelineProofs ---------------------------
(* Theorems about the control of Pipeline: the mapping gate, the stage and   *)
(* the calls that drive it, for every value of the constants.                *)
EXTENDS Pipeline, TLAPS

\* All of TypeOK but the escalations, which need the records to be counted,
\* and what keeps the number of calls within its bound.
ControlType ==
  /\ stage \in Stage
  /\ mapped \in [Files -> Target \cup {"unread"}]
  /\ question \in [Files -> {"none", "open", "resolved"}]
  /\ records \in [RecordIds -> Status \cup {"absent"}]
  /\ decisions \subseteq Classes
  /\ job \in [Threads -> Job]
  /\ tasks \in [upload: 0..1, resume: 0..MaxMoves]
  /\ handler \in {"waiting", "answered"} /\ moves \in 0..MaxMoves
  /\ died \in BOOLEAN /\ overlapped \in BOOLEAN /\ remapped \subseteq Files

\* Each waiting call, and the one an answer is about to start, was a move.
CallsAreMoves ==
  IF handler = "answered" THEN tasks.resume + 1 <= moves
                          ELSE tasks.resume <= moves

CInv == ControlType /\ CallsAreMoves

\* The locals of a thread after a step that only changes where it is.
LEMMA GotoStep ==
  ASSUME job \in [Threads -> Job], NEW w \in Threads,
         NEW pc \in {"begin", "ingest", "gate", "guard", "plan", "clean",
                     "cleaned", "match", "merge"},
         Goto(w, pc)
  PROVE  /\ job' \in [Threads -> Job]
         /\ \A v \in Threads : v # w => job'[v] = job[v]
         /\ job'[w].pc = pc /\ job'[w].paths = job[w].paths
         /\ job'[w].todo = job[w].todo /\ job'[w].snap = job[w].snap
  BY DEF Goto, Job

LEMMA PlanStep ==
  ASSUME job \in [Threads -> Job], NEW w \in Threads, NEW S \in SUBSET Rows,
         job' = [job EXCEPT ![w].pc = "clean", ![w].todo = S]
  PROVE  /\ job' \in [Threads -> Job]
         /\ \A v \in Threads : v # w => job'[v] = job[v]
         /\ job'[w].pc = "clean" /\ job'[w].paths = job[w].paths
         /\ job'[w].todo = S
  <1>1. [job[w] EXCEPT !.pc = "clean", !.todo = S] \in Job
    BY DEF Job
  <1>2. job' = [job EXCEPT ![w] = [job[w] EXCEPT !.pc = "clean", !.todo = S]]
    OBVIOUS
  <1> QED
    BY <1>1, <1>2 DEF Job

LEMMA ReturnStep ==
  ASSUME job \in [Threads -> Job], NEW w \in Threads, Return(w)
  PROVE  /\ job' \in [Threads -> Job]
         /\ \A v \in Threads : v # w => job'[v] = job[v]
         /\ job'[w].pc = "idle" /\ ~job'[w].paths /\ job'[w].todo = {}
  BY DEF Return, Idle, Job

\* Taking up a call.
LEMMA TakeUpStep ==
  ASSUME CInv, NEW w \in Threads, TakeUp(w)
  PROVE  /\ job' \in [Threads -> Job]
         /\ \A v \in Threads : v # w => job'[v] = job[v]
         /\ job[w].pc = "idle" /\ job'[w].pc = "begin"
         /\ \/ /\ tasks.upload = 1 /\ job'[w].paths
               /\ tasks' = [upload |-> 0, resume |-> tasks.resume]
            \/ /\ tasks.resume > 0 /\ ~job'[w].paths
               /\ tasks' = [upload |-> tasks.upload, resume |-> tasks.resume - 1]
  <1>1. PICK kind \in {"upload", "resume"} :
          /\ tasks[kind] > 0
          /\ tasks' = [tasks EXCEPT ![kind] = @ - 1]
          /\ job' = [job EXCEPT ![w] = [Idle EXCEPT !.pc = "begin",
                                                    !.paths = kind = "upload"]]
    BY DEF TakeUp
  <1>2. [Idle EXCEPT !.pc = "begin", !.paths = (kind = "upload")] \in Job
    BY DEF Idle, Job
  <1>3. /\ job' \in [Threads -> Job]
        /\ \A v \in Threads : v # w => job'[v] = job[v]
        /\ job'[w].pc = "begin" /\ job'[w].paths = (kind = "upload")
    BY <1>1, <1>2 DEF CInv, ControlType, Idle
  <1>4. /\ tasks = [upload |-> tasks.upload, resume |-> tasks.resume]
        /\ tasks.upload \in 0..1 /\ tasks.resume \in 0..MaxMoves
    BY DEF CInv, ControlType
  <1>5. CASE kind = "upload"
    <2>1. tasks' = [tasks EXCEPT !.upload = @ - 1] /\ tasks.upload > 0
      BY <1>1, <1>5
    <2>2. tasks' = [upload |-> 0, resume |-> tasks.resume] /\ tasks.upload = 1
      BY <2>1, <1>4
    <2> QED
      BY <1>3, <1>5, <2>2 DEF TakeUp
  <1>6. CASE kind = "resume"
    <2>1. tasks' = [tasks EXCEPT !.resume = @ - 1] /\ tasks.resume > 0
      BY <1>1, <1>6
    <2>2. tasks' = [upload |-> tasks.upload, resume |-> tasks.resume - 1]
      BY <2>1, <1>4
    <2> QED
      BY <1>3, <1>6, <2>1, <2>2 DEF TakeUp
  <1> QED
    BY <1>1, <1>5, <1>6

LEMMA ControlInit == Init => CInv
  <1> SUFFICES ASSUME Init PROVE CInv
    OBVIOUS
  <1>1. job \in [Threads -> Job]
    BY DEF Init, Idle, Job
  <1>2. tasks \in [upload: 0..1, resume: 0..MaxMoves] /\ CallsAreMoves
    BY PipelineAssumption DEF Init, CallsAreMoves
  <1> QED
    BY <1>1, <1>2, PipelineAssumption DEF Init, CInv, ControlType, Stage

\* The steps of a thread keep the types.
LEMMA ControlRun ==
  ASSUME CInv, NEW w \in Threads, Run(w)
  PROVE  CInv'
  <1> USE DEF CInv, ControlType, CallsAreMoves
  <1>1. CASE TakeUp(w)
    <2>1. /\ tasks.upload \in 0..1 /\ tasks.resume \in 0..MaxMoves
          /\ moves \in 0..MaxMoves
      OBVIOUS
    <2>2. /\ tasks' \in [upload: 0..1, resume: 0..MaxMoves]
          /\ tasks'.resume <= tasks.resume
      BY <1>1, <2>1, TakeUpStep, PipelineAssumption
    <2>3. UNCHANGED <<stage, mapped, question, records, decisions, handler,
                      moves, died, overlapped, remapped>>
      BY <1>1 DEF TakeUp, data, history
    <2>4. job' \in [Threads -> Job]
      BY <1>1, TakeUpStep
    <2>5. CallsAreMoves'
      BY <2>1, <2>2, <2>3, PipelineAssumption
    <2> QED
      BY <2>2, <2>3, <2>4, <2>5
  <1>2. CASE Look(w)
    BY <1>2, GotoStep, ReturnStep DEF Look, data, page, history
  <1>3. CASE Gate(w)
    BY <1>3, GotoStep, ReturnStep DEF Gate, data, page, history
  <1>4. CASE \E f \in Files : MapColumn(w, f)
    BY <1>4 DEF MapColumn, page, history
  <1>5. CASE SetMapped(w)
    BY <1>5, GotoStep DEF SetMapped, page, history, Stage
  <1>6. CASE Guard(w)
    BY <1>6, GotoStep DEF Guard, data, page
  <1>7. CASE Plan(w)
    <2>1. PICK S \in SUBSET Rows :
            job' = [job EXCEPT ![w].pc = "clean", ![w].todo = S]
      BY <1>7 DEF Plan
    <2>2. job' \in [Threads -> Job]
      BY <2>1, PlanStep
    <2> QED
      BY <1>7, <2>2 DEF Plan, data, page, history
  <1>8. CASE \E r \in Rows : CleanRow(w, r)
    <2>1. PICK r \in Rows : CleanRow(w, r)
      BY <1>8
    <2>2. job' \in [Threads -> Job]
      BY <2>1 DEF CleanRow, Job
    <2>3. records' \in [RecordIds -> Status \cup {"absent"}]
      BY <2>1 DEF CleanRow, Status
    <2> QED
      BY <2>1, <2>2, <2>3 DEF CleanRow, page, history
  <1>9. CASE SetValidated(w)
    BY <1>9, GotoStep DEF SetValidated, page, history, Stage
  <1>10. CASE Match(w)
    <2>1. job' \in [Threads -> Job]
      BY <1>10, ReturnStep DEF Match, Snapshot, Stored, Job
    <2> QED
      BY <1>10, <2>1 DEF Match, data, page, history
  <1>11. CASE Merge(w)
    <2>1. job' \in [Threads -> Job]
      BY <1>11, ReturnStep DEF Merge
    <2>2. records' \in [RecordIds -> Status \cup {"absent"}]
      BY <1>11 DEF Merge, Status
    <2> QED
      BY <1>11, <2>1, <2>2 DEF Merge, page, history, Stage
  <1> QED
    BY <1>1, <1>2, <1>3, <1>4, <1>5, <1>6, <1>7, <1>8, <1>9, <1>10, <1>11
    DEF Run

\* So do the handlers, a death and a restart.
LEMMA ControlPage ==
  ASSUME CInv, Human \/ CheckGate \/ Restart \/ \E w \in Threads : Die(w)
  PROVE  CInv'
  <1> USE DEF CInv, ControlType, CallsAreMoves
  <1>1. CASE \E f \in Files, t \in Target : AnswerColumn(f, t)
    BY <1>1, PipelineAssumption DEF AnswerColumn, Remap, Move
  <1>2. CASE \E f \in Files, t \in Target : Override(f, t)
    BY <1>2, PipelineAssumption DEF Override, Remap, Move
  <1>3. CASE \E e \in escalations, all \in BOOLEAN : AnswerRecord(e, all)
    BY <1>3, PipelineAssumption DEF AnswerRecord, Move, history
  <1>4. CASE Continue
    BY <1>4, PipelineAssumption DEF Continue, Start, Move, data
  <1>5. CASE CheckGate
    <2>1. CASE GateIsOpen
      BY <1>5, <2>1, PipelineAssumption DEF CheckGate, Start, data
    <2>2. CASE ~GateIsOpen
      BY <1>5, <2>2 DEF CheckGate, data
    <2> QED
      BY <2>1, <2>2
  <1>6. CASE Restart
    BY <1>6, PipelineAssumption DEF Restart, data, Idle, Job
  <1>7. CASE \E w \in Threads : Die(w)
    BY <1>7, ReturnStep DEF Die, data, page
  <1> QED
    BY <1>1, <1>2, <1>3, <1>4, <1>5, <1>6, <1>7 DEF Human

LEMMA ControlNext == CInv /\ [Next]_vars => CInv'
  <1> SUFFICES ASSUME CInv, [Next]_vars PROVE CInv'
    OBVIOUS
  <1>1. CASE UNCHANGED vars
    BY <1>1 DEF CInv, ControlType, CallsAreMoves, vars, data, page, history
  <1> QED
    BY <1>1, ControlRun, ControlPage DEF Next

\* The types hold.
LEMMA ControlCorrect == Spec => []CInv
  BY ControlInit, ControlNext, PTL DEF Spec
-----------------------------------------------------------------------------
(* The mapping gate. *)

AllRead == \A f \in Files : mapped[f] # "unread"
Settled == AllRead /\ GateIsOpen
PastGate == {"guard", "plan", "clean", "cleaned", "match", "merge"}

\* Every column is read before the stage says so, and every call that has
\* passed the gate, or any trace it leaves, means that all are settled.
GInv ==
  /\ stage # "uploaded" => AllRead
  /\ stage \in {"validated", "reconciled"} => Settled
  /\ Stored # {} => Settled
  /\ \A w \in Threads : job[w].pc = "gate" => AllRead
  /\ \A w \in Threads : job[w].pc \in PastGate => Settled

\* What is settled stays settled: nothing asks about a column twice.
LEMMA SettledStays ==
  ASSUME CInv, [Next]_vars
  PROVE  (AllRead => AllRead') /\ (Settled => Settled')
  <1> USE DEF AllRead, Settled, GateIsOpen
  <1>1. CASE UNCHANGED <<mapped, question>>
    BY <1>1
  <1>2. CASE \E w \in Threads, f \in Files : MapColumn(w, f)
    BY <1>2 DEF MapColumn, CInv, ControlType, Target
  <1>3. CASE \E f \in Files, t \in Target : AnswerColumn(f, t) \/ Override(f, t)
    BY <1>3 DEF AnswerColumn, Override, Remap, CInv, ControlType, Target
  <1> QED
    BY <1>1, <1>2, <1>3
    DEF Next, Run, Human, TakeUp, Look, Gate, SetMapped, Guard, Plan, CleanRow,
        SetValidated, Match, Merge, AnswerRecord, Continue, Start, CheckGate,
        Die, Restart, vars, data

LEMMA GateInit == Init => GInv
  BY PipelineAssumption DEF Init, GInv, Stored, Idle, PastGate

\* A step of a thread.
LEMMA GateRun ==
  ASSUME CInv, GInv, NEW w \in Threads, Run(w), AllRead => AllRead',
         Settled => Settled'
  PROVE  GInv'
  <1>j. job \in [Threads -> Job]
    BY DEF CInv, ControlType
  <1>s. Settled' => GInv'
    BY DEF GInv, Settled
  <1>1. CASE TakeUp(w)
    BY <1>1, TakeUpStep DEF TakeUp, data, Stored, GInv, PastGate
  <1>2. CASE Look(w)
    BY <1>j, <1>2, GotoStep, ReturnStep DEF Look, data, Stored, GInv, PastGate
  <1>3. CASE Gate(w)
    <2>1. CASE GateIsOpen
      BY <1>s, <1>3, <2>1 DEF Gate, GInv, Settled
    <2>2. CASE ~GateIsOpen
      BY <1>j, <1>3, <2>2, ReturnStep DEF Gate, data, Stored, GInv, PastGate
    <2> QED
      BY <2>1, <2>2
  <1>4. CASE \E f \in Files : MapColumn(w, f)
    BY <1>4 DEF MapColumn, Stored, GInv
  <1>5. CASE SetMapped(w)
    BY <1>j, <1>5, GotoStep DEF SetMapped, Stored, AllRead, GInv, PastGate
  <1>6. CASE Guard(w) \/ Plan(w) \/ (\E r \in Rows : CleanRow(w, r))
             \/ SetValidated(w) \/ Match(w) \/ Merge(w)
    <2>1. job[w].pc \in PastGate
      BY <1>6 DEF Guard, Plan, CleanRow, SetValidated, Match, Merge, PastGate
    <2> QED
      BY <1>s, <2>1 DEF GInv
  <1> QED
    BY <1>1, <1>2, <1>3, <1>4, <1>5, <1>6 DEF Run

\* Any other step leaves the records and the stage alone.
LEMMA GatePage ==
  ASSUME CInv, GInv, AllRead => AllRead', Settled => Settled',
         Human \/ CheckGate \/ Restart \/ \E w \in Threads : Die(w)
  PROVE  GInv'
  <1>1. /\ UNCHANGED <<stage, records>>
        /\ \A w \in Threads : job'[w].pc \in {job[w].pc, "idle"}
    BY ReturnStep
    DEF Human, AnswerColumn, AnswerRecord, Override, Continue, CheckGate, Restart,
        Die, data, Idle, CInv, ControlType
  <1> QED
    BY <1>1 DEF GInv, Stored, PastGate

LEMMA GateNext == CInv /\ GInv /\ [Next]_vars => GInv'
  <1> SUFFICES ASSUME CInv, GInv, [Next]_vars PROVE GInv'
    OBVIOUS
  <1>1. (AllRead => AllRead') /\ (Settled => Settled')
    BY SettledStays
  <1>2. CASE UNCHANGED vars
    BY <1>2 DEF GInv, Stored, AllRead, Settled, GateIsOpen, vars, data
  <1> QED
    BY <1>1, <1>2, GateRun, GatePage DEF Next

\* No row is processed while a mapping question is open (runner.py:15).
THEOREM GateCorrect == Spec => []GateRespected
  <1>1. CInv /\ GInv => GateRespected
    BY DEF GInv, Settled, GateIsOpen, GateRespected
  <1> QED
    BY <1>1, ControlCorrect, GateInit, GateNext, PTL DEF Spec
-----------------------------------------------------------------------------
(* The stage and the calls. *)

\* One call reads the files, and only before the stage says they are read;
\* where a call may be agrees with the stage.
OInv ==
  /\ \A w \in Threads : job[w].pc = "ingest" => job[w].paths /\ stage = "uploaded"
  /\ \A v, w \in Threads : job[v].paths /\ job[w].paths => v = w
  /\ tasks.upload = 1 => stage = "uploaded" /\ \A w \in Threads : ~job[w].paths
  /\ stage = "uploaded" =>
       \A w \in Threads : job[w].pc \in {"idle", "begin", "ingest"}
  /\ stage = "mapped" =>
       \A w \in Threads : job[w].pc \notin {"cleaned", "match", "merge"}

LEMMA StageInit == Init => OInv
  BY DEF Init, OInv, Idle

LEMMA StageRun ==
  ASSUME CInv, OInv, NEW w \in Threads, Run(w)
  PROVE  OInv'
  <1>j. job \in [Threads -> Job] /\ tasks.upload \in 0..1
    BY DEF CInv, ControlType
  <1>1. CASE TakeUp(w)
    <2>1. UNCHANGED stage
      BY <1>1 DEF TakeUp, data
    <2> QED
      BY <1>1, <2>1, TakeUpStep DEF OInv
  <1>2. CASE Look(w)
    <2>1. UNCHANGED <<stage, tasks>>
      BY <1>2 DEF Look, data, page
    <2> QED
      BY <1>j, <1>2, <2>1, GotoStep, ReturnStep DEF Look, OInv
  <1>3. CASE Gate(w)
    <2>1. UNCHANGED <<stage, tasks>>
      BY <1>3 DEF Gate, data, page
    <2> QED
      BY <1>j, <1>3, <2>1, GotoStep, ReturnStep DEF Gate, OInv
  <1>4. CASE \E f \in Files : MapColumn(w, f)
    BY <1>4 DEF MapColumn, page, OInv
  <1>5. CASE SetMapped(w)
    BY <1>j, <1>5, GotoStep DEF SetMapped, page, OInv
  <1>6. CASE Guard(w)
    <2>1. UNCHANGED <<stage, tasks>>
      BY <1>6 DEF Guard, data, page
    <2> QED
      BY <1>j, <1>6, <2>1, GotoStep DEF Guard, OInv
  <1>7. CASE Plan(w)
    <2>1. UNCHANGED <<stage, tasks>>
      BY <1>7 DEF Plan, data, page
    <2>2. job[w].pc = "plan"
      BY <1>7 DEF Plan
    <2>3. PICK S \in SUBSET Rows :
            job' = [job EXCEPT ![w].pc = "clean", ![w].todo = S]
      BY <1>7 DEF Plan
    <2> QED
      BY <1>j, <2>1, <2>2, <2>3, PlanStep DEF OInv
  <1>8. CASE \E r \in Rows : CleanRow(w, r)
    <2>1. UNCHANGED <<stage, tasks>>
      BY <1>8 DEF CleanRow, page
    <2>2. \A v \in Threads : job'[v].pc = job[v].pc /\ job'[v].paths = job[v].paths
      BY <1>j, <1>8 DEF CleanRow, Job
    <2> QED
      BY <2>1, <2>2 DEF OInv
  <1>9. CASE SetValidated(w)
    BY <1>j, <1>9, GotoStep DEF SetValidated, page, OInv
  <1>10. CASE Match(w)
    <2>1. UNCHANGED <<stage, tasks>> /\ job[w].pc = "match"
      BY <1>10 DEF Match, data, page
    <2>2. /\ \A v \in Threads : v # w => job'[v] = job[v]
          /\ job'[w].pc \in {"idle", "merge"}
          /\ job'[w].paths => job[w].paths
      BY <1>j, <1>10, ReturnStep DEF Match, Job
    <2> QED
      BY <2>1, <2>2 DEF OInv
  <1>11. CASE Merge(w)
    <2>1. stage' = "reconciled" /\ UNCHANGED tasks /\ Return(w) /\ job[w].pc = "merge"
      BY <1>11 DEF Merge, page
    <2> QED
      BY <1>j, <2>1, ReturnStep DEF OInv
  <1> QED
    BY <1>1, <1>2, <1>3, <1>4, <1>5, <1>6, <1>7, <1>8, <1>9, <1>10, <1>11
    DEF Run

LEMMA StagePage ==
  ASSUME CInv, OInv, Human \/ CheckGate \/ Restart \/ \E w \in Threads : Die(w)
  PROVE  OInv'
  <1>1. UNCHANGED stage
    BY DEF Human, AnswerColumn, AnswerRecord, Override, Continue, CheckGate,
           Restart, Die, data
  <1>2. tasks'.upload = 1 => tasks.upload = 1
    BY DEF Human, AnswerColumn, AnswerRecord, Override, Continue, Start,
           CheckGate, Restart, Die, page, CInv, ControlType
  <1>3. \A w \in Threads : \/ job'[w] = job[w]
                           \/ job'[w].pc = "idle" /\ ~job'[w].paths
    <2>1. CASE \E w \in Threads : Die(w)
      <3>1. PICK w \in Threads : Return(w)
        BY <2>1 DEF Die
      <3> QED
        BY <3>1, ReturnStep DEF CInv, ControlType
    <2>2. CASE Restart
      BY <2>2 DEF Restart, Idle
    <2>3. CASE Human \/ CheckGate
      <3>1. UNCHANGED job
        BY <2>3 DEF Human, AnswerColumn, AnswerRecord, Override, Continue, CheckGate
      <3> QED
        BY <3>1
    <2> QED
      BY <2>1, <2>2, <2>3
  <1> QED
    BY <1>1, <1>2, <1>3 DEF OInv

LEMMA StageNext == CInv /\ OInv /\ [Next]_vars => OInv'
  <1> SUFFICES ASSUME CInv, OInv, [Next]_vars PROVE OInv'
    OBVIOUS
  <1>1. CASE UNCHANGED vars
    BY <1>1 DEF OInv, vars, data, page
  <1> QED
    BY <1>1, StageRun, StagePage DEF Next

\* As long as two calls never cleaned at once, the one that cleans is alone
\* and the stage waits for it.
AloneInv ==
  ~overlapped => /\ \A v, w \in Cleaning : v = w
                 /\ Cleaning # {} => stage = "mapped"

LEMMA AloneInit == Init => AloneInv
  BY DEF Init, AloneInv, Cleaning, Idle

LEMMA AloneNext == CInv /\ OInv /\ AloneInv /\ [Next]_vars => AloneInv'
  <1> SUFFICES ASSUME CInv, OInv, AloneInv, [Next]_vars PROVE AloneInv'
    OBVIOUS
  <1>j. job \in [Threads -> Job] /\ overlapped \in BOOLEAN
    BY DEF CInv, ControlType
  <1>1. ASSUME UNCHANGED <<stage, overlapped>>,
               \A v \in Threads : job'[v].pc \in {"plan", "clean"}
                                   => job[v].pc \in {"plan", "clean"}
        PROVE  AloneInv'
    BY <1>1 DEF AloneInv, Cleaning
  <1>2. CASE \E w \in Threads : Guard(w)
    <2>1. PICK w \in Threads : Guard(w)
      BY <1>2
    <2>2. UNCHANGED stage /\ job[w].pc = "guard"
      BY <2>1 DEF Guard, data
    <2>3. CASE stage \in {"uploaded", "mapped"}
      <3>1. stage = "mapped"
        BY <2>2, <2>3 DEF OInv
      <3>2. Goto(w, "plan") /\ overlapped' = (overlapped \/ Cleaning # {})
        BY <2>1, <2>3 DEF Guard
      <3>3. Cleaning = {} => Cleaning' = {w}
        BY <1>j, <3>2, GotoStep DEF Cleaning
      <3> QED
        BY <2>2, <3>1, <3>2, <3>3 DEF AloneInv
    <2>4. CASE stage \notin {"uploaded", "mapped"}
      BY <1>1, <1>j, <2>1, <2>2, <2>4, GotoStep DEF Guard
    <2> QED
      BY <2>3, <2>4
  <1>3. CASE \E w \in Threads : SetValidated(w)
    <2>1. PICK w \in Threads : SetValidated(w)
      BY <1>3
    <2>2. /\ w \in Cleaning /\ Cleaning' = Cleaning \ {w}
          /\ overlapped' = overlapped
      BY <1>j, <2>1, GotoStep DEF SetValidated, Cleaning, history
    <2> QED
      BY <2>2 DEF AloneInv
  <1>4. CASE \E w \in Threads : SetMapped(w)
    <2>1. PICK w \in Threads : SetMapped(w)
      BY <1>4
    <2>2. overlapped' = overlapped /\ stage' = "mapped"
      BY <2>1 DEF SetMapped, history
    <2>3. Cleaning = {} /\ Cleaning' = {}
      BY <1>j, <2>1, GotoStep DEF SetMapped, Cleaning, OInv
    <2> QED
      BY <2>2, <2>3 DEF AloneInv
  <1>5. CASE \E w \in Threads : Merge(w)
    <2>1. PICK w \in Threads : Merge(w)
      BY <1>5
    <2>2. job[w].pc = "merge" /\ Return(w) /\ overlapped' = overlapped
      BY <2>1 DEF Merge, history
    <2>3. Cleaning' = Cleaning
      BY <1>j, <2>2, ReturnStep DEF Cleaning
    <2>4. stage # "mapped"
      BY <2>2 DEF OInv
    <2> QED
      BY <2>2, <2>3, <2>4 DEF AloneInv
  <1>6. CASE \E w \in Threads : TakeUp(w)
    BY <1>1, <1>6, TakeUpStep DEF TakeUp, data, history
  <1>7. CASE \E w \in Threads : Look(w) \/ Gate(w)
    BY <1>1, <1>j, <1>7, GotoStep, ReturnStep DEF Look, Gate, data, history
  <1>8. CASE \E w \in Threads, f \in Files : MapColumn(w, f)
    BY <1>1, <1>8 DEF MapColumn, history
  <1>9. CASE \E w \in Threads : Plan(w) \/ \E r \in Rows : CleanRow(w, r)
    BY <1>1, <1>j, <1>9 DEF Plan, CleanRow, data, history, Job
  <1>10. CASE \E w \in Threads : Match(w)
    BY <1>1, <1>j, <1>10, ReturnStep DEF Match, data, history, Job
  <1>11. CASE Human \/ CheckGate \/ Restart \/ \E w \in Threads : Die(w)
    BY <1>1, <1>j, <1>11, ReturnStep
    DEF Human, AnswerColumn, AnswerRecord, Override, Continue, CheckGate, Restart,
        Die, data, history, Idle
  <1>12. CASE UNCHANGED vars
    BY <1>1, <1>12 DEF vars, data, history
  <1> QED
    BY <1>2, <1>3, <1>4, <1>5, <1>6, <1>7, <1>8, <1>9, <1>10, <1>11, <1>12
    DEF Next, Run

\* The stage only moves forward unless two calls cleaned at once.
THEOREM StageForward == Spec => StageNeverGoesBack
  <1>1. ASSUME CInv, OInv, AloneInv, [Next]_vars
        PROVE  [overlapped \/ Position(stage) <= Position(stage')]_vars
    <2> SUFFICES ASSUME ~overlapped PROVE Position(stage) <= Position(stage')
      OBVIOUS
    <2> SUFFICES ASSUME stage' # stage PROVE Position(stage) <= Position(stage')
      BY DEF Position
    <2>1. PICK w \in Threads : SetMapped(w) \/ SetValidated(w) \/ Merge(w)
      BY <1>1
      DEF Next, Run, Human, TakeUp, Look, Gate, MapColumn, Guard, Plan, CleanRow,
          Match, AnswerColumn, AnswerRecord, Override, Continue, CheckGate, Die,
          Restart, vars, data
    <2>2. stage \in Stage
      BY <1>1 DEF CInv, ControlType
    <2>3. CASE SetMapped(w)
      BY <1>1, <2>3 DEF SetMapped, OInv, Position
    <2>4. CASE SetValidated(w)
      BY <1>1, <2>4 DEF SetValidated, AloneInv, Cleaning, Position
    <2>5. CASE Merge(w)
      BY <2>2, <2>5 DEF Merge, Position, Stage
    <2> QED
      BY <2>1, <2>3, <2>4, <2>5
  <1> QED
    BY <1>1, ControlCorrect, StageInit, StageNext, AloneInit, AloneNext, PTL
    DEF Spec, StageNeverGoesBack
-----------------------------------------------------------------------------
(* No stall. *)

Reading == \E w \in Threads : job[w].paths /\ job[w].pc \in {"begin", "ingest"}
Working == \E w \in Threads : job[w].pc # "idle"

\* Somebody is going to take the run further.
Driven ==
  IF stage = "uploaded" THEN tasks.upload = 1 \/ Reading
  ELSE tasks.resume > 0 \/ handler = "answered" \/ Working

Done == stage = "reconciled" \/ (stage = "mapped" /\ ~GateIsOpen)

DInv == died \/ Done \/ Driven

LEMMA DrivenInit == Init => DInv
  BY DEF Init, DInv, Driven

\* A thread that works goes on, or leaves the run where it may rest.
LEMMA DrivenRun ==
  ASSUME CInv, GInv, OInv, DInv, NEW w \in Threads, Run(w)
  PROVE  DInv'
  <1>j. job \in [Threads -> Job] /\ died \in BOOLEAN
    BY DEF CInv, ControlType
  <1>1. CASE TakeUp(w)
    <2>1. UNCHANGED <<stage, question, died, handler>>
      BY <1>1 DEF TakeUp, data, history
    <2>2. /\ job'[w].pc = "begin"
          /\ job'[w].paths \/ (tasks'.upload = tasks.upload /\ ~job'[w].paths)
          /\ \A v \in Threads : v # w => job'[v] = job[v]
          /\ job[w].pc = "idle"
      BY <1>1, TakeUpStep
    <2> QED
      BY <2>1, <2>2 DEF DInv, Driven, Done, Reading, Working, GateIsOpen
  <1>2. CASE Look(w)
    <2>1. UNCHANGED <<stage, question, died, handler, tasks>>
      BY <1>2 DEF Look, data, page, history
    <2>2. /\ \A v \in Threads : v # w => job'[v] = job[v]
          /\ \/ /\ job'[w].pc = "ingest" /\ job'[w].paths
             \/ job'[w].pc = "gate" /\ stage = "mapped"
             \/ job'[w].pc = "match" /\ stage = "validated"
             \/ /\ job[w].pc = "begin" /\ stage = "uploaded" /\ ~job[w].paths
             \/ job[w].pc = "cleaned" /\ stage # "validated"
             \/ stage = "reconciled"
      BY <1>j, <1>2, GotoStep, ReturnStep DEF Look, CInv, ControlType, Stage
    <2> QED
      BY <2>1, <2>2 DEF DInv, Driven, Done, Reading, Working, GateIsOpen, OInv,
                        CInv, ControlType, Stage
  <1>3. CASE Gate(w)
    <2>1. UNCHANGED <<stage, question, died, handler, tasks>> /\ job[w].pc = "gate"
      BY <1>3 DEF Gate, data, page, history
    <2>2. stage # "uploaded"
      BY <2>1 DEF OInv
    <2>3. CASE GateIsOpen
      BY <1>j, <1>3, <2>1, <2>2, <2>3, GotoStep
      DEF Gate, DInv, Driven, Working
    <2>4. CASE ~GateIsOpen
      BY <2>1, <2>2, <2>4 DEF DInv, Done, GInv, Settled, GateIsOpen, CInv,
                              ControlType, Stage
    <2> QED
      BY <2>3, <2>4
  <1>4. CASE \E f \in Files : MapColumn(w, f)
    <2>1. UNCHANGED <<stage, died, handler, tasks, job>> /\ job[w].pc = "ingest"
      BY <1>4 DEF MapColumn, page, history
    <2> QED
      BY <2>1 DEF DInv, Driven, Reading, OInv
  <1>5. CASE SetMapped(w)
    BY <1>j, <1>5, GotoStep DEF SetMapped, DInv, Driven, Working
  <1>6. CASE Guard(w)
    <2>1. UNCHANGED <<stage, question, died, handler, tasks>> /\ job[w].pc = "guard"
      BY <1>6 DEF Guard, data, page
    <2>2. job'[w].pc # "idle" /\ stage # "uploaded"
      BY <1>j, <1>6, <2>1, GotoStep DEF Guard, OInv
    <2> QED
      BY <2>1, <2>2 DEF DInv, Driven, Working
  <1>7. CASE Plan(w)
    <2>1. UNCHANGED <<stage, question, died, handler, tasks>> /\ job[w].pc = "plan"
      BY <1>7 DEF Plan, data, page, history
    <2>2. PICK S \in SUBSET Rows :
            job' = [job EXCEPT ![w].pc = "clean", ![w].todo = S]
      BY <1>7 DEF Plan
    <2>3. job'[w].pc # "idle" /\ stage # "uploaded"
      BY <1>j, <2>1, <2>2, PlanStep DEF OInv
    <2> QED
      BY <2>1, <2>3 DEF DInv, Driven, Working
  <1>8. CASE \E r \in Rows : CleanRow(w, r)
    <2>1. UNCHANGED <<stage, died, handler, tasks>> /\ job[w].pc = "clean"
      BY <1>8 DEF CleanRow, page, history
    <2>2. job'[w].pc # "idle" /\ stage # "uploaded"
      BY <1>j, <1>8, <2>1 DEF CleanRow, OInv, Job
    <2> QED
      BY <2>1, <2>2 DEF DInv, Driven, Working
  <1>9. CASE SetValidated(w)
    BY <1>j, <1>9, GotoStep DEF SetValidated, DInv, Driven, Working
  <1>10. CASE Match(w)
    <2>1. UNCHANGED <<stage, question, died, handler, tasks>> /\ job[w].pc = "match"
      BY <1>10 DEF Match, data, page, history
    <2>2. CASE stage = "reconciled"
      BY <2>1, <2>2 DEF DInv, Done
    <2>3. CASE stage # "reconciled"
      <3>1. job'[w].pc = "merge" /\ stage # "uploaded"
        BY <1>j, <1>10, <2>1, <2>3 DEF Match, OInv, Job
      <3> QED
        BY <2>1, <3>1 DEF DInv, Driven, Working
    <2> QED
      BY <2>2, <2>3
  <1>11. CASE Merge(w)
    BY <1>11 DEF Merge, DInv, Done
  <1> QED
    BY <1>1, <1>2, <1>3, <1>4, <1>5, <1>6, <1>7, <1>8, <1>9, <1>10, <1>11
    DEF Run

\* An answer is followed by a look at the gate, and a death is excused.
LEMMA DrivenPage ==
  ASSUME CInv, GInv, OInv, DInv,
         Human \/ CheckGate \/ Restart \/ \E w \in Threads : Die(w)
  PROVE  DInv'
  <1>t. tasks = [upload |-> tasks.upload, resume |-> tasks.resume]
        /\ tasks.resume \in 0..MaxMoves /\ MaxMoves \in Nat
    BY PipelineAssumption DEF CInv, ControlType
  <1>1. CASE \E f \in Files, t \in Target : AnswerColumn(f, t)
    BY <1>1 DEF AnswerColumn, DInv, Driven, Done, Reading
  <1>2. CASE \E f \in Files, t \in Target : Override(f, t)
    BY <1>2 DEF Override, DInv, Driven, Done, Reading, Working, GateIsOpen
  <1>3. CASE \E e \in escalations, all \in BOOLEAN : AnswerRecord(e, all)
    BY <1>3 DEF AnswerRecord, DInv, Driven, Done, Reading, GateIsOpen, history
  <1>4. ASSUME Start, UNCHANGED <<stage, question, job>>  PROVE DInv'
    <2>1. /\ tasks'.upload = tasks.upload /\ tasks'.resume > 0
          /\ died' = (died /\ stage = "uploaded")
      BY <1>4, <1>t DEF Start
    <2> QED
      BY <1>4, <2>1 DEF DInv, Driven, Done, Reading, GateIsOpen
  <1>5. CASE Continue
    BY <1>4, <1>5 DEF Continue, data
  <1>6. CASE CheckGate
    <2>1. CASE GateIsOpen
      BY <1>4, <1>6, <2>1 DEF CheckGate, data
    <2>2. CASE ~GateIsOpen
      <3>1. stage \in {"uploaded", "mapped"}
        BY <2>2 DEF GInv, Settled, CInv, ControlType, Stage
      <3> QED
        BY <1>6, <2>2, <3>1
        DEF CheckGate, data, DInv, Driven, Done, Reading, GateIsOpen
    <2> QED
      BY <2>1, <2>2
  <1>7. CASE Restart \/ \E w \in Threads : Die(w)
    BY <1>7 DEF Restart, Die, DInv
  <1> QED
    BY <1>1, <1>2, <1>3, <1>5, <1>6, <1>7 DEF Human

LEMMA DrivenNext == CInv /\ GInv /\ OInv /\ DInv /\ [Next]_vars => DInv'
  <1> SUFFICES ASSUME CInv, GInv, OInv, DInv, [Next]_vars PROVE DInv'
    OBVIOUS
  <1>1. CASE UNCHANGED vars
    BY <1>1 DEF DInv, Driven, Done, Reading, Working, GateIsOpen, vars, data, page,
                history
  <1> QED
    BY <1>1, DrivenRun, DrivenPage DEF Next

\* A run in which nothing moves is finished, waits for a mapping answer, or
\* lost a call that nobody has replaced (runner.py:56, routes.py:1243).
THEOREM StallFree == Spec => []NeverStalls
  <1>1. OInv /\ DInv => NeverStalls
    BY DEF DInv, Driven, Done, Reading, Working, NeverStalls, Quiet
  <1> QED
    BY <1>1, ControlCorrect, GateInit, GateNext, StageInit, StageNext, DrivenInit,
       DrivenNext, PTL DEF Spec
=============================================================================
