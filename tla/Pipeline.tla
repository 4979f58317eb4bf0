------------------------------ MODULE Pipeline ------------------------------
(***************************************************************************)
(* One import, from the upload to 'reconciled': the runner                 *)
(* (app/agent/runner.py), the stages it drives (orchestrator.py,           *)
(* reconcile.py) and the handlers of the web page that start it again      *)
(* (app/ui/routes.py).                                                     *)
(*                                                                         *)
(* advance_run runs in a background thread, and more than one may run for  *)
(* the same import: an upload starts one, every answer given while no      *)
(* mapping question is open starts one, and so does the 'continue' button. *)
(* Each reads the stage, decides, and reads it again; an action below is   *)
(* one transaction of a thread, or one step of a handler between two       *)
(* awaits.                                                                 *)
(*                                                                         *)
(* A source file has one column.  What a row holds is abstracted to the    *)
(* person it is about and to the question cleaning it raises.  A row       *)
(* stands for a batch between two commits (Ticker.tick commits each 500).  *)
(***************************************************************************)
EXTENDS Integers, FiniteSets

CONSTANTS
  Files,        \* source files of the import
  Rows,         \* their rows
  FileOf,       \* the file of a row
  Rank,         \* cross_source.precedence of a file, lower wins
  People,       \* the clusters reconciliation finds
  PersonOf,     \* the cluster of a row
  Keyed,        \* the rows that carry a natural key
  Values,       \* class-scoped questions of a row: one per distinct value
  Conflicts,    \* class-scoped questions a merge raises
  Rules,        \* record-scoped questions: a rule the record breaks
  NoQuestion,
  RowAsks,      \* the question cleaning a row raises
  MergeAsks,    \* what a person's merged data raises
  Decided,      \* the class-scoped questions earlier imports settled
  Threads,      \* the thread pool
  MaxMoves,     \* bound: what a person does in one behaviour
  Env           \* which surroundings are there, a subset of EnvMoves

EnvMoves == {"die", "restart", "stale", "override"}
Classes == Values \cup Conflicts
Copies == 1..(MaxMoves + 1)
RecordIds == Rows \X Copies

ASSUME PipelineAssumption ==
  /\ FileOf \in [Rows -> Files] /\ Rank \in [Files -> Nat]
  /\ PersonOf \in [Rows -> People] /\ Keyed \subseteq Rows
  /\ RowAsks \in [Rows -> Values \cup Rules \cup {NoQuestion}]
  /\ MergeAsks \in [People -> SUBSET (Conflicts \cup Rules)]
  /\ Values \cap Rules = {} /\ Conflicts \cap Rules = {}
  /\ Decided \subseteq Classes
  /\ NoQuestion \notin Classes \cup Rules
  /\ IsFiniteSet(Rows)
  /\ MaxMoves \in Nat /\ Env \subseteq EnvMoves

VARIABLES
  stage,        \* runs.stage
  mapped,       \* the mapping of a file's column: its target field
  question,     \* the MAP_* question of a file's column
  records,      \* the status of each record; a row read twice has copies
  escalations,  \* the questions about records
  decisions,    \* class questions a person has ever answered
  job,          \* the local variables of each thread
  tasks,        \* calls of advance_run no thread has taken up
  handler,      \* where the resolve handler is
  moves,        \* how much a person did
  died,         \* history: a call died, and nobody nudged the run since
  overlapped,   \* history: two threads were cleaning at once
  remapped      \* history: files remapped after cleaning read the mappings

data == <<stage, mapped, question, records, escalations, decisions>>
page == <<tasks, handler, moves>>
history == <<died, overlapped, remapped>>
vars == <<data, job, page, history>>

Stage == {"uploaded", "mapped", "validated", "reconciled"}
Status == {"clean", "blocked", "incomplete", "merged", "merged_survivor"}
Target == {"field", "NULL"}
Escalation == [about: Classes \cup Rules, on: RecordIds,
               status: {"open", "resolved", "superseded"}]
Job == [pc: {"idle", "begin", "ingest", "gate", "guard", "plan", "clean",
             "cleaned", "match", "merge"},
        paths: BOOLEAN, todo: SUBSET Rows, snap: SUBSET RecordIds]

Idle == [pc |-> "idle", paths |-> FALSE, todo |-> {}, snap |-> {}]

TypeOK ==
  /\ stage \in Stage
  /\ mapped \in [Files -> Target \cup {"unread"}]
  /\ question \in [Files -> {"none", "open", "resolved"}]
  /\ records \in [RecordIds -> Status \cup {"absent"}]
  /\ escalations \subseteq Escalation
  /\ decisions \subseteq Classes
  /\ job \in [Threads -> Job]
  /\ tasks \in [upload: 0..1, resume: 0..MaxMoves]
  /\ handler \in {"waiting", "answered"} /\ moves \in 0..MaxMoves
  /\ died \in BOOLEAN /\ overlapped \in BOOLEAN /\ remapped \subseteq Files

\* start_run has stored the files and started the first call.
Init ==
  /\ stage = "uploaded"
  /\ mapped = [f \in Files |-> "unread"]
  /\ question = [f \in Files |-> "none"]
  /\ records = [i \in RecordIds |-> "absent"]
  /\ escalations = {} /\ decisions = Decided
  /\ job = [w \in Threads |-> Idle]
  /\ tasks = [upload |-> 1, resume |-> 0]
  /\ handler = "waiting" /\ moves = 0
  /\ died = FALSE /\ overlapped = FALSE /\ remapped = {}

Stored == {i \in RecordIds : records[i] # "absent"}

Goto(w, pc) == job' = [job EXCEPT ![w].pc = pc]
Return(w) == job' = [job EXCEPT ![w] = Idle]
-----------------------------------------------------------------------------
(* The runner. *)

\* A free thread of the pool takes up a call.
TakeUp(w) ==
  /\ job[w].pc = "idle"
  /\ \E kind \in {"upload", "resume"} :
       /\ tasks[kind] > 0
       /\ tasks' = [tasks EXCEPT ![kind] = @ - 1]
       /\ job' = [job EXCEPT ![w] = [Idle EXCEPT !.pc = "begin",
                                                 !.paths = kind = "upload"]]
  /\ UNCHANGED <<data, handler, moves, history>>

\* Mutant: a call only ever resumes at the mapping gate.
LookOnlyAtGate(w) ==
  /\ job[w].pc \in {"begin", "cleaned"}
  /\ \/ /\ job[w].pc = "begin" /\ stage = "uploaded" /\ job[w].paths
        /\ Goto(w, "ingest")
     \/ job[w].pc = "begin" /\ stage = "mapped" /\ Goto(w, "gate")
     \/ job[w].pc = "cleaned" /\ stage = "validated" /\ Goto(w, "match")
     \/ /\ job[w].pc = "begin" => stage # "mapped"
        /\ ~(job[w].pc = "begin" /\ stage = "uploaded" /\ job[w].paths)
        /\ ~(job[w].pc = "cleaned" /\ stage = "validated")
        /\ Return(w)
  /\ UNCHANGED <<data, page, history>>

\* advance_run reads the stage, before its first step and after each one.
Look(w) ==
  /\ job[w].pc \in {"begin", "cleaned"}
  /\ LET first == job[w].pc = "begin"
         upload == first /\ stage = "uploaded" /\ job[w].paths
         gate == first /\ stage = "mapped"
         match == stage = "validated" IN
     \/ upload /\ Goto(w, "ingest")
     \/ gate /\ Goto(w, "gate")
     \/ match /\ Goto(w, "match")
     \/ ~upload /\ ~gate /\ ~match /\ Return(w)
  /\ UNCHANGED <<data, page, history>>

\* mapping_gate_is_open
GateIsOpen == \A f \in Files : question[f] # "open"

\* Mutant: nothing pauses the run.
GateSkipped(w) ==
  /\ job[w].pc = "gate"
  /\ Goto(w, "guard")
  /\ UNCHANGED <<data, page, history>>

\* Closed, the call ends here: answering the last question starts another.
Gate(w) ==
  /\ job[w].pc = "gate"
  /\ IF GateIsOpen THEN Goto(w, "guard") ELSE Return(w)
  /\ UNCHANGED <<data, page, history>>
-----------------------------------------------------------------------------
(* ingest_and_map. *)

\* One column's transaction.  A proposal may be flagged or not, with a target
\* or without; a flagged one that an earlier import settled is not asked.
MapColumn(w, f) ==
  /\ job[w].pc = "ingest" /\ mapped[f] = "unread"
  /\ \E t \in Target, q \in {"none", "open"} :
       /\ mapped' = [mapped EXCEPT ![f] = t]
       /\ question' = [question EXCEPT ![f] = q]
  /\ UNCHANGED <<stage, records, escalations, decisions, job, page, history>>

SetMapped(w) ==
  /\ job[w].pc = "ingest" /\ \A f \in Files : mapped[f] # "unread"
  /\ stage' = "mapped"
  /\ Goto(w, "begin")
  /\ UNCHANGED <<mapped, question, records, escalations, decisions, page,
                 history>>
-----------------------------------------------------------------------------
(* clean_and_validate. *)

Cleaning == {w \in Threads : job[w].pc \in {"plan", "clean"}}

\* Mutant: the stage is not looked at again.
GuardSkipped(w) ==
  /\ job[w].pc = "guard"
  /\ Goto(w, "plan")
  /\ overlapped' = (overlapped \/ Cleaning # {})
  /\ UNCHANGED <<data, page, died, remapped>>

\* "Already past this stage": a read, and nothing that keeps it true.
Guard(w) ==
  /\ job[w].pc = "guard"
  /\ IF stage \in {"uploaded", "mapped"}
     THEN /\ Goto(w, "plan")
          /\ overlapped' = (overlapped \/ Cleaning # {})
     ELSE /\ Goto(w, "cleaned")
          /\ UNCHANGED overlapped
  /\ UNCHANGED <<data, page, died, remapped>>

\* Mutant: only the columns nobody was asked about.
PlanUnasked(w) ==
  /\ job[w].pc = "plan"
  /\ job' = [job EXCEPT ![w].pc = "clean", ![w].todo =
       {r \in Rows : /\ mapped[FileOf[r]] = "field"
                     /\ question[FileOf[r]] = "none"}]
  /\ UNCHANGED <<data, page, history>>

\* The mappings as they are now; a file without one is skipped silently.
Plan(w) ==
  /\ job[w].pc = "plan"
  /\ job' = [job EXCEPT ![w].pc = "clean", ![w].todo =
       {r \in Rows : mapped[FileOf[r]] = "field"}]
  /\ UNCHANGED <<data, page, history>>

\* create_or_merge_escalation, for a set of escalations all the same but for
\* the record: a decided class is not asked about, an open one is joined.
Raise(asked, q, on) ==
  IF \/ q \in decisions
     \/ q \in Classes /\ \E e \in asked : e.about = q /\ e.status = "open"
  THEN asked
  ELSE asked \cup {[about |-> q, on |-> on, status |-> "open"]}

NextCopy(r) == <<r, 1 + Cardinality({i \in Stored : i[1] = r})>>

\* A blocked row is blocked whether or not its question is asked.
CleanRow(w, r) ==
  /\ job[w].pc = "clean" /\ r \in job[w].todo
  /\ records' = [records EXCEPT ![NextCopy(r)] =
                   IF RowAsks[r] = NoQuestion THEN "clean" ELSE "blocked"]
  /\ escalations' = IF RowAsks[r] = NoQuestion THEN escalations
                    ELSE Raise(escalations, RowAsks[r], NextCopy(r))
  /\ job' = [job EXCEPT ![w].todo = @ \ {r}]
  /\ UNCHANGED <<stage, mapped, question, decisions, page, history>>

\* Mutant: the name the frames use for this stage.
SetValidatedCleaned(w) ==
  /\ job[w].pc = "clean" /\ job[w].todo = {}
  /\ stage' = "cleaned"
  /\ Goto(w, "cleaned")
  /\ UNCHANGED <<mapped, question, records, escalations, decisions, page,
                 history>>

\* Unconditional, whatever another call has made of the stage meanwhile.
SetValidated(w) ==
  /\ job[w].pc = "clean" /\ job[w].todo = {}
  /\ stage' = "validated"
  /\ Goto(w, "cleaned")
  /\ UNCHANGED <<mapped, question, records, escalations, decisions, page,
                 history>>
-----------------------------------------------------------------------------
(* reconcile_run: a transaction that reads, and one that writes. *)

\* Mutant: only the clean records are compared.
SnapshotClean == {i \in RecordIds : records[i] = "clean"}

\* Every record of the run, whatever its status.
Snapshot == Stored

Match(w) ==
  /\ job[w].pc = "match"
  /\ IF stage = "reconciled" THEN Return(w)
     ELSE job' = [job EXCEPT ![w].pc = "merge", ![w].snap = Snapshot]
  /\ UNCHANGED <<data, page, history>>

Cluster(w, p) == {i \in job[w].snap : PersonOf[i[1]] = p}
Merged(w) == {p \in People : Cardinality(Cluster(w, p)) > 1}

\* The members of the best source; the SELECT orders equals in no stated way.
Best(w, p) ==
  {i \in Cluster(w, p) : \A j \in Cluster(w, p) :
     Rank[FileOf[i[1]]] <= Rank[FileOf[j[1]]]}

\* Mutant: an absorbed record keeps its questions.
SupersededNone(absorbed, survivors) == {}

\* The questions that close: all those on an absorbed record, and a rule the
\* merge has settled for its survivor (_requestion_survivor).
Superseded(absorbed, survivors) ==
  {e \in escalations : e.status = "open" /\
     \/ e.on \in absorbed
     \/ /\ e.on \in survivors /\ e.about \in Rules
        /\ e.about \notin MergeAsks[PersonOf[e.on[1]]]}

\* The questions the merged data raises: a rule per survivor, a conflict once.
Raised(asked, survivors) ==
  LET new == {[about |-> q, on |-> i, status |-> "open"] : q \in Conflicts \cup Rules,
                                                          i \in survivors}
      due == {e \in new : /\ e.about \in MergeAsks[PersonOf[e.on[1]]]
                          /\ e \in Raise(asked, e.about, e.on)}
  IN {e \in due : e.about \in Rules}
       \cup {(CHOOSE e \in due : e.about = q) :
               q \in {g.about : g \in due} \cap Conflicts}

Merge(w) ==
  /\ job[w].pc = "merge"
  /\ \E survivor \in [Merged(w) -> job[w].snap] :
       /\ \A p \in Merged(w) : survivor[p] \in Best(w, p)
       /\ LET survivors == {survivor[p] : p \in Merged(w)}
              absorbed == {i \in job[w].snap : PersonOf[i[1]] \in Merged(w)} \ survivors
              closed == Superseded(absorbed, survivors)
              kept == (escalations \ closed)
                        \cup {[e EXCEPT !.status = "superseded"] : e \in closed}
          IN
          /\ records' = [i \in RecordIds |->
               IF i \in survivors THEN "merged_survivor"
               ELSE IF i \in absorbed THEN "merged"
               ELSE IF records[i] = "clean" /\ i[1] \notin Keyed
               THEN "incomplete" ELSE records[i]]
          /\ escalations' = kept \cup Raised(kept, survivors)
  /\ stage' = "reconciled"
  /\ Return(w)
  /\ UNCHANGED <<mapped, question, decisions, page, history>>
-----------------------------------------------------------------------------
(* The handlers of the page.  They run on the event loop, one at a time. *)

Move == moves < MaxMoves /\ moves' = moves + 1

\* The column of file f is given target t, by an answer or by an override.
Remap(f, t) ==
  /\ mapped' = [mapped EXCEPT ![f] = t]
  /\ remapped' = IF stage \in {"uploaded", "mapped"} /\ Cleaning = {}
                 THEN remapped ELSE remapped \cup {f}

\* resolve_escalation for a MAP_* question.  Nothing asks if it is still open.
AnswerColumn(f, t) ==
  /\ handler = "waiting" /\ Move
  /\ question[f] = "open" \/ (question[f] = "resolved" /\ "stale" \in Env)
  /\ question' = [question EXCEPT ![f] = "resolved"]
  /\ Remap(f, t)
  /\ handler' = "answered"
  /\ UNCHANGED <<stage, records, escalations, decisions, job, tasks, died,
                 overlapped>>

\* ... and for a question on records, alone or with all that share its
\* signature.  No answer of this kind changes a record.
AnswerRecord(e, all) ==
  LET closed == IF all THEN {g \in escalations : g.about = e.about
                                                 /\ g.status = "open"} ELSE {e} IN
  /\ handler = "waiting" /\ Move
  /\ e.status = "open" \/ "stale" \in Env
  /\ escalations' = (escalations \ closed)
                      \cup {[g EXCEPT !.status = "resolved"] : g \in closed}
  /\ decisions' = decisions \cup ({e.about} \cap Classes)
  /\ handler' = "answered"
  /\ UNCHANGED <<stage, mapped, question, records, job, tasks, history>>

\* A call is put to the thread pool: it finds what a dead one left, unless
\* that had not finished reading the files, which only the upload can do.
Start ==
  /\ tasks' = [tasks EXCEPT !.resume = @ + 1]
  /\ died' = (died /\ stage = "uploaded")

\* Mutant: an answer does not resume the run.
CheckGateOnly ==
  /\ handler = "answered" /\ handler' = "waiting"
  /\ UNCHANGED <<data, job, tasks, moves, history>>

\* The second half of the handler, after its transaction.
CheckGate ==
  /\ handler = "answered" /\ handler' = "waiting"
  /\ IF GateIsOpen THEN Start ELSE UNCHANGED <<tasks, died>>
  /\ UNCHANGED <<data, job, moves, overlapped, remapped>>

\* continue_run
Continue ==
  /\ handler = "waiting" /\ Move
  /\ Start
  /\ UNCHANGED <<data, job, handler, overlapped, remapped>>

\* override_mapping
Override(f, t) ==
  /\ "override" \in Env
  /\ handler = "waiting" /\ mapped[f] # "unread" /\ Move
  /\ Remap(f, t)
  /\ UNCHANGED <<stage, question, records, escalations, decisions, job, tasks,
                 handler, died, overlapped>>
-----------------------------------------------------------------------------
\* Nothing of this run is under way or about to be.
Quiet ==
  /\ \A w \in Threads : job[w].pc = "idle"
  /\ tasks = [upload |-> 0, resume |-> 0] /\ handler = "waiting"

\* A call dies between two transactions: a model that fails, a database that
\* stays locked, a shutdown noticed at a tick.  Nothing catches it.
Die(w) ==
  /\ "die" \in Env /\ job[w].pc # "idle"
  /\ Return(w)
  /\ died' = TRUE
  /\ UNCHANGED <<data, page, overlapped, remapped>>

\* The process restarts: its threads, its tasks and its handler are gone.
Restart ==
  /\ "restart" \in Env /\ ~Quiet
  /\ job' = [w \in Threads |-> Idle]
  /\ tasks' = [upload |-> 0, resume |-> 0] /\ handler' = "waiting"
  /\ died' = TRUE
  /\ UNCHANGED <<data, moves, overlapped, remapped>>

Run(w) ==
  \/ TakeUp(w) \/ Look(w) \/ Gate(w) \/ Guard(w) \/ Plan(w)
  \/ \E f \in Files : MapColumn(w, f)
  \/ SetMapped(w) \/ SetValidated(w) \/ Match(w) \/ Merge(w)
  \/ \E r \in Rows : CleanRow(w, r)

Human ==
  \/ \E f \in Files, t \in Target : AnswerColumn(f, t) \/ Override(f, t)
  \/ \E e \in escalations, all \in BOOLEAN : AnswerRecord(e, all)
  \/ Continue

Next ==
  \/ \E w \in Threads : Run(w) \/ Die(w)
  \/ Human \/ CheckGate \/ Restart

Spec == Init /\ [][Next]_vars

\* The pool runs what it is given, and the event loop finishes a handler.
FairSpec == Spec /\ WF_vars(CheckGate) /\ \A w \in Threads : WF_vars(Run(w))
-----------------------------------------------------------------------------
(* Properties. *)

\* runner.py:15, "a flagged column mapping": no row is processed while a
\* mapping question is open, however calls and answers interleave.
GateRespected == Stored # {} => \A f \in Files : question[f] # "open"

\* A reconciled run has one record per person, whatever died on the way and
\* was read again -- as long as two calls were never cleaning at once.
OnePerPerson ==
  (stage = "reconciled" /\ Quiet /\ ~overlapped) =>
    \A p \in People :
      Cardinality({i \in Stored : PersonOf[i[1]] = p
                                  /\ records[i] # "merged"}) <= 1

\* Every row of a file whose column was kept is in a reconciled run: a call
\* that dies half way through a file leaves none of it out.
NoRowLost ==
  stage = "reconciled" =>
    \A r \in Rows :
      \/ mapped[FileOf[r]] # "field" \/ FileOf[r] \in remapped
      \/ \E i \in Stored : i[1] = r

\* A question that is open is about a record that still stands: absorbing a
\* record closes what is asked about it, however calls overlap.
QuestionsAreLive ==
  \A e \in escalations : e.status = "open" => records[e.on] # "merged"

\* No answer is lost: a run in which nothing moves any more is finished or
\* waits for a mapping answer, unless a call died and nobody nudged it since.
NeverStalls ==
  (Quiet /\ ~died) => stage = "reconciled" \/ (stage = "mapped" /\ ~GateIsOpen)

\* runner.py:18, "resumes by itself the moment the last one is answered".
Resumes == (stage = "mapped" /\ GateIsOpen) ~> (stage # "mapped" \/ died)

Position(s) ==
  CASE s = "uploaded" -> 0 [] s = "mapped" -> 1 [] s = "validated" -> 2 [] OTHER -> 3

\* The stage only moves forward, as long as two calls never cleaned at once.
StageNeverGoesBack ==
  [][overlapped \/ Position(stage) <= Position(stage')]_vars

(* What comments claim and the code does not do. *)

\* runner.py:58, "safe to call again": calling it twice is as good as once.
SafeToCallAgain ==
  (stage = "reconciled" /\ Quiet) =>
    \A p \in People :
      Cardinality({i \in Stored : PersonOf[i[1]] = p
                                  /\ records[i] # "merged"}) <= 1

\* runner.py:24, "blocked records carry blocked_on and are simply left out of
\* the push": no record a rule question is open on is a candidate for it.
BlockedIsLeftOut ==
  stage = "reconciled" =>
    \A e \in escalations :
      (e.status = "open" /\ e.about \in Rules)
        => records[e.on] \notin {"clean", "merged_survivor"}

\* reconcile.py:403, a superseded question "is now about nobody": whatever a
\* reconciled run holds back, somebody is or was asked about it.
SupersededIsAboutNobody ==
  (stage = "reconciled" /\ ~overlapped) =>
    \A i \in Stored :
      records[i] = "blocked" =>
        \/ RowAsks[i[1]] \in decisions
        \/ \E e \in escalations : e.about = RowAsks[i[1]]
                                  /\ e.status \in {"open", "resolved"}
=============================================================================
