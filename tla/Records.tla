------------------------------ MODULE Records ------------------------------
(* What a record holds, the rules it breaks and the questions about them,    *)
(* from the row that validation writes, over the merge of its sources, to    *)
(* the corrections a person makes: schema/rules.py, agent/validate.py, the   *)
(* survivorship of agent/reconcile.py, the fill page of ui/routes.py and     *)
(* resolve.py.  The rows are the sources of one person, or two people;       *)
(* Matching is about which.                                                  *)
EXTENDS Naturals, FiniteSets

CONSTANTS Rows,        \* rows of an import
          FileOf,      \* the file of each
          Rank,        \* their order: cross_source.precedence, then the query's
          Candidates,  \* what a row may hold once it is cleaned
          Blank,       \* no value
          Terminated,  \* an employment status
          Self,        \* a manager id that is the employee's own
          Malformed,   \* the values no field of the schema takes
          Required,    \* the fields every employee must have
          Material,    \* the fields on which a disagreement is asked about
          Sixteen,     \* years, in the unit of the dates
          Typed,       \* what a person may enter for each field
          Undecided,   \* no answer on whom to trust,
          ByRank,      \* and the answer to trust nobody
          MaxMoves     \* bound: what people and the target do

Fields == {"hire_date", "termination_date", "employment_status",
           "date_of_birth", "manager_employee_id", "work_email"}
Rules == {"R1", "R2", "R3", "R4", "R5"}
Files == {FileOf[r] : r \in Rows}
Value == UNION {{d[f] : f \in Fields} : d \in Candidates} \cup UNION {Typed[f] : f \in Fields}
Data == [Fields -> Value]

ASSUME RowsAssumption ==
  /\ IsFiniteSet(Rows) /\ Rows # {}
  /\ Rank \in [Rows -> Nat]
  /\ \A r, s \in Rows : Rank[r] = Rank[s] => r = s
ASSUME FieldsAssumption ==
  /\ Required \subseteq Fields /\ Material \subseteq Fields
  /\ Candidates \subseteq Data
  /\ Typed \in [Fields -> SUBSET Value] /\ \A f \in Fields : Blank \notin Typed[f]
  /\ Blank \in Value /\ MaxMoves \in Nat /\ {Undecided, ByRank} \cap Files = {}

VARIABLES data,       \* records.data
          status,     \* records.status
          questions,  \* escalations of LOGIC_CONTRADICTION and PUSH_REJECTED
          stage,      \* runs.stage
          same,       \* whether the rows are one person
          trust,      \* decisions: whom to trust for a field
          conflicts,  \* the fields CONFLICT_ACROSS_SOURCES is open about
          snapshot,   \* what reconcile_run has read, if it is under way
          page,       \* a submitted fill page
          moves,
          answered,   \* history: the rules of a row closed by a person
          raised      \* history: a judgement raised

people == <<moves, answered>>
vars == <<data, status, questions, stage, same, trust, conflicts, snapshot,
          page, people, raised>>
-----------------------------------------------------------------------------
(* schema/rules.py and validate.py's rule_issues *)

Has(d, f) == d[f] # Blank

Fails(rule, d) ==
  CASE rule = "R1" -> /\ Has(d, "hire_date") /\ Has(d, "termination_date")
                      /\ d.termination_date < d.hire_date
    [] rule = "R2" -> /\ d.employment_status = Terminated
                      /\ ~Has(d, "termination_date")
    [] rule = "R3" -> /\ d.employment_status # Terminated
                      /\ Has(d, "termination_date")
    [] rule = "R4" -> /\ Has(d, "date_of_birth") /\ Has(d, "hire_date")
                      /\ d.date_of_birth + Sixteen > d.hire_date
    [] rule = "R5" -> d.manager_employee_id = Self

\* evaluate_rules, without R6, which needs every id there is.
Broken(d) == {rule \in Rules : Fails(rule, d)}

\* RULE_PRIMARY_FIELD
PrimaryField ==
  [rule \in Rules |-> CASE rule \in {"R1", "R2", "R3"} -> "termination_date"
                        [] rule = "R4" -> "date_of_birth"
                        [] OTHER -> "manager_employee_id"]

\* The lenient model of build_model refuses the record.
Rejected(d) == \E f \in Fields : d[f] \in Malformed

\* The strict one wants the required fields too.
Complete(d) == ~Rejected(d) /\ \A f \in Required : Has(d, f)

\* A stored record the model refuses is judged raw, and R4 subtracts years
\* from a string.
Raises(d) == Rejected(d) /\ Has(d, "date_of_birth") /\ Has(d, "hire_date")
-----------------------------------------------------------------------------
(* Questions. *)

Open == {q \in questions : q.state = "open"}
OpenAbout(r, about) == {q \in Open : q.row = r /\ q.about = about}
Questioned(r) == {rule \in Rules : OpenAbout(r, rule) # {}}

\* create_or_merge_escalation: neither code is class-scoped or learnable.
Raised(r, rules) ==
  {[row |-> r, about |-> rule, field |-> PrimaryField[rule],
    no |-> Cardinality(questions), state |-> "open"] : rule \in rules}

\* What an escalation is known by.
Id(q) == <<q.row, q.about, q.no>>
Ids(qs) == {Id(q) : q \in qs}

\* The questions, with those of these ids in the state given, whatever they
\* were in before.
Close(ids, state) ==
  {IF Id(q) \in ids THEN [q EXCEPT !.state = state] ELSE q : q \in questions}

Closed == [open |-> FALSE, field |-> "work_email", rule |-> "none", rows |-> {},
           own |-> {}]
-----------------------------------------------------------------------------
Init ==
  /\ data \in [Rows -> Candidates]
  /\ status = [r \in Rows |-> "pending"]
  /\ questions = {} /\ stage = "mapped" /\ same \in BOOLEAN
  /\ trust \in [Material -> Files \cup {Undecided, ByRank}]
  /\ conflicts = {} /\ snapshot = {} /\ page = Closed
  /\ moves = 0 /\ answered = {} /\ raised = FALSE

\* validate_and_clean_record and the insert of clean_and_validate: the dates
\* are dates here, so nothing raises.  A row blocked for a value it holds, or
\* that the model refuses, has a question of another kind.
Validate(r) ==
  /\ stage = "mapped" /\ status[r] = "pending"
  /\ \E other \in BOOLEAN :
       /\ Rejected(data[r]) => other
       /\ status' = [status EXCEPT ![r] =
            IF other \/ Broken(data[r]) # {} THEN "blocked" ELSE "clean"]
  /\ questions' = questions \cup Raised(r, Broken(data[r]))
  /\ UNCHANGED <<data, stage, same, trust, conflicts, snapshot, page, people, raised>>

SetValidated ==
  /\ stage = "mapped" /\ \A r \in Rows : status[r] # "pending"
  /\ stage' = "validated"
  /\ UNCHANGED <<data, status, questions, same, trust, conflicts, snapshot, page,
                 people, raised>>
-----------------------------------------------------------------------------
(* reconcile_run: one transaction reads the records; models are asked about  *)
(* pairs; another transaction merges what was read.                          *)

\* A mutant: a call does not notice the one before it.
ReadAgain ==
  /\ stage = "validated" /\ Cardinality(snapshot) < 2
  /\ snapshot' = snapshot \cup {data}
  /\ UNCHANGED <<data, status, questions, stage, same, trust, conflicts, page,
                 people, raised>>

Read ==
  /\ stage = "validated" /\ snapshot = {}
  /\ snapshot' = {data}
  /\ UNCHANGED <<data, status, questions, stage, same, trust, conflicts, page,
                 people, raised>>

\* The row that comes first survives; the others are absorbed.
FirstOf(rows) == CHOOSE r \in rows : \A s \in rows : Rank[r] <= Rank[s]
Survivor == FirstOf(Rows)
Absorbed == Rows \ {Survivor}

\* values_by_source: of the rows of one file only the first with a value speaks.
Speaks(read, f) ==
  {r \in Rows : /\ Has(read[r], f)
                /\ \A s \in Rows : FileOf[s] = FileOf[r] /\ Has(read[s], f) => Rank[r] <= Rank[s]}

Disagree(read, f) == \E r, s \in Speaks(read, f) : read[r][f] # read[s][f]

\* _survivorship, one field: the source a person trusts, if it has a value
\* and the sources disagree; otherwise the one that comes first.
Winner(read, f) ==
  LET trusted == {r \in Speaks(read, f) : f \in Material /\ FileOf[r] = trust[f]} IN
  IF Disagree(read, f) /\ trusted # {} THEN FirstOf(trusted)
  ELSE FirstOf(Speaks(read, f))

MergedData(read) ==
  [f \in Fields |-> IF Speaks(read, f) = {} THEN Blank ELSE read[Winner(read, f)][f]]

NewConflicts(read) ==
  {f \in Material : Disagree(read, f) /\ trust[f] = Undecided}

\* The questions of the survivor about rules its merged data keeps.
Settled(d) == {q \in Open : q.row = Survivor /\ q.about \in Rules \ Broken(d)}

\* Those about the rows it absorbs.
Orphaned == {q \in Open : q.row \in Absorbed}

\* A mutant: what the merge settles stays open.
RequestionedMore(d) ==
  Close(Ids(Orphaned), "superseded")
    \cup Raised(Survivor, Broken(d) \ Questioned(Survivor))

\* _requestion_survivor, both ways, and the questions about absorbed rows.
Requestioned(d) ==
  Close(Ids(Settled(d) \cup Orphaned), "superseded")
    \cup Raised(Survivor, Broken(d) \ Questioned(Survivor))

\* The transaction that writes the survivor.  If the judgement of its data
\* raises, nothing of it stays and the call ends.
Merge ==
  /\ snapshot # {} /\ same
  /\ snapshot' = {}
  /\ \E read \in snapshot :
       LET d == MergedData(read) IN
       \/ /\ Raises(d)
          /\ raised' = TRUE
          /\ UNCHANGED <<data, status, questions, stage, conflicts>>
       \/ /\ ~Raises(d)
          /\ data' = [data EXCEPT ![Survivor] = d]
          /\ status' = [r \in Rows |-> IF r = Survivor THEN "merged_survivor" ELSE "merged"]
          /\ questions' = Requestioned(d)
          /\ conflicts' = conflicts \cup NewConflicts(read)
          /\ stage' = "reconciled"
          /\ UNCHANGED raised
  /\ UNCHANGED <<same, trust, page, people>>

\* Rows of two people: nothing is merged.  The rows here have an employee id:
\* those that have none and matched nobody are in Pipeline.
LeaveApart ==
  /\ snapshot # {} /\ ~same
  /\ snapshot' = {} /\ stage' = "reconciled"
  /\ UNCHANGED <<data, status, questions, same, trust, conflicts, page, people, raised>>
-----------------------------------------------------------------------------
(* A push, which no stage keeps from starting. *)

CandidateStatus == {"clean", "merged_survivor"}

\* A candidate the strict model refuses is left out.
LeaveOut(r) ==
  /\ status[r] \in CandidateStatus /\ ~Complete(data[r])
  /\ status' = [status EXCEPT ![r] = "incomplete"]
  /\ UNCHANGED <<data, questions, stage, same, trust, conflicts, snapshot, page,
                 people, raised>>

\* The target refuses one and names a field.
Refuse(r, f) ==
  /\ status[r] \in CandidateStatus /\ Complete(data[r])
  /\ OpenAbout(r, "target") = {} /\ moves < MaxMoves
  /\ moves' = moves + 1
  /\ questions' = questions \cup
       {[row |-> r, about |-> "target", field |-> f, no |-> Cardinality(questions),
         state |-> "open"]}
  /\ UNCHANGED <<data, status, stage, same, trust, conflicts, snapshot, page,
                 answered, raised>>
-----------------------------------------------------------------------------
(* The fill page.  fill_submit reads the rows behind a question, awaits the  *)
(* form, and then writes each row in a transaction of its own.               *)

FillableStatus == {"clean", "merged_survivor", "blocked", "incomplete"}
Fillable == {r \in Rows : status[r] \in FillableStatus}

SameSignature(q) == {e \in Open : e.about = q.about /\ e.field = q.field}

\* _fill_targets: about a refusal, the rows the target refused; about a rule,
\* every row that breaks it, asked about or not.  The anchor may be closed.
OpenPage(q) ==
  /\ ~page.open /\ moves < MaxMoves
  /\ moves' = moves + 1
  /\ LET widened == {r \in Fillable : q.about \in Broken(data[r])}
         rows == IF q.about \in Rules THEN widened ELSE {e.row : e \in SameSignature(q)} IN
     \/ /\ q.about \in Rules /\ \E r \in Fillable : Raises(data[r])
        /\ raised' = TRUE /\ UNCHANGED page
     \/ /\ q.about \in Rules => \A r \in Fillable : ~Raises(data[r])
        /\ page' = [open |-> TRUE, field |-> q.field, rule |-> q.about, rows |-> rows,
                    own |-> Ids({e \in SameSignature(q) : e.row \in rows})]
        /\ UNCHANGED raised
  /\ UNCHANGED <<data, status, questions, stage, same, trust, conflicts, snapshot,
                 answered>>

\* A mutant: a value answers for the rule it was meant to fix, and for no other.
FitsRule(before, after) == page.rule \notin Broken(after)

\* A value must break nothing the record did not break, and mend the rule.
Fits(before, after) ==
  /\ ~Rejected(after)
  /\ Broken(after) \subseteq Broken(before)
  /\ page.rule \notin Broken(after)

\* Only a complete record leaves the states that hold it back.
Restored(r, d) ==
  IF status[r] \notin {"excluded", "blocked", "incomplete"} THEN status[r]
  ELSE IF Complete(d) THEN "clean" ELSE "incomplete"

\* _apply_filled_values, one row: the record is read again, the question is the
\* one found when the page was read.  A value that does not fit is handed back.
FillRow(r, v) ==
  /\ page.open /\ r \in page.rows
  /\ LET d == [data[r] EXCEPT ![page.field] = v] IN
     \/ /\ ~Rejected(d) /\ Raises(data[r])
        /\ raised' = TRUE /\ page' = Closed
        /\ UNCHANGED <<data, status, questions>>
     \/ /\ ~Raises(data[r]) /\ Fits(data[r], d)
        /\ data' = [data EXCEPT ![r] = d]
        /\ status' = [status EXCEPT ![r] = Restored(r, d)]
        /\ questions' = Close({i \in page.own : i[1] = r}, "resolved")
        /\ page' = [page EXCEPT !.rows = @ \ {r}]
        /\ UNCHANGED raised
  /\ UNCHANGED <<stage, same, trust, conflicts, snapshot, people>>

\* The rows left blank, or handed back, stay as they are.
ClosePage ==
  /\ page.open
  /\ page' = Closed
  /\ UNCHANGED <<data, status, questions, stage, same, trust, conflicts, snapshot,
                 people, raised>>
-----------------------------------------------------------------------------
(* resolve_escalation *)

Selected(q, all) == IF all THEN SameSignature(q) ELSE {q}

\* No applier knows a contradiction: the question is closed, the record stays.
Dismiss(q, all) ==
  /\ q.about \in Rules /\ moves < MaxMoves
  /\ moves' = moves + 1
  /\ questions' = Close(Ids(Selected(q, all)), "resolved")
  /\ answered' = answered \cup {<<e.row, e.about>> : e \in Selected(q, all)}
  /\ UNCHANGED <<data, status, stage, same, trust, conflicts, snapshot, page, raised>>

\* _apply_push_repair, rejecting.
Exclude(q, all) ==
  /\ q.about = "target" /\ moves < MaxMoves
  /\ moves' = moves + 1
  /\ status' = [r \in Rows |-> IF \E e \in Selected(q, all) : e.row = r THEN "excluded"
                               ELSE status[r]]
  /\ questions' = Close(Ids(Selected(q, all)), "resolved")
  /\ UNCHANGED <<data, stage, same, trust, conflicts, snapshot, page, answered, raised>>

Corrected(q, v) == [data[q.row] EXCEPT ![q.field] = v]

\* A mutant: what is asked already is asked again.
RepairQuestionsAgain(q, v) == Raised(q.row, Broken(Corrected(q, v)))

\* What a correction contradicts is asked about, unless it is open already.
RepairQuestions(q, v) == Raised(q.row, Broken(Corrected(q, v)) \ Questioned(q.row))

\* _apply_push_repair, correcting one row: the value is written as it stands.
Repair(q, v) ==
  /\ q.about = "target" /\ moves < MaxMoves
  /\ moves' = moves + 1
  /\ \/ /\ Raises(Corrected(q, v))
        /\ raised' = TRUE
        /\ UNCHANGED <<data, status, questions>>
     \/ /\ ~Raises(Corrected(q, v))
        /\ data' = [data EXCEPT ![q.row] = Corrected(q, v)]
        /\ status' = [status EXCEPT ![q.row] = IF @ = "excluded" THEN "clean" ELSE @]
        /\ questions' = Close({Id(q)}, "resolved") \cup RepairQuestions(q, v)
        /\ UNCHANGED raised
  /\ UNCHANGED <<stage, same, trust, conflicts, snapshot, page, answered>>

Human ==
  \/ \E q \in questions :
       \/ OpenPage(q)
       \/ \E all \in BOOLEAN : Dismiss(q, all) \/ Exclude(q, all)
       \/ \E v \in Typed[q.field] : Repair(q, v)
  \/ \E r \in Rows, v \in Typed[page.field] : FillRow(r, v)
  \/ ClosePage

Next ==
  \/ SetValidated \/ Read \/ Merge \/ LeaveApart \/ Human
  \/ \E r \in Rows : Validate(r) \/ LeaveOut(r) \/ \E f \in Fields : Refuse(r, f)

Spec == Init /\ [][Next]_vars
-----------------------------------------------------------------------------
Question == [row : Rows, about : Rules \cup {"target"}, field : Fields, no : Nat,
             state : {"open", "resolved", "superseded"}]
Status == FillableStatus \cup {"pending", "merged", "excluded"}

TypeOK ==
  /\ data \in [Rows -> Data] /\ status \in [Rows -> Status]
  /\ questions \subseteq Question
  /\ stage \in {"mapped", "validated", "reconciled"} /\ same \in BOOLEAN
  /\ trust \in [Material -> Files \cup {Undecided, ByRank}]
  /\ conflicts \subseteq Material
  /\ snapshot \subseteq [Rows -> Data] /\ \A s, t \in snapshot : s = t
  /\ page \in [open : BOOLEAN, field : Fields, rule : Rules \cup {"target", "none"},
               rows : SUBSET Rows, own : SUBSET (Rows \X (Rules \cup {"target"}) \X Nat)]
  /\ moves \in 0..MaxMoves /\ answered \subseteq Rows \X Rules
  /\ raised \in BOOLEAN

\* The records that validation has written and no merge has absorbed.
InPlay == {r \in Rows : status[r] # "pending" /\ ~(stage = "reconciled" /\ same /\ r \in Absorbed)}

\* Every rule that a record in play breaks has an open question about that
\* record, unless a person closed one: whatever is merged from data read long
\* before, filled in on a page that is out of date, or corrected after a
\* refusal, no contradiction goes unasked (reconcile.py 142-153).
BrokenRulesAreAsked ==
  \A r \in InPlay : \A rule \in Broken(data[r]) :
    rule \in Questioned(r) \/ <<r, rule>> \in answered

\* Nobody is asked twice at once about one rule of one record, although
\* validation, the merge and a correction all ask (resolve.py 92-104).
AskedOnce ==
  \A p, q \in Open : p.row = q.row /\ p.about = q.about => p = q

\* A merge leaves the questions about a survivor and the rules its data breaks
\* the same, "both directions", whatever was filled, dismissed or refused since
\* the data was read (reconcile.py 153-155).
SurvivorIsRequestioned ==
  [][stage = "validated" /\ stage' = "reconciled" /\ same =>
       Questioned(Survivor)' = Broken(data'[Survivor])]_vars

\* "Every stage that writes a record goes through here" and "a record the model
\* rejects is judged raw" (validate.py 153-167): no record is beyond judging.
EveryRecordIsJudged == ~raised
=============================================================================
