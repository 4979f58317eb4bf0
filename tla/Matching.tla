------------------------------ MODULE Matching ------------------------------
(* Which rows of an import are one person, and the questions about pairs too *)
(* close to call: app/agent/reconcile.py up to its merge, the score and the  *)
(* blocks of dedupe.py, the judgement of dupe_llm.py, and what a person's    *)
(* answer changes (policy.py, escalate.py, decisions.py, resolve.py).  The   *)
(* same files are imported again and again; every import numbers its records *)
(* afresh.  Several calls may match at a time, those of one import included: *)
(* the guard on the stage reads it and takes nothing.                        *)
EXTENDS Naturals, FiniteSets

CONSTANTS Callers,     \* the threads that match: reconcile_run
          Rows,        \* an import's rows, by their place in the query
          Candidates,  \* what a row may say: an id, an email, a phone, ...
          Blank,       \* ... or none
          Derived,     \* the {i, j} where id j is id i with something appended
          Typos,       \* the {v, w} of emails or phones two edits apart
          NearNames,   \* the {v, w} of names that score in the escalate band
          Stem,        \* what blocking keeps of an email, a name or a phone
          Cap,         \* dedupe.llm_judge_max_pairs
          MaxImports, MaxAnswers, MaxCalls  \* bounds

ASSUME RowsAssumption == Rows \subseteq Nat /\ IsFiniteSet(Rows)
ASSUME BoundsAssumption ==
  {Cap, MaxAnswers, MaxCalls} \subseteq Nat /\ MaxImports \in Nat \ {0}

VARIABLES row,        \* the rows
          import,     \* the number of the last import
          stage,      \* runs.stage of every import
          call,       \* the calls
          calls,      \* how many have begun
          found,      \* whom each row was merged with, per import
          apart,      \* the pairs recorded as "kept separate", per import
          questions,  \* the escalations about pairs
          decisions,  \* the decisions about pairs
          answers,    \* how many answers there have been
          died,       \* imports of which a call stopped between its questions
                      \* and its merge, and imports of which two calls were at
          overlapped  \* work at once (history, read by one property)

vars == <<row, import, stage, call, calls, found, apart, questions, decisions,
          answers, died, overlapped>>

Imports == 1..MaxImports
Pairs == {p \in Rows \X Rows : p[1] < p[2]}
Actions == {"approve", "edit", "reject"}
Values == {"merge", "keep_separate"}
-----------------------------------------------------------------------------
(* dedupe.py *)

Both(a, b, field) == a[field] # Blank /\ b[field] # Blank

\* Two ids, neither derived from the other.
KeysContradict(a, b) ==
  Both(a, b, "id") /\ a.id # b.id /\ {a.id, b.id} \notin Derived

IdentifierScore(v, w) ==
  IF v = w THEN "merge" ELSE IF {v, w} \in Typos THEN "ask" ELSE "apart"

NameScore(v, w) ==
  IF v = w THEN "merge" ELSE IF {v, w} \in NearNames THEN "ask" ELSE "apart"

\* similarity_score, as what the policy does with it: at least
\* auto_merge_above, inside escalate_band, or below.
Score(a, b) ==
  CASE KeysContradict(a, b) -> "apart"
    [] ~KeysContradict(a, b) /\ Both(a, b, "email") ->
         IdentifierScore(a.email, b.email)
    [] ~KeysContradict(a, b) /\ ~Both(a, b, "email") /\ Both(a, b, "phone") ->
         IdentifierScore(a.phone, b.phone)
    [] OTHER ->
         IF Both(a, b, "name") /\ ~(Both(a, b, "dob") /\ a.dob # b.dob)
         THEN NameScore(a.name, b.name) ELSE "apart"

BlockingKey(a) ==
  CASE a.email # Blank -> <<"em", Stem[a.email]>>
    [] a.email = Blank /\ a.name # Blank -> <<"ln", Stem[a.name]>>
    [] a.email = Blank /\ a.name = Blank /\ a.phone # Blank -> <<"ph", Stem[a.phone]>>
    [] OTHER -> <<"_no_identity_">>

\* A mutant: each pair from both ends.
ComparedTwice ==
  {p \in Rows \X Rows : /\ p[1] # p[2]
                       /\ BlockingKey(row[p[1]]) = BlockingKey(row[p[2]])}

Compared == {p \in Pairs : BlockingKey(row[p[1]]) = BlockingKey(row[p[2]])}
PairScore(p) == Score(row[p[1]], row[p[2]])
-----------------------------------------------------------------------------
(* What a decision is filed under. *)

\* _identity: a record id is another in every import.
Identity(i, r) ==
  CASE row[r].id # Blank -> row[r].id
    [] row[r].id = Blank /\ row[r].email # Blank -> row[r].email
    [] OTHER -> <<i, r>>

\* dupe_scope_key
ScopeKey(i, p) == {Identity(i, p[1]), Identity(i, p[2])}

About(decided, i, p) == {d \in decided : d.key = ScopeKey(i, p)}
-----------------------------------------------------------------------------
(* _UnionFind.  Halving the paths, which find does, changes no answer. *)

Find(forest, r) ==
  LET root[x \in Rows] == IF forest[x] = x THEN x ELSE root[forest[x]] IN root[r]

\* A mutant: the row is moved, and not the tree it stands in.
UnionOfRows(forest, a, b) ==
  IF Find(forest, a) = Find(forest, b) THEN forest
  ELSE [forest EXCEPT ![a] = Find(forest, b)]

Union(forest, a, b) ==
  LET ra == Find(forest, a)  rb == Find(forest, b) IN
  IF ra = rb THEN forest ELSE [forest EXCEPT ![ra] = rb]

Together(forest, p) == Find(forest, p[1]) = Find(forest, p[2])

\* by_key: the rows of one natural key are one tree.
Grouped ==
  [r \in Rows |-> IF row[r].id = Blank THEN r
                  ELSE CHOOSE s \in Rows : /\ row[s].id = row[r].id
                                           /\ \A t \in Rows : row[t].id = row[r].id => t <= s]
-----------------------------------------------------------------------------
\* The variables of reconcile_run: the decisions it has read, its union-find,
\* the pairs of a block it has still to compare, those the policy makes a
\* question of, those of them the model has still to judge, and those it is
\* confident are two people.
Idle ==
  [pc |-> "idle", import |-> 1, prior |-> {}, parent |-> [r \in Rows |-> r],
   todo |-> {}, band |-> {}, unseen |-> {}, separated |-> {}]

AtWork(i) == {c \in Callers : call[c].pc # "idle" /\ call[c].import = i}

Init ==
  /\ row \in [Rows -> Candidates]
  /\ import = 1 /\ stage = [i \in Imports |-> "validated"]
  /\ call = [c \in Callers |-> Idle] /\ calls = 0
  /\ found = [i \in Imports |-> [r \in Rows |-> {r}]]
  /\ apart = [i \in Imports |-> {}]
  /\ questions = {} /\ decisions = {}
  /\ answers = 0 /\ died = {} /\ overlapped = {}

\* The call of c has become j, and nothing else changes.
Goes(c, j) ==
  /\ call' = [call EXCEPT ![c] = j]
  /\ UNCHANGED <<row, import, stage, calls, found, apart, questions, decisions,
                 answers, died, overlapped>>

\* A call that has read the rows and what people have ruled on, and has
\* grouped the rows by natural key.
Begun(i) ==
  [pc |-> "comparing", import |-> i, prior |-> decisions, parent |-> Grouped,
   todo |-> Compared, band |-> {}, unseen |-> {}, separated |-> {}]

\* A mutant: the stage is not looked at.
BeginAgain(c, i) ==
  /\ call[c].pc = "idle" /\ i <= import /\ calls < MaxCalls
  /\ call' = [call EXCEPT ![c] = Begun(i)]
  /\ calls' = calls + 1
  /\ overlapped' = IF AtWork(i) = {} THEN overlapped ELSE overlapped \cup {i}
  /\ UNCHANGED <<row, import, stage, found, apart, questions, decisions, answers, died>>

Begin(c, i) ==
  /\ call[c].pc = "idle" /\ i <= import /\ calls < MaxCalls
  /\ stage[i] = "validated"
  /\ call' = [call EXCEPT ![c] = Begun(i)]
  /\ calls' = calls + 1
  /\ overlapped' = IF AtWork(i) = {} THEN overlapped ELSE overlapped \cup {i}
  /\ UNCHANGED <<row, import, stage, found, apart, questions, decisions, answers, died>>

\* What the call has read of people's rulings on a pair.
Ruled(j, p) == About(j.prior, j.import, p)
Joins(j, p) == PairScore(p) = "merge" \/ \E d \in Ruled(j, p) : d.action = "approve"

\* A pair whose rows are together already is passed over; one that scores or was
\* ruled to merge is joined; any other is left alone, and may be a question.
Passed(j, p) == [j EXCEPT !.todo = @ \ {p}]
Joined(j, p) == [Passed(j, p) EXCEPT !.parent = Union(@, p[1], p[2])]
Left(j, p) ==
  [Passed(j, p) EXCEPT
     !.band = IF Ruled(j, p) = {} /\ PairScore(p) = "ask" THEN @ \cup {p} ELSE @]

\* The next pair of a block.
Compare(c, p) ==
  LET j == call[c] IN
  /\ j.pc = "comparing" /\ p \in j.todo
  /\ \/ Together(j.parent, p) /\ Goes(c, Passed(j, p))
     \/ ~Together(j.parent, p) /\ Joins(j, p) /\ Goes(c, Joined(j, p))
     \/ ~Together(j.parent, p) /\ ~Joins(j, p) /\ Goes(c, Left(j, p))

\* More pairs than the cap are not judged at all.
BeginJudging(c) ==
  /\ call[c].pc = "comparing" /\ call[c].todo = {}
  /\ Goes(c, [call[c] EXCEPT
       !.pc = "judging",
       !.unseen = IF Cardinality(call[c].band) > Cap THEN {} ELSE call[c].band])

\* judge_pair, from the cache or not.  Only a confident "different" counts;
\* "unsure", an answer it may not give, or no model leave the pair a question.
Judge(c, p) ==
  /\ call[c].pc = "judging" /\ p \in call[c].unseen
  /\ \E pairs \in {{}, {p}} :
       Goes(c, [call[c] EXCEPT !.unseen = @ \ {p}, !.separated = @ \cup pairs])

Copies(i, p) == {q \in questions : q.import = i /\ q.pair = p}

\* create_or_merge_escalation: a row of its own for each pair.
NewQuestion(i, p) ==
  [import |-> i, pair |-> p, copy |-> Cardinality(Copies(i, p)), status |-> "open"]

\* A mutant: pairs beyond the cap are dropped, not asked about.
UndecidedBelowCap(j) ==
  IF Cardinality(j.band) > Cap THEN {}
  ELSE {p \in j.band \ j.separated : About(decisions, j.import, p) = {}}

\* A mutant: what was ruled on since the call began is not looked up.
UndecidedThen(j) == {p \in j.band \ j.separated : Ruled(j, p) = {}}

\* The decisions are looked up again for each pair still to be asked about.
Undecided(j) == {p \in j.band \ j.separated : About(decisions, j.import, p) = {}}

\* One transaction raises all the questions; the merge is another.
Ask(c) ==
  LET j == call[c] IN
  /\ j.pc = "judging" /\ j.unseen = {}
  /\ call' = [call EXCEPT ![c].pc = "merging"]
  /\ questions' = questions \cup {NewQuestion(j.import, p) : p \in Undecided(j)}
  /\ apart' = [apart EXCEPT ![j.import] = @ \cup j.separated]
  /\ UNCHANGED <<row, import, stage, calls, found, decisions, answers, died, overlapped>>

Cluster(forest, r) == {s \in Rows : Find(forest, s) = Find(forest, r)}

\* One transaction merges every cluster of two or more and ends the stage,
\* whatever the stage is by now; what another call has merged stays merged.
Merge(c) ==
  LET j == call[c] IN
  /\ j.pc = "merging"
  /\ call' = [call EXCEPT ![c] = Idle]
  /\ stage' = [stage EXCEPT ![j.import] = "reconciled"]
  /\ found' = [found EXCEPT ![j.import] = [r \in Rows |-> @[r] \cup Cluster(j.parent, r)]]
  /\ UNCHANGED <<row, import, calls, apart, questions, decisions, answers, died, overlapped>>

\* The process stops or a model's answer raises; the run is started again.
Die(c) ==
  /\ call[c].pc # "idle"
  /\ call' = [call EXCEPT ![c] = Idle]
  /\ died' = IF call[c].pc = "merging" THEN died \cup {call[c].import} ELSE died
  /\ UNCHANGED <<row, import, stage, calls, found, apart, questions, decisions,
                 answers, overlapped>>

\* The same files, uploaded again.
Reimport ==
  /\ import < MaxImports
  /\ import' = import + 1
  /\ UNCHANGED <<row, stage, call, calls, found, apart, questions, decisions,
                 answers, died, overlapped>>
-----------------------------------------------------------------------------
(* resolve_escalation, for a question about a pair. *)

SameSignature(q) ==
  {e \in questions : /\ e.import = q.import /\ e.status = "open"
                     /\ ScopeKey(e.import, e.pair) = ScopeKey(q.import, q.pair)}

\* record_decision: the last answer replaces the one before.
Recorded(key, action, value) ==
  {d \in decisions : d.key # key}
    \cup {[key |-> key, action |-> action, value |-> value]}

\* Nothing is merged now: no applier knows the code.  The select always holds
\* a value, and "keep_separate" is the one proposed.  A question is found
\* whatever its status.
Answer(q, action, value, all) ==
  /\ answers < MaxAnswers
  /\ answers' = answers + 1
  /\ decisions' = Recorded(ScopeKey(q.import, q.pair), action, value)
  /\ LET closed == IF all THEN SameSignature(q) ELSE {q} IN
     questions' = (questions \ closed) \cup {[e EXCEPT !.status = "resolved"] : e \in closed}
  /\ UNCHANGED <<row, import, stage, call, calls, found, apart, died, overlapped>>

Human == \E q \in questions, action \in Actions, value \in Values, all \in BOOLEAN :
           Answer(q, action, value, all)

Next ==
  \/ \E c \in Callers :
       \/ \E i \in Imports : Begin(c, i)
       \/ \E p \in Pairs : Compare(c, p) \/ Judge(c, p)
       \/ BeginJudging(c) \/ Ask(c) \/ Merge(c) \/ Die(c)
  \/ Reimport \/ Human

Spec == Init /\ [][Next]_vars
-----------------------------------------------------------------------------
Answer_ == [key : {ScopeKey(i, p) : i \in Imports, p \in Pairs},
            action : Actions, value : Values]
Question == [import : Imports, pair : Pairs, copy : Nat,
             status : {"open", "resolved"}]
Call == [pc : {"idle", "comparing", "judging", "merging"}, import : Imports,
         prior : SUBSET Answer_, parent : [Rows -> Rows], todo : SUBSET Pairs,
         band : SUBSET Pairs, unseen : SUBSET Pairs, separated : SUBSET Pairs]

\* Every variable has its type.
TypeOK ==
  /\ row \in [Rows -> Candidates] /\ import \in Imports
  /\ stage \in [Imports -> {"validated", "reconciled"}]
  /\ \A c \in Callers : /\ call[c] \in Call
                        /\ call[c].unseen \cup call[c].separated \subseteq call[c].band
  /\ calls \in 0..MaxCalls
  /\ found \in [Imports -> [Rows -> SUBSET Rows]]
  /\ apart \in [Imports -> SUBSET Pairs]
  /\ questions \subseteq Question /\ decisions \subseteq Answer_
  /\ answers \in 0..MaxAnswers
  /\ died \subseteq Imports /\ overlapped \subseteq Imports

\* What joins two rows by itself: a natural key, a score that merges, or a
\* ruling the call has read.
Linked(j, p) ==
  \/ row[p[1]].id # Blank /\ row[p[1]].id = row[p[2]].id
  \/ p \in Compared /\ Joins(j, p)

\* No link leads out of S.
Sealed(j, S) == \A p \in Pairs : Linked(j, p) => (p[1] \in S <=> p[2] \in S)

\* The rows that can be reached from a row along links: no sealed set holds
\* the one and not the other.
Reached(j, r) ==
  {s \in Rows : ~ \E S \in SUBSET Rows : r \in S /\ s \notin S /\ Sealed(j, S)}

\* Two rows end in one cluster of a call exactly when links lead from one to
\* the other, whatever order the pairs come in and whichever the loop skips: no
\* record is merged without evidence, none left out of its person, and the
\* model's word joins nobody (reconcile.py 268-326).
ClustersAreComponents ==
  \A c \in Callers : call[c].pc \in {"judging", "merging"} =>
    \A r \in Rows : Cluster(call[c].parent, r) = Reached(call[c], r)

\* Once an import is matched, a pair of a block that scored inside the band is
\* one person by other links, was ruled on, was judged two people, or has been
\* asked about; none falls between the cap, the model, the decisions read at
\* the start and those looked up at the end, nor between two calls of which one
\* was first to end the stage (reconcile.py 214-221, 328-347).
NothingUndecided ==
  \A i \in Imports : stage[i] = "reconciled" =>
    \A p \in Compared : PairScore(p) = "ask" =>
      \/ p[2] \in found[i][p[1]] \/ p \in apart[i]
      \/ About(decisions, i, p) # {} \/ Copies(i, p) # {}

Stable(p) == \A r \in {p[1], p[2]} : row[r].id # Blank \/ row[r].email # Blank

\* A pair of which both rows carry an id or an email is not asked about again
\* once a person has answered, in whatever import and whether the answer came
\* before the call read the decisions or after (decisions.py 8-10: "the same
\* question never get asked twice across re-imports").
AnsweredIsNotAskedAgain ==
  [][\A q \in questions' : q.status = "open" /\ q \notin questions /\ Stable(q.pair) =>
       ~ \E e \in questions : e.pair = q.pair /\ e.status = "resolved"]_vars

\* An import asks about a pair twice only where a call stopped between its
\* questions, which are committed first (reconcile.py 344), and its merge, or
\* where two calls of that import were at work at once: calls that follow one
\* another never do.
AskedOnceByOneCall ==
  \A q, e \in questions :
    q.import = e.import /\ q.pair = e.pair /\ q # e =>
      q.import \in died \cup overlapped

\* reconcile_run's comment on its guard: "already reconciled -- avoid
\* re-merging and duplicating merge rows" (reconcile.py 243): with no call
\* stopped on its way, no import asks about a pair twice.
AskedOnceUnlessDied ==
  \A q, e \in questions :
    q.import = e.import /\ q.pair = e.pair /\ q # e => q.import \in died

\* "An employee id is a natural key, so two different ones are two different
\* people" (dedupe.py 33-36).
DifferentIdsStayApart ==
  \A i \in Imports : \A r \in Rows : \A s \in found[i][r] :
    ~ KeysContradict(row[r], row[s])

\* "Approving without touching the control means 'do what you proposed'"
\* (resolve.py 144), and what is proposed is keep_separate: two rows that a
\* person ruled to be kept separate are not joined for that ruling.
KeptSeparate ==
  [][\A c \in Callers : \A p \in call[c].todo :
       /\ call'[c].pc = "comparing" /\ p \notin call'[c].todo
       /\ PairScore(p) # "merge"
       /\ \E d \in Ruled(call[c], p) : d.value = "keep_separate"
       => call'[c].parent = call[c].parent]_vars
=============================================================================
