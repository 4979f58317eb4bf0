----------------------------- MODULE RulesProofs -----------------------------
(* Theorems about the data of the records and the questions about the rules  *)
(* they break (Records), for every value of the constants.                   *)
EXTENDS Records, FiniteSetTheorems, WellFoundedInduction, TLAPS

LEMMA LeastNatural ==
  ASSUME NEW T, T \subseteq Nat, T # {}
  PROVE  \E x \in T : \A y \in T : x <= y
  <1>1. IsWellFoundedOn(OpToRel(<, Nat), Nat)
    BY NatLessThanWellFounded
  <1>2. PICK x \in T : \A y \in T : ~ (<<y, x>> \in OpToRel(<, Nat))
    BY <1>1, WFMin
  <1>3. \A y \in T : ~ (y < x)
    <2> SUFFICES ASSUME NEW y \in T, y < x
                 PROVE  <<y, x>> \in OpToRel(<, Nat)
      BY <1>2
    <2>1. <<y, x>> \in Nat \X Nat /\ <<y, x>>[1] = y /\ <<y, x>>[2] = x
      OBVIOUS
    <2> QED
      BY <2>1 DEF OpToRel
  <1> QED
    BY <1>3

\* Of any rows one comes first.
LEMMA FirstIsOne ==
  ASSUME NEW rows \in SUBSET Rows, rows # {}
  PROVE  FirstOf(rows) \in rows
  <1> DEFINE ranks == {Rank[r] : r \in rows}
  <1>1. ranks \subseteq Nat /\ ranks # {}
    BY RowsAssumption
  <1>2. PICK x \in ranks : \A y \in ranks : x <= y
    BY <1>1, LeastNatural
  <1>3. \E r \in rows : \A s \in rows : Rank[r] <= Rank[s]
    BY <1>2
  <1> QED
    BY <1>3 DEF FirstOf

LEMMA SurvivorIsARow == Survivor \in Rows
  BY FirstIsOne, RowsAssumption DEF Survivor

\* A merge invents nothing.
LEMMA MergedIsData ==
  ASSUME NEW read \in [Rows -> Data]
  PROVE  MergedData(read) \in Data
  <1> SUFFICES ASSUME NEW f \in Fields
               PROVE  MergedData(read)[f] \in Value
    BY DEF MergedData, Data
  <1>1. CASE Speaks(read, f) = {}
    BY <1>1, FieldsAssumption DEF MergedData
  <1>2. CASE Speaks(read, f) # {}
    <2>1. Speaks(read, f) \subseteq Rows
      BY DEF Speaks
    <2>2. Winner(read, f) \in Rows
      BY <1>2, <2>1, FirstIsOne DEF Winner
    <2> QED
      BY <1>2, <2>2 DEF MergedData, Data
  <1> QED
    BY <1>1, <1>2

LEMMA RulesFinite == IsFiniteSet(Rules)
  <1>1. Rules = {"R1"} \cup {"R2"} \cup {"R3"} \cup {"R4"} \cup {"R5"}
    BY DEF Rules
  <1> QED
    BY <1>1, FS_Singleton, FS_Union

LEMMA PrimaryIsAField == \A rule \in Rules : PrimaryField[rule] \in Fields
  BY DEF PrimaryField, Rules, Fields

\* What a function makes of a finite set is finite.
LEMMA ImageFinite ==
  ASSUME NEW S, IsFiniteSet(S), NEW f
  PROVE  IsFiniteSet({f[x] : x \in S})
  <1> DEFINE T == {f[x] : x \in S}
             g == [x \in S |-> f[x]]
  <1>1. g \in Surjection(S, T)
    BY DEF Surjection
  <1> HIDE DEF g, T
  <1>2. IsFiniteSet(T)
    BY <1>1, FS_Surjection
  <1> QED
    BY <1>2 DEF T

-----------------------------------------------------------------------------
(* What raising and closing do to the questions. *)

QuestionsType == questions \subseteq Question /\ IsFiniteSet(questions)

LEMMA RaisedStep ==
  ASSUME QuestionsType, NEW r \in Rows, NEW rules \in SUBSET Rules
  PROVE  /\ Raised(r, rules) \subseteq Question /\ IsFiniteSet(Raised(r, rules))
         /\ \A q \in Raised(r, rules) : q.row = r /\ q.about \in rules /\ q.state = "open"
         /\ \A rule \in rules : \E q \in Raised(r, rules) : q.about = rule
         /\ \A p, q \in Raised(r, rules) : p.about = q.about => p = q
  <1> DEFINE f == [rule \in rules |->
                     [row |-> r, about |-> rule, field |-> PrimaryField[rule],
                      no |-> Cardinality(questions), state |-> "open"]]
  <1>1. Raised(r, rules) = {f[rule] : rule \in rules}
    BY DEF Raised
  <1>2. \A rule \in rules : f[rule] \in Question /\ f[rule].row = r /\ f[rule].about = rule
                            /\ f[rule].state = "open"
    BY PrimaryIsAField, FS_CardinalityType DEF QuestionsType, Question
  <1>3. IsFiniteSet(rules)
    BY RulesFinite, FS_Subset
  <1> HIDE DEF f
  <1>4. IsFiniteSet({f[rule] : rule \in rules})
    BY <1>3, ImageFinite
  <1> QED
    BY <1>1, <1>2, <1>4

\* Closing questions leaves open those whose ids it is not given.
LEMMA CloseStep ==
  ASSUME QuestionsType, NEW ids, NEW state \in {"resolved", "superseded"}
  PROVE  /\ Close(ids, state) \subseteq Question /\ IsFiniteSet(Close(ids, state))
         /\ {q \in Close(ids, state) : q.state = "open"} = {q \in Open : Id(q) \notin ids}
         /\ \A q \in Close(ids, state) : \E e \in questions : q.row = e.row
  <1> DEFINE f == [q \in questions |->
                     IF Id(q) \in ids THEN [q EXCEPT !.state = state] ELSE q]
  <1>1. Close(ids, state) = {f[q] : q \in questions}
    BY DEF Close
  <1>2. \A q \in questions :
          /\ f[q] \in Question /\ f[q].row = q.row
          /\ Id(q) \in ids => f[q].state # "open"
          /\ Id(q) \notin ids => f[q] = q
    <2> SUFFICES ASSUME NEW q \in questions
                 PROVE  /\ f[q] \in Question /\ f[q].row = q.row
                        /\ Id(q) \in ids => f[q].state # "open"
                        /\ Id(q) \notin ids => f[q] = q
      OBVIOUS
    <2>1. q \in Question
      BY DEF QuestionsType
    <2>2. CASE Id(q) \in ids
      <3>1. f[q] = [q EXCEPT !.state = state]
        BY <2>2
      <3> QED
        BY <2>1, <2>2, <3>1 DEF Question
    <2>3. CASE Id(q) \notin ids
      BY <2>1, <2>3
    <2> QED
      BY <2>2, <2>3
  <1> HIDE DEF f
  <1>3. IsFiniteSet({f[q] : q \in questions})
    BY ImageFinite DEF QuestionsType
  <1> QED
    BY <1>1, <1>2, <1>3 DEF Open

-----------------------------------------------------------------------------
(* The invariant. *)

\* Nothing is asked about a row before validation has written it.
NoneAhead == \A q \in questions : status[q.row] # "pending"

\* Validation is over when the stage says so; only then are records merged.
StageOK ==
  /\ stage # "mapped" => \A r \in Rows : status[r] # "pending"
  /\ snapshot # {} => stage = "validated"

\* A page holds questions of one rule, or of the target.
PageOK == \A i \in page.own : i[2] = page.rule

RInv ==
  /\ TypeOK /\ IsFiniteSet(questions) /\ BrokenRulesAreAsked /\ AskedOnce
  /\ NoneAhead /\ StageOK /\ PageOK

LEMMA RInvInit == Init => RInv
  <1> SUFFICES ASSUME Init PROVE RInv
    OBVIOUS
  <1>1. Rows # {} /\ MaxMoves \in Nat /\ Candidates \subseteq Data
    BY RowsAssumption, FieldsAssumption
  <1>2. TypeOK
    <2>1. data \in [Rows -> Data] /\ status \in [Rows -> Status]
      BY <1>1 DEF Init, Status
    <2>2. page \in [open : BOOLEAN, field : Fields, rule : Rules \cup {"target", "none"},
                    rows : SUBSET Rows, own : SUBSET (Rows \X (Rules \cup {"target"}) \X Nat)]
      BY DEF Init, Closed, Fields
    <2>3. moves \in 0..MaxMoves
      BY <1>1 DEF Init
    <2> QED
      BY <2>1, <2>2, <2>3 DEF Init, TypeOK
  <1>3. BrokenRulesAreAsked /\ AskedOnce /\ NoneAhead /\ StageOK /\ PageOK
    BY DEF Init, BrokenRulesAreAsked, InPlay, AskedOnce, Open, NoneAhead, StageOK,
           PageOK, Closed
  <1> QED
    BY <1>2, <1>3, FS_EmptySet DEF Init, RInv

\* A step that leaves the records, the questions and the answers alone.
LEMMA SameQuestions ==
  ASSUME RInv, TypeOK', UNCHANGED <<data, questions, answered>>,
         \A r \in Rows : (status'[r] = "pending") <=> (status[r] = "pending"),
         InPlay' \subseteq InPlay, StageOK', PageOK'
  PROVE  RInv'
  <1>1. BrokenRulesAreAsked'
    BY DEF RInv, BrokenRulesAreAsked, Questioned, OpenAbout, Open
  <1>2. AskedOnce'
    BY DEF RInv, AskedOnce, Open
  <1>3. NoneAhead'
    BY DEF RInv, NoneAhead, TypeOK, Question
  <1> QED
    BY <1>1, <1>2, <1>3 DEF RInv

\* Whether a question is open about a rule depends on the open ones.
LEMMA QuestionedStays ==
  ASSUME NEW r, NEW rule, rule \in Questioned(r),
         NEW ids, \A q \in Open : q.row = r /\ q.about = rule => Id(q) \notin ids,
         {q \in Open : Id(q) \notin ids} \subseteq Open'
  PROVE  rule \in Questioned(r)'
  BY DEF Questioned, OpenAbout

LEMMA ValidateStep ==
  ASSUME RInv, NEW r \in Rows, Validate(r)
  PROVE  RInv'
  <1> DEFINE new == Raised(r, Broken(data[r]))
  <1>1. /\ QuestionsType /\ Broken(data[r]) \in SUBSET Rules
        /\ status \in [Rows -> Status]
    BY DEF RInv, TypeOK, QuestionsType, Broken
  <1>2. questions' = questions \cup new
    BY DEF Validate
  <1>3. /\ new \subseteq Question /\ IsFiniteSet(new)
        /\ \A q \in new : q.row = r /\ q.state = "open"
        /\ \A rule \in Broken(data[r]) : \E q \in new : q.about = rule
        /\ \A p, q \in new : p.about = q.about => p = q
    BY <1>1, RaisedStep
  <1>4. /\ status[r] = "pending" /\ stage = "mapped"
        /\ status'[r] \in {"clean", "blocked"}
        /\ \A s \in Rows : s # r => status'[s] = status[s]
        /\ status' \in [Rows -> Status]
    BY <1>1 DEF Validate, Status, FillableStatus
  <1>5. \A q \in questions : q.row # r
    BY <1>4 DEF RInv, NoneAhead
  <1> HIDE DEF new
  <1>6. Open' = Open \cup new
    BY <1>2, <1>3 DEF Open
  <1>7. TypeOK'
    BY <1>2, <1>3, <1>4 DEF RInv, TypeOK, Validate, people
  <1>8. BrokenRulesAreAsked'
    <2> SUFFICES ASSUME NEW s \in InPlay', NEW rule \in Broken(data'[s]),
                        <<s, rule>> \notin answered'
                 PROVE  rule \in Questioned(s)'
      BY DEF BrokenRulesAreAsked
    <2>1. data' = data /\ answered' = answered /\ rule \in Rules /\ s \in Rows
      BY DEF Validate, people, Broken, InPlay
    <2>2. CASE s = r
      BY <1>3, <1>6, <2>1, <2>2 DEF Questioned, OpenAbout
    <2>3. CASE s # r
      <3>1. s \in InPlay
        BY <1>4, <2>1, <2>3 DEF InPlay
      <3>2. rule \in Questioned(s)
        BY <2>1, <3>1 DEF RInv, BrokenRulesAreAsked
      <3> QED
        BY <1>6, <3>2 DEF Questioned, OpenAbout
    <2> QED
      BY <2>2, <2>3
  <1>9. AskedOnce'
    BY <1>3, <1>5, <1>6 DEF RInv, AskedOnce, Open
  <1>10. NoneAhead'
    BY <1>2, <1>3, <1>4 DEF RInv, NoneAhead, TypeOK, Question
  <1>11. StageOK' /\ PageOK'
    BY <1>4 DEF RInv, StageOK, PageOK, Validate
  <1>12. IsFiniteSet(questions')
    BY <1>2, <1>3, FS_Union DEF RInv
  <1> QED
    BY <1>7, <1>8, <1>9, <1>10, <1>11, <1>12 DEF RInv

\* What is open after some questions are closed and some are raised about one
\* row, none of which is open already.
LEMMA CloseAndRaise ==
  ASSUME RInv, NEW ids, NEW state \in {"resolved", "superseded"},
         NEW r \in Rows, NEW rules \in SUBSET Rules,
         \A q \in Open : q.row = r /\ q.about \in rules => Id(q) \in ids,
         status[r] # "pending",
         questions' = Close(ids, state) \cup Raised(r, rules)
  PROVE  /\ questions' \subseteq Question /\ IsFiniteSet(questions')
         /\ Open' = {q \in Open : Id(q) \notin ids} \cup Raised(r, rules)
         /\ AskedOnce'
         /\ \A q \in questions' : status[q.row] # "pending"
         /\ \A s \in Rows : \A rule \in Questioned(s) :
              (\A q \in Open : q.row = s /\ q.about = rule => Id(q) \notin ids)
                => rule \in Questioned(s)'
         /\ rules \subseteq Questioned(r)'
  <1> DEFINE new == Raised(r, rules)
             kept == {q \in Open : Id(q) \notin ids}
  <1>1. QuestionsType
    BY DEF RInv, TypeOK, QuestionsType
  <1>2. /\ new \subseteq Question /\ IsFiniteSet(new)
        /\ \A q \in new : q.row = r /\ q.about \in rules /\ q.state = "open"
        /\ \A rule \in rules : \E q \in new : q.about = rule
        /\ \A p, q \in new : p.about = q.about => p = q
    BY <1>1, RaisedStep
  <1>3. /\ Close(ids, state) \subseteq Question /\ IsFiniteSet(Close(ids, state))
        /\ {q \in Close(ids, state) : q.state = "open"} = kept
        /\ \A q \in Close(ids, state) : \E e \in questions : q.row = e.row
    BY <1>1, CloseStep
  <1>4. questions' = Close(ids, state) \cup new
    OBVIOUS
  <1>5. kept \subseteq Open /\ \A q \in kept : ~(q.row = r /\ q.about \in rules)
    OBVIOUS
  <1> HIDE DEF new
  <1>6. Open' = kept \cup new
    BY <1>2, <1>3, <1>4 DEF Open
  <1>7. AskedOnce'
    <2> SUFFICES ASSUME NEW p \in kept \cup new, NEW q \in kept \cup new,
                        p.row = q.row, p.about = q.about
                 PROVE  p = q
      BY <1>6 DEF AskedOnce
    <2> QED
      BY <1>2, <1>5 DEF RInv, AskedOnce
  <1>8. \A s \in Rows : \A rule \in Questioned(s) :
          (\A q \in Open : q.row = s /\ q.about = rule => Id(q) \notin ids)
            => rule \in Questioned(s)'
    BY <1>6 DEF Questioned, OpenAbout
  <1>9. rules \subseteq Questioned(r)'
    BY <1>2, <1>6 DEF Questioned, OpenAbout
  <1>10. \A q \in questions' : status[q.row] # "pending"
    BY <1>2, <1>3, <1>4 DEF RInv, NoneAhead
  <1>11. questions' \subseteq Question /\ IsFiniteSet(questions')
    <2>1. IsFiniteSet(Close(ids, state) \cup new)
      BY <1>2, <1>3, FS_Union
    <2> QED
      BY <1>2, <1>3, <1>4, <2>1
  <1> QED
    BY <1>6, <1>7, <1>8, <1>9, <1>10, <1>11 DEF new

\* The same, when nothing is raised.
LEMMA CloseOnly ==
  ASSUME RInv, NEW ids, NEW state \in {"resolved", "superseded"},
         questions' = Close(ids, state)
  PROVE  /\ questions' \subseteq Question /\ IsFiniteSet(questions')
         /\ Open' = {q \in Open : Id(q) \notin ids}
         /\ AskedOnce'
         /\ \A q \in questions' : status[q.row] # "pending"
         /\ \A s \in Rows : \A rule \in Questioned(s) :
              (\A q \in Open : q.row = s /\ q.about = rule => Id(q) \notin ids)
                => rule \in Questioned(s)'
  <1>1. QuestionsType
    BY DEF RInv, TypeOK, QuestionsType
  <1>2. /\ questions' \subseteq Question /\ IsFiniteSet(questions')
        /\ Open' = {q \in Open : Id(q) \notin ids}
        /\ \A q \in questions' : \E e \in questions : q.row = e.row
    BY <1>1, CloseStep DEF Open
  <1>3. AskedOnce'
    BY <1>2 DEF RInv, AskedOnce
  <1>4. \A q \in questions' : status[q.row] # "pending"
    BY <1>2 DEF RInv, NoneAhead
  <1> QED
    BY <1>2, <1>3, <1>4 DEF Questioned, OpenAbout

\* A merge that writes, taken apart.
LEMMA WriteMerged ==
  ASSUME RInv, NEW d \in Data, questions' = Requestioned(d),
         NEW top \in Rows, top = Survivor, \A r \in Rows : status[r] # "pending"
  PROVE  /\ questions' \subseteq Question /\ IsFiniteSet(questions')
         /\ AskedOnce'
         /\ \A q \in questions' : status[q.row] # "pending"
         /\ Questioned(top)' = Broken(d)
  <1> DEFINE ids == Ids(Settled(d) \cup Orphaned)
             rules == Broken(d) \ Questioned(top)
  <1>1. rules \in SUBSET Rules /\ Broken(d) \subseteq Rules
    BY DEF Broken
  <1>2. questions' = Close(ids, "superseded") \cup Raised(top, rules)
    BY DEF Requestioned
  <1>3. \A q \in Open : ~(q.row = top /\ q.about \in rules)
    BY <1>1 DEF Questioned, OpenAbout
  <1>4. \A q \in Open : q.row = top /\ q.about \in Broken(d) => Id(q) \notin ids
    <2> SUFFICES ASSUME NEW q \in Open, q.row = top, q.about \in Broken(d),
                        NEW e \in Settled(d) \cup Orphaned, Id(e) = Id(q)
                 PROVE  FALSE
      BY DEF Ids
    <2>1. e.row = q.row /\ e.about = q.about
      BY DEF Id
    <2> QED
      BY <2>1 DEF Settled, Orphaned, Absorbed
  <1>5. \A q \in Open : q.row = top /\ q.about \in Rules \ Broken(d) => Id(q) \in ids
    BY DEF Ids, Settled
  <1> HIDE DEF ids, rules
  <1>7. /\ questions' \subseteq Question /\ IsFiniteSet(questions')
        /\ Open' = {q \in Open : Id(q) \notin ids} \cup Raised(top, rules)
        /\ AskedOnce'
        /\ \A q \in questions' : status[q.row] # "pending"
        /\ \A rule \in Questioned(top) :
             (\A q \in Open : q.row = top /\ q.about = rule => Id(q) \notin ids)
               => rule \in Questioned(top)'
        /\ rules \subseteq Questioned(top)'
    <2>1. \A q \in Open : q.row = top /\ q.about \in rules => Id(q) \in ids
      BY <1>3
    <2>2. status[top] # "pending" /\ "superseded" \in {"resolved", "superseded"}
      OBVIOUS
    <2>3. /\ questions' \subseteq Question /\ IsFiniteSet(questions') /\ AskedOnce'
      BY <1>1, <1>2, <2>1, <2>2, CloseAndRaise
    <2>4. Open' = {q \in Open : Id(q) \notin ids} \cup Raised(top, rules)
      BY <1>1, <1>2, <2>1, <2>2, CloseAndRaise
    <2>5.  \A q \in questions' : status[q.row] # "pending"
      BY <1>1, <1>2, <2>1, <2>2, CloseAndRaise
    <2>6. rules \subseteq Questioned(top)'
      BY <1>1, <1>2, <2>1, <2>2, CloseAndRaise
    <2>7. \A rule \in Questioned(top) :
             (\A q \in Open : q.row = top /\ q.about = rule => Id(q) \notin ids)
               => rule \in Questioned(top)'
      BY <1>1, <1>2, <2>1, <2>2, CloseAndRaise
    <2> QED
      BY <2>3, <2>4, <2>5, <2>6, <2>7
  <1>8. Broken(d) \subseteq Questioned(top)'
    BY <1>4, <1>7 DEF rules
  <1>9. Questioned(top)' \subseteq Broken(d)
    <2> SUFFICES ASSUME NEW rule \in Rules, NEW q \in Open', q.row = top, q.about = rule
                 PROVE  rule \in Broken(d)
      BY DEF Questioned, OpenAbout
    <2>1. \A e \in Raised(top, rules) : e.about \in rules
      BY <1>1, RaisedStep DEF RInv, TypeOK, QuestionsType
    <2> QED
      BY <1>5, <1>7, <2>1 DEF rules
  <1> QED
    BY <1>7, <1>8, <1>9

-----------------------------------------------------------------------------
(* Each action keeps the invariant. *)

LEMMA MergeStep ==
  ASSUME RInv, Merge
  PROVE  /\ RInv'
         /\ stage' = "reconciled" => Questioned(Survivor)' = Broken(data'[Survivor])
  <1>1. PICK read \in snapshot : TRUE
    BY DEF Merge
  <1>2. \A t \in snapshot : t = read
    BY DEF RInv, TypeOK
  <1> DEFINE d == MergedData(read)
  <1>3. PICK top \in Rows : top = Survivor
    BY SurvivorIsARow
  <1>4. d \in Data /\ read \in [Rows -> Data]
    BY MergedIsData DEF RInv, TypeOK
  <1>5. stage = "validated" /\ \A r \in Rows : status[r] # "pending"
    BY DEF Merge, RInv, StageOK
  <1>6. UNCHANGED <<same, trust, page, moves, answered>> /\ snapshot' = {} /\ same
    BY DEF Merge, people
  <1> HIDE DEF d
  <1>7. CASE UNCHANGED <<data, status, questions, stage, conflicts>> /\ raised' = TRUE
    <2>1. TypeOK' /\ StageOK' /\ PageOK' /\ InPlay' = InPlay
      BY <1>6, <1>7 DEF RInv, TypeOK, StageOK, PageOK, InPlay, Absorbed
    <2> QED
      BY <1>5, <1>6, <1>7, <2>1, SameQuestions
  <1>8. CASE /\ data' = [data EXCEPT ![Survivor] = d]
             /\ status' = [r \in Rows |-> IF r = Survivor THEN "merged_survivor" ELSE "merged"]
             /\ questions' = Requestioned(d) /\ conflicts' = conflicts \cup NewConflicts(read)
             /\ stage' = "reconciled" /\ UNCHANGED raised
    <2>1. /\ questions' \subseteq Question /\ IsFiniteSet(questions') /\ AskedOnce'
          /\ Questioned(top)' = Broken(d)
      BY <1>3, <1>4, <1>5, <1>8, WriteMerged
    <2>2. /\ status' \in [Rows -> Status] /\ \A r \in Rows : status'[r] # "pending"
          /\ data' \in [Rows -> Data] /\ data'[top] = d
      BY <1>3, <1>4, <1>8 DEF RInv, TypeOK, Status, FillableStatus
    <2>3. conflicts' \subseteq Material
      BY <1>8 DEF NewConflicts, RInv, TypeOK
    <2>4. TypeOK'
      BY <1>6, <1>8, <2>1, <2>2, <2>3 DEF RInv, TypeOK
    <2>5. BrokenRulesAreAsked'
      <3>1. \A s \in InPlay' : s = top
        BY <1>3, <1>6, <1>8 DEF InPlay, Absorbed
      <3> QED
        BY <2>1, <2>2, <3>1 DEF BrokenRulesAreAsked
    <2>6. NoneAhead' /\ StageOK' /\ PageOK'
      BY <1>6, <2>1, <2>2 DEF RInv, NoneAhead, StageOK, PageOK, Question
    <2> QED
      BY <1>3, <2>1, <2>2, <2>4, <2>5, <2>6 DEF RInv
  <1> QED
    BY <1>1, <1>2, <1>7, <1>8 DEF Merge, d

LEMMA StageStep ==
  ASSUME RInv, SetValidated \/ Read \/ LeaveApart
  PROVE  RInv'
  <1>1. TypeOK' /\ StageOK' /\ PageOK' /\ InPlay' = InPlay
    BY DEF SetValidated, Read, LeaveApart, people, RInv, TypeOK, StageOK, PageOK,
           InPlay, Absorbed
  <1> QED
    BY <1>1, SameQuestions DEF SetValidated, Read, LeaveApart, people

LEMMA LeaveOutStep ==
  ASSUME RInv, NEW r \in Rows, LeaveOut(r)
  PROVE  RInv'
  <1>1. /\ status' \in [Rows -> Status]
        /\ \A s \in Rows : (status'[s] = "pending") <=> (status[s] = "pending")
    BY DEF LeaveOut, CandidateStatus, RInv, TypeOK, Status, FillableStatus
  <1>2. TypeOK' /\ StageOK' /\ PageOK' /\ InPlay' = InPlay
    BY <1>1 DEF LeaveOut, people, RInv, TypeOK, StageOK, PageOK, InPlay, Absorbed
  <1> QED
    BY <1>1, <1>2, SameQuestions DEF LeaveOut, people

LEMMA RefuseStep ==
  ASSUME RInv, NEW r \in Rows, NEW f \in Fields, Refuse(r, f)
  PROVE  RInv'
  <1> DEFINE q == [row |-> r, about |-> "target", field |-> f,
                   no |-> Cardinality(questions), state |-> "open"]
  <1>1. questions' = questions \cup {q}
    BY DEF Refuse
  <1>2. q \in Question /\ q.row = r /\ q.about = "target" /\ q.state = "open"
    BY FS_CardinalityType DEF RInv, Question
  <1>3. status[r] # "pending" /\ OpenAbout(r, "target") = {}
    BY DEF Refuse, CandidateStatus
  <1>4. /\ moves' \in 0..MaxMoves
        /\ UNCHANGED <<data, status, stage, same, trust, conflicts, snapshot, page,
                       answered, raised>>
    BY FieldsAssumption DEF Refuse, RInv, TypeOK
  <1> HIDE DEF q
  <1>5. Open' = Open \cup {q}
    BY <1>1, <1>2 DEF Open
  <1>6. TypeOK' /\ IsFiniteSet(questions')
    BY <1>1, <1>2, <1>4, FS_AddElement DEF RInv, TypeOK
  <1>7. BrokenRulesAreAsked'
    BY <1>4, <1>5 DEF RInv, BrokenRulesAreAsked, Questioned, OpenAbout, InPlay, Absorbed
  <1>8. AskedOnce'
    BY <1>2, <1>3, <1>5 DEF RInv, AskedOnce, OpenAbout
  <1>9. NoneAhead' /\ StageOK' /\ PageOK'
    BY <1>1, <1>2, <1>3, <1>4 DEF RInv, NoneAhead, StageOK, PageOK
  <1> QED
    BY <1>6, <1>7, <1>8, <1>9 DEF RInv

LEMMA PageStep ==
  ASSUME RInv, ClosePage \/ \E q \in questions : OpenPage(q)
  PROVE  RInv'
  <1>1. CASE ClosePage
    <2>1. TypeOK' /\ StageOK' /\ PageOK' /\ InPlay' = InPlay
      BY <1>1 DEF ClosePage, Closed, people, Fields, RInv, TypeOK, StageOK, PageOK,
                  InPlay, Absorbed
    <2> QED
      BY <1>1, <2>1, SameQuestions DEF ClosePage, people
  <1>2. ASSUME NEW q \in questions, OpenPage(q)
        PROVE  RInv'
    <2> DEFINE rows == IF q.about \in Rules
                         THEN {r \in Fillable : q.about \in Broken(data[r])}
                         ELSE {e.row : e \in SameSignature(q)}
               own == Ids({e \in SameSignature(q) : e.row \in rows})
    <2>1. /\ moves' \in 0..MaxMoves
          /\ UNCHANGED <<data, status, questions, stage, same, trust, conflicts,
                         snapshot, answered>>
      BY <1>2, FieldsAssumption DEF OpenPage, RInv, TypeOK
    <2>2. /\ page' = page \/ page' = [open |-> TRUE, field |-> q.field, rule |-> q.about,
                                      rows |-> rows, own |-> own]
          /\ raised' \in BOOLEAN
      BY <1>2 DEF OpenPage, RInv, TypeOK
    <2>3. rows \subseteq Rows
      BY DEF Fillable, SameSignature, Open, RInv, TypeOK, Question
    <2> HIDE DEF rows
    <2>4. \A i \in own : i \in Rows \X (Rules \cup {"target"}) \X Nat /\ i[2] = q.about
      <3> SUFFICES ASSUME NEW e \in SameSignature(q)
                   PROVE  Id(e) \in Rows \X (Rules \cup {"target"}) \X Nat /\ Id(e)[2] = q.about
        BY DEF Ids
      <3>1. e \in Question /\ e.about = q.about
        BY DEF SameSignature, Open, RInv, TypeOK
      <3> QED
        BY <3>1 DEF Id, Question
    <2>5. q.field \in Fields /\ q.about \in Rules \cup {"target"}
      BY DEF RInv, TypeOK, Question
    <2> HIDE DEF own
    <2>6. page' \in [open : BOOLEAN, field : Fields, rule : Rules \cup {"target", "none"},
                     rows : SUBSET Rows, own : SUBSET (Rows \X (Rules \cup {"target"}) \X Nat)]
      <3>1. CASE page' = page
        BY <3>1 DEF RInv, TypeOK
      <3>2. CASE page' = [open |-> TRUE, field |-> q.field, rule |-> q.about,
                          rows |-> rows, own |-> own]
        BY <2>3, <2>4, <2>5, <3>2
      <3> QED
        BY <2>2, <3>1, <3>2
    <2>7. TypeOK' /\ StageOK' /\ InPlay' = InPlay
      BY <2>1, <2>2, <2>6 DEF RInv, TypeOK, StageOK, InPlay, Absorbed
    <2>8. PageOK'
      BY <2>2, <2>4 DEF RInv, PageOK
    <2> QED
      BY <2>1, <2>7, <2>8, SameQuestions
  <1> QED
    BY <1>1, <1>2

\* A value entered on the page mends the rule of the page and breaks no other.
LEMMA FillStep ==
  ASSUME RInv, NEW r \in Rows, NEW v \in Typed[page.field], FillRow(r, v)
  PROVE  RInv'
  <1> DEFINE d == [data[r] EXCEPT ![page.field] = v]
             ids == {i \in page.own : i[1] = r}
  <1>1. d \in Data
    BY FieldsAssumption DEF RInv, TypeOK, Data
  <1>2. UNCHANGED <<stage, same, trust, conflicts, snapshot, moves, answered>>
    BY DEF FillRow, people
  <1> HIDE DEF d, ids
  <1>3. CASE raised' = TRUE /\ page' = Closed /\ UNCHANGED <<data, status, questions>>
    <2>1. TypeOK' /\ StageOK' /\ PageOK' /\ InPlay' = InPlay
      BY <1>2, <1>3 DEF Closed, Fields, RInv, TypeOK, StageOK, PageOK, InPlay, Absorbed
    <2> QED
      BY <1>2, <1>3, <2>1, SameQuestions
  <1>4. CASE /\ Fits(data[r], d)
             /\ data' = [data EXCEPT ![r] = d]
             /\ status' = [status EXCEPT ![r] = Restored(r, d)]
             /\ questions' = Close(ids, "resolved")
             /\ page' = [page EXCEPT !.rows = @ \ {r}]
             /\ UNCHANGED raised
    <2>1. /\ questions' \subseteq Question /\ IsFiniteSet(questions') /\ AskedOnce'
          /\ \A q \in questions' : status[q.row] # "pending"
          /\ \A s \in Rows : \A rule \in Questioned(s) :
               (\A q \in Open : q.row = s /\ q.about = rule => Id(q) \notin ids)
                 => rule \in Questioned(s)'
      BY <1>4, CloseOnly
    <2>2. /\ Restored(r, d) \in Status
          /\ (Restored(r, d) = "pending") <=> (status[r] = "pending")
      BY DEF Restored, RInv, TypeOK, Status, FillableStatus
    <2>3. /\ status' \in [Rows -> Status] /\ data' \in [Rows -> Data]
          /\ data'[r] = d /\ \A s \in Rows : s # r => data'[s] = data[s]
          /\ \A s \in Rows : (status'[s] = "pending") <=> (status[s] = "pending")
      BY <1>1, <1>4, <2>2 DEF RInv, TypeOK
    <2>4. page' \in [open : BOOLEAN, field : Fields, rule : Rules \cup {"target", "none"},
                     rows : SUBSET Rows, own : SUBSET (Rows \X (Rules \cup {"target"}) \X Nat)]
          /\ page'.own = page.own /\ page'.rule = page.rule
      BY <1>4 DEF RInv, TypeOK
    <2>5. TypeOK'
      BY <1>2, <1>4, <2>1, <2>3, <2>4 DEF RInv, TypeOK
    <2>6. InPlay' = InPlay
      BY <1>2, <2>3 DEF InPlay, Absorbed
    <2>7. BrokenRulesAreAsked'
      <3> SUFFICES ASSUME NEW s \in InPlay, NEW rule \in Broken(data'[s]),
                          <<s, rule>> \notin answered
                   PROVE  rule \in Questioned(s)'
        BY <1>2, <2>6 DEF BrokenRulesAreAsked
      <3>1. s \in Rows /\ rule \in Rules
        BY DEF InPlay, Broken
      <3>2. rule \in Broken(data[s]) /\ (s = r => rule # page.rule)
        BY <1>4, <2>3, <3>1 DEF Fits
      <3>3. rule \in Questioned(s)
        BY <3>2 DEF RInv, BrokenRulesAreAsked
      <3>4. \A q \in Open : q.row = s /\ q.about = rule => Id(q) \notin ids
        BY <3>2 DEF ids, Id, RInv, PageOK
      <3> QED
        BY <2>1, <3>1, <3>3, <3>4
    <2>8. NoneAhead'
      BY <2>1, <2>3 DEF NoneAhead, Question
    <2>9. StageOK' /\ PageOK'
      BY <1>2, <2>3, <2>4 DEF RInv, StageOK, PageOK
    <2> QED
      BY <2>1, <2>5, <2>7, <2>8, <2>9 DEF RInv
  <1> QED
    BY <1>3, <1>4 DEF FillRow, d, ids

\* Answers close the question they answer, or all that are like it.
LEMMA SelectedAreAsked ==
  ASSUME RInv, NEW q \in questions, NEW all \in BOOLEAN
  PROVE  /\ Selected(q, all) \subseteq questions
         /\ \A e \in Selected(q, all) : e \in Question /\ e.about = q.about
  BY DEF Selected, SameSignature, Open, RInv, TypeOK

LEMMA DismissStep ==
  ASSUME RInv, NEW q \in questions, NEW all \in BOOLEAN, Dismiss(q, all)
  PROVE  RInv'
  <1> DEFINE ids == Ids(Selected(q, all))
             by == {<<e.row, e.about>> : e \in Selected(q, all)}
  <1>1. /\ questions' = Close(ids, "resolved") /\ answered' = answered \cup by
        /\ q.about \in Rules /\ moves' \in 0..MaxMoves
        /\ UNCHANGED <<data, status, stage, same, trust, conflicts, snapshot, page, raised>>
    BY FieldsAssumption DEF Dismiss, RInv, TypeOK
  <1>2. by \subseteq Rows \X Rules
    BY <1>1, SelectedAreAsked DEF Question
  <1>3. \A e \in Open : Id(e) \in ids => <<e.row, e.about>> \in by
    <2> SUFFICES ASSUME NEW e \in Open, NEW f \in Selected(q, all), Id(e) = Id(f)
                 PROVE  <<e.row, e.about>> \in by
      BY DEF Ids
    <2>1. e.row = f.row /\ e.about = f.about
      BY DEF Id
    <2> QED
      BY <2>1
  <1> HIDE DEF ids, by
  <1>4. /\ questions' \subseteq Question /\ IsFiniteSet(questions') /\ AskedOnce'
        /\ \A e \in questions' : status[e.row] # "pending"
        /\ \A s \in Rows : \A rule \in Questioned(s) :
             (\A e \in Open : e.row = s /\ e.about = rule => Id(e) \notin ids)
               => rule \in Questioned(s)'
    BY <1>1, CloseOnly
  <1>5. TypeOK'
    BY <1>1, <1>2, <1>4 DEF RInv, TypeOK
  <1>6. BrokenRulesAreAsked'
    <2> SUFFICES ASSUME NEW s \in InPlay, NEW rule \in Broken(data[s]),
                        <<s, rule>> \notin answered \cup by
                 PROVE  rule \in Questioned(s)'
      BY <1>1 DEF BrokenRulesAreAsked, InPlay, Absorbed
    <2>1. rule \in Questioned(s) /\ s \in Rows
      BY DEF RInv, BrokenRulesAreAsked, InPlay
    <2> QED
      BY <1>3, <1>4, <2>1
  <1>7. NoneAhead' /\ StageOK' /\ PageOK'
    BY <1>1, <1>4 DEF RInv, NoneAhead, StageOK, PageOK
  <1> QED
    BY <1>4, <1>5, <1>6, <1>7 DEF RInv

LEMMA ExcludeStep ==
  ASSUME RInv, NEW q \in questions, NEW all \in BOOLEAN, Exclude(q, all)
  PROVE  RInv'
  <1> DEFINE ids == Ids(Selected(q, all))
  <1>1. /\ questions' = Close(ids, "resolved") /\ q.about = "target"
        /\ status' = [r \in Rows |-> IF \E e \in Selected(q, all) : e.row = r
                                     THEN "excluded" ELSE status[r]]
        /\ moves' \in 0..MaxMoves
        /\ UNCHANGED <<data, stage, same, trust, conflicts, snapshot, page, answered, raised>>
    BY FieldsAssumption DEF Exclude, RInv, TypeOK
  <1>2. \A e \in Open : Id(e) \in ids => e.about = "target"
    <2> SUFFICES ASSUME NEW e \in Open, NEW f \in Selected(q, all), Id(e) = Id(f)
                 PROVE  e.about = "target"
      BY DEF Ids
    <2> QED
      BY <1>1, SelectedAreAsked DEF Id
  <1> HIDE DEF ids
  <1>3. \A e \in Selected(q, all) : status[e.row] # "pending"
    BY SelectedAreAsked DEF RInv, NoneAhead
  <1>4. /\ status' \in [Rows -> Status]
        /\ \A r \in Rows : (status'[r] = "pending") <=> (status[r] = "pending")
    BY <1>1, <1>3 DEF RInv, TypeOK, Status
  <1>5. /\ questions' \subseteq Question /\ IsFiniteSet(questions') /\ AskedOnce'
        /\ \A e \in questions' : status[e.row] # "pending"
        /\ \A s \in Rows : \A rule \in Questioned(s) :
             (\A e \in Open : e.row = s /\ e.about = rule => Id(e) \notin ids)
               => rule \in Questioned(s)'
    BY <1>1, CloseOnly
  <1>6. TypeOK'
    BY <1>1, <1>4, <1>5 DEF RInv, TypeOK
  <1>7. InPlay' = InPlay
    BY <1>1, <1>4 DEF InPlay, Absorbed
  <1>8. BrokenRulesAreAsked'
    <2> SUFFICES ASSUME NEW s \in InPlay, NEW rule \in Broken(data[s]),
                        <<s, rule>> \notin answered
                 PROVE  rule \in Questioned(s)'
      BY <1>1, <1>7 DEF BrokenRulesAreAsked
    <2>1. rule \in Questioned(s) /\ s \in Rows /\ rule \in Rules
      BY DEF RInv, BrokenRulesAreAsked, InPlay, Broken
    <2> QED
      BY <1>2, <1>5, <2>1 DEF Rules
  <1>9. NoneAhead' /\ StageOK' /\ PageOK'
    BY <1>1, <1>4, <1>5 DEF RInv, NoneAhead, StageOK, PageOK, Question
  <1> QED
    BY <1>5, <1>6, <1>8, <1>9 DEF RInv

LEMMA RepairStep ==
  ASSUME RInv, NEW q \in questions, NEW v \in Typed[q.field], Repair(q, v)
  PROVE  RInv'
  <1> DEFINE d == Corrected(q, v)
             r == q.row
             rules == Broken(d) \ Questioned(r)
  <1>1. q \in Question /\ r \in Rows /\ q.field \in Fields /\ q.about = "target"
    BY DEF RInv, TypeOK, Question, Repair
  <1>2. d \in Data
    BY <1>1, FieldsAssumption DEF Corrected, RInv, TypeOK, Data
  <1>3. /\ moves' \in 0..MaxMoves
        /\ UNCHANGED <<stage, same, trust, conflicts, snapshot, page, answered>>
    BY FieldsAssumption DEF Repair, RInv, TypeOK
  <1>4. rules \in SUBSET Rules /\ Broken(d) \subseteq Rules
    BY DEF Broken
  <1>5. \A e \in Open : e.row = r /\ e.about \in rules => Id(e) \in {Id(q)}
    BY <1>4 DEF Questioned, OpenAbout
  <1>6. CASE raised' = TRUE /\ UNCHANGED <<data, status, questions>>
    <2>1. TypeOK' /\ StageOK' /\ PageOK' /\ InPlay' = InPlay
      BY <1>3, <1>6 DEF RInv, TypeOK, StageOK, PageOK, InPlay, Absorbed
    <2> QED
      BY <1>3, <1>6, <2>1, SameQuestions
  <1>7. CASE /\ data' = [data EXCEPT ![q.row] = Corrected(q, v)]
             /\ status' = [status EXCEPT ![q.row] = IF @ = "excluded" THEN "clean" ELSE @]
             /\ questions' = Close({Id(q)}, "resolved") \cup RepairQuestions(q, v)
             /\ UNCHANGED raised
    <2>1. questions' = Close({Id(q)}, "resolved") \cup Raised(r, rules)
      BY <1>7 DEF RepairQuestions
    <2>2. status[r] # "pending"
      BY DEF RInv, NoneAhead
    <2>3. data' = [data EXCEPT ![r] = d]
      BY <1>7
    <2>4. \A e \in Open : Id(e) = Id(q) => e.about = "target"
      BY <1>1 DEF Id
    <2> HIDE DEF d, r, rules
    <2>5. "resolved" \in {"resolved", "superseded"}
      OBVIOUS
    <2>6. questions' \subseteq Question /\ IsFiniteSet(questions') /\ AskedOnce'
      <3>1. questions' \subseteq Question /\ IsFiniteSet(questions')
        <4>1. QuestionsType
          BY DEF RInv, TypeOK, QuestionsType
        <4>2. Close({Id(q)}, "resolved") \subseteq Question
              /\ IsFiniteSet(Close({Id(q)}, "resolved"))
          BY <2>5, <4>1, CloseStep
        <4>3. Raised(r, rules) \subseteq Question /\ IsFiniteSet(Raised(r, rules))
          BY <1>1, <1>4, <4>1, RaisedStep
        <4>4. IsFiniteSet(Close({Id(q)}, "resolved") \cup Raised(r, rules))
          BY <4>2, <4>3, FS_Union
        <4> QED
          BY <2>1, <4>2, <4>3, <4>4
      <3>2. AskedOnce'
        BY <1>1, <1>4, <1>5, <2>1, <2>2, <2>5, CloseAndRaise
      <3> QED
        BY <3>1, <3>2
    <2>7. \A e \in questions' : status[e.row] # "pending"
      BY <1>1, <1>4, <1>5, <2>1, <2>2, <2>5, CloseAndRaise
    <2>8. rules \subseteq Questioned(r)'
      BY <1>1, <1>4, <1>5, <2>1, <2>2, <2>5, CloseAndRaise
    <2>9. \A s \in Rows : \A rule \in Questioned(s) :
            (\A e \in Open : e.row = s /\ e.about = rule => Id(e) \notin {Id(q)})
              => rule \in Questioned(s)'
      BY <1>1, <1>4, <1>5, <2>1, <2>2, <2>5, CloseAndRaise
    <2>10. /\ status' \in [Rows -> Status] /\ data' \in [Rows -> Data]
           /\ data'[r] = d /\ \A s \in Rows : s # r => data'[s] = data[s]
           /\ \A s \in Rows : (status'[s] = "pending") <=> (status[s] = "pending")
      BY <1>1, <1>2, <1>7, <2>3 DEF RInv, TypeOK, Status, FillableStatus
    <2>11. TypeOK'
      BY <1>3, <1>7, <2>6, <2>10 DEF RInv, TypeOK
    <2>12. InPlay' = InPlay
      BY <1>3, <2>10 DEF InPlay, Absorbed
    <2>13. BrokenRulesAreAsked'
      <3> SUFFICES ASSUME NEW s \in InPlay, NEW rule \in Broken(data'[s]),
                          <<s, rule>> \notin answered
                   PROVE  rule \in Questioned(s)'
        BY <1>3, <2>12 DEF BrokenRulesAreAsked
      <3>1. s \in Rows /\ rule \in Rules /\ rule # "target"
        BY DEF InPlay, Broken, Rules
      <3>2. rule \in Questioned(s) => rule \in Questioned(s)'
        BY <2>4, <2>9, <3>1
      <3>3. CASE s = r
        BY <2>8, <2>10, <3>2, <3>3 DEF rules
      <3>4. CASE s # r
        BY <2>10, <3>1, <3>2, <3>4 DEF RInv, BrokenRulesAreAsked
      <3> QED
        BY <3>3, <3>4
    <2>14. NoneAhead'
      BY <2>6, <2>7, <2>10 DEF NoneAhead, Question
    <2>15. StageOK' /\ PageOK'
      BY <1>3, <2>10 DEF RInv, StageOK, PageOK
    <2> QED
      BY <2>6, <2>11, <2>13, <2>14, <2>15 DEF RInv
  <1> QED
    BY <1>6, <1>7 DEF Repair

LEMMA RInvStep ==
  ASSUME RInv, [Next]_vars
  PROVE  RInv'
  <1>1. CASE Next
    BY <1>1, StageStep, MergeStep, ValidateStep, LeaveOutStep, RefuseStep, PageStep,
       FillStep, DismissStep, ExcludeStep, RepairStep
       DEF Next, Human
  <1>2. CASE UNCHANGED vars
    <2>1. TypeOK' /\ StageOK' /\ PageOK' /\ InPlay' = InPlay
      BY <1>2 DEF vars, people, RInv, TypeOK, StageOK, PageOK, InPlay, Absorbed
    <2> QED
      BY <1>2, <2>1, SameQuestions DEF vars, people
  <1> QED
    BY <1>1, <1>2

LEMMA RInvHolds == Spec => []RInv
  <1>1. RInv /\ [Next]_vars => RInv'
    BY RInvStep
  <1> QED
    BY RInvInit, <1>1, PTL DEF Spec

\* Every variable has its type.
THEOREM RecordsTypeCorrect == Spec => []TypeOK
  <1>1. RInv => TypeOK
    BY DEF RInv
  <1> QED
    BY RInvHolds, <1>1, PTL

\* No contradiction in a record in play goes unasked.
THEOREM ContradictionsAreAsked == Spec => []BrokenRulesAreAsked
  <1>1. RInv => BrokenRulesAreAsked
    BY DEF RInv
  <1> QED
    BY RInvHolds, <1>1, PTL

\* Nobody is asked twice at once about one rule of one record.
THEOREM RulesAskedOnce == Spec => []AskedOnce
  <1>1. RInv => AskedOnce
    BY DEF RInv
  <1> QED
    BY RInvHolds, <1>1, PTL

\* A merge leaves open exactly the questions its survivor calls for.
THEOREM MergeRequestions == Spec => SurvivorIsRequestioned
  <1> DEFINE Asked ==
        stage = "validated" /\ stage' = "reconciled" /\ same =>
          Questioned(Survivor)' = Broken(data'[Survivor])
  <1>1. RInv /\ [Next]_vars => [Asked]_vars
    <2> SUFFICES ASSUME RInv, Next, stage = "validated", stage' = "reconciled", same
                 PROVE  Questioned(Survivor)' = Broken(data'[Survivor])
      OBVIOUS
    <2>1. Merge
      BY DEF Next, Human, SetValidated, Read, LeaveApart, Validate, LeaveOut, Refuse,
             OpenPage, Dismiss, Exclude, Repair, FillRow, ClosePage
    <2> QED
      BY <2>1, MergeStep
  <1> QED
    BY RInvHolds, <1>1, PTL DEF Spec, SurvivorIsRequestioned
=============================================================================
