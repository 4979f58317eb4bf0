---------------------------- MODULE RecordProofs ----------------------------
(* Theorems about the records and the questions of Pipeline, for every       *)
(* value of the constants.  The first part is a count the others rest on: a  *)
(* call cleans a row at most once, so its copies never outnumber the calls.  *)
EXTENDS PipelineProofs, FiniteSetTheorems

CopiesOf(r) == {i \in Stored : i[1] = r}

\* The calls that may yet insert a copy of row r.
Ahead(r) ==
  {w \in Threads : \/ job[w].pc \in {"begin", "ingest", "gate", "guard", "plan"}
                   \/ job[w].pc = "clean" /\ r \in job[w].todo}

\* The calls no thread has taken up, and the one an answer may start.
Pending == tasks.upload + tasks.resume + (IF handler = "answered" THEN 1 ELSE 0)

Bounded(r) ==
  /\ IsFiniteSet(Ahead(r))
  /\ Cardinality(CopiesOf(r)) + Cardinality(Ahead(r)) + Pending <= 1 + moves

\* Copies are numbered in the order they are inserted, without gaps.
Dense(r) == \A n \in Copies : <<r, n>> \in Stored => n <= Cardinality(CopiesOf(r))

\* What reconciliation has read is still there when it writes.
SnapRead == \A w \in Threads : job[w].pc = "merge" => job[w].snap \subseteq Stored

KInv == SnapRead /\ \A r \in Rows : Bounded(r) /\ Dense(r)

LEMMA RecordIdsFinite == IsFiniteSet(RecordIds)
  <1>1. IsFiniteSet(Copies)
    BY FS_Interval, PipelineAssumption DEF Copies
  <1> QED
    BY <1>1, FS_Product, PipelineAssumption DEF RecordIds

\* So every set of records can be counted.
LEMMA StoredFinite ==
  ASSUME NEW S \in SUBSET RecordIds
  PROVE  IsFiniteSet(S) /\ Cardinality(S) \in Nat
  BY RecordIdsFinite, FS_Subset, FS_CardinalityType

LEMMA BoundKept ==
  ASSUME NEW n \in Nat, NEW a \in Nat, NEW a1 \in Nat, NEW p \in Nat, NEW p1 \in Nat,
         NEW m \in Nat, NEW m1 \in Nat, n + a + p <= 1 + m, a1 <= a,
         p1 + m <= p + m1
  PROVE  n + a1 + p1 <= 1 + m1
  OBVIOUS

\* A step after which no more calls are ahead of a row, and no more wait than
\* moves allow, keeps the bound when it leaves the records alone.
LEMMA FewerAhead ==
  ASSUME CInv, CInv', KInv, Stored' = Stored, NEW r \in Rows,
         Ahead(r)' \subseteq Ahead(r), Pending' + moves <= Pending + moves'
  PROVE  Bounded(r)' /\ Dense(r)'
  <1>1. CopiesOf(r)' = CopiesOf(r)
    BY DEF CopiesOf
  <1>2. Cardinality(CopiesOf(r)) \in Nat
    BY StoredFinite DEF CopiesOf, Stored
  <1>3. Bounded(r) /\ Dense(r)
    BY DEF KInv
  <1>4. /\ IsFiniteSet(Ahead(r)') /\ Cardinality(Ahead(r)') <= Cardinality(Ahead(r))
        /\ Cardinality(Ahead(r)) \in Nat /\ Cardinality(Ahead(r)') \in Nat
    BY <1>3, FS_Subset, FS_CardinalityType DEF Bounded
  <1>5. Pending \in Nat /\ Pending' \in Nat /\ moves \in Nat /\ moves' \in Nat
    BY PipelineAssumption DEF CInv, ControlType, Pending
  <1>6. Cardinality(CopiesOf(r)) + Cardinality(Ahead(r)) + Pending <= 1 + moves
    BY <1>3 DEF Bounded
  <1>7. Cardinality(CopiesOf(r)') + Cardinality(Ahead(r)') + Pending' <= 1 + moves'
    BY <1>1, <1>2, <1>4, <1>5, <1>6, BoundKept
  <1> QED
    BY <1>1, <1>3, <1>4, <1>7 DEF Bounded, Dense

LEMMA CountInit == Init => KInv
  <1> SUFFICES ASSUME Init PROVE KInv
    OBVIOUS
  <1>1. Stored = {} /\ \A r \in Rows : CopiesOf(r) = {}
    BY DEF Init, Stored, CopiesOf
  <1>2. \A r \in Rows : Ahead(r) = {}
    BY DEF Init, Ahead, Idle
  <1>3. Pending = 1 /\ moves = 0
    BY DEF Init, Pending
  <1>4. SnapRead
    BY DEF Init, Idle, SnapRead
  <1>5. \A r \in Rows : Bounded(r) /\ Dense(r)
    BY <1>1, <1>2, <1>3, FS_EmptySet DEF Bounded, Dense
  <1> QED
    BY <1>4, <1>5 DEF KInv

\* Cleaning a row: the copy it inserts is new, and one that exists.
LEMMA FreshCopy ==
  ASSUME CInv, KInv, NEW w \in Threads, NEW r \in Rows, CleanRow(w, r)
  PROVE  /\ NextCopy(r) \in RecordIds /\ NextCopy(r) \notin Stored
         /\ NextCopy(r)[1] = r
         /\ NextCopy(r)[2] = 1 + Cardinality(CopiesOf(r))
         /\ Stored' = Stored \cup {NextCopy(r)}
  <1>1. NextCopy(r) = <<r, 1 + Cardinality(CopiesOf(r))>>
    BY DEF NextCopy, CopiesOf
  <1>2. Cardinality(CopiesOf(r)) \in Nat
    BY StoredFinite DEF CopiesOf, Stored
  <1>3. w \in Ahead(r)
    BY DEF CleanRow, Ahead
  <1>4. Cardinality(Ahead(r)) \in Nat /\ Cardinality(Ahead(r)) # 0
    BY <1>3, FS_CardinalityType, FS_EmptySet DEF KInv, Bounded
  <1>5. Pending \in Nat /\ moves \in 0..MaxMoves /\ MaxMoves \in Nat
    BY PipelineAssumption DEF CInv, ControlType, Pending
  <1>6. 1 + Cardinality(CopiesOf(r)) \in Copies
    BY <1>2, <1>4, <1>5 DEF KInv, Bounded, Copies
  <1>7. NextCopy(r) \in RecordIds
    BY <1>1, <1>6 DEF RecordIds
  <1>8. NextCopy(r) \notin Stored
    BY <1>1, <1>2, <1>6 DEF KInv, Dense
  <1>9. PICK x \in {"clean", "blocked"} :
          records' = [records EXCEPT ![NextCopy(r)] = x]
    BY DEF CleanRow
  <1>10. Stored' = Stored \cup {NextCopy(r)}
    BY <1>7, <1>9 DEF Stored, CInv, ControlType
  <1> QED
    BY <1>1, <1>7, <1>8, <1>10

LEMMA CountClean ==
  ASSUME CInv, CInv', KInv, NEW w \in Threads, NEW q \in Rows, CleanRow(w, q)
  PROVE  KInv'
  <1>1. /\ NextCopy(q) \notin Stored /\ NextCopy(q)[1] = q
        /\ NextCopy(q)[2] = 1 + Cardinality(CopiesOf(q))
        /\ Stored' = Stored \cup {NextCopy(q)}
    BY FreshCopy
  <1>2. /\ \A v \in Threads : v # w => job'[v] = job[v]
        /\ job'[w].pc = "clean" /\ job'[w].todo = job[w].todo \ {q}
        /\ job[w].pc = "clean" /\ q \in job[w].todo
        /\ UNCHANGED <<tasks, handler, moves>>
    BY DEF CleanRow, page, CInv, ControlType, Job
  <1>3. SnapRead'
    BY <1>1, <1>2 DEF KInv, SnapRead
  <1>4. Pending' = Pending
    BY <1>2 DEF Pending
  <1>5. ASSUME NEW r \in Rows, r # q  PROVE Bounded(r)' /\ Dense(r)'
    <2>1. CopiesOf(r)' = CopiesOf(r)
      BY <1>1, <1>5 DEF CopiesOf
    <2>2. Ahead(r)' = Ahead(r)
      BY <1>2, <1>5 DEF Ahead
    <2>3. \A n \in Copies : <<r, n>> \in Stored' => <<r, n>> \in Stored
      BY <1>1, <1>5
    <2> QED
      BY <1>2, <1>4, <2>1, <2>2, <2>3 DEF KInv, Bounded, Dense
  <1>6. Bounded(q)' /\ Dense(q)'
    <2>1. IsFiniteSet(CopiesOf(q)) /\ Cardinality(CopiesOf(q)) \in Nat
      BY StoredFinite DEF CopiesOf, Stored
    <2>2. CopiesOf(q)' = CopiesOf(q) \cup {NextCopy(q)} /\ NextCopy(q) \notin CopiesOf(q)
      BY <1>1 DEF CopiesOf
    <2>3. Cardinality(CopiesOf(q)') = Cardinality(CopiesOf(q)) + 1
      BY <2>1, <2>2, FS_AddElement
    <2>4. Ahead(q)' = Ahead(q) \ {w} /\ w \in Ahead(q)
      BY <1>2 DEF Ahead
    <2>5. /\ IsFiniteSet(Ahead(q)') /\ Cardinality(Ahead(q)) \in Nat
          /\ Cardinality(Ahead(q)') = Cardinality(Ahead(q)) - 1
      BY <2>4, FS_RemoveElement, FS_CardinalityType DEF KInv, Bounded
    <2>6. Pending \in Nat /\ moves \in Nat
      BY PipelineAssumption DEF CInv, ControlType, Pending
    <2>7. Bounded(q)'
      BY <1>2, <1>4, <2>1, <2>3, <2>5, <2>6 DEF KInv, Bounded
    <2>8. \A n \in Copies : <<q, n>> \in Stored' => n <= Cardinality(CopiesOf(q)')
      <3> SUFFICES ASSUME NEW n \in Copies, <<q, n>> \in Stored'
                   PROVE  n <= Cardinality(CopiesOf(q)')
        OBVIOUS
      <3>1. CASE <<q, n>> \in Stored
        BY <2>1, <2>3, <3>1 DEF KInv, Dense, Copies
      <3>2. CASE <<q, n>> = NextCopy(q)
        BY <1>1, <2>1, <2>3, <3>2
      <3> QED
        BY <1>1, <3>1, <3>2
    <2> QED
      BY <2>7, <2>8 DEF Dense
  <1> QED
    BY <1>3, <1>5, <1>6 DEF KInv

\* What a merge does to the records it has read.
LEMMA MergeRecords ==
  ASSUME CInv, NEW w \in Threads, Merge(w), job[w].snap \subseteq Stored
  PROVE  \E survivors, absorbed \in SUBSET Stored :
           /\ survivors \cap absorbed = {}
           /\ \A i \in RecordIds :
                records'[i] = IF i \in survivors THEN "merged_survivor"
                              ELSE IF i \in absorbed THEN "merged"
                              ELSE IF records[i] = "clean" /\ i[1] \notin Keyed
                              THEN "incomplete" ELSE records[i]
           /\ LET closed == Superseded(absorbed, survivors)
                  kept == (escalations \ closed)
                            \cup {[e EXCEPT !.status = "superseded"] : e \in closed}
              IN escalations' = kept \cup Raised(kept, survivors)
           /\ \A p \in Merged(w) : Cluster(w, p) \subseteq survivors \cup absorbed
           /\ \A i, j \in survivors : PersonOf[i[1]] = PersonOf[j[1]] => i = j
  <1>1. PICK survivor \in [Merged(w) -> job[w].snap] :
          /\ \A p \in Merged(w) : survivor[p] \in Best(w, p)
          /\ LET survivors == {survivor[p] : p \in Merged(w)}
                 absorbed == {i \in job[w].snap : PersonOf[i[1]] \in Merged(w)} \ survivors
                 closed == Superseded(absorbed, survivors)
                 kept == (escalations \ closed)
                           \cup {[e EXCEPT !.status = "superseded"] : e \in closed}
             IN
             /\ records' = [i \in RecordIds |->
                  IF i \in survivors THEN "merged_survivor"
                  ELSE IF i \in absorbed THEN "merged"
                  ELSE IF records[i] = "clean" /\ i[1] \notin Keyed
                  THEN "incomplete" ELSE records[i]]
             /\ escalations' = kept \cup Raised(kept, survivors)
    BY DEF Merge
  <1> DEFINE survivors == {survivor[p] : p \in Merged(w)}
             absorbed == {i \in job[w].snap : PersonOf[i[1]] \in Merged(w)} \ survivors
             closed == Superseded(absorbed, survivors)
             kept == (escalations \ closed)
                       \cup {[e EXCEPT !.status = "superseded"] : e \in closed}
  <1>2. survivors \in SUBSET Stored /\ absorbed \in SUBSET Stored
    OBVIOUS
  <1>4. /\ survivors \cap absorbed = {}
        /\ \A p \in Merged(w) : Cluster(w, p) \subseteq survivors \cup absorbed
    <2>1. \A p \in Merged(w) : \A i \in Cluster(w, p) :
            i \in job[w].snap /\ PersonOf[i[1]] = p
      BY DEF Cluster
    <2> HIDE DEF survivors
    <2> QED
      BY <2>1
  <1>5. \A p \in Merged(w) : PersonOf[survivor[p][1]] = p
    BY <1>1 DEF Best, Cluster
  <1>6. \A i, j \in survivors : PersonOf[i[1]] = PersonOf[j[1]] => i = j
    BY <1>5
  <1>7. records' = [i \in RecordIds |->
          IF i \in survivors THEN "merged_survivor"
          ELSE IF i \in absorbed THEN "merged"
          ELSE IF records[i] = "clean" /\ i[1] \notin Keyed
          THEN "incomplete" ELSE records[i]]
    BY <1>1
  <1>8. escalations' = kept \cup Raised(kept, survivors)
    BY <1>1
  <1> HIDE DEF survivors, absorbed
  <1> USE <1>2
  <1> WITNESS survivors \in SUBSET Stored, absorbed \in SUBSET Stored
  <1> QED
    BY <1>2, <1>4, <1>6, <1>7, <1>8

\* A merge inserts nothing and deletes nothing.
LEMMA MergeKeeps ==
  ASSUME CInv, KInv, NEW w \in Threads, Merge(w)
  PROVE  Stored' = Stored /\ job[w].snap \subseteq Stored
  <1>1. job[w].snap \subseteq Stored
    BY DEF Merge, KInv, SnapRead
  <1>2. PICK survivors \in SUBSET Stored, absorbed \in SUBSET Stored :
          \A i \in RecordIds :
            records'[i] = IF i \in survivors THEN "merged_survivor"
                          ELSE IF i \in absorbed THEN "merged"
                          ELSE IF records[i] = "clean" /\ i[1] \notin Keyed
                          THEN "incomplete" ELSE records[i]
    BY <1>1, MergeRecords
  <1> QED
    BY <1>1, <1>2 DEF Stored

\* A call that goes on, or ends, cleans no row it was not going to.
LEMMA CountRun ==
  ASSUME CInv, CInv', KInv, NEW w \in Threads, Run(w)
  PROVE  KInv'
  <1>j. job \in [Threads -> Job]
    BY DEF CInv, ControlType
  <1>0. ASSUME Stored' = Stored, UNCHANGED <<tasks, handler, moves>>,
               \A v \in Threads : v # w => job'[v] = job[v],
               job'[w].pc \in {"begin", "ingest", "gate", "guard", "plan"} =>
                 job[w].pc \in {"begin", "ingest", "gate", "guard", "plan"},
               job'[w].pc = "clean" =>
                 job[w].pc \in {"begin", "ingest", "gate", "guard", "plan"},
               job'[w].pc = "merge" => job'[w].snap \subseteq Stored
        PROVE  KInv'
    <2>1. Pending' + moves <= Pending + moves'
      BY <1>0 DEF Pending, CInv, ControlType
    <2>2. \A r \in Rows : Ahead(r)' \subseteq Ahead(r)
      BY <1>0 DEF Ahead
    <2>3. SnapRead'
      BY <1>0 DEF KInv, SnapRead
    <2> QED
      BY <1>0, <2>1, <2>2, <2>3, FewerAhead DEF KInv
  <1>1. CASE TakeUp(w)
    <2>1. UNCHANGED <<records, handler, moves>>
      BY <1>1 DEF TakeUp, data
    <2>2. /\ job[w].pc = "idle" /\ job'[w].pc = "begin"
          /\ \A v \in Threads : v # w => job'[v] = job[v]
      BY <1>1, TakeUpStep
    <2>3. tasks.upload \in 0..1 /\ tasks.resume \in 0..MaxMoves /\ MaxMoves \in Nat
      BY PipelineAssumption DEF CInv, ControlType
    <2>4. Pending' = Pending - 1 /\ Pending \in Nat
      BY <1>1, <2>1, <2>3, TakeUpStep DEF Pending
    <2>5. SnapRead'
      BY <2>1, <2>2 DEF KInv, SnapRead, Stored
    <2>6. ASSUME NEW r \in Rows  PROVE Bounded(r)' /\ Dense(r)'
      <3>1. CopiesOf(r)' = CopiesOf(r) /\ Stored' = Stored
        BY <2>1 DEF CopiesOf, Stored
      <3>2. Ahead(r)' = Ahead(r) \cup {w} /\ w \notin Ahead(r)
        BY <2>2 DEF Ahead
      <3>3. /\ IsFiniteSet(Ahead(r)') /\ Cardinality(Ahead(r)) \in Nat
            /\ Cardinality(Ahead(r)') = Cardinality(Ahead(r)) + 1
        BY <3>2, FS_AddElement, FS_CardinalityType DEF KInv, Bounded
      <3>4. Cardinality(CopiesOf(r)) \in Nat /\ moves \in Nat
        BY StoredFinite DEF CopiesOf, Stored, CInv, ControlType
      <3> QED
        BY <2>1, <2>4, <3>1, <3>3, <3>4 DEF KInv, Bounded, Dense
    <2> QED
      BY <2>5, <2>6 DEF KInv
  <1>2. CASE Look(w)
    <2>1. UNCHANGED <<records, tasks, handler, moves>>
      BY <1>2 DEF Look, data, page
    <2> QED
      BY <1>j, <1>0, <1>2, <2>1, GotoStep, ReturnStep DEF Look, Stored
  <1>3. CASE Gate(w)
    <2>1. UNCHANGED <<records, tasks, handler, moves>>
      BY <1>3 DEF Gate, data, page
    <2> QED
      BY <1>j, <1>0, <1>3, <2>1, GotoStep, ReturnStep DEF Gate, Stored
  <1>4. CASE \E f \in Files : MapColumn(w, f)
    BY <1>0, <1>4 DEF MapColumn, page, Stored
  <1>5. CASE SetMapped(w)
    BY <1>j, <1>0, <1>5, GotoStep DEF SetMapped, page, Stored
  <1>6. CASE Guard(w)
    <2>1. UNCHANGED <<records, tasks, handler, moves>>
      BY <1>6 DEF Guard, data, page
    <2> QED
      BY <1>j, <1>0, <1>6, <2>1, GotoStep DEF Guard, Stored
  <1>7. CASE Plan(w)
    <2>1. UNCHANGED <<records, tasks, handler, moves>> /\ job[w].pc = "plan"
      BY <1>7 DEF Plan, data, page
    <2>2. PICK S \in SUBSET Rows :
            job' = [job EXCEPT ![w].pc = "clean", ![w].todo = S]
      BY <1>7 DEF Plan
    <2> QED
      BY <1>j, <1>0, <2>1, <2>2, PlanStep DEF Stored
  <1>8. CASE \E r \in Rows : CleanRow(w, r)
    BY <1>8, CountClean
  <1>9. CASE SetValidated(w)
    BY <1>j, <1>0, <1>9, GotoStep DEF SetValidated, page, Stored
  <1>10. CASE Match(w)
    <2>1. UNCHANGED <<records, tasks, handler, moves>> /\ job[w].pc = "match"
      BY <1>10 DEF Match, data, page
    <2>2. /\ \A v \in Threads : v # w => job'[v] = job[v]
          /\ \/ job'[w].pc = "idle"
             \/ job'[w].pc = "merge" /\ job'[w].snap = Stored
      BY <1>j, <1>10, ReturnStep DEF Match, Snapshot, Job
    <2> QED
      BY <1>0, <2>1, <2>2 DEF Stored
  <1>11. CASE Merge(w)
    <2>1. UNCHANGED <<tasks, handler, moves>> /\ Return(w)
      BY <1>11 DEF Merge, page
    <2> QED
      BY <1>j, <1>0, <1>11, <2>1, MergeKeeps, ReturnStep
  <1> QED
    BY <1>1, <1>2, <1>3, <1>4, <1>5, <1>6, <1>7, <1>8, <1>9, <1>10, <1>11
    DEF Run

\* A call that is started was a move, or an answer that was.
LEMMA CountPage ==
  ASSUME CInv, CInv', KInv,
         Human \/ CheckGate \/ Restart \/ \E w \in Threads : Die(w)
  PROVE  KInv'
  <1>t. /\ tasks = [upload |-> tasks.upload, resume |-> tasks.resume]
        /\ tasks.upload \in 0..1 /\ tasks.resume \in 0..MaxMoves
        /\ MaxMoves \in Nat /\ moves \in 0..MaxMoves
        /\ handler \in {"waiting", "answered"} /\ job \in [Threads -> Job]
    BY PipelineAssumption DEF CInv, ControlType
  <1>1. records' = records
    BY DEF Human, AnswerColumn, AnswerRecord, Override, Continue, CheckGate,
           Restart, Die, data
  <1>2. Pending' + moves <= Pending + moves'
    <2>1. CASE \E f \in Files, t \in Target : AnswerColumn(f, t)
      BY <1>t, <2>1 DEF AnswerColumn, Move, Pending
    <2>2. CASE \E f \in Files, t \in Target : Override(f, t)
      BY <1>t, <2>2 DEF Override, Move, Pending
    <2>3. CASE \E e \in escalations, all \in BOOLEAN : AnswerRecord(e, all)
      BY <1>t, <2>3 DEF AnswerRecord, Move, Pending
    <2>4. CASE Continue
      BY <1>t, <2>4 DEF Continue, Start, Move, Pending
    <2>5. CASE CheckGate
      <3>1. CASE GateIsOpen
        BY <1>t, <2>5, <3>1 DEF CheckGate, Start, Pending
      <3>2. CASE ~GateIsOpen
        BY <1>t, <2>5, <3>2 DEF CheckGate, Pending
      <3> QED
        BY <3>1, <3>2
    <2>6. CASE Restart
      BY <1>t, <2>6 DEF Restart, Pending
    <2>7. CASE \E w \in Threads : Die(w)
      BY <1>t, <2>7 DEF Die, page, Pending
    <2> QED
      BY <2>1, <2>2, <2>3, <2>4, <2>5, <2>6, <2>7 DEF Human
  <1>3. \A w \in Threads : job'[w] = job[w] \/ job'[w].pc = "idle"
    <2>1. CASE \E w \in Threads : Die(w)
      <3>1. PICK w \in Threads : Return(w)
        BY <2>1 DEF Die
      <3> QED
        BY <1>t, <3>1, ReturnStep
    <2>2. CASE Restart
      BY <2>2 DEF Restart, Idle
    <2>3. CASE Human \/ CheckGate
      <3>1. UNCHANGED job
        BY <2>3 DEF Human, AnswerColumn, AnswerRecord, Override, Continue, CheckGate
      <3> QED
        BY <3>1
    <2> QED
      BY <2>1, <2>2, <2>3
  <1>4. \A r \in Rows : Ahead(r)' \subseteq Ahead(r)
    BY <1>3 DEF Ahead
  <1>5. Stored' = Stored
    BY <1>1 DEF Stored
  <1>6. SnapRead'
    BY <1>3, <1>5 DEF KInv, SnapRead
  <1> QED
    BY <1>2, <1>4, <1>5, <1>6, FewerAhead DEF KInv

LEMMA CountNext == CInv /\ CInv' /\ KInv /\ [Next]_vars => KInv'
  <1> SUFFICES ASSUME CInv, CInv', KInv, [Next]_vars PROVE KInv'
    OBVIOUS
  <1>1. CASE UNCHANGED vars
    BY <1>1 DEF KInv, SnapRead, Bounded, Dense, CopiesOf, Stored, Ahead, Pending,
                vars, data, page
  <1> QED
    BY <1>1, CountRun, CountPage DEF Next

LEMMA CountCorrect == Spec => [](CInv /\ KInv)
  BY ControlInit, ControlNext, CountInit, CountNext, PTL DEF Spec
-----------------------------------------------------------------------------
\* What is asked about a record is well-formed, the record is stored, and
\* while it is open the record has not been absorbed.
LInv ==
  /\ escalations \subseteq Escalation
  /\ \A e \in escalations : e.on \in Stored
  /\ QuestionsAreLive

\* A question cleaning asks is about the copy it inserts, and what was asked
\* about other records stands as they do.
LEMMA LiveClean ==
  ASSUME CInv, KInv, LInv, NEW w \in Threads, NEW r \in Rows, CleanRow(w, r)
  PROVE  LInv'
  <1> DEFINE n == NextCopy(r)
             new == [about |-> RowAsks[r], on |-> n, status |-> "open"]
  <1>1. n \in RecordIds /\ n \notin Stored /\ Stored' = Stored \cup {n}
    BY FreshCopy
  <1> HIDE DEF n
  <1>2. PICK x \in {"clean", "blocked"} : records' = [records EXCEPT ![n] = x]
    BY DEF CleanRow, n
  <1>3. \/ escalations' = escalations
        \/ /\ RowAsks[r] # NoQuestion
           /\ escalations' = escalations \cup {new}
    BY DEF CleanRow, Raise, n
  <1>4. RowAsks[r] # NoQuestion => new \in Escalation
    BY <1>1, PipelineAssumption DEF Escalation, Classes
  <1>5. records'[n] # "merged" /\ \A i \in Stored : records'[i] = records[i]
    BY <1>1, <1>2 DEF CInv, ControlType, Stored
  <1>6. \A e \in escalations' : e \in escalations \/ e.on = n
    BY <1>3
  <1>7. escalations' \subseteq Escalation
    BY <1>3, <1>4 DEF LInv
  <1>8. \A e \in escalations' : e.on \in Stored'
    BY <1>1, <1>6 DEF LInv
  <1>9. QuestionsAreLive'
    BY <1>5, <1>6 DEF LInv, QuestionsAreLive
  <1> QED
    BY <1>7, <1>8, <1>9 DEF LInv

\* What a merge raises is well-formed, open, and about a survivor.
LEMMA RaisedOnSurvivors ==
  ASSUME NEW survivors \in SUBSET RecordIds, NEW asked,
         NEW e \in Raised(asked, survivors)
  PROVE  e \in Escalation /\ e.on \in survivors
  <1> DEFINE new == {[about |-> q, on |-> i, status |-> "open"] :
                       q \in Conflicts \cup Rules, i \in survivors}
             due == {g \in new : /\ g.about \in MergeAsks[PersonOf[g.on[1]]]
                                 /\ g \in Raise(asked, g.about, g.on)}
  <1>1. \A g \in new : g \in Escalation /\ g.on \in survivors
    BY DEF Escalation, Classes
  <1>2. \/ e \in {g \in due : g.about \in Rules}
        \/ e \in {(CHOOSE g \in due : g.about = q) :
                    q \in {g.about : g \in due} \cap Conflicts}
    BY DEF Raised
  <1>3. due \subseteq new
    OBVIOUS
  <1> HIDE DEF new, due
  <1>4. CASE e \in {g \in due : g.about \in Rules}
    BY <1>1, <1>3, <1>4
  <1>5. CASE e \in {(CHOOSE g \in due : g.about = q) :
                      q \in {g.about : g \in due} \cap Conflicts}
    <2>1. PICK q \in {g.about : g \in due} : e = CHOOSE g \in due : g.about = q
      BY <1>5
    <2>2. \E g \in due : g.about = q
      BY <2>1
    <2>3. e \in due
      BY <2>1, <2>2
    <2> QED
      BY <1>1, <1>3, <2>3
  <1> QED
    BY <1>2, <1>4, <1>5

\* A merge closes what is open on the records it absorbs.
LEMMA LiveMerge ==
  ASSUME CInv, KInv, LInv, NEW w \in Threads, Merge(w)
  PROVE  LInv'
  <1>1. Stored' = Stored /\ job[w].snap \subseteq Stored
    BY MergeKeeps
  <1>2. PICK survivors \in SUBSET Stored, absorbed \in SUBSET Stored :
          /\ survivors \cap absorbed = {}
          /\ \A i \in RecordIds :
               records'[i] = IF i \in survivors THEN "merged_survivor"
                             ELSE IF i \in absorbed THEN "merged"
                             ELSE IF records[i] = "clean" /\ i[1] \notin Keyed
                             THEN "incomplete" ELSE records[i]
          /\ LET closed == Superseded(absorbed, survivors)
                 kept == (escalations \ closed)
                           \cup {[e EXCEPT !.status = "superseded"] : e \in closed}
             IN escalations' = kept \cup Raised(kept, survivors)
    BY <1>1, MergeRecords
  <1> DEFINE closed == Superseded(absorbed, survivors)
             kept == (escalations \ closed)
                       \cup {[e EXCEPT !.status = "superseded"] : e \in closed}
  <1>3. Stored \subseteq RecordIds
    BY DEF Stored
  <1>4. /\ closed \subseteq escalations
        /\ \A e \in escalations :
             e.status = "open" /\ e.on \in absorbed => e \in closed
    BY DEF Superseded
  <1>5. escalations' = kept \cup Raised(kept, survivors)
    BY <1>2
  <1>6. \A e \in Escalation :
          /\ [e EXCEPT !.status = "superseded"] \in Escalation
          /\ [e EXCEPT !.status = "superseded"].status = "superseded"
          /\ [e EXCEPT !.status = "superseded"].on = e.on
    BY DEF Escalation
  <1> HIDE DEF closed
  <1>7. ASSUME NEW e \in kept
        PROVE  /\ e \in Escalation /\ e.on \in Stored
               /\ e.status = "open" => e \in escalations /\ e.on \notin absorbed
    BY <1>4, <1>6 DEF LInv
  <1> HIDE DEF kept
  <1>8. \A e \in Raised(kept, survivors) : e \in Escalation /\ e.on \in survivors
    BY <1>3, RaisedOnSurvivors
  <1>9. escalations' \subseteq Escalation /\ \A e \in escalations' : e.on \in Stored'
    BY <1>1, <1>5, <1>7, <1>8
  <1>10. ASSUME NEW e \in escalations', e.status = "open"
         PROVE  records'[e.on] # "merged"
    <2>1. CASE e \in kept
      BY <1>2, <1>3, <1>7, <1>10, <2>1 DEF LInv, QuestionsAreLive
    <2>2. CASE e \in Raised(kept, survivors)
      BY <1>2, <1>3, <1>8, <2>2
    <2> QED
      BY <1>5, <2>1, <2>2
  <1> QED
    BY <1>9, <1>10 DEF LInv, QuestionsAreLive

\* An answer closes a question and touches no record.
LEMMA LiveAnswer ==
  ASSUME LInv, NEW e \in escalations, NEW all \in BOOLEAN, AnswerRecord(e, all)
  PROVE  LInv'
  <1> DEFINE closed == IF all THEN {g \in escalations : g.about = e.about
                                                        /\ g.status = "open"} ELSE {e}
  <1>1. closed \subseteq escalations
    OBVIOUS
  <1>2. /\ escalations' = (escalations \ closed)
                             \cup {[g EXCEPT !.status = "resolved"] : g \in closed}
        /\ records' = records
    BY DEF AnswerRecord
  <1>3. \A g \in Escalation :
          /\ [g EXCEPT !.status = "resolved"] \in Escalation
          /\ [g EXCEPT !.status = "resolved"].status = "resolved"
          /\ [g EXCEPT !.status = "resolved"].on = g.on
    BY DEF Escalation
  <1> HIDE DEF closed
  <1>4. \A g \in escalations' :
          /\ g \in Escalation /\ g.on \in Stored
          /\ g.status = "open" => g \in escalations
    BY <1>1, <1>2, <1>3 DEF LInv
  <1> QED
    BY <1>2, <1>4 DEF LInv, QuestionsAreLive, Stored

LEMMA LiveNext == CInv /\ KInv /\ LInv /\ [Next]_vars => LInv'
  <1> SUFFICES ASSUME CInv, KInv, LInv, [Next]_vars PROVE LInv'
    OBVIOUS
  <1>0. ASSUME UNCHANGED <<records, escalations>>  PROVE LInv'
    BY <1>0 DEF LInv, QuestionsAreLive, Stored
  <1>1. CASE \E w \in Threads, r \in Rows : CleanRow(w, r)
    BY <1>1, LiveClean
  <1>2. CASE \E w \in Threads : Merge(w)
    BY <1>2, LiveMerge
  <1>3. CASE \E e \in escalations, all \in BOOLEAN : AnswerRecord(e, all)
    BY <1>3, LiveAnswer
  <1>4. CASE \E w \in Threads :
               \/ TakeUp(w) \/ Look(w) \/ Gate(w) \/ Guard(w) \/ Plan(w)
               \/ \E f \in Files : MapColumn(w, f)
               \/ SetMapped(w) \/ SetValidated(w) \/ Match(w) \/ Die(w)
    BY <1>0, <1>4 DEF TakeUp, Look, Gate, Guard, Plan, MapColumn, SetMapped,
                      SetValidated, Match, Die, data
  <1>5. CASE \/ \E f \in Files, t \in Target : AnswerColumn(f, t) \/ Override(f, t)
             \/ Continue \/ CheckGate \/ Restart \/ UNCHANGED vars
    BY <1>0, <1>5 DEF AnswerColumn, Override, Continue, CheckGate, Restart, vars, data
  <1> QED
    BY <1>1, <1>2, <1>3, <1>4, <1>5 DEF Next, Run, Human

LEMMA LiveCorrect == Spec => [](CInv /\ KInv /\ LInv)
  <1>1. Init => LInv
    BY DEF Init, LInv, QuestionsAreLive
  <1> QED
    BY <1>1, ControlInit, ControlNext, CountInit, CountNext, LiveNext, PTL DEF Spec

\* Every variable keeps its type.  That records are inserted under an id of
\* RecordIds is the count; the rest is a case per transaction.
THEOREM TypeCorrect == Spec => []TypeOK
  <1>1. CInv /\ LInv => TypeOK
    BY DEF CInv, ControlType, LInv, TypeOK
  <1> QED
    BY <1>1, LiveCorrect, PTL

\* No open question is about a record a merge has absorbed, for every number
\* of calls that overlap, die or are restarted.
THEOREM LiveQuestions == Spec => []QuestionsAreLive
  <1>1. LInv => QuestionsAreLive
    BY DEF LInv
  <1> QED
    BY <1>1, LiveCorrect, PTL
-----------------------------------------------------------------------------
(* Rows. *)

\* A row outside S is in the run, or its file was not kept.
Covered(S) ==
  \A r \in Rows :
    \/ mapped[FileOf[r]] # "field" \/ FileOf[r] \in remapped
    \/ r \in S \/ \E i \in Stored : i[1] = r

\* A call that cleans has the missing rows still to do; none are missing once
\* it has moved the stage.
RInv ==
  /\ \A w \in Threads : job[w].pc = "clean" => Covered(job[w].todo)
  /\ stage \in {"validated", "reconciled"} => Covered({})

\* Once cleaning has begun, a column that becomes kept is flagged as remapped.
LEMMA MappingStays ==
  ASSUME CInv, OInv, [Next]_vars
  PROVE  /\ remapped \subseteq remapped'
         /\ (\E w \in Threads : job[w].pc = "clean") \/ stage \in {"validated", "reconciled"} =>
              \A f \in Files : mapped'[f] = "field" => mapped[f] = "field" \/ f \in remapped'
  <1>1. CASE UNCHANGED <<mapped, remapped>>
    BY <1>1
  <1>2. CASE \E w \in Threads, f \in Files : MapColumn(w, f)
    BY <1>2 DEF MapColumn, OInv, history
  <1>3. CASE \E f \in Files, t \in Target : AnswerColumn(f, t) \/ Override(f, t)
    BY <1>3 DEF AnswerColumn, Override, Remap, Cleaning, CInv, ControlType
  <1> QED
    BY <1>1, <1>2, <1>3
    DEF Next, Run, Human, TakeUp, Look, Gate, SetMapped, Guard, Plan, CleanRow,
        SetValidated, Match, Merge, AnswerRecord, Continue, CheckGate, Restart,
        Die, vars, data, history

\* No step deletes a record, and only cleaning inserts one.
LEMMA StoredGrows ==
  ASSUME CInv, KInv, [Next]_vars
  PROVE  /\ Stored \subseteq Stored'
         /\ Stored' = Stored \/ \E w \in Threads, r \in Rows : CleanRow(w, r)
  <1>1. CASE UNCHANGED records
    BY <1>1 DEF Stored
  <1>2. CASE \E w \in Threads, r \in Rows : CleanRow(w, r)
    BY <1>2, FreshCopy
  <1>3. CASE \E w \in Threads : Merge(w)
    BY <1>3, MergeKeeps
  <1> QED
    BY <1>1, <1>2, <1>3
    DEF Next, Run, Human, TakeUp, Look, Gate, MapColumn, SetMapped, Guard, Plan,
        SetValidated, Match, AnswerColumn, Override, AnswerRecord, Continue,
        CheckGate, Restart, Die, vars, data

LEMMA RowsNext == CInv /\ OInv /\ KInv /\ RInv /\ [Next]_vars => RInv'
  <1> SUFFICES ASSUME CInv, OInv, KInv, RInv, [Next]_vars PROVE RInv'
    OBVIOUS
  <1>j. job \in [Threads -> Job]
    BY DEF CInv, ControlType
  <1>c. ASSUME NEW S \in SUBSET Rows, Covered(S),
               (\E w \in Threads : job[w].pc = "clean")
                 \/ stage \in {"validated", "reconciled"}
        PROVE  Covered(S)'
    BY <1>c, MappingStays, StoredGrows, PipelineAssumption DEF Covered
  <1>t. \A w \in Threads : job[w].todo \in SUBSET Rows
    BY <1>j DEF Job
  <1>0. ASSUME \A w \in Threads : job'[w].pc = "clean" =>
                 job[w].pc = "clean" /\ job'[w].todo = job[w].todo,
               stage' \in {"validated", "reconciled"} =>
                 stage \in {"validated", "reconciled"}
        PROVE  RInv'
    <2>1. ASSUME NEW w \in Threads, job'[w].pc = "clean"
          PROVE  Covered(job[w].todo)' /\ job'[w].todo = job[w].todo
      BY <1>0, <1>c, <1>t, <2>1 DEF RInv
    <2>2. stage' \in {"validated", "reconciled"} => Covered({})'
      BY <1>0, <1>c DEF RInv
    <2> QED
      BY <2>1, <2>2 DEF RInv, Covered
  <1>1. CASE UNCHANGED vars
    BY <1>0, <1>1 DEF vars, data
  <1>2. CASE \E w \in Threads : TakeUp(w)
    BY <1>0, <1>2, TakeUpStep DEF TakeUp, data
  <1>3. CASE \E w \in Threads : Look(w) \/ Gate(w) \/ Guard(w) \/ Die(w)
    BY <1>j, <1>0, <1>3, GotoStep, ReturnStep DEF Look, Gate, Guard, Die, data
  <1>4. CASE \E w \in Threads : SetMapped(w)
    BY <1>j, <1>0, <1>4, GotoStep DEF SetMapped
  <1>5. CASE \E w \in Threads, f \in Files : MapColumn(w, f)
    BY <1>0, <1>5 DEF MapColumn
  <1>6. CASE \E w \in Threads : Plan(w)
    <2>1. PICK w \in Threads : Plan(w)
      BY <1>6
    <2>2. PICK S \in SUBSET Rows :
            /\ job' = [job EXCEPT ![w].pc = "clean", ![w].todo = S]
            /\ \A r \in Rows : r \in S <=> mapped[FileOf[r]] = "field"
      <3> DEFINE T == {r \in Rows : mapped[FileOf[r]] = "field"}
      <3>1. job' = [job EXCEPT ![w].pc = "clean", ![w].todo = T]
        BY <2>1 DEF Plan
      <3>2. T \in SUBSET Rows /\ \A r \in Rows : r \in T <=> mapped[FileOf[r]] = "field"
        OBVIOUS
      <3> HIDE DEF T
      <3> QED
        BY <3>1, <3>2
    <2>3. /\ \A v \in Threads : v # w => job'[v] = job[v]
          /\ job'[w].todo = S
      BY <1>j, <2>2, PlanStep
    <2>4. UNCHANGED <<stage, mapped, remapped, records>>
      BY <2>1 DEF Plan, data, history
    <2> QED
      BY <2>2, <2>3, <2>4 DEF RInv, Covered, Stored
  <1>7. CASE \E w \in Threads, r \in Rows : CleanRow(w, r)
    <2>1. PICK w \in Threads, r \in Rows : CleanRow(w, r)
      BY <1>7
    <2>2. /\ \A v \in Threads : v # w => job'[v] = job[v]
          /\ job[w].pc = "clean" /\ job'[w].todo = job[w].todo \ {r}
          /\ UNCHANGED <<stage, mapped, remapped>>
      BY <1>j, <2>1 DEF CleanRow, Job, history
    <2>3. Stored \subseteq Stored' /\ \E i \in Stored' : i[1] = r
      BY <2>1, FreshCopy
    <2> QED
      BY <2>2, <2>3 DEF RInv, Covered
  <1>8. CASE \E w \in Threads : SetValidated(w)
    <2>1. PICK w \in Threads : SetValidated(w)
      BY <1>8
    <2>2. /\ \A v \in Threads : v # w => job'[v] = job[v]
          /\ job'[w].pc # "clean" /\ job[w].pc = "clean" /\ job[w].todo = {}
      BY <1>j, <2>1, GotoStep DEF SetValidated
    <2>3. UNCHANGED <<mapped, records, remapped>>
      BY <2>1 DEF SetValidated, history
    <2> QED
      BY <2>2, <2>3 DEF RInv, Covered, Stored
  <1>9. CASE \E w \in Threads : Match(w)
    <2>1. PICK w \in Threads : Match(w)
      BY <1>9
    <2>2. /\ \A v \in Threads : v # w => job'[v] = job[v]
          /\ job'[w].pc \in {"idle", "merge"} /\ UNCHANGED stage
      BY <1>j, <2>1, ReturnStep DEF Match, Job, data
    <2> QED
      BY <1>0, <2>2
  <1>10. CASE \E w \in Threads : Merge(w)
    <2>1. PICK w \in Threads : Merge(w)
      BY <1>10
    <2>2. /\ \A v \in Threads : v # w => job'[v] = job[v]
          /\ job[w].pc = "merge" /\ job'[w].pc = "idle"
      BY <1>j, <2>1, ReturnStep DEF Merge
    <2>3. stage \in {"validated", "reconciled"}
      BY <2>2 DEF OInv, CInv, ControlType, Stage
    <2> QED
      BY <1>0, <2>2, <2>3
  <1>11. CASE Human \/ CheckGate
    BY <1>0, <1>11 DEF Human, AnswerColumn, AnswerRecord, Override, Continue,
                       CheckGate, data
  <1>12. CASE Restart
    BY <1>0, <1>12 DEF Restart, Idle, data
  <1> QED
    BY <1>1, <1>2, <1>3, <1>4, <1>5, <1>6, <1>7, <1>8, <1>9, <1>10, <1>11, <1>12
    DEF Next, Run

\* Every row of a file whose column was kept is in a reconciled run, whatever
\* died half way and however calls overlap.
THEOREM RowsKept == Spec => []NoRowLost
  <1>1. Init => RInv
    BY DEF Init, RInv, Idle
  <1>2. RInv => NoRowLost
    BY DEF RInv, Covered, NoRowLost
  <1> QED
    BY <1>1, <1>2, ControlInit, ControlNext, StageInit, StageNext, CountInit,
       CountNext, RowsNext, PTL DEF Spec
-----------------------------------------------------------------------------
(* People. *)

\* Of two records of one person that both stand there is only one.
Unique ==
  \A i, j \in Stored :
    /\ PersonOf[i[1]] = PersonOf[j[1]]
    /\ records[i] # "merged" /\ records[j] # "merged"
    => i = j

\* Without overlapping cleaning, what reconciliation has read is all there is
\* when it writes, and so it leaves one record of each person.
PInv ==
  ~overlapped =>
    /\ \A w \in Threads : job[w].pc = "merge" => job[w].snap = Stored
    /\ stage = "reconciled" => Unique

\* Two records of a person that were read together end as one.
LEMMA MergeUnites ==
  ASSUME CInv, KInv, NEW w \in Threads, Merge(w), job[w].snap = Stored
  PROVE  Unique'
  <1>1. Stored' = Stored
    BY MergeKeeps
  <1>2. PICK survivors \in SUBSET Stored, absorbed \in SUBSET Stored :
          /\ \A i \in RecordIds :
               records'[i] = IF i \in survivors THEN "merged_survivor"
                             ELSE IF i \in absorbed THEN "merged"
                             ELSE IF records[i] = "clean" /\ i[1] \notin Keyed
                             THEN "incomplete" ELSE records[i]
          /\ \A p \in Merged(w) : Cluster(w, p) \subseteq survivors \cup absorbed
          /\ \A i, j \in survivors : PersonOf[i[1]] = PersonOf[j[1]] => i = j
    BY MergeRecords
  <1> SUFFICES ASSUME NEW i \in Stored, NEW j \in Stored, i # j,
                      PersonOf[i[1]] = PersonOf[j[1]],
                      records'[i] # "merged", records'[j] # "merged"
               PROVE  FALSE
    BY <1>1 DEF Unique
  <1> DEFINE p == PersonOf[i[1]]
  <1>3. p \in People /\ i \in RecordIds /\ j \in RecordIds
    BY PipelineAssumption DEF Stored, RecordIds
  <1>4. i \in Cluster(w, p) /\ j \in Cluster(w, p) /\ Cluster(w, p) \subseteq RecordIds
    BY DEF Cluster, Stored
  <1>5. IsFiniteSet(Cluster(w, p)) /\ Cardinality(Cluster(w, p)) \in Nat
    BY <1>4, StoredFinite
  <1>6. Cardinality({i, j}) = 2
    <2>1. IsFiniteSet({i}) /\ Cardinality({i}) = 1
      BY FS_Singleton
    <2>2. Cardinality({i} \cup {j}) = Cardinality({i}) + 1
      BY <2>1, FS_AddElement
    <2>3. {i} \cup {j} = {i, j}
      OBVIOUS
    <2> QED
      BY <2>1, <2>2, <2>3
  <1>7. 2 <= Cardinality(Cluster(w, p))
    BY <1>4, <1>5, <1>6, FS_Subset
  <1>8. p \in Merged(w)
    BY <1>3, <1>5, <1>7 DEF Merged
  <1>9. i \in survivors /\ j \in survivors
    BY <1>2, <1>3, <1>4, <1>8
  <1> QED
    BY <1>2, <1>9

LEMMA PeopleNext ==
  CInv /\ OInv /\ AloneInv /\ KInv /\ PInv /\ [Next]_vars => PInv'
  <1> SUFFICES ASSUME CInv, OInv, AloneInv, KInv, PInv, [Next]_vars, ~overlapped'
               PROVE  /\ \A w \in Threads : job'[w].pc = "merge" => job'[w].snap = Stored'
                      /\ stage' = "reconciled" => Unique'
    BY DEF PInv
  <1>j. job \in [Threads -> Job] /\ overlapped \in BOOLEAN
    BY DEF CInv, ControlType
  <1>o. ~overlapped
    BY DEF Next, Run, Human, TakeUp, Look, Gate, MapColumn, SetMapped, Guard, Plan,
           CleanRow, SetValidated, Match, Merge, AnswerColumn, Override,
           AnswerRecord, Continue, CheckGate, Restart, Die, vars, history
  <1>0. ASSUME UNCHANGED records, stage' = "reconciled" => stage = "reconciled",
               \A w \in Threads : job'[w].pc = "merge" =>
                 \/ job[w].pc = "merge" /\ job'[w].snap = job[w].snap
                 \/ job'[w].snap = Stored
        PROVE  PInv'
    BY <1>0, <1>o DEF PInv, Unique, Stored
  <1>1. CASE UNCHANGED vars
    BY <1>0, <1>1 DEF PInv, vars, data
  <1>2. CASE \E w \in Threads : TakeUp(w)
    BY <1>0, <1>2, TakeUpStep DEF PInv, TakeUp, data
  <1>3. CASE \E w \in Threads : Look(w) \/ Gate(w) \/ Guard(w) \/ Die(w)
    BY <1>j, <1>0, <1>3, GotoStep, ReturnStep DEF PInv, Look, Gate, Guard, Die, data
  <1>4. CASE \E w \in Threads : SetMapped(w) \/ SetValidated(w)
    BY <1>j, <1>0, <1>4, GotoStep DEF PInv, SetMapped, SetValidated
  <1>5. CASE \E w \in Threads, f \in Files : MapColumn(w, f)
    BY <1>0, <1>5 DEF PInv, MapColumn
  <1>6. CASE \E w \in Threads : Plan(w)
    <2>1. PICK w \in Threads : Plan(w)
      BY <1>6
    <2>2. PICK S \in SUBSET Rows : job' = [job EXCEPT ![w].pc = "clean", ![w].todo = S]
      BY <2>1 DEF Plan
    <2> QED
      BY <1>j, <1>0, <2>1, <2>2, PlanStep DEF PInv, Plan, data
  <1>7. CASE \E w \in Threads, r \in Rows : CleanRow(w, r)
    <2>1. PICK w \in Threads, r \in Rows : CleanRow(w, r)
      BY <1>7
    <2>2. /\ job[w].pc = "clean" /\ UNCHANGED stage
          /\ \A v \in Threads : job'[v].pc = job[v].pc
      BY <1>j, <2>1 DEF CleanRow, Job
    <2>3. stage = "mapped"
      BY <1>o, <2>2 DEF AloneInv, Cleaning
    <2> QED
      BY <2>2, <2>3 DEF OInv
  <1>8. CASE \E w \in Threads : Match(w)
    BY <1>j, <1>0, <1>8, ReturnStep DEF PInv, Match, Snapshot, Job, data
  <1>9. CASE \E w \in Threads : Merge(w)
    <2>1. PICK w \in Threads : Merge(w)
      BY <1>9
    <2>2. /\ \A v \in Threads : v # w => job'[v] = job[v]
          /\ job[w].pc = "merge" /\ job'[w].pc = "idle"
      BY <1>j, <2>1, ReturnStep DEF Merge
    <2>3. Stored' = Stored
      BY <2>1, MergeKeeps
    <2>4. Unique'
      BY <1>o, <2>1, <2>2, MergeUnites DEF PInv
    <2> QED
      BY <1>o, <2>2, <2>3, <2>4 DEF PInv
  <1>10. CASE Human \/ CheckGate
    BY <1>0, <1>10 DEF PInv, Human, AnswerColumn, AnswerRecord, Override, Continue,
                       CheckGate, data
  <1>11. CASE Restart
    BY <1>0, <1>11 DEF PInv, Restart, Idle, data
  <1> QED
    BY <1>1, <1>2, <1>3, <1>4, <1>5, <1>6, <1>7, <1>8, <1>9, <1>10, <1>11
    DEF Next, Run

\* A reconciled run has one record per person, whatever died on the way and
\* was read again, as long as two calls were never cleaning at once.
THEOREM PeopleOnce == Spec => []OnePerPerson
  <1>1. Init => PInv
    BY DEF Init, PInv, Idle
  <1>2. ASSUME PInv PROVE OnePerPerson
    <2> SUFFICES ASSUME stage = "reconciled", ~overlapped, NEW p \in People
                 PROVE  Cardinality({i \in Stored : PersonOf[i[1]] = p
                                                    /\ records[i] # "merged"}) <= 1
      BY DEF OnePerPerson
    <2> DEFINE S == {i \in Stored : PersonOf[i[1]] = p /\ records[i] # "merged"}
    <2>1. \A i, j \in S : i = j
      BY <1>2 DEF PInv, Unique
    <2> HIDE DEF S
    <2>2. Cardinality(S) <= 1
      <3>1. CASE S = {}
        BY <3>1, FS_EmptySet
      <3>2. CASE S # {}
        <4>1. PICK i : S = {i}
          BY <2>1, <3>2
        <4>2. Cardinality({i}) = 1
          BY FS_Singleton
        <4> QED
          BY <4>1, <4>2
      <3> QED
        BY <3>1, <3>2
    <2> QED
      BY <2>2 DEF S
  <1> QED
    BY <1>1, <1>2, ControlInit, ControlNext, StageInit, StageNext, AloneInit,
       AloneNext, CountInit, CountNext, PeopleNext, PTL DEF Spec
=============================================================================
