----------------------------- MODULE LlmProofs ------------------------------
(* Theorems about the chain of models and the cache, for every value of the  *)
(* constants.                                                                *)
EXTENDS LlmChain, WellFoundedInduction, TLAPS

LEMMA LeastNatural ==
  ASSUME NEW T, T \subseteq Nat, T # {}
  PROVE  \E x \in T : \A y \in T : x <= y
  <1>1. IsWellFoundedOn(OpToRel(<, Nat), Nat)
    BY NatLessThanWellFounded
  <1>2. PICK x \in T : \A y \in T : ~ (<<y, x>> \in OpToRel(<, Nat))
    BY <1>1, WFMin
  <1>3. \A y \in T : ~ (y < x)
    <2> SUFFICES ASSUME NEW y \in T, y < x
                 PROVE  <<y, x>> \in OpToRel(<, Nat)
      BY <1>2
    <2>1. <<y, x>> \in Nat \X Nat /\ <<y, x>>[1] = y /\ <<y, x>>[2] = x
      OBVIOUS
    <2> QED
      BY <2>1 DEF OpToRel
  <1> QED
    BY <1>3

\* A chain with models in it has a first one.
LEMMA FirstIsOne ==
  ASSUME NEW models \in SUBSET Hosted, models # {}
  PROVE  First(models) \in models
  <1> DEFINE places == {Place[m] : m \in models}
  <1>1. places \subseteq Nat /\ places # {}
    BY HostedAssumption
  <1>2. PICK x \in places : \A y \in places : x <= y
    BY <1>1, LeastNatural
  <1>3. \E m \in models : \A n \in models : Place[m] <= Place[n]
    BY <1>2
  <1> QED
    BY <1>3 DEF First

LEMMA ActiveIsALabel ==
  ASSUME NEW gone, NEW stoodDown
  PROVE  /\ Active(gone, stoodDown) \in Labels
         /\ Chain(gone, stoodDown) # {} => Active(gone, stoodDown) \in Chain(gone, stoodDown)
         /\ Chain(gone, stoodDown) = {} /\ local => Active(gone, stoodDown) = Local
  <1>1. Chain(gone, stoodDown) \in SUBSET Hosted
    BY DEF Chain
  <1> QED
    BY <1>1, FirstIsOne DEF Active, Labels

\* Where a call is, what it has tried and what it reports agree.
ControlOK(r, hasLocal) ==
  /\ r.pc = "hosted" => r.left # {} /\ r.left \subseteq r.chain
  /\ r.pc # "failed" => r.why = ""
  /\ r.pc = "local" => r.left = {} \/ "cut" \in r.odd
  /\ r.why = "limit" => r.left = {}
  /\ r.why \in {"limit", "unreachable", "not configured"} => ~hasLocal

\* A call that met nothing but limits has taken the chain along: what it has
\* left to ask is what anybody would ask, and its answer is from the active model.
LabelOK(r, chain, active) ==
  r.odd = {} =>
    /\ r.pc = "hosted" => r.left = chain
    /\ r.pc = "local" => chain = {} /\ active = Local
    /\ r.pc = "answered" => r.by = active

CallsOK ==
  \A c \in Callers : ControlOK(call[c], local) /\ LabelOK(call[c], ChainNow, ActiveNow)

LInv == TypeOK /\ CallsOK /\ FallbackIsLabelled

LEMMA IdleIsACall == Idle \in Call /\ ControlOK(Idle, local) /\ \A a, b : LabelOK(Idle, a, b)
  <1>1. (CHOOSE q \in Questions : TRUE) \in Questions
    BY QuestionsAssumption
  <1>2. Idle \in Call
    BY <1>1, BoundsAssumption DEF Idle, Call, Labels
  <1> QED
    BY <1>2 DEF Idle, ControlOK, LabelOK

LEMMA LInvInit == Init => LInv
  <1> SUFFICES ASSUME Init PROVE LInv
    OBVIOUS
  <1>1. cache \in [Labels -> [Questions -> [by : Labels, odd : SUBSET Oddities]]]
    BY DEF Init, Empty, Labels
  <1>2. call \in [Callers -> Call] /\ \A c \in Callers : call[c].pc # "hosted"
    BY IdleIsACall DEF Init, Idle
  <1>3. TypeOK
    BY <1>1, <1>2, BoundsAssumption DEF Init, TypeOK
  <1>4. CallsOK
    BY IdleIsACall DEF Init, CallsOK
  <1>5. FallbackIsLabelled
    BY DEF Init, FallbackIsLabelled
  <1> QED
    BY <1>3, <1>4, <1>5 DEF LInv

\* A step that gives one call a new record and leaves the chain alone.
LEMMA CallStep ==
  ASSUME LInv, NEW c \in Callers, NEW r \in Call, call' = [call EXCEPT ![c] = r],
         UNCHANGED <<local, exhausted, cooling, cache>>, calls' \in 0..MaxCalls,
         ControlOK(r, local), LabelOK(r, ChainNow, ActiveNow)
  PROVE  LInv'
  <1>1. TypeOK'
    BY DEF LInv, TypeOK, ControlOK
  <1>2. ActiveNow' = ActiveNow /\ ChainNow' = ChainNow
    BY DEF ActiveNow, ChainNow, Active, Chain
  <1>3. CallsOK'
    <2> SUFFICES ASSUME NEW d \in Callers
                 PROVE  ControlOK(call'[d], local) /\ LabelOK(call'[d], ChainNow, ActiveNow)
      BY <1>2 DEF CallsOK
    <2>1. call'[d] = IF d = c THEN r ELSE call[d]
      BY DEF LInv, TypeOK
    <2> QED
      BY <2>1 DEF LInv, CallsOK
  <1>4. FallbackIsLabelled'
    BY DEF LInv, FallbackIsLabelled
  <1> QED
    BY <1>1, <1>3, <1>4 DEF LInv

\* A step that moves the chain: the call that makes it takes the chain along,
\* the others at work know that it moved.
LEMMA MoveStep ==
  ASSUME LInv, NEW gone \in SUBSET Hosted, NEW stoodDown \in SUBSET Hosted, NEW c,
         NEW r, MoveChain(gone, stoodDown, c, r), UNCHANGED <<local, cache, calls>>,
         c \in Callers => /\ r \in Call /\ ControlOK(r, local)
                          /\ LabelOK(r, Chain(gone, stoodDown), Active(gone, stoodDown))
  PROVE  LInv'
  <1>1. /\ ActiveNow' = Active(gone, stoodDown) /\ ChainNow' = Chain(gone, stoodDown)
        /\ local' = local
    BY DEF MoveChain, ActiveNow, ChainNow, Active, Chain
  <1>2. ASSUME NEW d \in Callers
        PROVE  /\ call'[d] \in Call /\ ControlOK(call'[d], local)
               /\ LabelOK(call'[d], ChainNow', ActiveNow')
    <2> DEFINE m == [call[d] EXCEPT !.odd = @ \cup {"moved"}]
    <2>1. /\ call[d] \in Call /\ ControlOK(call[d], local)
          /\ LabelOK(call[d], ChainNow, ActiveNow)
      BY DEF LInv, TypeOK, CallsOK
    <2>2. CASE d = c
      BY <1>1, <2>2 DEF MoveChain
    <2>3. CASE d # c /\ d \in Working /\ Chain(gone, stoodDown) # ChainNow
      <3>1. call'[d] = m
        BY <2>3 DEF MoveChain
      <3>2. /\ m \in Call /\ m.odd = call[d].odd \cup {"moved"} /\ m.pc = call[d].pc
            /\ m.left = call[d].left /\ m.chain = call[d].chain /\ m.why = call[d].why
        BY <2>1 DEF Call, Oddities
      <3> HIDE DEF m
      <3> QED
        BY <2>1, <3>1, <3>2 DEF ControlOK, LabelOK
    <2>4. CASE d # c /\ ~(d \in Working /\ Chain(gone, stoodDown) # ChainNow)
      <3>1. call'[d] = call[d]
        BY <2>4 DEF MoveChain
      <3>2. d \in Working => ChainNow' = ChainNow /\ ActiveNow' = ActiveNow
        BY <1>1, <2>4 DEF ChainNow, ActiveNow, Active
      <3> QED
        BY <2>1, <3>1, <3>2 DEF LabelOK, Working
    <2> QED
      BY <2>2, <2>3, <2>4
  <1>3. call' \in [Callers -> Call]
    BY <1>2 DEF MoveChain
  <1>4. TypeOK'
    BY <1>2, <1>3 DEF LInv, TypeOK, MoveChain, ControlOK
  <1>5. CallsOK'
    BY <1>1, <1>2 DEF CallsOK
  <1>6. FallbackIsLabelled'
    BY DEF LInv, FallbackIsLabelled
  <1> QED
    BY <1>4, <1>5, <1>6 DEF LInv

\* A refused model leaves the call with the rest of its chain, the local
\* model or an error.
LEMMA MoveOnStep ==
  ASSUME NEW r \in Call, r.pc = "hosted", ControlOK(r, local), local \in BOOLEAN
  PROVE  MoveOn(r) \in Call /\ ControlOK(MoveOn(r), local)
  <1> DEFINE rest == r.left \ {Asked(r)}
  <1>1. Refused(r) = [r EXCEPT !.left = rest, !.tries = 0]
    BY DEF Refused
  <1>2. /\ Refused(r) \in Call /\ Refused(r).left = rest /\ Refused(r).why = ""
        /\ Refused(r).pc = "hosted" /\ Refused(r).chain = r.chain
    <2>1. 0 \in 0..MaxRetries /\ rest \in SUBSET Hosted /\ r.why = ""
      <3>1. MaxRetries \in Nat
        BY BoundsAssumption
      <3>2. r.left \in SUBSET Hosted /\ r.why = ""
        BY DEF Call, ControlOK
      <3>3. 0 \in 0..MaxRetries
        BY <3>1
      <3>4. rest \in SUBSET Hosted
        BY <3>2
      <3> QED
        BY <3>2, <3>3, <3>4
    <2> QED
      BY <1>1, <2>1 DEF Call
  <1>3. rest \subseteq r.chain
    BY DEF ControlOK
  <1> HIDE DEF rest
  <1>4. CASE rest # {}
    BY <1>2, <1>3, <1>4 DEF MoveOn, ControlOK
  <1>5. CASE rest = {} /\ local
    BY <1>2, <1>5 DEF MoveOn, ControlOK, Call
  <1>6. CASE rest = {} /\ ~local
    BY <1>2, <1>6 DEF MoveOn, Failed, ControlOK, Call
  <1> QED
    BY <1>4, <1>5, <1>6

LEMMA AskedIsHosted ==
  ASSUME LInv, NEW c \in Callers, call[c].pc = "hosted"
  PROVE  Asked(call[c]) \in call[c].left /\ Asked(call[c]) \in Hosted
  BY FirstIsOne DEF LInv, TypeOK, Call, Asked

\* A refusal that is noted takes the refused model out of the chain, and out of
\* what the call has left.
LEMMA RefusalFollows ==
  ASSUME LInv, NEW c \in Callers, call[c].pc = "hosted", NEW gone, NEW stoodDown,
         Chain(gone, stoodDown) = ChainNow \ {Asked(call[c])}
  PROVE  LET r == MoveOn(call[c]) IN
         /\ r.odd = call[c].odd
         /\ LabelOK(r, Chain(gone, stoodDown), Active(gone, stoodDown))
  <1> DEFINE q == call[c]
             rest == q.left \ {Asked(q)}
             r == MoveOn(q)
  <1>1. q \in Call /\ LabelOK(q, ChainNow, ActiveNow)
    BY DEF LInv, TypeOK, CallsOK
  <1>2. /\ r.odd = q.odd /\ r.left = rest
        /\ r.pc = IF rest # {} THEN "hosted" ELSE IF local THEN "local" ELSE "failed"
    BY <1>1 DEF MoveOn, Refused, Failed, Call
  <1>3. q.odd = {} => rest = Chain(gone, stoodDown)
    BY <1>1 DEF LabelOK
  <1>4. Chain(gone, stoodDown) = {} /\ local => Active(gone, stoodDown) = Local
    BY ActiveIsALabel
  <1> HIDE DEF q, rest, r
  <1>5. LabelOK(r, Chain(gone, stoodDown), Active(gone, stoodDown))
    BY <1>2, <1>3, <1>4 DEF LabelOK
  <1> QED
    BY <1>2, <1>5 DEF r, q

\* A call that met something else is not judged by its label.
LEMMA MetStep ==
  ASSUME NEW r \in Call, ControlOK(r, local), NEW what \in Oddities
  PROVE  /\ Met(r, what) \in Call /\ ControlOK(Met(r, what), local)
         /\ \A a, b : LabelOK(Met(r, what), a, b)
  <1> DEFINE m == Met(r, what)
  <1>1. /\ m \in Call /\ m.odd = r.odd \cup {what} /\ m.pc = r.pc /\ m.why = r.why
        /\ m.left = r.left /\ m.chain = r.chain
    BY DEF Met, Call
  <1> HIDE DEF m
  <1>2. ControlOK(m, local) /\ \A a, b : LabelOK(m, a, b)
    BY <1>1 DEF ControlOK, LabelOK
  <1> QED
    BY <1>1, <1>2 DEF m

LEMMA ProceedStep ==
  ASSUME LInv, NEW c \in Callers, Proceed(c)
  PROVE  LInv'
  <1> DEFINE r == call[c]
  <1>0. /\ r \in Call /\ ControlOK(r, local) /\ LabelOK(r, ChainNow, ActiveNow)
        /\ local \in BOOLEAN /\ calls \in 0..MaxCalls
        /\ exhausted \subseteq Hosted /\ cooling \subseteq Hosted
    BY DEF LInv, TypeOK, CallsOK
  <1>1. CASE Start(c)
    <2> DEFINE chain == ChainNow
               n == [r EXCEPT !.chain = chain, !.left = chain]
    <2>1. chain \in SUBSET Hosted /\ r.pc = "missed"
      BY <1>1 DEF Start, ChainNow, Chain
    <2>2. /\ n \in Call /\ n.left = chain /\ n.chain = chain /\ n.key = r.key
          /\ n.odd = r.odd /\ n.why = "" /\ n.pc = "missed"
      BY <1>0, <2>1 DEF Call, ControlOK
    <2>3. call' = [call EXCEPT ![c] = IF chain # {} THEN [n EXCEPT !.pc = "hosted"]
                                      ELSE IF local THEN [n EXCEPT !.pc = "local"]
                                      ELSE Failed(n, "not configured")]
      BY <1>1 DEF Start
    <2>4. chain = {} /\ local => ActiveNow = Local
      BY DEF ActiveNow, ChainNow, Active
    <2>5. UNCHANGED <<local, exhausted, cooling, cache, calls>>
      BY <1>1 DEF Start
    <2>6. chain = ChainNow
      OBVIOUS
    <2> HIDE DEF chain, n
    <2>7. CASE chain # {}
      <3> DEFINE m == [n EXCEPT !.pc = "hosted"]
      <3>1. /\ m \in Call /\ m.left = chain /\ m.chain = chain /\ m.key = r.key
            /\ m.odd = r.odd /\ m.why = "" /\ m.pc = "hosted"
        BY <2>2 DEF Call
      <3>2. call' = [call EXCEPT ![c] = m]
        BY <2>3, <2>7
      <3> HIDE DEF m
      <3>3. ControlOK(m, local) /\ LabelOK(m, ChainNow, ActiveNow)
        BY <2>4, <2>6, <2>7, <3>1 DEF ControlOK, LabelOK
      <3> QED
        BY <1>0, <2>5, <3>1, <3>2, <3>3, CallStep
    <2>8. CASE chain = {} /\ local
      <3> DEFINE m == [n EXCEPT !.pc = "local"]
      <3>1. /\ m \in Call /\ m.left = chain /\ m.chain = chain /\ m.key = r.key
            /\ m.odd = r.odd /\ m.why = "" /\ m.pc = "local"
        BY <2>2 DEF Call
      <3>2. call' = [call EXCEPT ![c] = m]
        BY <2>3, <2>8
      <3> HIDE DEF m
      <3>3. ControlOK(m, local) /\ LabelOK(m, ChainNow, ActiveNow)
        BY <2>4, <2>6, <2>8, <3>1 DEF ControlOK, LabelOK
      <3> QED
        BY <1>0, <2>5, <3>1, <3>2, <3>3, CallStep
    <2>9. CASE chain = {} /\ ~local
      <3> DEFINE m == Failed(n, "not configured")
      <3>1. /\ m \in Call /\ m.left = chain /\ m.key = r.key
            /\ m.odd = r.odd /\ m.why = "not configured" /\ m.pc = "failed"
        BY <2>2 DEF Call, Failed
      <3>2. call' = [call EXCEPT ![c] = m]
        BY <2>3, <2>9
      <3> HIDE DEF m
      <3>3. ControlOK(m, local) /\ LabelOK(m, ChainNow, ActiveNow)
        BY <2>6, <2>9, <3>1 DEF ControlOK, LabelOK
      <3> QED
        BY <1>0, <2>5, <3>1, <3>2, <3>3, CallStep
    <2> QED
      BY <2>7, <2>8, <2>9
  <1>2. CASE HostedAnswers(c)
    <2> DEFINE m == Answered(c, Asked(r))
    <2>1. r.pc = "hosted" /\ call' = [call EXCEPT ![c] = m]
      BY <1>2 DEF HostedAnswers
    <2>2. /\ m \in Call /\ m.pc = "answered" /\ m.by = Asked(r) /\ m.key = r.key
          /\ m.odd = r.odd /\ m.why = r.why
      BY <1>0, <2>1, AskedIsHosted DEF Answered, Call, Labels
    <2> HIDE DEF m
    <2>3. r.odd = {} => Asked(r) = ActiveNow
      BY <1>0, <2>1 DEF LabelOK, ControlOK, Asked, ActiveNow, ChainNow, Active
    <2>4. ControlOK(m, local) /\ LabelOK(m, ChainNow, ActiveNow)
      BY <1>0, <2>1, <2>2, <2>3 DEF ControlOK, LabelOK
    <2> QED
      BY <1>0, <1>2, <2>1, <2>2, <2>4, CallStep DEF HostedAnswers
  <1>3. CASE Retry(c)
    <2> DEFINE m == [r EXCEPT !.tries = @ + 1]
    <2>1. r.pc = "hosted" /\ r.tries < MaxRetries /\ call' = [call EXCEPT ![c] = m]
      BY <1>3 DEF Retry
    <2>2. /\ m \in Call /\ m.pc = "hosted" /\ m.by = r.by /\ m.key = r.key
          /\ m.odd = r.odd /\ m.why = r.why /\ m.left = r.left /\ m.chain = r.chain
      <3>1. r.tries \in 0..MaxRetries /\ MaxRetries \in Nat
        BY <1>0, BoundsAssumption DEF Call
      <3>2. r.tries + 1 \in 0..MaxRetries
        BY <2>1, <3>1
      <3> QED
        BY <1>0, <2>1, <3>2 DEF Call
    <2> HIDE DEF m
    <2>3. ControlOK(m, local) /\ LabelOK(m, ChainNow, ActiveNow)
      BY <1>0, <2>1, <2>2 DEF ControlOK, LabelOK
    <2> QED
      BY <1>0, <1>3, <2>1, <2>2, <2>3, CallStep DEF Retry
  <1>4. CASE StandDown(c)
    <2> DEFINE down == cooling \cup {Asked(r)}
    <2>1. r.pc = "hosted" /\ MoveChain(exhausted, down, c, MoveOn(r))
      BY <1>4 DEF StandDown
    <2>2. down \in SUBSET Hosted
      BY <1>0, <2>1, AskedIsHosted
    <2>3. Chain(exhausted, down) = ChainNow \ {Asked(r)}
      BY DEF Chain, ChainNow
    <2> HIDE DEF down
    <2>4. LabelOK(MoveOn(r), Chain(exhausted, down), Active(exhausted, down))
      BY <2>1, <2>3, RefusalFollows
    <2> QED
      BY <1>0, <1>4, <2>1, <2>2, <2>4, MoveOnStep, MoveStep DEF StandDown
  <1>5. CASE Exhaust(c)
    <2> DEFINE gone == exhausted \cup {Asked(r)}
    <2>1. r.pc = "hosted" /\ MoveChain(gone, cooling, c, MoveOn(r))
      BY <1>5 DEF Exhaust
    <2>2. gone \in SUBSET Hosted
      BY <1>0, <2>1, AskedIsHosted
    <2>3. Chain(gone, cooling) = ChainNow \ {Asked(r)}
      BY DEF Chain, ChainNow
    <2> HIDE DEF gone
    <2>4. LabelOK(MoveOn(r), Chain(gone, cooling), Active(gone, cooling))
      BY <2>1, <2>3, RefusalFollows
    <2> QED
      BY <1>0, <1>5, <2>1, <2>2, <2>4, MoveOnStep, MoveStep DEF Exhaust
  <1>6. CASE Unreachable(c)
    <2> DEFINE m == IF local THEN MoveOn(r) ELSE Failed(r, "unreachable")
    <2>1. r.pc = "hosted" /\ MoveChain(exhausted \cup r.chain, cooling, c, Met(m, "cut"))
      BY <1>6 DEF Unreachable
    <2>2. exhausted \cup r.chain \in SUBSET Hosted
      BY <1>0 DEF Call
    <2>3. ~local => Failed(r, "unreachable") \in Call
                    /\ ControlOK(Failed(r, "unreachable"), local)
      BY <1>0, <2>1 DEF Failed, Call, ControlOK
    <2>4. m \in Call /\ ControlOK(m, local)
      BY <1>0, <2>1, <2>3, MoveOnStep
    <2> HIDE DEF m
    <2>5. "cut" \in Oddities
      BY DEF Oddities
    <2> QED
      BY <1>0, <1>6, <2>1, <2>2, <2>4, <2>5, MetStep, MoveStep DEF Unreachable
  <1>11. CASE TooLarge(c)
    <2> DEFINE m == MoveOn(r)
    <2>1. r.pc = "hosted" /\ MoveChain(exhausted, cooling \cup {Asked(r)}, c, Met(m, "large"))
      BY <1>11 DEF TooLarge
    <2>2. cooling \cup {Asked(r)} \in SUBSET Hosted
      BY <1>0, <2>1, AskedIsHosted
    <2>3. m \in Call /\ ControlOK(m, local)
      BY <1>0, <2>1, MoveOnStep
    <2> HIDE DEF m
    <2>4. "large" \in Oddities
      BY DEF Oddities
    <2> QED
      BY <1>0, <1>11, <2>1, <2>2, <2>3, <2>4, MetStep, MoveStep DEF TooLarge
  <1>7. CASE Breaks(c)
    <2> DEFINE m == Failed(r, "error")
    <2>1. r.pc # "idle" /\ call' = [call EXCEPT ![c] = m]
      BY <1>7 DEF Breaks
    <2>2. /\ m \in Call /\ m.pc = "failed" /\ m.key = r.key
          /\ m.odd = r.odd /\ m.why = "error"
      BY <1>0 DEF Call, Failed
    <2> HIDE DEF m
    <2>3. ControlOK(m, local) /\ LabelOK(m, ChainNow, ActiveNow)
      BY <1>0, <2>1, <2>2 DEF ControlOK, LabelOK
    <2> QED
      BY <1>0, <1>7, <2>1, <2>2, <2>3, CallStep DEF Breaks
  <1>8. CASE LocalAnswers(c)
    <2> DEFINE m == Answered(c, Local)
    <2>1. r.pc = "local" /\ call' = [call EXCEPT ![c] = m]
      BY <1>8 DEF LocalAnswers
    <2>2. /\ m \in Call /\ m.pc = "answered" /\ m.by = Local /\ m.key = r.key
          /\ m.odd = r.odd /\ m.why = r.why
      BY <1>0 DEF Answered, Call, Labels
    <2> HIDE DEF m
    <2>3. ControlOK(m, local) /\ LabelOK(m, ChainNow, ActiveNow)
      BY <1>0, <2>1, <2>2 DEF ControlOK, LabelOK
    <2> QED
      BY <1>0, <1>8, <2>1, <2>2, <2>3, CallStep DEF LocalAnswers
  <1>9. CASE Store(c)
    <2> DEFINE entry == [by |-> r.by, odd |-> r.odd]
               k == Label(c)
    <2>1. /\ r.pc = "answered" /\ call' = [call EXCEPT ![c] = Idle]
          /\ cache' = IF cache[k][r.q] # Empty THEN cache
                      ELSE [cache EXCEPT ![k][r.q] = entry]
          /\ UNCHANGED <<local, exhausted, cooling, calls>>
      BY <1>9 DEF Store
    <2>2. k \in Labels /\ r.q \in Questions /\ entry \in [by : Labels, odd : SUBSET Oddities]
      BY <1>0, ActiveIsALabel DEF Label, Call, ActiveNow
    <2>3. r.q \notin Mappings /\ r.odd = {} => r.by = k
      BY <1>0, <2>1 DEF LabelOK, Label
    <2> HIDE DEF entry, k
    <2>4. /\ cache' \in [Labels -> [Questions -> [by : Labels, odd : SUBSET Oddities]]]
          /\ \A l \in Labels, q \in Questions :
               \/ cache'[l][q] = cache[l][q]
               \/ l = k /\ q = r.q /\ cache'[l][q] = entry
      BY <2>1, <2>2 DEF LInv, TypeOK
    <2>5. FallbackIsLabelled'
      <3> SUFFICES ASSUME NEW l \in Labels, NEW q \in Questions \ Mappings,
                          cache'[l][q] # Empty, cache'[l][q].odd = {}
                   PROVE  cache'[l][q].by = l
        BY DEF FallbackIsLabelled, Empty
      <3>1. entry.by = r.by /\ entry.odd = r.odd
        BY DEF entry
      <3> QED
        BY <2>3, <2>4, <3>1 DEF LInv, FallbackIsLabelled
    <2>6. ActiveNow' = ActiveNow /\ ChainNow' = ChainNow
      BY <2>1 DEF ActiveNow, ChainNow, Active, Chain
    <2>7. \A d \in Callers : call'[d] = IF d = c THEN Idle ELSE call[d]
      BY <2>1 DEF LInv, TypeOK
    <2>8. CallsOK'
      BY <2>1, <2>6, <2>7, IdleIsACall DEF LInv, CallsOK
    <2>9. TypeOK'
      BY <2>1, <2>4, <2>7, IdleIsACall DEF LInv, TypeOK, Idle
    <2> QED
      BY <2>5, <2>8, <2>9 DEF LInv
  <1>10. CASE Return(c)
    BY <1>0, <1>10, IdleIsACall, CallStep DEF Return
  <1> QED
    BY <1>1, <1>2, <1>3, <1>4, <1>5, <1>6, <1>7, <1>8, <1>9, <1>10, <1>11 DEF Proceed

LEMMA LInvStep ==
  ASSUME LInv, [Next]_vars
  PROVE  LInv'
  <1>1. ASSUME NEW c \in Callers, NEW q \in Questions, Ask(c, q)
        PROVE  LInv'
    <2> DEFINE m == [Idle EXCEPT
                  !.pc = IF cache[ActiveNow][q] # Empty THEN "served" ELSE "missed",
                  !.q = q, !.key = ActiveNow, !.by = cache[ActiveNow][q].by]
    <2>1. call' = [call EXCEPT ![c] = m] /\ calls' \in 0..MaxCalls
      BY <1>1, BoundsAssumption DEF Ask, LInv, TypeOK
    <2>2. ActiveNow \in Labels /\ cache[ActiveNow][q].by \in Labels
      BY ActiveIsALabel DEF ActiveNow, LInv, TypeOK
    <2>3. /\ m \in Call /\ m.pc \in {"served", "missed"} /\ m.key = ActiveNow
          /\ m.why = ""
      BY <2>2, IdleIsACall DEF Idle, Call
    <2> HIDE DEF m
    <2>4. ControlOK(m, local) /\ LabelOK(m, ChainNow, ActiveNow)
      BY <2>3 DEF ControlOK, LabelOK
    <2> QED
      BY <1>1, <2>1, <2>3, <2>4, CallStep DEF Ask
  <1>2. ASSUME NEW m \in Hosted, Reopen(m)
        PROVE  LInv'
    <2>1. NoModel \notin Callers
      BY HostedAssumption
    <2>2. exhausted \in SUBSET Hosted /\ cooling \ {m} \in SUBSET Hosted
      BY DEF LInv, TypeOK
    <2> QED
      BY <1>2, <2>1, <2>2, MoveStep DEF Reopen
  <1>3. CASE UNCHANGED vars
    <2>1. ActiveNow' = ActiveNow /\ ChainNow' = ChainNow
      BY <1>3 DEF vars, ActiveNow, ChainNow, Active, Chain
    <2> QED
      BY <1>3, <2>1 DEF vars, LInv, TypeOK, CallsOK, FallbackIsLabelled
  <1> QED
    BY <1>1, <1>2, <1>3, ProceedStep DEF Next

LEMMA LInvHolds == Spec => []LInv
  <1>1. LInv /\ [Next]_vars => LInv'
    BY LInvStep
  <1> QED
    BY LInvInit, <1>1, PTL DEF Spec

\* Every variable has its type.
THEOREM LlmTypeCorrect == Spec => []TypeOK
  <1>1. LInv => TypeOK
    BY DEF LInv
  <1> QED
    BY LInvHolds, <1>1, PTL

\* An answer cached after its call names the model that gave it, whatever limits
\* that call ran into.
THEOREM FallbacksAreLabelled == Spec => []FallbackIsLabelled
  <1>1. LInv => FallbackIsLabelled
    BY DEF LInv
  <1> QED
    BY LInvHolds, <1>1, PTL

\* No model is passed over, and no call gives up while one is left.
THEOREM ModelsAreTried == Spec => []EveryModelIsTried
  <1>1. LInv => EveryModelIsTried
    BY DEF LInv, CallsOK, ControlOK, EveryModelIsTried
  <1> QED
    BY LInvHolds, <1>1, PTL
=============================================================================
