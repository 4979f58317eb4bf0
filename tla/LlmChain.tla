------------------------------ MODULE LlmChain ------------------------------
(* The LLM client: a chain of hosted models and a local one, what a refusal  *)
(* does to the chain, and the cache of answers.  app/llm/client.py and its   *)
(* callers mapper.py, dupe_llm.py, normalize_llm.py, repair.py.              *)
(*                                                                           *)
(* A prompt is a member of Questions and an answer is the model that gave    *)
(* it.  Time is the event that ends a stand-down.                            *)
EXTENDS Naturals, FiniteSets

CONSTANTS Hosted,      \* groq_model and its fallbacks; without a key, none
          Place,       \* the place of each in the chain
          Local,       \* the local model
          NoModel,     \* what active_model() calls the lack of one
          Callers,     \* the threads that ask
          Questions,   \* prompts,
          Mappings,    \* those about a column: cached_complete_json
          MaxRetries,  \* retries of a request that is rate limited: 3
          MaxCalls     \* bound: calls begun

ASSUME HostedAssumption ==
  /\ IsFiniteSet(Hosted) /\ Place \in [Hosted -> Nat]
  /\ \A m, n \in Hosted : Place[m] = Place[n] => m = n
  /\ {Local, NoModel} \cap Hosted = {} /\ Local # NoModel
  /\ NoModel \notin Callers
ASSUME QuestionsAssumption == Questions # {} /\ Mappings \subseteq Questions
ASSUME BoundsAssumption == {MaxRetries, MaxCalls} \subseteq Nat

VARIABLES local,       \* whether a local model is configured
          exhausted,   \* _exhausted_models
          cooling,     \* the models of _cooldown_until whose time is to come
          cache,       \* llm_cache
          call,        \* the calls
          calls

vars == <<local, exhausted, cooling, cache, call, calls>>

-----------------------------------------------------------------------------
Labels == Hosted \cup {Local, NoModel}

\* Hosted models that can be tried.
Chain(gone, stoodDown) == Hosted \ (gone \cup stoodDown)

First(models) == CHOOSE m \in models : \A n \in models : Place[m] <= Place[n]

\* The model that would serve the next call.
Active(gone, stoodDown) ==
  IF Chain(gone, stoodDown) # {} THEN First(Chain(gone, stoodDown))
  ELSE IF local THEN Local ELSE NoModel

ActiveNow == Active(exhausted, cooling)

ChainNow == Chain(exhausted, cooling)

\* What a call may have met besides limits of its own (history, read by the
\* properties only): the chain moved by another caller or a window, a provider
\* that was unreachable, a request that was too large.
Oddities == {"moved", "cut", "large"}

Empty == [by |-> NoModel, odd |-> {}]

Idle == [pc |-> "idle", q |-> CHOOSE q \in Questions : TRUE,
         key |-> NoModel, chain |-> {}, left |-> {}, tries |-> 0,
         by |-> NoModel, why |-> "", odd |-> {}]

Working == {c \in Callers : call[c].pc \in {"hosted", "local", "answered"}}

Init ==
  /\ local \in BOOLEAN
  /\ exhausted = {} /\ cooling = {}
  /\ cache = [k \in Labels |-> [q \in Questions |-> Empty]]
  /\ call = [c \in Callers |-> Idle]
  /\ calls = 0

\* The chain becomes (gone, stoodDown) and the call of c becomes rec; the
\* other calls at work go on with the chain they read.
MoveChain(gone, stoodDown, c, rec) ==
  /\ exhausted' = gone
  /\ cooling' = stoodDown
  /\ call' = [d \in Callers |->
       IF d = c THEN rec
       ELSE IF d \in Working /\ Chain(gone, stoodDown) # ChainNow
            THEN [call[d] EXCEPT !.odd = @ \cup {"moved"}]
            ELSE call[d]]

-----------------------------------------------------------------------------
\* A caller looks the question up under the active model; on a miss it calls.
Ask(c, q) ==
  /\ call[c].pc = "idle" /\ calls < MaxCalls
  /\ calls' = calls + 1
  /\ call' = [call EXCEPT ![c] = [Idle EXCEPT
       !.pc = IF cache[ActiveNow][q] # Empty THEN "served" ELSE "missed",
       !.q = q, !.key = ActiveNow, !.by = cache[ActiveNow][q].by]]
  /\ UNCHANGED <<local, exhausted, cooling, cache>>

Failed(rec, why) == [rec EXCEPT !.pc = "failed", !.why = why]

\* complete_json reads the chain, which may have moved since the lookup.
Start(c) ==
  /\ call[c].pc = "missed"
  /\ LET rec == [call[c] EXCEPT !.chain = ChainNow, !.left = ChainNow] IN
     call' = [call EXCEPT ![c] =
       IF ChainNow # {} THEN [rec EXCEPT !.pc = "hosted"]
       ELSE IF local THEN [rec EXCEPT !.pc = "local"]
       ELSE Failed(rec, "not configured")]
  /\ UNCHANGED <<local, exhausted, cooling, cache, calls>>

Asked(rec) == First(rec.left)

Answered(c, m) == [call[c] EXCEPT !.pc = "answered", !.by = m]

HostedAnswers(c) ==
  /\ call[c].pc = "hosted"
  /\ call' = [call EXCEPT ![c] = Answered(c, Asked(call[c]))]
  /\ UNCHANGED <<local, exhausted, cooling, cache, calls>>

\* A mutant: one attempt too many.
RetryOnceMore(c) ==
  /\ call[c].pc = "hosted" /\ call[c].tries <= MaxRetries
  /\ call' = [call EXCEPT ![c].tries = @ + 1]
  /\ UNCHANGED <<local, exhausted, cooling, cache, calls>>

\* A mutant: after the last attempt the count starts again.
RetryForEver(c) ==
  /\ call[c].pc = "hosted"
  /\ call' = [call EXCEPT ![c].tries = (@ + 1) % (MaxRetries + 1)]
  /\ UNCHANGED <<local, exhausted, cooling, cache, calls>>

\* A rate limit short enough to be slept through.
Retry(c) ==
  /\ call[c].pc = "hosted" /\ call[c].tries < MaxRetries
  /\ call' = [call EXCEPT ![c].tries = @ + 1]
  /\ UNCHANGED <<local, exhausted, cooling, cache, calls>>

\* The model asked has refused.
Refused(rec) == [rec EXCEPT !.left = @ \ {Asked(rec)}, !.tries = 0]

\* A mutant: a refusal hands the call to the local model at once.
StraightToLocal(rec) ==
  IF local THEN [Refused(rec) EXCEPT !.pc = "local"]
  ELSE IF Refused(rec).left # {} THEN Refused(rec)
  ELSE Failed(Refused(rec), "limit")

\* Where the loop over the chain goes next.
MoveOn(rec) ==
  IF Refused(rec).left # {} THEN Refused(rec)
  ELSE IF local THEN [Refused(rec) EXCEPT !.pc = "local"]
  ELSE Failed(Refused(rec), "limit")

\* The call moves on and remembers what it met.
Met(rec, what) == [rec EXCEPT !.odd = @ \cup {what}]

\* A limit that is not slept through (too long a wait, too many attempts): the
\* model is stood down until its window reopens.
StandDown(c) ==
  /\ call[c].pc = "hosted"
  /\ MoveChain(exhausted, cooling \cup {Asked(call[c])}, c, MoveOn(call[c]))
  /\ UNCHANGED <<local, cache, calls>>

\* A request larger than the model takes is refused at the first attempt, and
\* stands the model down all the same.
TooLarge(c) ==
  /\ call[c].pc = "hosted"
  /\ MoveChain(exhausted, cooling \cup {Asked(call[c])}, c,
               Met(MoveOn(call[c]), "large"))
  /\ UNCHANGED <<local, cache, calls>>

\* A mutant: the call moves on and nobody notes which model refused it.
ExhaustForgotten(c) ==
  /\ call[c].pc = "hosted"
  /\ MoveChain(exhausted, cooling, c, MoveOn(call[c]))
  /\ UNCHANGED <<local, cache, calls>>

\* The budget of the day is gone: out for the rest of the process.
Exhaust(c) ==
  /\ call[c].pc = "hosted"
  /\ MoveChain(exhausted \cup {Asked(call[c])}, cooling, c, MoveOn(call[c]))
  /\ UNCHANGED <<local, cache, calls>>

\* The provider is unreachable: its whole chain is out.  With a local model
\* the loop goes on all the same, to the next model of the chain.
Unreachable(c) ==
  /\ call[c].pc = "hosted"
  /\ MoveChain(exhausted \cup call[c].chain, cooling, c,
               Met(IF local THEN MoveOn(call[c]) ELSE Failed(call[c], "unreachable"), "cut"))
  /\ UNCHANGED <<local, cache, calls>>

\* Any other error of a hosted model, and every error of the local one.
Breaks(c) ==
  /\ call[c].pc \in {"hosted", "local"}
  /\ call' = [call EXCEPT ![c] = Failed(call[c], "error")]
  /\ UNCHANGED <<local, exhausted, cooling, cache, calls>>

LocalAnswers(c) ==
  /\ call[c].pc = "local"
  /\ call' = [call EXCEPT ![c] = Answered(c, Local)]
  /\ UNCHANGED <<local, exhausted, cooling, cache, calls>>

\* A mapping is stored under the model active at the lookup, every other
\* answer under the model active now; what is there already stays.
Label(c) == IF call[c].q \in Mappings THEN call[c].key ELSE ActiveNow

Store(c) ==
  /\ call[c].pc = "answered"
  /\ cache' = IF cache[Label(c)][call[c].q] # Empty THEN cache
              ELSE [cache EXCEPT ![Label(c)][call[c].q] =
                      [by |-> call[c].by, odd |-> call[c].odd]]
  /\ call' = [call EXCEPT ![c] = Idle]
  /\ UNCHANGED <<local, exhausted, cooling, calls>>

\* An answer the caller cannot use is not stored; a hit and a failure end the
\* call as well.  A caller swallows "not configured" and nothing else.
Return(c) ==
  /\ \/ call[c].pc \in {"served", "failed"}
     \/ call[c].pc = "answered" /\ call[c].q \notin Mappings
  /\ call' = [call EXCEPT ![c] = Idle]
  /\ UNCHANGED <<local, exhausted, cooling, cache, calls>>

\* The window of a model that was stood down opens again.
Reopen(m) ==
  /\ m \in cooling
  /\ MoveChain(exhausted, cooling \ {m}, NoModel, Idle)
  /\ UNCHANGED <<local, cache, calls>>

Proceed(c) ==
  \/ Start(c) \/ HostedAnswers(c) \/ Retry(c) \/ StandDown(c) \/ TooLarge(c)
  \/ Exhaust(c) \/ Unreachable(c) \/ Breaks(c) \/ LocalAnswers(c) \/ Store(c) \/ Return(c)

Next ==
  \/ \E c \in Callers :
       \/ \E q \in Questions : Ask(c, q)
       \/ Proceed(c)
  \/ \E m \in Hosted : Reopen(m)

Spec == Init /\ [][Next]_vars

\* Every request has a timeout, so that every call goes on.
FairSpec == Spec /\ \A c \in Callers : WF_vars(Proceed(c))

-----------------------------------------------------------------------------
Call ==
  [pc : {"idle", "served", "missed", "hosted", "local", "answered", "failed"},
   q : Questions, key : Labels, chain : SUBSET Hosted, left : SUBSET Hosted,
   tries : 0..MaxRetries, by : Labels,
   why : {"", "limit", "unreachable", "not configured", "error"},
   odd : SUBSET Oddities]

\* Every variable has its type.
TypeOK ==
  /\ local \in BOOLEAN
  /\ exhausted \subseteq Hosted /\ cooling \subseteq Hosted
  /\ cache \in [Labels -> [Questions -> [by : Labels, odd : SUBSET Oddities]]]
  /\ call \in [Callers -> Call]
  /\ \A c \in Callers : call[c].pc = "hosted" => call[c].left # {}
  /\ calls \in 0..MaxCalls

\* An answer that is cached after the call (dupe_llm.py, normalize_llm.py and
\* the others that ask active_model() again) is under the name of the model
\* that gave it, whatever limits the call itself ran into: every refusal must
\* have moved the chain to exactly the model that answers next.  It says
\* nothing of a call under which another caller or a window moved the chain,
\* that lost the provider, or whose request was too large.
FallbackIsLabelled ==
  \A k \in Labels, q \in Questions \ Mappings :
    cache[k][q] # Empty /\ cache[k][q].odd = {} => cache[k][q].by = k

\* A call gives up on limits only after every hosted model of its chain has
\* refused it, and turns to the local model before that only when the provider
\* is unreachable; it never gives up for a limit or an outage while a local
\* model could answer (complete_json's docstring, client.py:217-224).
EveryModelIsTried ==
  \A c \in Callers :
    /\ call[c].pc = "local" => call[c].left = {} \/ "cut" \in call[c].odd
    /\ call[c].why = "limit" => call[c].left = {}
    /\ call[c].why \in {"limit", "unreachable", "not configured"} => ~local

\* Every call ends: retries are bounded and the chain has an end.
CallEnds == \A c \in Callers : (call[c].pc # "idle") ~> (call[c].pc = "idle")

\* active_model()'s docstring: "a result cached after a fallback is keyed to
\* what produced it".
CacheNamesItsAuthor ==
  \A k \in Labels, q \in Questions : cache[k][q] # Empty => cache[k][q].by = k

\* complete_json's comment: "an unreachable provider takes all of them out,
\* since the next one is the same endpoint" (client.py:233-234).
UnreachableEndsTheChain ==
  \A c \in Callers : "cut" \in call[c].odd => call[c].pc # "hosted"

\* complete_json's comment: "'Request too large' is a property of one request,
\* so that model stays in rotation" (client.py:234-236).
TooLargeStaysInRotation ==
  [][\A c \in Callers : "large" \in call'[c].odd \ call[c].odd
                          => UNCHANGED <<exhausted, cooling>>]_vars
=============================================================================
