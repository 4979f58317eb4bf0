# dwight, formally

TLA+ specifications of dwight, an agent that turns HR exports into records of
one target system: it maps columns, cleans and validates rows, finds the rows
that are one person, and pushes the result over HTTP, asking a person whenever
its policy says so. Line references are to the repository.

## 1. Inventory

| Component | Keeps | Operations | Talks to |
|---|---|---|---|
| Web handlers, `app/ui/routes.py` | `_background_tasks` | upload, continue, override, accept-all, resolve, fill, push, rollback, nuke | start threads; write the database directly |
| Runner, `app/agent/runner.py` | nothing: `runs.stage` | `advance_run` | orchestrator, reconcile |
| Orchestrator, `app/agent/orchestrator.py` | `source_files`, `source_columns`, `mappings`, `records` | `ingest_and_map`, `clean_and_validate` | LLM, policy, escalations |
| Reconciliation, `app/agent/reconcile.py`, `dedupe.py` | `merges`, `records.status` | `reconcile_run` | LLM, escalations, decisions |
| Policy and questions, `policy.py`, `escalate.py`, `decisions.py`, `resolve.py` | `escalations`, `decisions` | ask or join, learn, resolve with apply-to-all | records, mappings |
| Push engine, `app/agent/push.py` | `push_attempts`, `pushed_state`, `runs.stage` | `push_run`, `rollback_run`, `_propose_repairs` | target over HTTP, LLM |
| Target, `tools/mock_target_api.py` | employees (on disk), idempotency keys (in memory) | POST, DELETE, transient failures | none |
| Progress, `app/progress.py` | `run_events`, waiters, a stop flag | `emit`, SSE loop, `Ticker.tick` | every stage |
| LLM client, `app/llm/client.py` | exhausted models, cooldowns, `llm_cache` | failover chain, cached call | providers |
| Cleaning and rules, `clean.py`, `validate.py`, `schema/rules.py` | none | pure functions of a row | LLM for one correction |

All state is one SQLite database in WAL mode; `connect()` (`app/db.py:30`) makes
a block of code one transaction. The handlers run on one event loop; every
stage runs in a thread of the pool (`_start_background`). Nothing locks a run:
the only coordination is `runs.stage`, read in one transaction and written in
another.

What is hard here, and what would make each component correct:

* **Push.** Two threads over one stage flag; a whole batch recorded in one last
  transaction, minutes after the requests; retries and idempotency keys; a
  target that restarts; rollbacks; records corrected between pushes or during
  one. *Correct:* the agent's belief equals what the target holds; only staged
  payloads are sent; nothing goes quiet; no refusal is asked about twice; every
  push ends and releases the stage.
* **Pipeline.** `advance_run` is called by the upload, by every answer given
  with the gate open and by *continue*; calls overlap, die between two commits
  and resume. *Correct:* no row before the mapping is settled, no row lost, one
  record per person, no answer lost, no question about an absorbed record.
* **Matching.** Links of three kinds (a key, a score, an earlier ruling) in whatever
  order blocks yield pairs; decisions read before minutes of model calls; a guard that only
  reads the stage, so that two calls may match one import side by side; the same files
  imported again under new record ids. *Correct:* clusters are the connected components
  of the links; no close pair is left undecided, asked about twice by calls that follow one
  another, or asked again once answered.
* **Records and rules.** Validation, merge, fill page and correction all write data and
  all raise questions, from what each read earlier. *Correct:* what a record breaks is
  asked about, once, whoever wrote it last.
* **Questions.** Class-scoped questions stand for many records but name one; answers are
  replayed by later imports; closed questions can be answered again. *Correct:* whatever
  is held back is asked about.
* **Progress.** A wake lost between a read and a clear; a terminal frame behind a page of
  500; a connection lost; counters read apart from the frames, and only for the statuses that
  have records. *Correct:* every frame once, in order, in the end; counters no older than
  the frames beside them, but for statuses at zero; the page reaches the stage the run is in.
* **LLM client.** Cooldowns and quotas per model, shared by every thread; a cache keyed
  before the call or after it. *Correct:* no model is passed over for a limit, calls end, an
  answer cached after a fall-back is under the name of the model that gave it.

`PROJECT.json` lists every component with its status and every hazard at its
line, with the properties that cover it or the reason why none does.

## 2. Modules

| Module | What it is |
|---|---|
| `Push` | push engine, target, and the answers that change what is sent next |
| `Delivery` | abstract promise of the push: a key accepted at most once, and nothing counted as delivered that was not accepted |
| `Pipeline` | one import from upload to `reconciled`, with overlapping calls, deaths and human moves |
| `Matching` | which rows of an import are one person, the questions about pairs, and imports that follow |
| `Records` | the data of a person's rows, the rules it breaks and the questions, from validation over the merge to fills and corrections |
| `Progress` | emitters, the generators of the event stream, the wire and the page |
| `Feed` | abstract promise of the stream: the frames, once, in order, and all in the end |
| `LlmChain` | the chain of models, its cooldowns and quotas, the cache, callers that share it |
| `MCPush`, `MCPipeline`, `MCMatching`, `MCRecords`, `MCProgress`, `MCLlm` | values of the constants for TLC |
| `PushProofs` | type correctness and `BeliefMatchesTarget` |
| `DeliveryProofs` | the staged gate, `Push` implements `Delivery`, and what serial pushes promise about questions |
| `PipelineProofs` | the control of an import: the mapping gate, the stage, the absence of stalls |
| `RecordProofs` | the data of Pipeline: types, rows, one record per person, live questions |
| `MatchingProofs` | the questions about pairs, over any number of imports; the union-find; the clusters are the components of the links |
| `RulesProofs` | Records: types, broken rules are asked about, once, and a survivor exactly |
| `ProgressProofs` | the safety half of `Feed`, the counters, the types |
| `LlmProofs` | LlmChain: types, labels, no model passed over |

The modules meet where the code does. `Pipeline` takes who is one person as a constant
and has the calls that overlap; `Matching` is the decision of who that is,
by calls one after another or side by side, and `Records` one person's data through all stages, a push included. `Push` starts from what
`Pipeline` leaves. `Progress` and `LlmChain` serve all of them and change nothing they
keep; a model's failure is `Die` in the others.

### Push and the code

A thread is a record `job[w]` of the locals of `_push_run` or `rollback_run`.
`BeginPush` is the SELECT of the stage, `Claim` the transaction that writes
`pushing` and reads the candidates, each `Post…` one exchange with the target,
`Finish` the last transaction. The two are separate because Python's `sqlite3`
opens a transaction at the first write: the SELECT is not protected by the
UPDATE that follows it. `NameField` and `Propose` are the two writes
of `_propose_repairs`. `Stop` is an exception inside `push_run` (its handler
repairs the stage), `StopUnheard` one whose request was applied, `Kill` the
death of the process, `RestartTarget` the loss of the target's keys.
`Answer` is `resolve_escalation` with `_apply_push_repair`, apply-to-all
included; `FillRefused` and `FillOther` are the fill page. The rows an answer closes come
from a SELECT without an order, and each repair overwrites the one before it: `MayBeLast`
names those that can be the last, and the step takes any of them.

Payloads are members of `Values`: `Complete` ones satisfy the strict model and
`Refusable` ones break a rule of the target. `push_attempts` keeps the
successes, all that anything reads.

`disturbed` and `touched` are history variables no action reads. `disturbed`
holds the employees for whom a person, a rollback or another run changed what is
held or meant after the target was given it: it makes `BeliefMatchesTarget` a
statement about what threads and failures do by themselves. The correction of a
delivered record is exactly the case it excludes, and `push_correction` shows
that the code gets that case wrong. `touched` excuses from `NothingGoesQuiet`
the records a person answered for since the last push read them.

`SerialSpec` is `Spec` restricted to behaviours in which nobody else sends or deletes for a
run that is being sent (`Alone`). The code does not see to that: the stage is read outside
the transaction that claims it, and a rollback looks at no stage. What the questions of a
push promise holds only there, and the properties about them say so.

### Pipeline and the code

`tasks` counts the calls of `advance_run` no thread has taken up; `job[w].pc`
is where a call is. `Look` is `_stage_of`, `Gate` the look at
`mapping_gate_is_open`, `MapColumn` one column's transaction, `Guard` and `Plan`
the two reads that open `clean_and_validate`, `CleanRow` the rows up to a commit of
the ticker, `SetValidated` the last write, `Match` and `Merge` the read and the
write of `reconcile_run`. `handler` splits the resolve handler at its commit:
`AnswerColumn` or `AnswerRecord`, then `CheckGate`. `Die` is an exception between
two transactions, `Restart` the process. A row that is read twice gets a second
record, so a record is a row and a copy number.

Three history variables: `died` (a call died and nobody has started one that can
resume it), `overlapped` (two threads were cleaning at once), `remapped` (a
column was given another target after its rows were read).

Abstractions: a file has one column; a row raises at most one question; which
rows are one person (`PersonOf`) is a constant, for a model of when the stages run and
not of how well they match; a merge is one step, as its transaction is.

### Matching and the code

A call is a record `call[c]` of the locals of `reconcile_run`, and the operators that make
one from another (`Begun`, then `Passed`, `Joined` or `Left`) are the steps of its loops.
`Begin` is the function up to them: the stage is only read there (`reconcile.py:241`), so
that another call of the same import may begin while this one is at work. `Compare` is one
turn of the pair loop, pairs in any order; `Judge` one call of `judge_pair`; `Ask` and
`Merge` its two transactions, neither of which looks at the stage again. `found` and `apart`
are what the calls of an import have committed: who has been merged with whom, and the
pairs recorded as kept separate. `Reimport` uploads the same files again: rows keep their
content and lose their record ids, so a decision is filed under `Identity`, which falls
back to the record id when a row has neither key nor email. An email is its local part; a
string distance is a relation (`Typos`, `NearNames`) that TLC is given and the proofs leave
open. Path halving in `find` is left out: it changes no root. `Answer` changes no cluster
because `_APPLIERS` has no entry for `DUPE_AMBIGUOUS`. `died` (imports of which a call
stopped between its questions and its merge) and `overlapped` (imports that two calls
matched at once) are history variables no action reads.

### Records and the code

The rows are the sources of one person, or (`same` FALSE) two people left apart. Dates
are numbers, and the other fields what a rule can tell apart. `Validate` is a row of
`clean_and_validate`, `Read` and `Merge` the two transactions of `reconcile_run`,
`OpenPage`, `FillRow` and `ClosePage` are `fill_submit`, whose rows are read before its
`await`; `Repair` and `Exclude` are `_apply_push_repair`, `Refuse` and `LeaveOut` what a
push does to records. A judgement that raises (`Raises`) rolls its transaction back;
`raised` remembers that it did, `answered` which questions a person dismissed.

### Progress and the code

A run is at a position of a path; a position is a stage and the number of records of each
status, and stands for everything a snapshot counts. `Begin`, `Commit`, `Write` are a batch
and `Ticker.tick` with the single write lock; `Edit` is a fill or an answer, which changes
records under an unchanged stage and writes no frame; `CopyWaiters` and `Wake` split `emit`
where `_lock` is released and `call_soon_threadsafe` queues; `Read`, `TakeSnapshot`,
`Clear`, `Woken`, `Heartbeat` split the generator at its awaits. The page keeps what it has
drawn, the last event id, the stage its buttons were built for and a pending reload. A
position may be committed before its frame is written and after another frame was.

`tiles` are the counters on the page. The server renders one for each status it knows, at
zero too, and for any other that has records (`TilesOf`, from `_status_tiles`). A snapshot
is a `GROUP BY`, which has no row for a status without records (`routes.py:416`), and the
script writes the statuses it receives into the tiles it finds (`run_summary.html:120`):
`WriteTiles` changes no other. A tile whose status falls to zero keeps its number until the
page is loaded again, and a status that first appears has no tile until then.

### LlmChain and the code

A call is a record of the locals of `cached_complete_json` and `complete_json`; the chain
it reads at `Start` may differ from the one its key was computed from at `Ask`. `Retry`
is a short wait, `StandDown` a long one or one too many, `Exhaust` a daily quota.
`TooLarge` is a request the model cannot take: it moves the call on at the first attempt
and stands the model down like any other limit. `Unreachable` takes the whole chain out and,
with a local model configured, still asks the rest of it, as the loop does. `Label` has both
ways of naming a cache row: `cached_complete_json` keeps the name of the lookup, the `_store`
functions take the name of the moment. `odd` is history: what a call met besides limits of
its own (`moved`, the chain changed under it by another call or a window; `cut`, the provider
was unreachable; `large`, a request was too large).

## 3. Runs

| Run | Shows |
|---|---|
| `push_belief` | `TypeOK`, `BeliefMatchesTarget`: two runs sharing an employee, two threads, a retry, an answer, every failure |
| `push_quiet` | `OnlyStagedReachesTarget`, `NothingGoesQuiet`, `NoSecondCopy`, `AnsweredIsClosed` of `SerialSpec`: one employee; a good, two refused and an incomplete value; three threads, two at a time (a push and a rollback that has not begun to delete, say), two answers |
| `push_progress` | `PushingIsHeld`, `ThreadEnds`, `StageReleased`, `DeliverySpec` under fairness, two threads at once |
| `push_correction` | finding: a corrected record does not reach the target |
| `pipeline_once` | `TypeOK`, `GateRespected`, `OnePerPerson`, `NoRowLost`, `QuestionsAreLive`, `NeverStalls`, `StageNeverGoesBack` with every failure and human move |
| `pipeline_resume` | `Resumes` under fairness |
| `matching` | `TypeOK`, `ClustersAreComponents`, `NothingUndecided`, `AskedOnceByOneCall`, `AnsweredIsNotAskedAgain`: three rows of seven kinds, two callers that follow or overlap each other, two imports, an answer, deaths (about 775,000 states up to the names of the callers) |
| `matching_separate` | finding: an approved "keep separate" merges on the next import |
| `records` | `TypeOK`, `BrokenRulesAreAsked`, `AskedOnce`, `SurvivorIsRequestioned`: two rows of six kinds, three moves (about 428,000 states) |
| `records_raise` | finding: judging a record the model refuses raises |
| `progress_feed` | `TypeOK`, `CountersMatchFeed`, `FeedSpec`, `PageSettles` under fairness: one emitter, two connections, two frames, a lost connection, reloads, statuses that fall to zero and one that appears (about 800,000 states) |
| `llm_chain` | `TypeOK`, `FallbackIsLabelled`, `EveryModelIsTried`, `CallEnds` under fairness: two callers, two hosted models, with a local one and without (about 415,000 states) |

Configurations kept beside the runs, each of one property that TLC refutes in a
few seconds (`tlc -config X.cfg M`):

| Configuration | Module | Property | What the counterexample shows |
|---|---|---|---|
| `PushOverlap.cfg` | `MCPush` | `OnePushAtATime` | the stage is read outside the transaction that writes `pushing` (`push.py:201`): two pushes run at once |
| `PushDied.cfg` | `MCPush` | `SentIsRecorded` | a push that dies before its last transaction has recorded nothing of what it sent (`push.py:324`, against the message at 190) |
| `PushCopy.cfg` | `MCPush` | `OneCopy` | a value refused, changed, refused and changed back is asked about twice at once: only the last open question of a record is looked at (`push.py:266`) |
| `PipelineOverlap.cfg` | `MCPipeline` | `SafeToCallAgain` | two calls clean the same rows (`orchestrator.py:110`, against `runner.py:58`) |
| `PipelineBlocked.cfg` | `MCPipeline` | `BlockedIsLeftOut` | a survivor with an open rule question is a candidate (`push.py:213`, against `runner.py:24`) |
| `PipelineSuperseded.cfg` | `MCPipeline` | `SupersededIsAboutNobody` | a class question closes with its example record (`reconcile.py:408`) |
| `MatchingOverlap.cfg` | `MCMatching` | `AskedOnceUnlessDied` | two calls of one import that begin before either merges both ask about the same pair (`reconcile.py:344`, against the comment at 243) |
| `MatchingBridge.cfg` | `MCMatching` | `DifferentIdsStayApart` | two employee ids end as one person through a row that has neither (`dedupe.py:32`) |
| `LlmLabel.cfg` | `MCLlm` | `CacheNamesItsAuthor` | an answer given after a fail-over is cached under the model that failed (`client.py:119`) |
| `LlmUnreachable.cfg` | `MCLlm` | `UnreachableEndsTheChain` | with a local model configured, a call that found the provider unreachable asks the next hosted model (`client.py:249`, against the comment at 233) |
| `LlmTooLarge.cfg` | `MCLlm` | `TooLargeStaysInRotation` | a model refused one request as too large and is out of the rotation of every call (`client.py:244`, against the comment at 234) |
| `ProgressTiles.cfg` | `MCProgress` | `TilesAreTheRecords` | the last record of a status moves on and its tile keeps the old number (`run_summary.html:120`, `routes.py:416`, against `routes.py:441`) |

**Bounds.** `MaxThreads = 3` is a push, a second one that sees what the first
left, and a rollback between, before or after them. One employee and two
runs are enough for belief, which is a statement per employee, broken by another
run at most. What is said about a record is a statement per record too: one employee is
enough for `push_quiet`, and two refused values make a refusal, a change and a change back;
a signature that several records share is left to the proofs.
`MaxRetries = 1` has both a retry and a last attempt. In Pipeline, two threads
are the least that overlap and `MaxMoves = 2` is an answer and a *continue*, or
two answers; one file for each of two ranks makes the survivor determined, and the two rows
of one person, one without a key, make both a merge and an orphan possible. Two
mapping questions are needed for "the last one answered" to mean something.
Deadlock is not checked: a bounded behaviour ends when nobody does anything more.

In Matching, three rows are the least in which a link is transitive and a pair is skipped;
the seven kinds give every tier of the score all of its outcomes; `Cap = 1` is crossed by
two close pairs; two imports are what a decision is replayed over; two callers and
`MaxCalls = 2` are two calls of one import that overlap, a call and the one that resumes it
after a death, or one call for each import. The callers are symmetric. In Records, two rows of
two files disagree, complete each other or contradict each other, and the candidates break
each rule alone, at the merge only, or by a correction only; three moves are a page opened
before a merge, a refusal and its correction. In Progress, pages of one frame and two frames
make a second page of frames; two connections make one that is abandoned; the three paths are a
push that ends and leaves a record out, one that gives its stage back, and a record excluded
at `done`, where no stage changes, the count of `incomplete` falls to zero, and `excluded`
appears without a tile. In LlmChain, two hosted models are a
fail-over with somewhere to go, and two callers one who moves the chain under the other.

**Scopes worth knowing.** `push_quiet` is of `SerialSpec`: with two
overlapping pushes of one run, which `PushOverlap.cfg` shows possible, both ask about
the same refusal. It leaves a stale page (`"stale"` in `Env`) to `push_belief`; the
theorems have it. `NothingGoesQuiet` speaks of runs that are `done`. `NoSecondCopy` allows
the second question that `PushCopy.cfg` exhibits, where the record was refused with
another payload in between. `DeliverySpec` is
checked and proved without target restarts: a restarted target has forgotten
its keys and accepts one again. `AnsweredIsNotAskedAgain` speaks of rows with a key or an
email (`Stable`): others are filed under a record id and are asked about in every import.
`AskedOnceByOneCall` excuses the imports of which a call stopped between its questions and
its merge, and those that two calls matched at once: both do ask twice, the second is
`MatchingOverlap.cfg`. `FallbackIsLabelled` is of the answers cached after the call, and of
calls that met only limits of their own: `LlmLabel.cfg` is the answers cached under the
lookup's name. It leaves out calls under which the chain moved, calls that found the provider
unreachable, where the label is wrong if a hosted model answers after all, and calls with a
request too large, so that it is true of the code as it is and would stay true of a code
that follows the comment. `EveryModelIsTried` in the same way allows a call to turn to the
local model early once the provider is unreachable. `CountersMatchFeed` and `PageSettles`
speak of the tiles of statuses that have records; the others are `ProgressTiles.cfg`.
`BrokenRulesAreAsked` excuses the rules a person dismissed.

**Fairness.** `FairSpec` has weak fairness of each thread's own steps and, in
Pipeline, of the second half of the resolve handler: the pool runs what it is given,
requests return (an HTTP timeout is an exception, which is `Stop`), and the event loop
finishes a handler. In Progress a thread that has begun a batch or a frame finishes it, the
generator of a live connection is served (its heartbeat is what makes a lost wake harmless),
and the browser takes what arrives, renders and reconnects; nobody has to open the page or
to change a record, and no stage has to begin. In LlmChain every request has a timeout. Nothing a person does, and no failure, is fair. `Resumes`
excuses a run whose call died, because nothing in the code restarts it;
`StageReleased` excludes `Kill`, after which nothing repairs the stage.

**Mutants.** The operators commented as mutants are plausible bugs of the same
definitions. No specification uses them; each one shows that its property can fail.

## 4. Proofs

For every value of the constants that the named assumptions allow (typing, finitely many
rows, ranks that order them, record rules apart from class questions, and `NoValue`,
`NoQuestion`, `Nobody`, `NoModel` outside the sets they extend), with any number of threads:

* `PushProofs!TypeCorrect`: `Spec => []TypeOK`. Inductive with `Read` (what a thread
  sends it has read) and `FreshClaim`: without `Read`, `Finish` could store no payload.
* `PushProofs!BeliefCorrect`: `Spec => []BeliefMatchesTarget`. The strengthening
  `BInv` says the same of what threads know and have not recorded: whatever a
  thread of run r sends for an employee nobody moved is r's record
  (`SendsTheRecord`), an employee the target does not hold is unknown to
  everybody (`UnheldIsUnknown`), and one it holds was given by the run that every
  delivery names, with that run's record (`HeldIsAgreed`). The last part makes
  two overlapping pushes harmless to belief.
* `DeliveryProofs!StagedCorrect`: `Spec => []OnlyStagedReachesTarget`. What a
  thread has yet to send was complete when it was read, and its snapshot does
  not change.
* `DeliveryProofs!QuietCorrect`, `CopyCorrect`, `AnsweredCorrect`: `SerialSpec` keeps
  `NothingGoesQuiet`, `NoSecondCopy` and `AnsweredIsClosed`, for any number of runs,
  employees, threads and answers, with every failure. One invariant, `SaidInv`, carries the
  three: each record a push has read is still to be sent, delivered, refused, unanswered or
  already spoken of (`SentOrSaid`); it has one outcome at most (`OneOutcome`); what a push
  sends differs from the last open refusal of its record (`RefusedAfresh`) and from what the
  run has delivered (`NotYetDelivered`); a rollback deletes what its run delivered
  (`DeletesItsOwn`). Without `Alone` the second push breaks `NotYetDelivered` at its first
  step.
* `DeliveryProofs!PushingHeld`: `"kill" \notin Env => (Spec => []PushingIsHeld)`, the safe
  half of `StageReleased`: a run is `pushing` only while some push of it is sending. Of two
  overlapping pushes the first to end may release the stage early, never late; the
  invariant is inductive on its own, and false as soon as the process may be killed.
* `DeliveryProofs!DeliveryImplemented`: `"restart" \notin Env => (Spec =>
  DeliverySpec)`. The invariant `Backed` says that every delivery a thread knows of
  is an accepted key; `Upsert` maps to `Accept`, `Finish` to `Count`,
  `FinishRollback` to `Uncount`, everything else to a stutter.
* `PipelineProofs!GateCorrect`: `Spec => []GateRespected`. `GInv`: every trace a call
  leaves after the gate (a record, a later stage, a thread past it) implies that all
  columns are read and no question is open; `SettledStays`, because nothing asks about a
  column twice.
* `PipelineProofs!StageForward`: `Spec => StageNeverGoesBack`. `OInv` says which stages a
  call can be seen in at each of its places (only the upload ingests, and it is one call);
  `AloneInv`, that without `overlapped` the call that cleans is alone and the stage is
  still `mapped`. The plain statement is false: `SetValidated` is unconditional.
* `PipelineProofs!StallFree`: `Spec => []NeverStalls`. `DInv`: a run that is neither
  finished nor waiting for a mapping answer has a driver, a call or an answer whose second
  half is to come, unless a call died.
* `RecordProofs!TypeCorrect`: `Spec => []TypeOK`. Copies are numbered by counting, so that
  a record id exists is a theorem: `KInv` counts, for each row, its copies, the calls
  that may still clean it and the calls that wait, and their sum never exceeds
  `1 + moves`; copies have no gaps, so the next number is free.
* `RecordProofs!LiveQuestions`: `Spec => []QuestionsAreLive`, however calls overlap: what a
  merge absorbs loses its open questions in the same transaction, and what it raises
  is about survivors.
* `RecordProofs!RowsKept`: `Spec => []NoRowLost`. `RInv`: a call that cleans has every
  missing row still to do, and the stage moves when it has none.
* `RecordProofs!PeopleOnce`: `Spec => []OnePerPerson`. `PInv`: without overlapping
  cleaning, what `Match` has read is all there is at `Merge`, so each pair of records of
  one person ends as one (`MergeUnites`).
* `MatchingProofs!PairsAskedOnce`: `Spec => []AskedOnceByOneCall`, for any rows, scores,
  number of imports and number of calls. In an import that no two calls overlapped in, one
  call at most is at work and the import is still to be matched (`SoleCall`), which takes the
  guard of `Begin`; a question belongs to an import that is matched, has lost a call, or has
  a call on its way to the merge (`AskedAtTheEnd`), so that the `Ask` of a sole call finds
  none of its import.
* `MatchingProofs!AnswersHold`: `Spec => AnsweredIsNotAskedAgain`, overlapping calls included.
  A closed question has its answer on file (`ResolvedIsRuled`); with stable identities the
  key of a pair is the same in every import, and `Ask` looks it up again.
* `MatchingProofs!ClustersCorrect`: `Spec => []ClustersAreComponents`, for any rows, scores,
  verdicts and order of the pairs. The union-find first: a forest that some rank descends to
  its roots (`Rooted`) has one way to give rows their roots (`RootsUnique`), so `Find` is
  that way (`FindIs`), and `Union` joins two trees, leaves the others alone and keeps a rank
  (`UnionJoins`); the trees of the natural keys are such a forest (`GroupedRooted`). Then
  the call, as a set of records that the steps of the loops never leave (`Sound`): no tree
  leaves a set that no link leaves (`TreesFollowLinks`), and a link that has been looked at
  joins its rows (`LinksJoin`), also the one that the loop skips because its rows are
  together already. What calls there are does not matter, since none reads another's locals. `Reached` is stated with sealed sets of rows, so that it needs no
  recursion.
* `MatchingProofs!NoneUndecided`, `MatchingTypes`: a close pair that a call has compared is
  together, in its band, or ruled on (`Banded`); what the call read at its start is still on
  file under the same key, however often it is answered meanwhile (`Filed`), which is why
  reading the decisions twice loses no pair; and a call past `Ask` leaves no pair open
  (`Decided`). What has been dealt with stays dealt with (`NothingTakenBack`), whichever call
  or person moves, so that the first of two overlapping calls to merge ends the stage with
  nothing undecided.
* `RulesProofs!RecordsTypeCorrect`, `ContradictionsAreAsked`, `RulesAskedOnce`,
  `MergeRequestions`: for any data, ranks and rows. `RInv` adds that nothing is asked
  ahead of validation (`NoneAhead`), that a snapshot exists only while validated
  (`StageOK`), that questions are numbered by counting and so finite, and that a page
  closes only questions of its own rule (`PageOK`): that is why a stale page cannot close a
  question about another rule.
* `ProgressProofs!FeedIsRefined`: `Spec => F!FeedSafety`, for any number of streams, any
  page size and any loss. `FeedInv`: what is drawn is a beginning of the feed, each frame on
  the wire is drawn, next, or behind the one before it (`WireInOrder`), and the live cursor
  has nothing unsent before it (`CursorInOrder`). The other half of `FeedSpec`, that frames
  do get drawn, is liveness and stays with TLC.
* `ProgressProofs!CountersFollowFeed`: `Spec => []CountersMatchFeed`. `SentLast`: a stream
  that rests has sent a snapshot last that is as new as every frame it sent, wherever the
  two are on the wire. `TilesInv`: every tile is of the position the page read last, or of a
  status that has no records there; partial writes of the tiles keep it, because what a
  snapshot does not write is at zero in it.
* `ProgressProofs!ProgressTypes`: `Spec => []TypeOK`. That a run stays on its path is not
  local: `Begin` looks at the path and `Commit` moves along it, and it takes the single
  write lock that nobody else moves between them (`OneWriter`). That the page shows a stage
  rests on the snapshots on the wire being of positions of the run (`SentPositions`).
* `LlmProofs!LlmTypeCorrect`, `FallbacksAreLabelled`, `ModelsAreTried`: for any chain and any
  callers. `LabelOK`: while a call has met nothing but limits of its own, what is left of its
  chain is what is left of everybody's, so that the model it asks is the one `active_model()`
  names; a refusal takes the same model out of both (`RefusalFollows`).

Only model-checked: the liveness properties (`ThreadEnds`, `StageReleased`, `Resumes`,
`PageSettles`, `CallEnds`, and that every frame is drawn), which need fairness and
`ENABLED`. Every other property of the passing runs is a theorem. Two of them needed a
minimal counterexample (`Lowest`, `LastRow`, over `WFMin` and the order of the naturals)
where one would use induction, whose theorems take an operator as a parameter.

## 5. Not modelled

`accept-all` (it writes a status nothing reads), the nuke route, the reading
pages, the audit trail. Cleaning: parsing dates, phones and amounts, the ladder of enum
values, the one correction attempt. `DATE_FORMAT_AMBIGUOUS` answers, which are recorded and
which nothing applies. The currency exception in `_survivorship`. Rule R6, which the code
defers. The instruction box and pasted lines of the fill page, prompts, readers, the YAML
loader, the offline tools. A rejected status outside both policy lists: the
target has none. Lock timeouts: an exception wherever one may strike is `Stop` or `Die`.

## 6. Disagreements that no run is about

Met while modelling, each a place where a comment or a screen says more than the code does:

* A close pair whose rows are joined through a third keeps its open question, although
  `reconcile.py:237` says the band "stays unmerged".
* An *approve* given after a call has read the decisions silences the question in that
  import without joining the rows.
* *edit* with the value `merge` joins nothing; only the word *approve* is read
  (`reconcile.py:314`).
* `_identity` falls back to the record id (`reconcile.py:51`), which `policy.py:257` says
  decisions are never filed under.
* Rows of one file that disagree are settled by their order without a word
  (`reconcile.py:94-98`).
* A fill can promote a record to `clean` while another of its rules is still broken
  (`routes.py:1034`): its question stays open, and a push takes it all the same.
* A correction after a refusal raises what it breaks but closes nothing it mends
  (`resolve.py:98`).
* A record absorbed by a merge, excluded and then corrected through a stale question is
  `clean` again beside its survivor (`resolve.py:78`).
* A value that was refused, changed, refused again and changed back is asked about a second
  time while its first question is open: `already_refused` keeps one question per record,
  the last one the SELECT yields (`push.py:266`).
* A rollback of an earlier run deletes what a later run delivered for the same employee, and
  the later run stays `done` without a word about it.
* A question "the target never answered" stays open when another run delivers the same
  data: the record is then skipped as unchanged, and only an answer to this run's own
  request closes the question (`push.py:341`).
* An unreachable provider takes the whole chain out, "since the next one is the same endpoint"
  (`client.py:232-234`), and line 249 announces the local model; the loop over `chain` goes on
  to the next hosted model all the same. Should that one answer, its answer is cached
  after the call under the local model's name, the active one by then
  (`LlmUnreachable.cfg`).
* "'Request too large' is a property of one request, so that model stays in rotation"
  (`client.py:234-236`), but its `RateLimitError` is neither an outage nor a daily quota and
  falls to the branch at 241, which stands the model down for every caller
  (`LlmTooLarge.cfg`). Were it to stay, the answer of the next model would be cached after
  the call under the name of the one that refused.
* A status that falls to zero is in no snapshot and its tile keeps the old number beside newer
  frames (`routes.py:416-418`, `run_summary.html:120`), although "the page renders the same
  state server-side" (`routes.py:441`). A fill at `done` that settles the last incomplete
  record is enough (`ProgressTiles.cfg`).
* The guard of `reconcile_run` is there to avoid "re-merging and duplicating merge rows"
  (`reconcile.py:243`) but only reads the stage: of two calls that pass it both judge the
  pairs, and both commit a question about each (`reconcile.py:344`) (`MatchingOverlap.cfg`).
* A merge overwrites a fill written after it read the rows (`reconcile.py:394`).

## 7. Plan

Done: Push, Delivery, Pipeline, Matching, Records, Progress, Feed, LlmChain and their
proofs. What could follow, in order of worth:

1. A cleaning module: the ladder of enum values against a reference definition, and the
   correction attempt, whose values come back from a model as strings.
2. The safe half of the other liveness properties, as `PushingIsHeld` is for
   `StageReleased`: for each, a rank that every fair step of the
   actor lowers and no step of another raises without a bound.
3. Refinement: an abstract "ask, answer, settle" life of a question that `Push`, `Matching`
   and `Records` each implement.
