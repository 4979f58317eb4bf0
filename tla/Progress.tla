------------------------------ MODULE Progress ------------------------------
(* Progress frames: how a stage reports what it does, how the stream of the  *)
(* frames reaches a page, and what the page shows.  app/progress.py, the     *)
(* `run_events` handler of app/ui/routes.py, and the scripts of its page.    *)
(*                                                                           *)
(* A run goes through the positions of a path: path[p] is the stage and the  *)
(* number of records of each status, and every commit moves the run to the   *)
(* next one, so that a position stands for all a snapshot can show.  A frame *)
(* is its number, its kind and the position it was written at.               *)
EXTENDS Naturals, Sequences, FiniteSets

CONSTANTS Emitters,   \* the threads and handlers that report progress
          Streams,    \* connections of one page, a dropped one included
          Nobody,     \* no emitter, no stream
          Kinds,      \* the kinds of frames: what matters is which are terminal
          Statuses,   \* what a record may be
          Ordered,    \* RECORD_STATUS_ORDER without "pending"
          Paths,      \* the positions a run may go through
          PageSize,   \* frames a stream reads at once: 500
          Rendered,   \* frames the server renders into the page: 300
          MaxFrames,  \* bound: frames of the run
          MaxDrops,   \* bound: connections lost
          Backlog     \* bound: events in flight when a stream reads on

ASSUME SizesAssumption ==
  /\ PageSize \in Nat \ {0}
  /\ {Rendered, MaxFrames, MaxDrops, Backlog} \subseteq Nat
ASSUME NobodyAssumption == Nobody \notin Emitters \cup Streams
ASSUME StatusesAssumption == Ordered \subseteq Statuses
ASSUME PathsAssumption ==
  \A p \in Paths : p \in Seq([stage : STRING, count : [Statuses -> Nat]]) /\ p # <<>>

VARIABLES path, at,   \* runs.stage and the records, as a snapshot reads them
          log,        \* run_events
          lock,       \* the one writer of the database
          job,        \* the emitters
          stream,     \* the generators of run_events
          wire,       \* events sent to the page and not yet received
          page,       \* the browser
          tiles,      \* the counters on the page
          drops

vars == <<path, at, log, lock, job, stream, wire, page, tiles, drops>>

-----------------------------------------------------------------------------
\* Kinds that mean the run has stopped moving.
Terminal == {"finished", "waiting", "failed"}

\* Stages in which something may still happen.
Active == {"uploaded", "profiled", "mapped", "cleaned", "validated",
           "reconciled", "pushing"}

\* Stages whose buttons the server renders: the page loads itself again.
Reloading == {"reconciled", "mapped", "done", "rolled_back"}

StageAt(p) == path[p].stage
CountAt(p) == path[p].count

Positions == 1..Len(path)
Min2(m, n) == IF m <= n THEN m ELSE n

Frame(n) == [event |-> "frame", n |-> n]
Snapshot(p) == [event |-> "snapshot", n |-> p]
End == [event |-> "end", n |-> 0]

Idle == [pc |-> "idle", todo |-> {}]
Closed == [pc |-> "closed", cursor |-> 0, woken |-> FALSE, tail |-> "none"]
Opened(cursor) == [Closed EXCEPT !.pc = "read", !.cursor = cursor]

\* The tiles the server renders: every status it knows, at zero too, and any
\* other that has records.
TilesOf(p) ==
  [t \in {t \in Statuses : t \in Ordered \/ CountAt(p)[t] # 0} |-> CountAt(p)[t]]

\* The streams whose event is in `_waiters`.
Waiters == {s \in Streams : stream[s].pc # "closed"}

Init ==
  /\ path \in Paths /\ at = 1
  /\ log = <<>>
  /\ lock = Nobody
  /\ job = [m \in Emitters |-> Idle]
  /\ stream = [s \in Streams |-> Closed]
  /\ wire = <<>>
  /\ page = [pc |-> "away", drawn |-> <<>>, last |-> 0, shows |-> 1,
             stage |-> StageAt(1), built |-> StageAt(1), reload |-> FALSE,
             live |-> Nobody]
  /\ tiles = TilesOf(1)
  /\ drops = 0

-----------------------------------------------------------------------------
(* Emitters. *)

Reporting == {m \in Emitters : job[m].pc \in {"work", "emit"}}
RoomForFrame == Len(log) + Cardinality(Reporting) < MaxFrames

\* A mutant: a stage works past its end.
BeginPastTheEnd(m) ==
  /\ job[m].pc = "idle" /\ lock = Nobody /\ RoomForFrame
  /\ lock' = m
  /\ job' = [job EXCEPT ![m].pc = "work"]
  /\ UNCHANGED <<path, at, log, stream, wire, page, tiles, drops>>

\* A batch of rows begins: its first write takes the only write lock.
Begin(m) ==
  /\ job[m].pc = "idle" /\ lock = Nobody /\ at < Len(path) /\ RoomForFrame
  /\ lock' = m
  /\ job' = [job EXCEPT ![m].pc = "work"]
  /\ UNCHANGED <<path, at, log, stream, wire, page, tiles, drops>>

\* The batch is committed before its frame is written: the frame goes out on
\* another connection, which waits for the lock.
Commit(m) ==
  /\ job[m].pc = "work"
  /\ lock' = Nobody
  /\ at' = at + 1
  /\ job' = [job EXCEPT ![m].pc = "emit"]
  /\ UNCHANGED <<path, log, stream, wire, page, tiles, drops>>

\* A value that is filled in, an exclusion, an answer: the commit of a handler,
\* which says nothing.
Edit ==
  /\ lock = Nobody /\ at < Len(path) /\ StageAt(at + 1) = StageAt(at)
  /\ at' = at + 1
  /\ UNCHANGED <<path, log, lock, job, stream, wire, page, tiles, drops>>

\* A frame that goes with no batch, such as the one of the push button.
Say(m) ==
  /\ job[m].pc = "idle" /\ RoomForFrame
  /\ job' = [job EXCEPT ![m].pc = "emit"]
  /\ UNCHANGED <<path, at, log, lock, stream, wire, page, tiles, drops>>

\* The row of run_events.
Write(m) ==
  /\ job[m].pc = "emit" /\ lock = Nobody
  /\ \E k \in Kinds : log' = Append(log, [kind |-> k, at |-> at])
  /\ job' = [job EXCEPT ![m].pc = "copy"]
  /\ UNCHANGED <<path, at, lock, stream, wire, page, tiles, drops>>

\* The set of events to wake is copied under its lock ...
CopyWaiters(m) ==
  /\ job[m].pc = "copy"
  /\ job' = [job EXCEPT ![m].pc = "wake", ![m].todo = Waiters]
  /\ UNCHANGED <<path, at, log, lock, stream, wire, page, tiles, drops>>

\* ... and each is set on the event loop, some time later.
Wake(m, s) ==
  /\ job[m].pc = "wake" /\ s \in job[m].todo
  /\ job' = [job EXCEPT ![m].todo = @ \ {s}]
  /\ stream' = [stream EXCEPT ![s].woken = TRUE]
  /\ UNCHANGED <<path, at, log, lock, wire, page, tiles, drops>>

Done(m) ==
  /\ job[m].pc = "wake" /\ job[m].todo = {}
  /\ job' = [job EXCEPT ![m] = Idle]
  /\ UNCHANGED <<path, at, log, lock, stream, wire, page, tiles, drops>>

-----------------------------------------------------------------------------
(* Streams. *)

\* The event of a closed stream is set for nobody.
Forget(s) == job' = [m \in Emitters |-> [job[m] EXCEPT !.todo = @ \ {s}]]

\* One page of frames after the cursor.
Read(s) ==
  LET upto == Min2(stream[s].cursor + PageSize, Len(log)) IN
  /\ stream[s].pc = "read" /\ page.live = s /\ Len(wire) <= Backlog
  /\ wire' = wire \o [i \in 1..(upto - stream[s].cursor) |-> Frame(stream[s].cursor + i)]
  /\ stream' =
       [stream EXCEPT ![s].pc = "snapshot", ![s].cursor = upto,
          ![s].tail = IF upto = stream[s].cursor THEN "none"
                      ELSE IF log[upto].kind \in Terminal THEN "terminal" ELSE "frames"]
  /\ UNCHANGED <<path, at, log, lock, job, page, tiles, drops>>

\* The snapshot is read after the frames.  A terminal frame ends the stream,
\* and so does a run that is over and has nothing to say.
StreamEnds(s) ==
  \/ stream[s].tail = "terminal"
  \/ stream[s].tail = "none" /\ StageAt(at) \notin Active

\* A mutant: the snapshot goes with the heartbeat only.
SnapshotWhenQuiet(s) ==
  /\ stream[s].pc = "snapshot" /\ page.live = s
  /\ wire' = IF stream[s].tail = "none" THEN Append(wire, Snapshot(at)) ELSE wire
  /\ stream' = [stream EXCEPT ![s].pc = "clear"]
  /\ UNCHANGED <<path, at, log, lock, job, page, tiles, drops>>

TakeSnapshot(s) ==
  /\ stream[s].pc = "snapshot" /\ page.live = s
  /\ IF StreamEnds(s)
       THEN /\ wire' = wire \o <<Snapshot(at), End>>
            /\ stream' = [stream EXCEPT ![s] = Closed]
            /\ Forget(s)
       ELSE /\ wire' = Append(wire, Snapshot(at))
            /\ stream' = [stream EXCEPT ![s].pc = "clear"]
            /\ UNCHANGED job
  /\ UNCHANGED <<path, at, log, lock, page, tiles, drops>>

\* Whatever woke the stream since it read its page is forgotten here.
Clear(s) ==
  /\ stream[s].pc = "clear"
  /\ stream' = [stream EXCEPT ![s].woken = FALSE, ![s].pc = "wait", ![s].tail = "none"]
  /\ UNCHANGED <<path, at, log, lock, job, wire, page, tiles, drops>>

Woken(s) ==
  /\ stream[s].pc = "wait" /\ stream[s].woken
  /\ stream' = [stream EXCEPT ![s].pc = "read"]
  /\ UNCHANGED <<path, at, log, lock, job, wire, page, tiles, drops>>

\* A mutant: the stream waits for its wake and nothing else.
NoHeartbeat(s) == FALSE /\ UNCHANGED vars

\* Ten seconds without a wake.
Heartbeat(s) ==
  /\ stream[s].pc = "wait" /\ ~stream[s].woken
  /\ stream' = [stream EXCEPT ![s].pc = "read"]
  /\ UNCHANGED <<path, at, log, lock, job, wire, page, tiles, drops>>

\* The client is gone: the generator is closed where it is.
Abandon(s) ==
  /\ stream[s].pc # "closed" /\ page.live # s
  /\ stream' = [stream EXCEPT ![s] = Closed]
  /\ Forget(s)
  /\ UNCHANGED <<path, at, log, lock, wire, page, tiles, drops>>

-----------------------------------------------------------------------------
(* The page. *)

\* The page handler reads the stage and the counters ...
Request ==
  /\ page.pc = "away" \/ page.reload
  /\ page' = [page EXCEPT !.pc = "loading", !.shows = at, !.stage = StageAt(at),
                          !.built = StageAt(at), !.reload = FALSE, !.live = Nobody]
  /\ tiles' = TilesOf(at)
  /\ wire' = <<>>
  /\ UNCHANGED <<path, at, log, lock, job, stream, drops>>

\* ... and then the frames.  The page starts a stream of its own.
Render ==
  /\ page.pc = "loading"
  /\ page' = [page EXCEPT !.pc = "open", !.last = 0,
                          !.drawn = [i \in 1..Min2(Rendered, Len(log)) |-> i]]
  /\ UNCHANGED <<path, at, log, lock, job, stream, wire, tiles, drops>>

\* EventSource connects, and connects again after an end or an error, with the
\* last number it received.
Fresh(s) == s = CHOOSE free \in Streams : stream[free].pc = "closed"

Connect(s) ==
  /\ page.pc = "open" /\ page.live = Nobody /\ stream[s].pc = "closed" /\ Fresh(s)
  /\ stream' = [stream EXCEPT ![s] = Opened(page.last)]
  /\ page' = [page EXCEPT !.live = s]
  /\ UNCHANGED <<path, at, log, lock, job, wire, tiles, drops>>

\* A frame is drawn unless it is on the page already.
Seen == {page.drawn[i] : i \in 1..Len(page.drawn)}

ReceiveFrame ==
  /\ wire # <<>> /\ Head(wire).event = "frame"
  /\ page' = [page EXCEPT
       !.last = Head(wire).n,
       !.drawn = IF Head(wire).n \in Seen THEN @ ELSE Append(@, Head(wire).n)]
  /\ wire' = Tail(wire)
  /\ UNCHANGED <<path, at, log, lock, job, stream, tiles, drops>>

\* A snapshot counts with GROUP BY, so that a status at zero is not in it; the
\* script writes the statuses that are, into the tiles the page has.
Written(p) == {t \in DOMAIN tiles : CountAt(p)[t] # 0}
WriteTiles(p) == tiles' = [t \in DOMAIN tiles |-> IF t \in Written(p) THEN CountAt(p)[t]
                                                               ELSE tiles[t]]

\* A mutant: the next snapshot cancels the reload the last one asked for.
SnapshotCancelsReload ==
  LET stage == StageAt(Head(wire).n) IN
  /\ wire # <<>> /\ Head(wire).event = "snapshot"
  /\ page' = [page EXCEPT
       !.shows = Head(wire).n, !.stage = stage,
       !.reload = stage # page.stage /\ stage \in Reloading]
  /\ WriteTiles(Head(wire).n)
  /\ wire' = Tail(wire)
  /\ UNCHANGED <<path, at, log, lock, job, stream, drops>>

\* The stage follows the snapshot, and so do the tiles it counts; another stage
\* may call for a reload.
ReceiveSnapshot ==
  LET stage == StageAt(Head(wire).n) IN
  /\ wire # <<>> /\ Head(wire).event = "snapshot"
  /\ page' = [page EXCEPT
       !.shows = Head(wire).n, !.stage = stage,
       !.reload = @ \/ (stage # page.stage /\ stage \in Reloading)]
  /\ WriteTiles(Head(wire).n)
  /\ wire' = Tail(wire)
  /\ UNCHANGED <<path, at, log, lock, job, stream, drops>>

ReceiveEnd ==
  /\ wire # <<>> /\ Head(wire).event = "end"
  /\ page' = [page EXCEPT !.live = Nobody]
  /\ wire' = Tail(wire)
  /\ UNCHANGED <<path, at, log, lock, job, stream, tiles, drops>>

\* The connection is lost, with all that is in flight.
Drop ==
  /\ page.live # Nobody /\ drops < MaxDrops
  /\ page' = [page EXCEPT !.live = Nobody]
  /\ wire' = <<>>
  /\ drops' = drops + 1
  /\ UNCHANGED <<path, at, log, lock, job, stream, tiles>>

-----------------------------------------------------------------------------
Emit(m) == Write(m) \/ CopyWaiters(m) \/ Done(m) \/ \E s \in Streams : Wake(m, s)
Serve(s) == Read(s) \/ TakeSnapshot(s) \/ Clear(s) \/ Woken(s) \/ Heartbeat(s) \/ Abandon(s)
Receive == ReceiveFrame \/ ReceiveSnapshot \/ ReceiveEnd

Next ==
  \/ \E m \in Emitters : Begin(m) \/ Commit(m) \/ Say(m) \/ Emit(m)
  \/ \E s \in Streams : Serve(s) \/ Connect(s)
  \/ Edit \/ Request \/ Render \/ Receive \/ Drop

Spec == Init /\ [][Next]_vars

\* The event loop serves every stream, threads finish what they report, and
\* the browser takes what arrives and connects again.  Nobody has to open the
\* page or to change a record, and no stage has to begin.
FairSpec ==
  /\ Spec
  /\ \A m \in Emitters : WF_vars(Commit(m)) /\ WF_vars(Emit(m))
  /\ \A s \in Streams : WF_vars(Serve(s))
  /\ WF_vars(\E s \in Streams : Connect(s))
  /\ WF_vars(Render) /\ WF_vars(Receive) /\ WF_vars(Request /\ page.reload)

-----------------------------------------------------------------------------
\* Every variable has its type (the tables, the generators, the browser).
TypeOK ==
  /\ path \in Paths /\ at \in Positions
  /\ log \in Seq([kind : Kinds, at : Nat])
  /\ lock \in Emitters \cup {Nobody}
  /\ job \in [Emitters -> [pc : {"idle", "work", "emit", "copy", "wake"},
                           todo : SUBSET Streams]]
  /\ stream \in [Streams -> [pc : {"closed", "read", "snapshot", "clear", "wait"},
                             cursor : Nat, woken : BOOLEAN,
                             tail : {"none", "frames", "terminal"}]]
  /\ wire \in Seq([event : {"frame", "snapshot", "end"}, n : Nat])
  /\ page \in [pc : {"away", "loading", "open"}, drawn : Seq(Nat), last : Nat,
               shows : Nat, stage : STRING, built : STRING,
               reload : BOOLEAN, live : Streams \cup {Nobody}]
  /\ DOMAIN tiles \subseteq Statuses /\ \A t \in DOMAIN tiles : tiles[t] \in Nat
  /\ drops \in Nat

\* The feed on the page is what the run recorded: each frame once, in order,
\* none skipped by a reconnection, none drawn twice by a replay, and, because
\* of the heartbeat and of Last-Event-ID, all of them in the end.  This is
\* what progress.py's header promises of `run_events`.
F == INSTANCE Feed WITH written <- Len(log), drawn <- page.drawn,
                        watched <- page.pc # "away"
FeedSpec == F!FeedSpec

\* Every tile shows the records of position p, but for one whose status has
\* none left: no snapshot can bring it back to zero.
CountsOf(p) == \A t \in DOMAIN tiles : CountAt(p)[t] \in {tiles[t], 0}

\* Once a stream rests and the page has taken all it was sent, the tiles of the
\* page were all read together, of the statuses that have records, and no
\* earlier than any frame it has drawn: nobody reads "all rows are clean"
\* beside counters from before.  It takes the snapshot being read after the
\* frames, and the frame being written after its batch.
Rests(s) == stream[s].pc \in {"clear", "wait"}
Settled == wire = <<>> /\ \E s \in Streams : page.live = s /\ Rests(s)
NoFrameAfter(p) == \A n \in Seen : log[n].at <= p

CountersMatchFeed == Settled => \E p \in Positions : NoFrameAfter(p) /\ CountsOf(p)

\* An open page comes to show the stage the run stands at and every status that
\* has records, and to have been built by the server at that stage if the stage
\* has buttons of its own: whatever was lost on the way, the button that
\* approves the push does appear.
UpToDate ==
  /\ page.pc = "open" /\ page.stage = StageAt(at) /\ CountsOf(at)
  /\ StageAt(at) \in Reloading => page.built = StageAt(at)
PageSettles == <>[](page.pc = "away" \/ UpToDate)

\* The docstring of run_events: the stream is "enhancement only: the page
\* renders the same state server-side without it" (routes.py:441).
TilesAreTheRecords ==
  Settled => \E p \in Positions :
               NoFrameAfter(p) /\ \A t \in DOMAIN tiles : tiles[t] = CountAt(p)[t]
=============================================================================
