--------------------------- MODULE ProgressProofs ---------------------------
(* Theorems about the feed and the counters of a page, and the types of all  *)
(* variables, for every value of the constants.  That all frames arrive, and *)
(* that the page settles, is liveness and stays with TLC.                    *)
EXTENDS Progress, SequenceTheorems, TLAPS

\* The part of TypeOK that the feed and the counters rest on.
Shown == {StageAt(p) : p \in Nat}

Event == [event : {"frame", "snapshot", "end"}, n : Nat]

Browser == [pc : {"away", "loading", "open"}, drawn : Seq(Nat), last : Nat,
            shows : Nat, stage : Shown, built : Shown, reload : BOOLEAN,
            live : Streams \cup {Nobody}]

Generator == [pc : {"closed", "read", "snapshot", "clear", "wait"}, cursor : Nat,
              woken : BOOLEAN, tail : {"none", "frames", "terminal"}]

FeedType ==
  /\ at \in Nat /\ log \in Seq([kind : Kinds, at : Nat])
  /\ stream \in [Streams -> Generator]
  /\ wire \in Seq(Event) /\ page \in Browser

\* A frame was written no later than the commit it follows.
LogIsPast == \A n \in 1..Len(log) : log[n].at <= at

\* Only an open page has a stream or is sent anything.
OpenPages == page.pc # "open" => wire = <<>> /\ page.live = Nobody

\* What is drawn is a beginning of the feed, and the last number received is
\* drawn.
DrawnInOrder ==
  /\ \A i \in 1..Len(page.drawn) : page.drawn[i] = i
  /\ Len(page.drawn) <= Len(log) /\ page.last <= Len(page.drawn)

\* A frame on the wire was recorded, and is drawn, or comes next, or the one
\* before it is ahead of it on the wire.
IsFrame(events, i, n) ==
  i \in 1..Len(events) /\ events[i].event = "frame" /\ events[i].n = n

WireInOrder ==
  \A i \in 1..Len(wire) : wire[i].event = "frame" =>
    /\ wire[i].n \in 1..Len(log)
    /\ \/ wire[i].n <= Len(page.drawn) + 1
       \/ \E j \in 1..(i - 1) : IsFrame(wire, j, wire[i].n - 1)

\* The stream has sent all up to its cursor.
CursorInOrder ==
  \A s \in Streams : page.live = s =>
    /\ stream[s].cursor <= Len(log)
    /\ \/ stream[s].cursor <= Len(page.drawn)
       \/ \E i \in 1..Len(wire) : IsFrame(wire, i, stream[s].cursor)

FeedInv == FeedType /\ LogIsPast /\ OpenPages /\ DrawnInOrder /\ WireInOrder /\ CursorInOrder

LEMMA FeedInit == Init => FeedInv
  <1> SUFFICES ASSUME Init PROVE FeedInv
    OBVIOUS
  <1>1. FeedType
    <2>1. StageAt(1) \in Shown
      BY DEF Shown
    <2>2. stream \in [Streams -> Generator]
      BY DEF Init, Closed, Generator
    <2>3. page \in Browser
      BY <2>1 DEF Init, Browser
    <2> QED
      BY <2>2, <2>3 DEF Init, FeedType
  <1>2. Nobody \notin Streams /\ page.live = Nobody /\ page.pc = "away" /\ page.drawn = <<>>
        /\ page.last = 0 /\ wire = <<>> /\ log = <<>>
    BY NobodyAssumption DEF Init
  <1>3. LogIsPast /\ OpenPages /\ DrawnInOrder /\ WireInOrder /\ CursorInOrder
    BY <1>2 DEF LogIsPast, OpenPages, DrawnInOrder, WireInOrder, CursorInOrder
  <1> QED
    BY <1>1, <1>3 DEF FeedInv

\* A step that leaves the page and the wire alone, and no cursor or record of
\* the run but grows.
LEMMA RunStep ==
  ASSUME FeedInv, UNCHANGED <<path, page, wire, log>>, at' \in Nat, at <= at',
         stream' \in [Streams -> Generator],
         \A s \in Streams : page.live = s =>
           stream'[s].cursor = stream[s].cursor \/ stream'[s].cursor = 0
  PROVE  FeedInv'
  <1>1. FeedType'
    BY DEF FeedInv, FeedType, Browser, Shown, StageAt
  <1>2. LogIsPast'
    <2> SUFFICES ASSUME NEW n \in 1..Len(log)
                 PROVE  log[n].at <= at'
      BY DEF LogIsPast
    <2>1. log[n] \in [kind : Kinds, at : Nat] /\ at \in Nat
      BY ElementOfSeq DEF FeedInv, FeedType
    <2> QED
      BY <2>1 DEF FeedInv, LogIsPast
  <1>3. OpenPages' /\ DrawnInOrder' /\ WireInOrder'
    BY DEF FeedInv, OpenPages, DrawnInOrder, WireInOrder, IsFrame
  <1>4. CursorInOrder'
    <2> SUFFICES ASSUME NEW s \in Streams, page.live = s
                 PROVE  /\ stream'[s].cursor <= Len(log)
                        /\ \/ stream'[s].cursor <= Len(page.drawn)
                           \/ \E i \in 1..Len(wire) : IsFrame(wire, i, stream'[s].cursor)
      BY DEF CursorInOrder, IsFrame
    <2>1. CASE stream'[s].cursor = stream[s].cursor
      BY <2>1 DEF FeedInv, CursorInOrder
    <2>2. CASE stream'[s].cursor = 0
      BY <2>2, LenProperties DEF FeedInv, FeedType, Browser
    <2> QED
      BY <2>1, <2>2
  <1> QED
    BY <1>1, <1>2, <1>3, <1>4 DEF FeedInv

LEMMA WriteStep ==
  ASSUME FeedInv, NEW m \in Emitters, Write(m)
  PROVE  FeedInv' /\ Len(log') = Len(log) + 1
  <1>1. PICK k \in Kinds : log' = Append(log, [kind |-> k, at |-> at])
    BY DEF Write
  <1>2. UNCHANGED <<path, at, stream, wire, page>>
    BY DEF Write
  <1>3. /\ log' \in Seq([kind : Kinds, at : Nat]) /\ Len(log') = Len(log) + 1
        /\ \A n \in 1..Len(log) : log'[n] = log[n]
        /\ log'[Len(log) + 1] = [kind |-> k, at |-> at]
        /\ Len(log) \in Nat
    BY <1>1 DEF FeedInv, FeedType
  <1>4. FeedType'
    BY <1>2, <1>3 DEF FeedInv, FeedType, Browser, Shown, StageAt
  <1>5. LogIsPast'
    <2> SUFFICES ASSUME NEW n \in 1..Len(log')
                 PROVE  log'[n].at <= at
      BY <1>2 DEF LogIsPast
    <2>1. n \in 1..Len(log) \/ n = Len(log) + 1
      BY <1>3
    <2>2. at \in Nat
      BY DEF FeedInv, FeedType
    <2> QED
      BY <1>3, <2>1, <2>2 DEF FeedInv, LogIsPast
  <1>6. OpenPages' /\ DrawnInOrder'
    <2>1. Len(page.drawn) \in Nat
      BY DEF FeedInv, FeedType, Browser
    <2> QED
      BY <1>2, <1>3, <2>1 DEF FeedInv, OpenPages, DrawnInOrder
  <1>7. WireInOrder'
    BY <1>2, <1>3 DEF FeedInv, WireInOrder, IsFrame
  <1>8. CursorInOrder'
    <2>1. \A s \in Streams : stream[s].cursor \in Nat
      BY DEF FeedInv, FeedType, Generator
    <2> QED
      BY <1>2, <1>3, <2>1 DEF FeedInv, CursorInOrder, IsFrame
  <1> QED
    BY <1>3, <1>4, <1>5, <1>6, <1>7, <1>8 DEF FeedInv

\* The steps of RunStep, and what each does to the cursors.
Quietly ==
  \/ \E m \in Emitters : \/ Begin(m) \/ Commit(m) \/ Say(m) \/ CopyWaiters(m) \/ Done(m)
                         \/ \E s \in Streams : Wake(m, s)
  \/ \E s \in Streams : Clear(s) \/ Woken(s) \/ Heartbeat(s) \/ Abandon(s)
  \/ Edit

LEMMA QuietStep ==
  ASSUME FeedInv, Quietly
  PROVE  FeedInv' /\ UNCHANGED <<path, log, wire, page>>
  <1>1. ASSUME NEW m \in Emitters,
               \/ Begin(m) \/ Commit(m) \/ Say(m) \/ CopyWaiters(m) \/ Done(m)
        PROVE  FeedInv' /\ UNCHANGED <<path, log, wire, page>>
    <2>1. /\ UNCHANGED <<path, page, wire, log, stream>> /\ at \in Nat
          /\ at' = at \/ at' = at + 1
      BY <1>1 DEF Begin, Commit, Say, CopyWaiters, Done, FeedInv, FeedType
    <2>2. at' \in Nat /\ at <= at' /\ stream' \in [Streams -> Generator]
      BY <2>1 DEF FeedInv, FeedType
    <2> QED
      BY <2>1, <2>2, RunStep
  <1>2. ASSUME NEW s \in Streams, NEW g \in Generator, g.cursor \in {0, stream[s].cursor},
               stream' = [stream EXCEPT ![s] = g], UNCHANGED <<path, page, wire, log, at>>
        PROVE  FeedInv' /\ UNCHANGED <<path, log, wire, page>>
    <2>1. stream \in [Streams -> Generator] /\ at \in Nat
      BY DEF FeedInv, FeedType
    <2>2. stream' \in [Streams -> Generator] /\ at' \in Nat /\ at <= at'
      BY <1>2, <2>1
    <2>3. \A t \in Streams : stream'[t].cursor = stream[t].cursor \/ stream'[t].cursor = 0
      BY <1>2, <2>1
    <2> QED
      BY <1>2, <2>2, <2>3, RunStep
  <1>3. \A s \in Streams : stream[s] \in Generator
    BY DEF FeedInv, FeedType
  <1>4. ASSUME NEW m \in Emitters, NEW s \in Streams, Wake(m, s)
        PROVE  FeedInv' /\ UNCHANGED <<path, log, wire, page>>
    <2> DEFINE g == [stream[s] EXCEPT !.woken = TRUE]
    <2>1. stream' = [stream EXCEPT ![s] = g] /\ UNCHANGED <<path, page, wire, log, at>>
      BY <1>4 DEF Wake
    <2>2. g \in Generator /\ g.cursor = stream[s].cursor
      BY <1>3 DEF Generator
    <2> QED
      BY <1>2, <2>1, <2>2
  <1>5. ASSUME NEW s \in Streams, Clear(s) PROVE FeedInv' /\ UNCHANGED <<path, log, wire, page>>
    <2> DEFINE g == [stream[s] EXCEPT !.woken = FALSE, !.pc = "wait", !.tail = "none"]
    <2>1. stream' = [stream EXCEPT ![s] = g] /\ UNCHANGED <<path, page, wire, log, at>>
      BY <1>3, <1>5 DEF Clear
    <2>2. g \in Generator /\ g.cursor = stream[s].cursor
      BY <1>3 DEF Generator
    <2> QED
      BY <1>2, <2>1, <2>2
  <1>6. ASSUME NEW s \in Streams, Woken(s) \/ Heartbeat(s)
        PROVE  FeedInv' /\ UNCHANGED <<path, log, wire, page>>
    <2> DEFINE g == [stream[s] EXCEPT !.pc = "read"]
    <2>1. stream' = [stream EXCEPT ![s] = g] /\ UNCHANGED <<path, page, wire, log, at>>
      BY <1>6 DEF Woken, Heartbeat
    <2>2. g \in Generator /\ g.cursor = stream[s].cursor
      BY <1>3 DEF Generator
    <2> QED
      BY <1>2, <2>1, <2>2
  <1>7. ASSUME NEW s \in Streams, Abandon(s) PROVE FeedInv' /\ UNCHANGED <<path, log, wire, page>>
    <2>1. stream' = [stream EXCEPT ![s] = Closed] /\ UNCHANGED <<path, page, wire, log, at>>
      BY <1>7 DEF Abandon
    <2>2. Closed \in Generator /\ Closed.cursor = 0
      BY DEF Closed, Generator
    <2> QED
      BY <1>2, <2>1, <2>2
  <1>8. CASE Edit
    <2>1. UNCHANGED <<path, page, wire, log, stream>> /\ at \in Nat /\ at' = at + 1
      BY <1>8 DEF Edit, FeedInv, FeedType
    <2>2. at' \in Nat /\ at <= at' /\ stream' \in [Streams -> Generator]
      BY <2>1 DEF FeedInv, FeedType
    <2> QED
      BY <2>1, <2>2, RunStep
  <1> QED
    BY <1>1, <1>4, <1>5, <1>6, <1>7, <1>8 DEF Quietly

\* A sequence given by its elements.
LEMMA SequenceOf ==
  ASSUME NEW S, NEW k \in Nat, NEW f \in [1..k -> S]
  PROVE  f \in Seq(S) /\ Len(f) = k
  <1>1. f \in Seq(S)
    BY SeqDef
  <1> QED
    BY <1>1, LenProperties

LEMMA ReadStep ==
  ASSUME FeedInv, NEW s \in Streams, Read(s)
  PROVE  FeedInv' /\ UNCHANGED <<path, log, page>>
  <1> DEFINE c == stream[s].cursor
             upto == Min2(c + PageSize, Len(log))
             new == [i \in 1..(upto - c) |-> Frame(c + i)]
  <1>1. /\ c \in Nat /\ Len(log) \in Nat /\ Len(wire) \in Nat /\ Len(page.drawn) \in Nat
        /\ wire \in Seq(Event) /\ stream[s] \in Generator
    BY LenProperties DEF FeedInv, FeedType, Browser, Generator
  <1>2. c <= Len(log) /\ (c <= Len(page.drawn) \/ \E i \in 1..Len(wire) : IsFrame(wire, i, c))
    BY DEF FeedInv, CursorInOrder, Read
  <1>3. upto \in Nat /\ c <= upto /\ upto <= Len(log) /\ upto - c \in Nat
    BY <1>1, <1>2, SizesAssumption DEF Min2
  <1>4. \A i \in 1..(upto - c) : Frame(c + i) \in Event
    BY <1>1, <1>3 DEF Frame, Event
  <1>5. /\ wire' = wire \o new /\ UNCHANGED <<path, at, log, page>>
        /\ page.live = s
    BY DEF Read
  <1>6. stream' = [stream EXCEPT ![s] = [stream[s] EXCEPT
          !.pc = "snapshot", !.cursor = upto,
          !.tail = IF upto = c THEN "none"
                   ELSE IF log[upto].kind \in Terminal THEN "terminal" ELSE "frames"]]
    BY <1>1 DEF Read, FeedInv, FeedType
  <1> HIDE DEF c, upto
  <1>7. new \in [1..(upto - c) -> Event]
    BY <1>4
  <1>8. /\ new \in Seq(Event) /\ Len(new) = upto - c
        /\ \A i \in 1..(upto - c) : new[i].event = "frame" /\ new[i].n = c + i
    BY <1>3, <1>7, SequenceOf DEF Frame
  <1> HIDE DEF new
  <1>9. /\ wire' \in Seq(Event) /\ Len(wire') = Len(wire) + (upto - c)
        /\ \A i \in 1..Len(wire) : wire'[i] = wire[i]
        /\ \A i \in 1..(upto - c) : wire'[Len(wire) + i] = new[i]
    <2>1. /\ wire' \in Seq(Event) /\ Len(wire') = Len(wire) + Len(new)
          /\ \A i \in 1..Len(wire) + Len(new) :
               wire'[i] = IF i <= Len(wire) THEN wire[i] ELSE new[i - Len(wire)]
      BY <1>1, <1>5, <1>8, ConcatProperties
    <2>2. \A i \in 1..Len(wire) : wire'[i] = wire[i]
      BY <1>1, <1>3, <1>8, <2>1
    <2>3. ASSUME NEW i \in 1..(upto - c) PROVE wire'[Len(wire) + i] = new[i]
      <3>1. /\ Len(wire) + i \in 1..(Len(wire) + Len(new)) /\ ~(Len(wire) + i <= Len(wire))
            /\ (Len(wire) + i) - Len(wire) = i
        BY <1>1, <1>3, <1>8
      <3> QED
        BY <2>1, <3>1
    <2> QED
      BY <1>8, <2>1, <2>2, <2>3
  <1>10. stream'[s].cursor = upto /\ stream' \in [Streams -> Generator]
    BY <1>1, <1>3, <1>6 DEF Generator, FeedInv, FeedType
  <1>11. \A i \in 1..Len(wire) : \A n : IsFrame(wire, i, n) => IsFrame(wire', i, n)
    BY <1>1, <1>3, <1>9 DEF IsFrame
  <1>12. \A i \in 1..(upto - c) : IsFrame(wire', Len(wire) + i, c + i)
    <2> SUFFICES ASSUME NEW i \in 1..(upto - c)
                 PROVE  IsFrame(wire', Len(wire) + i, c + i)
      OBVIOUS
    <2>1. Len(wire) + i \in 1..Len(wire')
      BY <1>1, <1>3, <1>9
    <2>2. wire'[Len(wire) + i] = new[i]
      BY <1>9
    <2>3. new[i].event = "frame" /\ new[i].n = c + i
      BY <1>8
    <2> QED
      BY <2>1, <2>2, <2>3 DEF IsFrame
  <1>13. WireInOrder'
    <2> SUFFICES ASSUME NEW i \in 1..Len(wire'), wire'[i].event = "frame"
                 PROVE  /\ wire'[i].n \in 1..Len(log)
                        /\ \/ wire'[i].n <= Len(page.drawn) + 1
                           \/ \E j \in 1..(i - 1) : IsFrame(wire', j, wire'[i].n - 1)
      BY <1>5 DEF WireInOrder, IsFrame
    <2>1. CASE i \in 1..Len(wire)
      <3>1. wire'[i] = wire[i]
        BY <1>9, <2>1
      <3>2. /\ wire[i].n \in 1..Len(log)
            /\ \/ wire[i].n <= Len(page.drawn) + 1
               \/ \E j \in 1..(i - 1) : IsFrame(wire, j, wire[i].n - 1)
        BY <2>1, <3>1 DEF FeedInv, WireInOrder
      <3> QED
        BY <1>1, <1>11, <2>1, <3>1, <3>2
    <2>2. CASE i \notin 1..Len(wire)
      <3>1. PICK k \in 1..(upto - c) : i = Len(wire) + k
        <4>1. i - Len(wire) \in 1..(upto - c) /\ i = Len(wire) + (i - Len(wire))
          BY <1>1, <1>3, <1>9, <2>2
        <4> QED
          BY <4>1
      <3>2. wire'[i].n = c + k
        BY <1>8, <1>9, <3>1
      <3>3. c + k \in 1..Len(log)
        BY <1>1, <1>3
      <3>4. CASE k = 1
        BY <1>1, <1>2, <1>11, <3>1, <3>2, <3>3, <3>4
      <3>5. CASE k # 1
        <4>1. /\ k - 1 \in 1..(upto - c) /\ Len(wire) + (k - 1) \in 1..(i - 1)
              /\ c + (k - 1) = (c + k) - 1
          BY <1>1, <1>3, <3>1, <3>5
        <4>2. IsFrame(wire', Len(wire) + (k - 1), c + (k - 1))
          BY <1>12, <4>1
        <4>3. \E j \in 1..(i - 1) : IsFrame(wire', j, (c + k) - 1)
          BY <4>1, <4>2
        <4> QED
          BY <3>2, <3>3, <4>3
      <3> QED
        BY <3>4, <3>5
    <2> QED
      BY <2>1, <2>2
  <1>14. CursorInOrder'
    <2> SUFFICES \/ upto <= Len(page.drawn)
                 \/ \E i \in 1..Len(wire') : IsFrame(wire', i, upto)
      BY <1>3, <1>5, <1>10 DEF CursorInOrder, IsFrame
    <2>1. CASE upto = c
      BY <1>1, <1>2, <1>9, <1>11, <2>1
    <2>2. CASE upto # c
      <3>1. /\ upto - c \in 1..(upto - c) /\ c + (upto - c) = upto
            /\ Len(wire) + (upto - c) \in 1..Len(wire')
        BY <1>1, <1>3, <1>9, <2>2
      <3> QED
        BY <1>12, <3>1
    <2> QED
      BY <2>1, <2>2
  <1>15. FeedType' /\ LogIsPast' /\ DrawnInOrder'
    BY <1>5, <1>9, <1>10 DEF FeedInv, FeedType, LogIsPast, DrawnInOrder, Browser, Shown, StageAt
  <1>16. OpenPages'
    BY <1>5, NobodyAssumption DEF FeedInv, OpenPages
  <1> QED
    BY <1>5, <1>13, <1>14, <1>15, <1>16 DEF FeedInv

\* What is put behind everything else on the wire, and is no frame, moves
\* nothing.
LEMMA SendStep ==
  ASSUME FeedInv, UNCHANGED <<path, at, log, page>>,
         NEW more \in Seq(Event), \A i \in 1..Len(more) : more[i].event # "frame",
         wire' = wire \o more, page.pc = "open",
         stream' \in [Streams -> Generator],
         \A s \in Streams : page.live = s =>
           stream'[s].cursor = stream[s].cursor \/ stream'[s].cursor = 0
  PROVE  FeedInv'
  <1>1. Len(wire) \in Nat /\ Len(more) \in Nat /\ wire \in Seq(Event)
        /\ Len(page.drawn) \in Nat /\ Len(log) \in Nat
    BY LenProperties DEF FeedInv, FeedType, Browser
  <1>2. /\ wire' \in Seq(Event) /\ Len(wire') = Len(wire) + Len(more)
        /\ \A i \in 1..Len(wire) + Len(more) :
             wire'[i] = IF i <= Len(wire) THEN wire[i] ELSE more[i - Len(wire)]
    BY <1>1, ConcatProperties
  <1>3. \A i \in 1..Len(wire) : wire'[i] = wire[i]
    BY <1>1, <1>2
  <1>4. \A i \in 1..Len(wire') : wire'[i].event = "frame" => i \in 1..Len(wire)
    <2> SUFFICES ASSUME NEW i \in 1..Len(wire'), i \notin 1..Len(wire)
                 PROVE  wire'[i].event # "frame"
      OBVIOUS
    <2>1. i - Len(wire) \in 1..Len(more) /\ ~(i <= Len(wire))
      BY <1>1, <1>2
    <2> QED
      BY <1>2, <2>1
  <1>5. \A i, n : IsFrame(wire, i, n) => IsFrame(wire', i, n)
    BY <1>1, <1>2, <1>3 DEF IsFrame
  <1>6. WireInOrder'
    BY <1>3, <1>4, <1>5 DEF FeedInv, WireInOrder
  <1>7. CursorInOrder'
    <2> SUFFICES ASSUME NEW s \in Streams, page.live = s
                 PROVE  /\ stream'[s].cursor <= Len(log)
                        /\ \/ stream'[s].cursor <= Len(page.drawn)
                           \/ \E i \in 1..Len(wire') : IsFrame(wire', i, stream'[s].cursor)
      BY DEF CursorInOrder
    <2>1. CASE stream'[s].cursor = 0
      BY <1>1, <2>1
    <2>2. CASE stream'[s].cursor = stream[s].cursor
      BY <1>1, <1>2, <1>5, <2>2 DEF FeedInv, CursorInOrder
    <2> QED
      BY <2>1, <2>2
  <1>8. FeedType' /\ LogIsPast' /\ DrawnInOrder' /\ OpenPages'
    BY <1>2 DEF FeedInv, FeedType, LogIsPast, DrawnInOrder, OpenPages, Browser, Shown, StageAt
  <1> QED
    BY <1>6, <1>7, <1>8 DEF FeedInv

LEMMA TakeSnapshotStep ==
  ASSUME FeedInv, NEW s \in Streams, TakeSnapshot(s)
  PROVE  FeedInv' /\ UNCHANGED <<path, log, page>>
  <1>1. /\ UNCHANGED <<path, at, log, page>> /\ page.live = s /\ at \in Nat
        /\ stream \in [Streams -> Generator] /\ wire \in Seq(Event)
    BY DEF TakeSnapshot, FeedInv, FeedType
  <1>2. page.pc = "open"
    BY <1>1, NobodyAssumption DEF FeedInv, OpenPages
  <1>3. Snapshot(at) \in Event /\ End \in Event
        /\ Snapshot(at).event = "snapshot" /\ End.event = "end"
    BY <1>1 DEF Snapshot, End, Event
  <1>4. CASE wire' = wire \o <<Snapshot(at), End>> /\ stream' = [stream EXCEPT ![s] = Closed]
    <2>1. Closed \in Generator /\ Closed.cursor = 0
      BY DEF Closed, Generator
    <2>2. stream' \in [Streams -> Generator] /\ stream'[s].cursor = 0
      BY <1>1, <1>4, <2>1
    <2> DEFINE more == <<Snapshot(at), End>>
    <2>3. more \in Seq(Event) /\ \A i \in 1..Len(more) : more[i].event # "frame"
      BY <1>3
    <2> HIDE DEF more
    <2>4. wire' = wire \o more
      BY <1>4 DEF more
    <2> QED
      BY <1>1, <1>2, <2>2, <2>3, <2>4, SendStep
  <1>5. CASE wire' = Append(wire, Snapshot(at)) /\ stream' = [stream EXCEPT ![s].pc = "clear"]
    <2>1. stream' \in [Streams -> Generator] /\ stream'[s].cursor = stream[s].cursor
      BY <1>1, <1>5 DEF Generator
    <2> DEFINE more == <<Snapshot(at)>>
    <2>2. more \in Seq(Event) /\ \A i \in 1..Len(more) : more[i].event # "frame"
      BY <1>3
    <2>3. wire' = wire \o more
      BY <1>1, <1>3, <1>5, AppendIsConcat
    <2> HIDE DEF more
    <2> QED
      BY <1>1, <1>2, <2>1, <2>2, <2>3, SendStep
  <1> QED
    BY <1>1, <1>4, <1>5 DEF TakeSnapshot

-----------------------------------------------------------------------------
(* The page. *)

\* Nothing is under way between the request and the page, or after a loss.
LEMMA LoadStep ==
  ASSUME FeedInv, Request \/ Drop
  PROVE  FeedInv' /\ UNCHANGED <<path, log, page.drawn>> /\ page'.live = Nobody
         /\ (page.pc # "away" => page'.pc # "away")
  <1>1. /\ UNCHANGED <<path, at, log, stream>> /\ wire' = <<>>
        /\ page \in Browser /\ at \in Nat /\ StageAt(at) \in Shown
    BY DEF Request, Drop, FeedInv, FeedType, Shown
  <1>2. /\ page' \in Browser /\ page'.drawn = page.drawn /\ page'.last = page.last
        /\ page'.live = Nobody /\ (page'.pc = page.pc \/ page'.pc = "loading")
    <2>1. CASE Request
      BY <1>1, <2>1 DEF Request, Browser
    <2>2. CASE Drop
      BY <1>1, <2>2 DEF Drop, Browser
    <2> QED
      BY <2>1, <2>2
  <1>3. FeedType' /\ LogIsPast' /\ OpenPages' /\ DrawnInOrder'
    BY <1>1, <1>2 DEF FeedInv, FeedType, LogIsPast, OpenPages, DrawnInOrder, Browser, Shown, StageAt
  <1>4. Len(wire') = 0
    BY <1>1
  <1>5. WireInOrder' /\ CursorInOrder'
    BY <1>1, <1>2, <1>4, NobodyAssumption DEF WireInOrder, CursorInOrder
  <1> QED
    BY <1>1, <1>2, <1>3, <1>5 DEF FeedInv

LEMMA RenderStep ==
  ASSUME FeedInv, Render
  PROVE  /\ FeedInv' /\ UNCHANGED <<path, log>>
         /\ page.pc = "loading" /\ page'.pc = "open" /\ page'.live = Nobody
         /\ \E k \in 0..Len(log) : page'.drawn = [i \in 1..k |-> i]
  <1> DEFINE k == Min2(Rendered, Len(log))
             first == [i \in 1..k |-> i]
  <1>1. /\ UNCHANGED <<path, at, log, stream, wire>> /\ page \in Browser
        /\ page.pc = "loading" /\ wire = <<>> /\ page.live = Nobody
        /\ page' = [page EXCEPT !.pc = "open", !.last = 0, !.drawn = first]
    BY DEF Render, FeedInv, FeedType, OpenPages
  <1>2. Len(log) \in Nat /\ k \in 0..Len(log)
    <2>1. Len(log) \in Nat
      BY LenProperties DEF FeedInv, FeedType
    <2> QED
      BY <2>1, SizesAssumption DEF Min2
  <1> HIDE DEF k
  <1>3. first \in Seq(Nat) /\ Len(first) = k /\ \A i \in 1..k : first[i] = i
    <2>1. first \in [1..k -> Nat] /\ k \in Nat
      BY <1>2
    <2> QED
      BY <2>1, SequenceOf
  <1>4. page'.drawn = first
    BY <1>1 DEF Browser
  <1> HIDE DEF first
  <1>5. /\ page' \in Browser /\ page'.drawn = first /\ page'.last = 0
        /\ page'.live = Nobody /\ page'.pc = "open"
    BY <1>1, <1>3 DEF Browser
  <1>6. FeedType' /\ LogIsPast' /\ OpenPages'
    BY <1>1, <1>5 DEF FeedInv, FeedType, LogIsPast, OpenPages, Browser, Shown, StageAt
  <1>7. DrawnInOrder'
    BY <1>1, <1>2, <1>3, <1>5 DEF DrawnInOrder
  <1>8. Len(wire') = 0
    BY <1>1
  <1>9. WireInOrder' /\ CursorInOrder'
    BY <1>1, <1>5, <1>8, NobodyAssumption DEF WireInOrder, CursorInOrder
  <1> QED
    BY <1>1, <1>2, <1>4, <1>5, <1>6, <1>7, <1>9 DEF FeedInv, first

LEMMA ConnectStep ==
  ASSUME FeedInv, NEW s \in Streams, Connect(s)
  PROVE  FeedInv' /\ UNCHANGED <<path, log, page.drawn, page.pc>> /\ stream'[s].pc = "read"
         /\ page'.live = s
  <1>1. /\ UNCHANGED <<path, at, log, wire>> /\ page \in Browser /\ page.pc = "open"
        /\ page' = [page EXCEPT !.live = s] /\ stream \in [Streams -> Generator]
        /\ stream' = [stream EXCEPT ![s] = Opened(page.last)]
    BY DEF Connect, FeedInv, FeedType
  <1>2. /\ Opened(page.last) \in Generator /\ Opened(page.last).cursor = page.last
        /\ Opened(page.last).pc = "read"
    BY <1>1 DEF Opened, Closed, Generator, Browser
  <1>3. /\ stream' \in [Streams -> Generator] /\ stream'[s].cursor = page.last
        /\ stream'[s].pc = "read"
    BY <1>1, <1>2
  <1>4. /\ page' \in Browser /\ page'.drawn = page.drawn /\ page'.last = page.last
        /\ page'.live = s /\ page'.pc = "open"
    BY <1>1 DEF Browser
  <1>5. FeedType' /\ LogIsPast' /\ OpenPages' /\ DrawnInOrder'
    BY <1>1, <1>3, <1>4 DEF FeedInv, FeedType, LogIsPast, OpenPages, DrawnInOrder,
                            Browser, Shown, StageAt
  <1>6. WireInOrder'
    BY <1>1, <1>4 DEF FeedInv, WireInOrder
  <1>7. CursorInOrder'
    <2>1. page.last <= Len(page.drawn) /\ Len(page.drawn) <= Len(log)
      BY DEF FeedInv, DrawnInOrder
    <2>2. page.last \in Nat /\ Len(page.drawn) \in Nat /\ Len(log) \in Nat
      BY LenProperties DEF FeedInv, FeedType, Browser
    <2> QED
      BY <1>1, <1>3, <1>4, <2>1, <2>2 DEF CursorInOrder
  <1> QED
    BY <1>1, <1>3, <1>4, <1>5, <1>6, <1>7 DEF FeedInv

\* Taking the first event off the wire.
LEMMA TakeOff ==
  ASSUME FeedInv, wire # <<>>
  PROVE  /\ Head(wire) = wire[1] /\ wire[1] \in Event /\ Len(wire) \in Nat \ {0}
         /\ Tail(wire) \in Seq(Event) /\ Len(Tail(wire)) = Len(wire) - 1
         /\ \A i \in 1..(Len(wire) - 1) : Tail(wire)[i] = wire[i + 1]
         /\ page.pc = "open"
  <1>1. wire \in Seq(Event)
    BY DEF FeedInv, FeedType
  <1>2. page.pc = "open"
    BY DEF FeedInv, OpenPages, FeedType, Browser
  <1>3. Len(wire) \in Nat \ {0} /\ wire[1] \in Event
    BY <1>1, EmptySeq, ElementOfSeq
  <1>4. Head(wire) = wire[1] /\ Tail(wire) \in Seq(Event) /\ Len(Tail(wire)) = Len(wire) - 1
    BY <1>1, HeadTailProperties
  <1>5. \A i \in 1..(Len(wire) - 1) : Tail(wire)[i] = wire[i + 1]
    BY <1>1, <1>3
  <1> QED
    BY <1>2, <1>3, <1>4, <1>5

LEMMA ReceiveStep ==
  ASSUME FeedInv, wire # <<>>, wire' = Tail(wire), UNCHANGED <<path, at, log, stream>>,
         page' \in Browser, page'.pc = "open", page'.live \in {page.live, Nobody},
         Len(page.drawn) <= Len(page'.drawn), DrawnInOrder',
         wire[1].event = "frame" => wire[1].n <= Len(page'.drawn)
  PROVE  FeedInv'
  <1>1. /\ Len(wire) \in Nat \ {0} /\ wire' \in Seq(Event) /\ Len(wire') = Len(wire) - 1
        /\ \A i \in 1..(Len(wire) - 1) : wire'[i] = wire[i + 1]
    BY TakeOff
  <1>2. /\ Len(page.drawn) \in Nat /\ Len(page'.drawn) \in Nat /\ Len(log) \in Nat
        /\ wire \in Seq(Event)
    BY LenProperties DEF FeedInv, FeedType, Browser
  \* What was ahead of the head is drawn, the rest is one place nearer.
  <1>3. ASSUME NEW i \in 1..Len(wire), NEW n \in Nat, IsFrame(wire, i, n)
        PROVE  n <= Len(page'.drawn) \/ (i - 1 \in 1..Len(wire') /\ IsFrame(wire', i - 1, n))
    <2>1. CASE i = 1
      BY <1>3, <2>1 DEF IsFrame
    <2>2. CASE i # 1
      <3>1. /\ i - 1 \in 1..(Len(wire) - 1) /\ (i - 1) + 1 = i /\ i - 1 \in 1..Len(wire')
        BY <1>1, <2>2
      <3>2. wire'[i - 1] = wire[i]
        BY <1>1, <3>1
      <3> QED
        BY <1>3, <3>1, <3>2 DEF IsFrame
    <2> QED
      BY <2>1, <2>2
  <1>4. WireInOrder'
    <2> SUFFICES ASSUME NEW i \in 1..Len(wire'), wire'[i].event = "frame"
                 PROVE  /\ wire'[i].n \in 1..Len(log)
                        /\ \/ wire'[i].n <= Len(page'.drawn) + 1
                           \/ \E j \in 1..(i - 1) : IsFrame(wire', j, wire'[i].n - 1)
      BY DEF WireInOrder
    <2>1. i \in 1..(Len(wire) - 1) /\ i + 1 \in 1..Len(wire) /\ wire'[i] = wire[i + 1]
      BY <1>1
    <2>2. /\ wire'[i].n \in 1..Len(log)
          /\ \/ wire'[i].n <= Len(page.drawn) + 1
             \/ \E j \in 1..((i + 1) - 1) : IsFrame(wire, j, wire'[i].n - 1)
      BY <2>1 DEF FeedInv, WireInOrder
    <2>3. CASE wire'[i].n <= Len(page.drawn) + 1
      BY <1>2, <2>2, <2>3
    <2>4. ASSUME NEW j \in 1..((i + 1) - 1), IsFrame(wire, j, wire'[i].n - 1)
          PROVE  \/ wire'[i].n <= Len(page'.drawn) + 1
                 \/ \E l \in 1..(i - 1) : IsFrame(wire', l, wire'[i].n - 1)
      <3>1. wire'[i].n - 1 \in Nat /\ j \in 1..Len(wire)
        BY <1>1, <1>2, <2>1, <2>2
      <3>2. \/ wire'[i].n - 1 <= Len(page'.drawn)
            \/ j - 1 \in 1..Len(wire') /\ IsFrame(wire', j - 1, wire'[i].n - 1)
        BY <1>3, <2>4, <3>1
      <3>3. j - 1 \in 1..Len(wire') => j - 1 \in 1..(i - 1)
        BY <1>1, <2>1
      <3> QED
        BY <1>2, <2>2, <3>2, <3>3
    <2> QED
      BY <2>2, <2>3, <2>4
  <1>5. CursorInOrder'
    <2> SUFFICES ASSUME NEW s \in Streams, page'.live = s
                 PROVE  /\ stream[s].cursor <= Len(log)
                        /\ \/ stream[s].cursor <= Len(page'.drawn)
                           \/ \E i \in 1..Len(wire') : IsFrame(wire', i, stream[s].cursor)
      BY DEF CursorInOrder
    <2>1. page.live = s /\ stream[s].cursor \in Nat
      BY NobodyAssumption DEF FeedInv, FeedType, Generator
    <2>2. /\ stream[s].cursor <= Len(log)
          /\ \/ stream[s].cursor <= Len(page.drawn)
             \/ \E i \in 1..Len(wire) : IsFrame(wire, i, stream[s].cursor)
      BY <2>1 DEF FeedInv, CursorInOrder
    <2>3. CASE stream[s].cursor <= Len(page.drawn)
      BY <1>2, <2>1, <2>2, <2>3
    <2>4. CASE \E i \in 1..Len(wire) : IsFrame(wire, i, stream[s].cursor)
      BY <1>3, <2>1, <2>2, <2>4
    <2> QED
      BY <2>2, <2>3, <2>4
  <1>6. FeedType' /\ LogIsPast' /\ OpenPages'
    BY <1>1 DEF FeedInv, FeedType, LogIsPast, OpenPages, Browser, Shown, StageAt
  <1> QED
    BY <1>4, <1>5, <1>6 DEF FeedInv

\* A frame that arrives is drawn already, or is the next one.
LEMMA ReceiveFrameStep ==
  ASSUME FeedInv, ReceiveFrame
  PROVE  /\ FeedInv' /\ UNCHANGED <<path, log, page.pc, page.live, page.shows>>
         /\ \/ page'.drawn = page.drawn
            \/ /\ Len(page.drawn) < Len(log)
               /\ page'.drawn = Append(page.drawn, Len(page.drawn) + 1)
         /\ Len(page'.drawn) \in Nat
         /\ \A i \in 1..Len(page'.drawn) : i <= Len(page.drawn) \/ IsFrame(wire, 1, i)
  <1> DEFINE n == wire[1].n
             drawn == IF n \in Seen THEN page.drawn ELSE Append(page.drawn, n)
  <1>1. /\ wire # <<>> /\ wire[1].event = "frame" /\ wire' = Tail(wire)
        /\ UNCHANGED <<path, at, log, stream>> /\ page \in Browser /\ page.pc = "open"
        /\ wire[1] \in Event /\ Len(wire) \in Nat \ {0}
        /\ page' = [page EXCEPT !.last = n, !.drawn = drawn]
    BY TakeOff DEF ReceiveFrame, FeedInv, FeedType
  <1>2. /\ n \in 1..Len(log) /\ n <= Len(page.drawn) + 1 /\ n \in Nat
        /\ Len(page.drawn) \in Nat /\ Len(log) \in Nat /\ page.drawn \in Seq(Nat)
    <2>1. 1 \in 1..Len(wire) /\ ~ \E j \in 1..(1 - 1) : TRUE
      BY <1>1
    <2>2. Len(page.drawn) \in Nat /\ Len(log) \in Nat /\ page.drawn \in Seq(Nat)
      BY <1>1, LenProperties DEF FeedInv, FeedType, Browser
    <2> QED
      BY <1>1, <2>1, <2>2 DEF FeedInv, WireInOrder, Event
  <1>3. \A i \in 1..Len(page.drawn) : page.drawn[i] = i
    BY DEF FeedInv, DrawnInOrder
  <1>4. n \in Seen <=> n <= Len(page.drawn)
    BY <1>2, <1>3 DEF Seen
  <1>5. IsFrame(wire, 1, n)
    BY <1>1 DEF IsFrame
  <1> HIDE DEF n
  <1>6. /\ drawn \in Seq(Nat) /\ Len(drawn) \in Nat
        /\ Len(page.drawn) <= Len(drawn) /\ Len(drawn) <= Len(log) /\ n <= Len(drawn)
        /\ \A i \in 1..Len(drawn) : drawn[i] = i /\ (i <= Len(page.drawn) \/ i = n)
        /\ \/ drawn = page.drawn
           \/ Len(page.drawn) < Len(log) /\ drawn = Append(page.drawn, Len(page.drawn) + 1)
    <2>1. CASE n \in Seen
      <3>1. Len(page.drawn) <= Len(log)
        BY DEF FeedInv, DrawnInOrder
      <3> QED
        BY <1>2, <1>3, <1>4, <2>1, <3>1
    <2>2. CASE n \notin Seen
      <3>1. n = Len(page.drawn) + 1
        BY <1>2, <1>4, <2>2
      <3>2. /\ drawn = Append(page.drawn, n) /\ drawn \in Seq(Nat)
            /\ Len(drawn) = Len(page.drawn) + 1
            /\ \A i \in 1..Len(page.drawn) : drawn[i] = page.drawn[i]
            /\ drawn[Len(page.drawn) + 1] = n
        BY <1>2, <2>2, AppendProperties
      <3> HIDE DEF drawn
      <3> QED
        BY <1>2, <1>3, <3>1, <3>2
    <2> QED
      BY <2>1, <2>2
  <1> HIDE DEF drawn
  <1>7. /\ page' \in Browser /\ page'.drawn = drawn /\ page'.last = n
        /\ page'.pc = page.pc /\ page'.live = page.live /\ page'.shows = page.shows
    BY <1>1, <1>2, <1>6 DEF Browser
  <1>8. DrawnInOrder'
    BY <1>1, <1>6, <1>7 DEF DrawnInOrder
  <1>9. FeedInv'
    BY <1>1, <1>6, <1>7, <1>8, ReceiveStep DEF n
  <1> QED
    BY <1>1, <1>5, <1>6, <1>7, <1>9

LEMMA ReceiveOtherStep ==
  ASSUME FeedInv, ReceiveSnapshot \/ ReceiveEnd
  PROVE  /\ FeedInv' /\ UNCHANGED <<path, log, page.pc, page.drawn>>
         /\ wire # <<>> /\ wire[1].event # "frame" /\ wire' = Tail(wire)
         /\ ReceiveSnapshot => page'.live = page.live /\ page'.shows = wire[1].n
         /\ ReceiveEnd => page'.live = Nobody
  <1>1. /\ wire # <<>> /\ wire' = Tail(wire) /\ UNCHANGED <<path, at, log, stream>>
        /\ page \in Browser /\ page.pc = "open" /\ wire[1] \in Event /\ Head(wire) = wire[1]
    BY TakeOff DEF ReceiveSnapshot, ReceiveEnd, FeedInv, FeedType
  <1>2. wire[1].n \in Nat /\ StageAt(wire[1].n) \in Shown
    BY <1>1 DEF Event, Shown
  <1>3. /\ page' \in Browser /\ page'.drawn = page.drawn /\ page'.last = page.last
        /\ page'.pc = page.pc
        /\ ReceiveSnapshot => /\ wire[1].event = "snapshot"
                              /\ page'.live = page.live /\ page'.shows = wire[1].n
        /\ ReceiveEnd => wire[1].event = "end" /\ page'.live = Nobody
    <2>1. CASE ReceiveSnapshot
      <3>1. page' = [page EXCEPT !.shows = wire[1].n, !.stage = StageAt(wire[1].n),
                       !.reload = page'.reload] /\ page'.reload \in BOOLEAN
        BY <1>1, <2>1 DEF ReceiveSnapshot, Browser
      <3>2. wire[1].event = "snapshot"
        BY <1>1, <2>1 DEF ReceiveSnapshot
      <3>3. ~ReceiveEnd
        BY <1>1, <3>2 DEF ReceiveEnd
      <3> QED
        BY <1>1, <1>2, <3>1, <3>2, <3>3 DEF Browser
    <2>2. CASE ReceiveEnd
      <3>1. wire[1].event = "end" /\ page' = [page EXCEPT !.live = Nobody]
        BY <1>1, <2>2 DEF ReceiveEnd
      <3>2. ~ReceiveSnapshot
        BY <1>1, <3>1 DEF ReceiveSnapshot
      <3> QED
        BY <1>1, <3>1, <3>2 DEF Browser
    <2> QED
      BY <2>1, <2>2
  <1>4. DrawnInOrder'
    BY <1>1, <1>3 DEF FeedInv, DrawnInOrder
  <1>5. Len(page.drawn) <= Len(page'.drawn) /\ page'.live \in {page.live, Nobody}
    BY <1>1, <1>3, LenProperties DEF Browser
  <1>6. FeedInv'
    BY <1>1, <1>3, <1>4, <1>5, ReceiveStep
  <1> QED
    BY <1>1, <1>3, <1>6

-----------------------------------------------------------------------------
(* The steps together. *)

\* Every step keeps the invariant, and is a step of the feed or none.
LEMMA FeedInvStep ==
  ASSUME FeedInv, [Next]_vars
  PROVE  FeedInv' /\ [F!Watch]_F!feedVars
  <1> USE DEF F!feedVars
  <1>1. ASSUME UNCHANGED <<log, page.drawn, page.pc>> PROVE UNCHANGED F!feedVars
    BY <1>1
  <1>2. CASE Quietly
    BY <1>1, <1>2, QuietStep
  <1>3. ASSUME NEW m \in Emitters, Write(m) PROVE FeedInv' /\ F!Watch
    <2>1. FeedInv' /\ Len(log') = Len(log) + 1
      BY <1>3, WriteStep
    <2>2. page' = page
      BY <1>3 DEF Write
    <2> QED
      BY <2>1, <2>2 DEF F!Watch, F!Record
  <1>4. ASSUME NEW s \in Streams, Read(s) \/ TakeSnapshot(s)
        PROVE  FeedInv' /\ UNCHANGED F!feedVars
    <2>1. FeedInv' /\ UNCHANGED <<log, page>>
      BY <1>4, ReadStep, TakeSnapshotStep
    <2> QED
      BY <1>1, <2>1
  <1>5. ASSUME NEW s \in Streams, Connect(s) PROVE FeedInv' /\ UNCHANGED F!feedVars
    BY <1>1, <1>5, ConnectStep
  <1>6. CASE Request
    <2>1. FeedInv' /\ UNCHANGED <<log, page.drawn>>
      BY <1>6, LoadStep
    <2>2. page'.pc = "loading"
      BY <1>6 DEF Request, FeedInv, FeedType, Browser
    <2> QED
      BY <2>1, <2>2 DEF F!Watch, F!Open
  <1>7. CASE Drop
    <2>1. FeedInv' /\ UNCHANGED <<log, page.drawn>>
      BY <1>7, LoadStep
    <2>2. page'.pc = page.pc
      BY <1>7 DEF Drop, FeedInv, FeedType, Browser
    <2> QED
      BY <1>1, <2>1, <2>2
  <1>8. CASE Render
    <2>1. /\ FeedInv' /\ log' = log /\ page.pc # "away" /\ page'.pc # "away"
          /\ \E k \in 0..Len(log) : page'.drawn = [i \in 1..k |-> i]
      BY <1>8, RenderStep
    <2> QED
      BY <2>1 DEF F!Watch, F!Reload, F!Upto
  <1>9. CASE ReceiveFrame
    <2>1. /\ FeedInv' /\ UNCHANGED <<log, page.pc>>
          /\ \/ page'.drawn = page.drawn
             \/ /\ Len(page.drawn) < Len(log)
                /\ page'.drawn = Append(page.drawn, Len(page.drawn) + 1)
      BY <1>9, ReceiveFrameStep
    <2>2. page.pc # "away"
      BY <1>9, TakeOff DEF ReceiveFrame
    <2> QED
      BY <1>1, <2>1, <2>2 DEF F!Watch, F!Draw
  <1>10. CASE ReceiveSnapshot \/ ReceiveEnd
    BY <1>1, <1>10, ReceiveOtherStep
  <1>11. CASE UNCHANGED vars
    <2>1. FeedInv'
      BY <1>11 DEF vars, FeedInv, FeedType, LogIsPast, OpenPages, DrawnInOrder, WireInOrder,
                   CursorInOrder, IsFrame, Browser, Shown, StageAt
    <2> QED
      BY <1>1, <1>11, <2>1 DEF vars
  <1> QED
    BY <1>2, <1>3, <1>4, <1>5, <1>6, <1>7, <1>8, <1>9, <1>10, <1>11
    DEF Next, Emit, Serve, Receive, Quietly

LEMMA FeedInvHolds == Spec => []FeedInv
  <1> QED
    BY FeedInit, FeedInvStep, PTL DEF Spec

\* The feed on a page is the feed the run recorded, whatever is lost and
\* replayed: a page is a beginning of it and grows by the next frame only
\* (progress.py, run_events, _activity.html).  It is the safety half of
\* FeedSpec.
THEOREM FeedIsRefined == Spec => F!FeedSafety
  <1>1. Init => F!Nothing
    BY DEF Init, F!Nothing
  <1>2. FeedInv /\ [Next]_vars => [F!Watch]_F!feedVars
    BY FeedInvStep
  <1> QED
    BY <1>1, <1>2, FeedInvHolds, PTL DEF Spec, F!FeedSafety

-----------------------------------------------------------------------------
(* The counters. *)

\* A frame the page has, or will have once it has taken what it was sent.
OnPage(k) == k \in 1..Len(page.drawn) \/ \E i \in 1..Len(wire) : IsFrame(wire, i, k)

\* The counters it has then.
Latest == IF Len(wire) = 0 THEN page.shows ELSE wire[Len(wire)].n

\* A stream that rests has sent a snapshot last, and it is no older than any
\* frame: CountersMatchFeed alone says nothing of what is still on the wire.
SentLast ==
  \A s \in Streams : page.live = s /\ Rests(s) =>
    /\ Len(wire) # 0 => wire[Len(wire)].event = "snapshot"
    /\ \A k \in 1..Len(log) : OnPage(k) => log[k].at <= Latest

LEMMA SentLastStep ==
  ASSUME FeedInv, SentLast, [Next]_vars
  PROVE  SentLast'
  <1> USE DEF SentLast
  <1>1. /\ Len(log) \in Nat /\ Len(wire) \in Nat /\ Len(page.drawn) \in Nat
        /\ wire \in Seq(Event) /\ at \in Nat /\ stream \in [Streams -> Generator]
        /\ Nobody \notin Streams
    BY LenProperties, NobodyAssumption DEF FeedInv, FeedType, Browser
  <1>2. ASSUME page'.live = Nobody PROVE SentLast'
    BY <1>1, <1>2
  <1>3. ASSUME NEW s \in Streams, page'.live = s, stream'[s].pc \notin {"clear", "wait"}
        PROVE  SentLast'
    BY <1>3 DEF Rests
  \* Nothing but the generators moves, and none comes to rest.
  <1>4. ASSUME UNCHANGED <<log, wire, page>>,
               \A s \in Streams : page.live = s /\ Rests(s)' => Rests(s)
        PROVE  SentLast'
    BY <1>4 DEF OnPage, Latest, IsFrame
  <1>5. CASE Quietly
    <2>1. UNCHANGED <<log, wire, page>>
      BY <1>5, QuietStep
    <2>2. ASSUME NEW s \in Streams, page.live = s, stream'[s].pc \in {"clear", "wait"}
          PROVE  stream[s].pc \in {"clear", "wait"}
      <3>1. ASSUME NEW m \in Emitters,
                   \/ Begin(m) \/ Commit(m) \/ Say(m) \/ CopyWaiters(m) \/ Done(m)
            PROVE  stream[s].pc \in {"clear", "wait"}
        BY <2>2, <3>1 DEF Begin, Commit, Say, CopyWaiters, Done
      <3>2. ASSUME NEW m \in Emitters, NEW t \in Streams, Wake(m, t)
            PROVE  stream[s].pc \in {"clear", "wait"}
        <4>1. stream' = [stream EXCEPT ![t] = [stream[t] EXCEPT !.woken = TRUE]]
          BY <1>1, <3>2 DEF Wake
        <4>2. stream[t] \in Generator
          BY <1>1
        <4> QED
          BY <1>1, <2>2, <4>1, <4>2 DEF Generator
      <3>3. ASSUME NEW t \in Streams, Clear(t)
            PROVE  stream[s].pc \in {"clear", "wait"}
        BY <1>1, <2>2, <3>3 DEF Clear
      <3>4. ASSUME NEW t \in Streams, Woken(t) \/ Heartbeat(t)
            PROVE  stream[s].pc \in {"clear", "wait"}
        BY <1>1, <2>2, <3>4 DEF Woken, Heartbeat
      <3>5. ASSUME NEW t \in Streams, Abandon(t)
            PROVE  stream[s].pc \in {"clear", "wait"}
        BY <1>1, <2>2, <3>5 DEF Abandon
      <3>6. CASE Edit
        BY <2>2, <3>6 DEF Edit
      <3> QED
        BY <1>5, <3>1, <3>2, <3>3, <3>4, <3>5, <3>6 DEF Quietly
    <2> QED
      BY <1>4, <2>1, <2>2 DEF Rests
  <1>6. ASSUME NEW m \in Emitters, Write(m) PROVE SentLast'
    <2>1. UNCHANGED <<stream, wire, page>>
      BY <1>6 DEF Write
    <2>2. PICK r : log' = Append(log, r) /\ r \in [kind : Kinds, at : Nat]
      BY <1>1, <1>6 DEF Write
    <2>3. Len(log') = Len(log) + 1 /\ \A k \in 1..Len(log) : log'[k] = log[k]
      BY <2>2, AppendProperties DEF FeedInv, FeedType
    <2>4. \A k \in 1..Len(log') : OnPage(k) => k \in 1..Len(log)
      BY <1>1 DEF OnPage, IsFrame, FeedInv, WireInOrder, DrawnInOrder
    <2>5. \A k : OnPage(k)' <=> OnPage(k)
      BY <2>1 DEF OnPage, IsFrame
    <2> QED
      BY <2>1, <2>3, <2>4, <2>5 DEF Rests, Latest
  <1>7. ASSUME NEW s \in Streams, Read(s) PROVE SentLast'
    <2>1. page'.live = s /\ stream'[s].pc = "snapshot"
      BY <1>1, <1>7 DEF Read
    <2> QED
      BY <1>3, <2>1
  <1>8. ASSUME NEW s \in Streams, TakeSnapshot(s) PROVE SentLast'
    <2>1. page' = page /\ log' = log /\ page.live = s
      BY <1>8 DEF TakeSnapshot
    <2>2. CASE stream' = [stream EXCEPT ![s] = Closed]
      <3>1. stream'[s].pc = "closed"
        BY <1>1, <2>2 DEF Closed
      <3> QED
        BY <1>3, <2>1, <3>1
    <2>3. CASE wire' = Append(wire, Snapshot(at))
      <3>1. Snapshot(at) \in Event /\ Snapshot(at).event = "snapshot" /\ Snapshot(at).n = at
        BY <1>1 DEF Snapshot, Event
      <3>2. Len(wire') = Len(wire) + 1 /\ wire'[Len(wire')] = Snapshot(at)
        BY <1>1, <2>3, <3>1, AppendProperties
      <3>3. \A k \in 1..Len(log) : log[k].at <= at
        BY DEF FeedInv, LogIsPast
      <3> QED
        BY <1>1, <2>1, <3>1, <3>2, <3>3 DEF Latest
    <2> QED
      BY <1>8, <2>2, <2>3 DEF TakeSnapshot
  <1>9. ASSUME NEW s \in Streams, Connect(s) PROVE SentLast'
    <2>1. page'.live = s /\ stream'[s].pc = "read"
      BY <1>9, ConnectStep
    <2> QED
      BY <1>3, <2>1
  <1>10. CASE Request \/ Drop
    BY <1>2, <1>10, LoadStep
  <1>11. CASE Render
    BY <1>2, <1>11, RenderStep
  \* The last event stays the last, unless it is the one that is taken.
  <1>12. ASSUME wire # <<>>, wire' = Tail(wire)
         PROVE  /\ Len(wire) # 0 /\ Len(wire') = Len(wire) - 1
                /\ Len(wire') # 0 => wire'[Len(wire')] = wire[Len(wire)]
                /\ \A k : \A i \in 1..Len(wire') : IsFrame(wire', i, k) => IsFrame(wire, i + 1, k)
    <2>1. /\ Len(wire) \in Nat \ {0} /\ Len(wire') = Len(wire) - 1
          /\ \A i \in 1..(Len(wire) - 1) : wire'[i] = wire[i + 1]
      BY <1>12, TakeOff
    <2>2. ASSUME Len(wire') # 0 PROVE wire'[Len(wire')] = wire[Len(wire)]
      <3>1. Len(wire) - 1 \in 1..(Len(wire) - 1) /\ (Len(wire) - 1) + 1 = Len(wire)
        BY <2>1, <2>2
      <3> QED
        BY <2>1, <3>1
    <2> QED
      BY <2>1, <2>2 DEF IsFrame
  <1>13. CASE ReceiveFrame
    <2>1. /\ UNCHANGED <<log, page.live, page.shows>> /\ Len(page'.drawn) \in Nat
          /\ \A i \in 1..Len(page'.drawn) : i <= Len(page.drawn) \/ IsFrame(wire, 1, i)
      BY <1>13, ReceiveFrameStep
    <2>2. /\ wire # <<>> /\ wire' = Tail(wire) /\ wire[1].event = "frame" /\ stream' = stream
      BY <1>13, TakeOff DEF ReceiveFrame
    <2>3. \A k : OnPage(k)' => OnPage(k)
      BY <1>1, <1>12, <2>1, <2>2 DEF OnPage, IsFrame
    <2> SUFFICES ASSUME NEW s \in Streams, page.live = s, Rests(s)
                 PROVE  /\ Len(wire') # 0 => wire'[Len(wire')].event = "snapshot"
                        /\ \A k \in 1..Len(log) : OnPage(k)' => log[k].at <= Latest'
      BY <2>1, <2>2 DEF Rests
    <2>4. wire[Len(wire)].event = "snapshot" /\ Len(wire') # 0
      BY <1>1, <1>12, <2>2
    <2>5. Latest' = Latest
      BY <1>12, <2>2, <2>4 DEF Latest
    <2> QED
      BY <1>12, <2>2, <2>3, <2>4, <2>5
  <1>14. CASE ReceiveSnapshot
    <2>1. /\ UNCHANGED <<log, page.drawn>> /\ wire # <<>> /\ wire' = Tail(wire)
          /\ page'.live = page.live /\ page'.shows = wire[1].n
      BY <1>14, ReceiveOtherStep
    <2>2. stream' = stream
      BY <1>14 DEF ReceiveSnapshot
    <2>3. \A k : OnPage(k)' => OnPage(k)
      BY <1>1, <1>12, <2>1 DEF OnPage, IsFrame
    <2>4. Latest' = Latest
      <3>1. CASE Len(wire') = 0
        BY <1>1, <1>12, <2>1, <3>1 DEF Latest
      <3>2. CASE Len(wire') # 0
        BY <1>1, <1>12, <2>1, <3>2 DEF Latest
      <3> QED
        BY <3>1, <3>2
    <2> QED
      BY <1>12, <2>1, <2>2, <2>3, <2>4 DEF Rests
  <1>15. CASE ReceiveEnd
    BY <1>2, <1>15, ReceiveOtherStep
  <1>16. CASE UNCHANGED vars
    BY <1>4, <1>16 DEF vars, Rests
  <1> QED
    BY <1>5, <1>6, <1>7, <1>8, <1>9, <1>10, <1>11, <1>13, <1>14, <1>15, <1>16
    DEF Next, Emit, Serve, Receive, Quietly

LEMMA SentLastHolds == Spec => []SentLast
  <1>1. Init => SentLast
    BY NobodyAssumption DEF Init, SentLast
  <1>2. FeedInv /\ SentLast /\ [Next]_vars => SentLast'
    BY SentLastStep
  <1> QED
    BY <1>1, <1>2, FeedInvHolds, PTL DEF Spec

-----------------------------------------------------------------------------
(* The run stays on its path, and the page shows stages of it.                *)

Job == [pc : {"idle", "work", "emit", "copy", "wake"}, todo : SUBSET Streams]

RunType ==
  /\ path \in Paths /\ at \in Positions /\ drops \in Nat
  /\ lock \in Emitters \cup {Nobody} /\ job \in [Emitters -> Job]

\* Only who holds the lock has a commit to come, and the path goes on for it.
OneWriter == \A m \in Emitters : job[m].pc = "work" => lock = m /\ at < Len(path)

\* A snapshot on the wire was taken where the run has been.
SentPositions ==
  /\ \A i \in 1..Len(wire) : wire[i].event = "snapshot" => wire[i].n \in Positions
  /\ page.stage \in STRING /\ page.built \in STRING

TypeInv == RunType /\ OneWriter /\ SentPositions

LEMMA PathIsFinite ==
  ASSUME RunType
  PROVE  /\ Len(path) \in Nat /\ at \in Nat
         /\ \A p \in Positions : StageAt(p) \in STRING /\ CountAt(p) \in [Statuses -> Nat]
  <1>1. path \in Seq([stage : STRING, count : [Statuses -> Nat]])
    BY PathsAssumption DEF RunType
  <1>2. \A p \in Positions : path[p] \in [stage : STRING, count : [Statuses -> Nat]]
    BY <1>1, ElementOfSeq DEF Positions
  <1> QED
    BY <1>1, <1>2, LenProperties DEF RunType, Positions, StageAt, CountAt

LEMMA TypeInit == Init => TypeInv
  <1> SUFFICES ASSUME Init PROVE TypeInv
    OBVIOUS
  <1>1. /\ path \in Seq([stage : STRING, count : [Statuses -> Nat]]) /\ path # <<>>
        /\ Len(path) \in Nat /\ at = 1
    BY PathsAssumption, LenProperties DEF Init
  <1>2. at \in Positions
    BY <1>1, EmptySeq DEF Positions
  <1>3. RunType
    BY <1>2 DEF Init, RunType, Idle, Job
  <1>4. OneWriter
    BY DEF Init, OneWriter, Idle
  <1>5. SentPositions
    <2>1. StageAt(1) \in STRING
      BY <1>1, <1>2, <1>3, PathIsFinite
    <2> QED
      BY <2>1 DEF Init, SentPositions
  <1> QED
    BY <1>3, <1>4, <1>5 DEF TypeInv

\* What an emitter does, but for taking the lock and for its commit.
LEMMA EmitterStep ==
  ASSUME RunType, OneWriter, UNCHANGED <<path, at, lock>>, drops' \in {drops, drops + 1},
         job' \in [Emitters -> Job],
         \A m \in Emitters : job'[m].pc = "work" => job[m].pc = "work"
  PROVE  RunType' /\ OneWriter'
  BY DEF RunType, OneWriter, Positions

LEMMA RunTypeStep ==
  ASSUME RunType, OneWriter, [Next]_vars
  PROVE  RunType' /\ OneWriter' /\ path' = path
  <1> USE DEF RunType
  <1>1. \A m \in Emitters : job[m] \in Job
    OBVIOUS
  <1>2. ASSUME NEW m \in Emitters, NEW j \in Job, job' = [job EXCEPT ![m] = j],
               j.pc # "work", UNCHANGED <<path, at, lock, drops>>
        PROVE  RunType' /\ OneWriter'
    <2>1. job' \in [Emitters -> Job] /\ job'[m] = j /\ \A n \in Emitters : n # m => job'[n] = job[n]
      BY <1>2
    <2> QED
      BY <1>2, <2>1, EmitterStep
  <1>3. ASSUME NEW m \in Emitters, Begin(m) PROVE RunType' /\ OneWriter' /\ path' = path
    <2>1. /\ lock = Nobody /\ lock' = m /\ at < Len(path) /\ UNCHANGED <<path, at, drops>>
          /\ job' = [job EXCEPT ![m].pc = "work"]
      BY <1>3 DEF Begin
    <2>2. job' \in [Emitters -> Job] /\ \A n \in Emitters : n # m => job'[n] = job[n]
      BY <1>1, <2>1 DEF Job
    <2>3. \A n \in Emitters : job[n].pc # "work"
      BY <2>1, NobodyAssumption DEF OneWriter
    <2>4. OneWriter'
      BY <2>1, <2>2, <2>3 DEF OneWriter
    <2> QED
      BY <2>1, <2>2, <2>4 DEF Positions
  <1>4. ASSUME NEW m \in Emitters, Commit(m) PROVE RunType' /\ OneWriter' /\ path' = path
    <2>1. /\ job[m].pc = "work" /\ lock' = Nobody /\ at' = at + 1 /\ UNCHANGED <<path, drops>>
          /\ job' = [job EXCEPT ![m].pc = "emit"]
      BY <1>4 DEF Commit
    <2>2. lock = m /\ at < Len(path)
      BY <2>1 DEF OneWriter
    <2>3. /\ job' \in [Emitters -> Job] /\ job'[m].pc = "emit"
          /\ \A n \in Emitters : n # m => job'[n] = job[n]
      BY <1>1, <2>1 DEF Job
    <2>4. \A n \in Emitters : job'[n].pc # "work"
      BY <2>2, <2>3 DEF OneWriter
    <2>5. at' \in Positions'
      BY <2>1, <2>2, PathIsFinite DEF Positions
    <2> QED
      BY <2>1, <2>3, <2>4, <2>5 DEF OneWriter
  <1>5. ASSUME NEW m \in Emitters, Say(m) \/ Write(m) \/ CopyWaiters(m) \/ Done(m)
        PROVE  RunType' /\ OneWriter' /\ path' = path
    <2>1. PICK j : /\ j = Idle \/ j = [job[m] EXCEPT !.pc = "emit"]
                      \/ j = [job[m] EXCEPT !.pc = "copy"]
                      \/ j = [job[m] EXCEPT !.pc = "wake", !.todo = Waiters]
                   /\ job' = [job EXCEPT ![m] = j] /\ UNCHANGED <<path, at, lock, drops>>
      BY <1>1, <1>5 DEF Say, Write, CopyWaiters, Done
    <2>2. Waiters \in SUBSET Streams
      BY DEF Waiters
    <2>3. j \in Job /\ j.pc # "work"
      <3>1. job[m] \in [pc : {"idle", "work", "emit", "copy", "wake"}, todo : SUBSET Streams]
        BY <1>1 DEF Job
      <3>2. CASE j = Idle
        BY <3>2 DEF Job, Idle
      <3>3. CASE j = [job[m] EXCEPT !.pc = "emit"] \/ j = [job[m] EXCEPT !.pc = "copy"]
        BY <3>1, <3>3 DEF Job
      <3>4. CASE j = [job[m] EXCEPT !.pc = "wake", !.todo = Waiters]
        BY <2>2, <3>1, <3>4 DEF Job
      <3> QED
        BY <2>1, <3>2, <3>3, <3>4
    <2> QED
      BY <1>2, <2>1, <2>3
  <1>6. ASSUME NEW m \in Emitters, NEW s \in Streams, Wake(m, s)
        PROVE  RunType' /\ OneWriter' /\ path' = path
    <2> DEFINE j == [job[m] EXCEPT !.todo = @ \ {s}]
    <2>1. job' = [job EXCEPT ![m] = j] /\ UNCHANGED <<path, at, lock, drops>> /\ job[m].pc = "wake"
      BY <1>6 DEF Wake
    <2>2. j \in Job /\ j.pc # "work"
      BY <1>1, <2>1 DEF Job
    <2> QED
      BY <1>2, <2>1, <2>2
  \* The generators, the page, and a wake that nobody waits for any more.
  <1>7. ASSUME UNCHANGED <<path, at, lock>>, drops' \in {drops, drops + 1},
               job' = job \/ \E s \in Streams : Forget(s)
        PROVE  RunType' /\ OneWriter' /\ path' = path
    <2>1. /\ job' \in [Emitters -> Job]
          /\ \A m \in Emitters : job'[m].pc = job[m].pc
      <3>1. CASE job' = job
        BY <3>1
      <3>2. ASSUME NEW s \in Streams, Forget(s)
            PROVE  job' \in [Emitters -> Job] /\ \A m \in Emitters : job'[m].pc = job[m].pc
        BY <1>1, <3>2 DEF Forget, Job
      <3> QED
        BY <1>7, <3>1, <3>2
    <2> QED
      BY <1>7, <2>1, EmitterStep
  <1>8. ASSUME NEW s \in Streams, Serve(s) \/ Connect(s)
        PROVE  RunType' /\ OneWriter' /\ path' = path
    BY <1>7, <1>8 DEF Serve, Connect, Read, TakeSnapshot, Clear, Woken, Heartbeat, Abandon
  <1>9. CASE Request \/ Render \/ Receive \/ Drop \/ UNCHANGED vars
    BY <1>7, <1>9
       DEF Request, Render, Receive, ReceiveFrame, ReceiveSnapshot, ReceiveEnd, Drop, vars
  <1>10. CASE Edit
    <2>1. lock = Nobody /\ at < Len(path) /\ at' = at + 1 /\ UNCHANGED <<path, lock, job, drops>>
      BY <1>10 DEF Edit
    <2>2. \A m \in Emitters : job[m].pc # "work"
      BY <2>1, NobodyAssumption DEF OneWriter
    <2>3. at' \in Positions'
      BY <2>1, PathIsFinite DEF Positions
    <2> QED
      BY <2>1, <2>2, <2>3 DEF OneWriter
  <1> QED
    BY <1>3, <1>4, <1>5, <1>6, <1>8, <1>9, <1>10 DEF Next, Emit

LEMMA SentStep ==
  ASSUME FeedInv, TypeInv, [Next]_vars
  PROVE  SentPositions'
  <1> USE DEF TypeInv, SentPositions
  <1>1. path' = path /\ Positions' = Positions
    BY RunTypeStep DEF Positions
  <1>2. wire \in Seq(Event) /\ Len(wire) \in Nat /\ page \in Browser
    BY LenProperties DEF FeedInv, FeedType
  <1>3. at \in Positions /\ \A p \in Positions : StageAt(p) \in STRING
    BY PathIsFinite DEF RunType
  \* What is new on the wire is a frame, the end, or taken where the run is.
  <1>4. ASSUME NEW more \in Seq(Event), wire' = wire \o more, page' = page,
               \A i \in 1..Len(more) : more[i].event = "snapshot" => more[i].n = at
        PROVE  SentPositions'
    <2>1. Len(more) \in Nat
      BY <1>4, LenProperties
    <2>2. /\ Len(wire') = Len(wire) + Len(more)
          /\ \A i \in 1..Len(wire) + Len(more) :
               wire'[i] = IF i <= Len(wire) THEN wire[i] ELSE more[i - Len(wire)]
      BY <1>2, <1>4, ConcatProperties
    <2> SUFFICES ASSUME NEW i \in 1..Len(wire'), wire'[i].event = "snapshot"
                 PROVE  wire'[i].n \in Positions
      BY <1>1, <1>4
    <2>3. CASE i <= Len(wire)
      BY <1>2, <2>2, <2>3
    <2>4. CASE ~(i <= Len(wire))
      <3>1. i - Len(wire) \in 1..Len(more)
        BY <1>2, <2>1, <2>2, <2>4
      <3> QED
        BY <1>3, <1>4, <2>2, <2>4, <3>1
    <2> QED
      BY <2>3, <2>4
  <1>5. ASSUME NEW s \in Streams, Read(s) PROVE SentPositions'
    <2> DEFINE c == stream[s].cursor
               upto == Min2(c + PageSize, Len(log))
               new == [i \in 1..(upto - c) |-> Frame(c + i)]
    <2>1. c \in Nat /\ Len(log) \in Nat
      BY LenProperties DEF FeedInv, FeedType, Generator
    <2>2. c <= Len(log)
      BY <1>5 DEF FeedInv, CursorInOrder, Read
    <2>3. upto - c \in Nat
      BY <2>1, <2>2, SizesAssumption DEF Min2
    <2>4. wire' = wire \o new /\ page' = page
      BY <1>5 DEF Read
    <2> HIDE DEF c, upto
    <2>5. new \in [1..(upto - c) -> Event] /\ \A i \in 1..(upto - c) : new[i].event = "frame"
      BY <2>1 DEF Frame, Event
    <2> HIDE DEF new
    <2>6. new \in Seq(Event) /\ Len(new) = upto - c
      BY <2>3, <2>5, SequenceOf
    <2> QED
      BY <1>4, <2>4, <2>5, <2>6
  <1>6. ASSUME NEW s \in Streams, TakeSnapshot(s) PROVE SentPositions'
    <2>1. /\ Snapshot(at) \in Event /\ Snapshot(at).n = at
          /\ End \in Event /\ End.event = "end"
      BY DEF FeedInv, FeedType, Snapshot, End, Event
    <2>2. PICK more \in {<<Snapshot(at), End>>, <<Snapshot(at)>>} :
            wire' = wire \o more /\ page' = page
      <3>1. CASE wire' = wire \o <<Snapshot(at), End>>
        BY <1>6, <3>1 DEF TakeSnapshot
      <3>2. CASE wire' = Append(wire, Snapshot(at))
        <4>1. wire' = wire \o <<Snapshot(at)>>
          BY <1>2, <2>1, <3>2, AppendIsConcat
        <4> QED
          BY <1>6, <4>1 DEF TakeSnapshot
      <3> QED
        BY <1>6, <3>1, <3>2 DEF TakeSnapshot
    <2>3. /\ more \in Seq(Event)
          /\ \A i \in 1..Len(more) : more[i].event = "snapshot" => more[i].n = at
      BY <2>1, <2>2
    <2> QED
      BY <1>4, <2>2, <2>3
  <1>7. CASE Request \/ Drop
    <2>1. Len(wire') = 0
      BY <1>7 DEF Request, Drop
    <2>2. page'.stage \in STRING /\ page'.built \in STRING
      BY <1>2, <1>3, <1>7 DEF Request, Drop, Browser
    <2> QED
      BY <2>1, <2>2
  <1>8. CASE Render \/ \E s \in Streams : Connect(s)
    <2>1. wire' = wire /\ page'.stage = page.stage /\ page'.built = page.built
      BY <1>2, <1>8 DEF Render, Connect, Browser
    <2> QED
      BY <1>1, <2>1
  <1>9. CASE Receive
    <2>1. /\ wire # <<>> /\ wire' = Tail(wire)
      BY <1>9 DEF Receive, ReceiveFrame, ReceiveSnapshot, ReceiveEnd
    <2>2. /\ Head(wire) = wire[1] /\ Len(wire) \in Nat \ {0} /\ Len(wire') = Len(wire) - 1
          /\ \A i \in 1..(Len(wire) - 1) : wire'[i] = wire[i + 1]
      BY <2>1, TakeOff
    <2>3. \A i \in 1..Len(wire') : wire'[i].event = "snapshot" => wire'[i].n \in Positions
      BY <2>2
    <2>4. page'.stage \in STRING /\ page'.built \in STRING
      <3>1. CASE ReceiveSnapshot
        <4>1. wire[1].n \in Positions
          BY <2>2, <3>1 DEF ReceiveSnapshot
        <4> QED
          BY <1>2, <1>3, <2>2, <3>1, <4>1 DEF ReceiveSnapshot, Browser
      <3>2. CASE ReceiveFrame \/ ReceiveEnd
        BY <1>2, <3>2 DEF ReceiveFrame, ReceiveEnd, Browser
      <3> QED
        BY <1>9, <3>1, <3>2 DEF Receive
    <2> QED
      BY <1>1, <2>3, <2>4
  <1>10. ASSUME UNCHANGED <<wire, page>> PROVE SentPositions'
    BY <1>1, <1>10
  <1>11. CASE \E m \in Emitters : Begin(m) \/ Commit(m) \/ Say(m) \/ Emit(m)
    BY <1>10, <1>11 DEF Begin, Commit, Say, Emit, Write, CopyWaiters, Done, Wake
  <1>12. CASE \/ UNCHANGED vars \/ Edit
              \/ \E s \in Streams : Clear(s) \/ Woken(s) \/ Heartbeat(s) \/ Abandon(s)
    BY <1>10, <1>12 DEF vars, Edit, Clear, Woken, Heartbeat, Abandon
  <1> QED
    BY <1>5, <1>6, <1>7, <1>8, <1>9, <1>11, <1>12 DEF Next, Serve

-----------------------------------------------------------------------------
(* What the tiles show. *)

\* The tiles are of where the run was when they were last read, but for those
\* no snapshot has counted since.
TilesInv ==
  /\ page.shows \in Positions
  /\ DOMAIN tiles \subseteq Statuses /\ \A t \in DOMAIN tiles : tiles[t] \in Nat
  /\ CountsOf(page.shows)

\* What the server renders at a position shows it.
LEMMA RenderedTiles ==
  ASSUME RunType, NEW p \in Positions
  PROVE  /\ DOMAIN TilesOf(p) \subseteq Statuses
         /\ \A t \in DOMAIN TilesOf(p) : TilesOf(p)[t] = CountAt(p)[t] /\ TilesOf(p)[t] \in Nat
  <1>1. CountAt(p) \in [Statuses -> Nat]
    BY PathIsFinite
  <1> QED
    BY <1>1 DEF TilesOf

LEMMA TilesInit == Init => TilesInv
  <1> SUFFICES ASSUME Init PROVE TilesInv
    OBVIOUS
  <1>1. RunType /\ at = 1
    BY TypeInit DEF Init, TypeInv
  <1>2. 1 \in Positions /\ tiles = TilesOf(1) /\ page.shows = 1
    BY <1>1 DEF Init, RunType
  <1> QED
    BY <1>1, <1>2, RenderedTiles DEF TilesInv, CountsOf

LEMMA TilesStep ==
  ASSUME FeedInv, TypeInv, TilesInv, [Next]_vars
  PROVE  TilesInv'
  <1> USE DEF TilesInv
  <1>1. path' = path /\ Positions' = Positions /\ \A p : CountAt(p)' = CountAt(p)
    BY RunTypeStep DEF TypeInv, Positions, CountAt
  <1>2. page \in Browser /\ RunType /\ at \in Positions
    BY DEF FeedInv, FeedType, TypeInv, RunType
  <1>3. ASSUME tiles' = tiles, page'.shows = page.shows PROVE TilesInv'
    BY <1>1, <1>3 DEF CountsOf
  <1>4. CASE Request
    <2>1. tiles' = TilesOf(at) /\ page'.shows = at
      BY <1>2, <1>4 DEF Request, Browser
    <2>2. /\ DOMAIN tiles' \subseteq Statuses
          /\ \A t \in DOMAIN tiles' : tiles'[t] = CountAt(at)[t] /\ tiles'[t] \in Nat
      BY <1>2, <2>1, RenderedTiles
    <2>3. page'.shows \in Positions'
      BY <1>1, <1>2, <2>1
    <2>4. \A t \in DOMAIN tiles' : CountAt(page.shows)'[t] = tiles'[t]
      BY <1>1, <2>1, <2>2 DEF CountAt
    <2> QED
      BY <2>2, <2>3, <2>4 DEF CountsOf
  <1>5. CASE ReceiveSnapshot
    <2> DEFINE n == wire[1].n
    <2>1. wire # <<>> /\ Head(wire) = wire[1] /\ 1 \in 1..Len(wire) /\ wire[1].event = "snapshot"
      BY <1>5, TakeOff DEF ReceiveSnapshot
    <2>2. n \in Positions /\ CountAt(n) \in [Statuses -> Nat]
      BY <1>2, <2>1, PathIsFinite DEF TypeInv, SentPositions
    <2>3. page'.shows = n
      BY <1>5, ReceiveOtherStep
    <2>4. tiles' = [t \in DOMAIN tiles |-> IF CountAt(n)[t] # 0 THEN CountAt(n)[t] ELSE tiles[t]]
      BY <1>5, <2>1 DEF ReceiveSnapshot, WriteTiles, Written
    <2> HIDE DEF n
    <2>5. /\ DOMAIN tiles' = DOMAIN tiles
          /\ \A t \in DOMAIN tiles : tiles'[t] \in Nat /\ CountAt(n)[t] \in {tiles'[t], 0}
      BY <2>2, <2>4
    <2>6. CountAt(page.shows)' = CountAt(n)
      BY <1>1, <2>3 DEF CountAt
    <2> QED
      BY <1>1, <2>2, <2>3, <2>5, <2>6 DEF CountsOf
  <1>6. CASE ReceiveFrame
    BY <1>3, <1>6, ReceiveFrameStep DEF ReceiveFrame
  <1>7. CASE Render \/ ReceiveEnd \/ Drop \/ \E s \in Streams : Connect(s)
    <2>1. tiles' = tiles /\ page'.shows = page.shows
      BY <1>2, <1>7 DEF Render, ReceiveEnd, Drop, Connect, Browser
    <2> QED
      BY <1>3, <2>1
  <1>8. CASE \/ UNCHANGED vars \/ Edit
             \/ \E m \in Emitters : Begin(m) \/ Commit(m) \/ Say(m) \/ Emit(m)
             \/ \E s \in Streams : Serve(s)
    <2>1. UNCHANGED <<tiles, page>>
      BY <1>8 DEF vars, Edit, Begin, Commit, Say, Emit, Write, CopyWaiters, Done, Wake,
                  Serve, Read, TakeSnapshot, Clear, Woken, Heartbeat, Abandon
    <2> QED
      BY <1>3, <2>1
  <1> QED
    BY <1>4, <1>5, <1>6, <1>7, <1>8 DEF Next, Receive

LEMMA RunAndTilesHold == Spec => [](TypeInv /\ TilesInv)
  <1>1. FeedInv /\ TypeInv /\ [Next]_vars => TypeInv'
    BY RunTypeStep, SentStep DEF TypeInv
  <1>2. FeedInv /\ TypeInv /\ TilesInv /\ [Next]_vars => TilesInv'
    BY TilesStep
  <1> QED
    BY TypeInit, TilesInit, <1>1, <1>2, FeedInvHolds, PTL DEF Spec

\* Beside the frames on a page stand counters that were read together and are
\* no older, once its stream rests and the page has taken all it was sent; a
\* tile may lag behind only where its status has no record left (run_events
\* and _run_snapshot of routes.py, emit of progress.py, run_summary.html).
THEOREM CountersFollowFeed == Spec => []CountersMatchFeed
  <1>1. FeedInv /\ SentLast /\ TilesInv => CountersMatchFeed
    <2> SUFFICES ASSUME FeedInv, SentLast, TilesInv, NEW s \in Streams, page.live = s,
                        Rests(s), wire = <<>>
                 PROVE  NoFrameAfter(page.shows)
      BY DEF CountersMatchFeed, Settled, TilesInv
    <2> SUFFICES ASSUME NEW n \in Seen
                 PROVE  log[n].at <= page.shows
      BY DEF NoFrameAfter
    <2>1. Len(wire) = 0 /\ Len(log) \in Nat /\ Len(page.drawn) \in Nat
      BY LenProperties DEF FeedInv, FeedType, Browser
    <2>2. n \in 1..Len(page.drawn) /\ n \in 1..Len(log)
      BY <2>1 DEF Seen, FeedInv, DrawnInOrder
    <2> QED
      BY <2>1, <2>2 DEF SentLast, OnPage, Latest
  <1> QED
    BY <1>1, FeedInvHolds, SentLastHolds, RunAndTilesHold, PTL

\* Type correctness: the run never leaves its path, whoever emits, and the
\* page never shows a stage that is none.
THEOREM ProgressTypes == Spec => []TypeOK
  <1>1. FeedInv /\ TypeInv /\ TilesInv => TypeOK
    BY DEF FeedInv, FeedType, TypeInv, RunType, SentPositions, TilesInv, TypeOK, Job,
           Generator, Event, Browser
  <1> QED
    BY <1>1, FeedInvHolds, RunAndTilesHold, PTL
=============================================================================
