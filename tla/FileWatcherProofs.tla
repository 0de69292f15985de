--------------------------- MODULE FileWatcherProofs ---------------------------
(***************************************************************************)
(* Proofs about FileWatcher for every set of paths and all capacities: the *)
(* channels keep to their capacities, the bridge outlives the watcher, and *)
(* together they implement the queue of WatchFifo.                         *)
(***************************************************************************)
EXTENDS FileWatcherFifo, NumberLemmas, SequenceTheorems, TLAPS

\* The receiver goes before the watcher, so a bridge that finds the channel
\* disconnected has no consumer any more.
DropOrder == ~watching => ~rx_open

Inv == TypeOK /\ DropOrder /\ BridgeOutlivesWatcher

\* The path lists that enter the first channel.
RawEvent == EventPaths \cup {<<>>}

LEMMA RawEventsArePaths == RawEvent \subseteq Seq(Path)
BY ChannelAssumption, EmptySeq DEF RawEvent

LEMMA InvInit == Init => Inv
<1> SUFFICES ASSUME Init
             PROVE  Inv
  OBVIOUS
<1>1. TypeOK
  <2>1. raw \in Seq(RawEvent) /\ Len(raw) <= RawCap
    BY ChannelAssumption, EmptySeq DEF Init
  <2>2. rx \in Seq(Path) /\ Len(rx) <= Cap /\ held \in Seq(Path)
    BY ChannelAssumption, EmptySeq DEF Init
  <2>3. QED
    BY <2>1, <2>2 DEF Init, TypeOK, RawEvent
<1>2. QED
  BY <1>1 DEF Init, Inv, DropOrder, BridgeOutlivesWatcher

\* notify's handler never exceeds the first channel.
LEMMA TypeNotify ==
  ASSUME TypeOK, NEW paths \in RawEvent, Notify(paths)
  PROVE  TypeOK'
<1>1. raw' \in Seq(RawEvent) /\ Len(raw') <= RawCap
  <2>1. CASE HasRoom
    <3>1. raw' = Append(raw, paths) /\ Len(raw) < RawCap /\ Len(raw) \in Nat
      BY <2>1, LenProperties DEF Notify, HasRoom, TypeOK, RawEvent
    <3>2. raw' \in Seq(RawEvent) /\ Len(raw') = Len(raw) + 1
      BY <3>1, AppendProperties DEF TypeOK, RawEvent
    <3>3. QED
      BY <3>1, <3>2, ChannelAssumption
  <2>2. CASE ~HasRoom
    BY <2>2 DEF Notify, TypeOK, RawEvent
  <2>3. QED
    BY <2>1, <2>2
<1>2. accepted' \in Nat
  <2>1. Len(paths) \in Nat
    BY RawEventsArePaths, LenProperties
  <2>2. QED
    BY <2>1 DEF Notify, TypeOK
<1>3. reports' \in Nat /\ UNCHANGED <<held, rx, lifeVars, got, delivered>>
  BY DEF Notify, TypeOK
<1>4. QED
  BY <1>1, <1>2, <1>3 DEF TypeOK, RawEvent, lifeVars

\* The bridge takes an event apart, and never exceeds the second channel.
LEMMA TypeBridge ==
  ASSUME TypeOK, BridgePolls \/ BridgeSends \/ BridgeExits
  PROVE  TypeOK'
<1>1. CASE BridgePolls
  <2>1. Head(raw) \in RawEvent /\ Tail(raw) \in Seq(RawEvent) /\ Len(Tail(raw)) = Len(raw) - 1
    BY <1>1, HeadTailProperties DEF BridgePolls, TypeOK, RawEvent
  <2>2. raw' \in Seq(RawEvent) /\ Len(raw') <= RawCap
    BY <1>1, <2>1, ChannelAssumption, LenProperties DEF BridgePolls, PollOldest, TypeOK, RawEvent
  <2>3. held' \in Seq(Path)
    BY <1>1, <2>1, RawEventsArePaths DEF BridgePolls, PollOldest
  <2>4. bridge' \in {"polling", "sending"} /\ (bridge' = "sending" <=> held' # <<>>)
    BY <1>1 DEF BridgePolls
  <2>5. UNCHANGED <<rx, rx_open, watching, got, historyVars>>
    BY <1>1 DEF BridgePolls
  <2>6. QED
    BY <2>2, <2>3, <2>4, <2>5 DEF TypeOK, historyVars, RawEvent
<1>2. CASE BridgeSends
  <2>1. held # <<>> /\ Head(held) \in Path /\ Tail(held) \in Seq(Path)
    BY <1>2, HeadTailProperties DEF BridgeSends, TypeOK
  <2>2. rx' \in Seq(Path) /\ Len(rx') <= Cap
    <3>1. Len(rx) < Cap /\ rx' = Append(rx, Head(held)) /\ Len(rx) \in Nat
      BY <1>2, LenProperties DEF BridgeSends, TypeOK
    <3>2. rx' \in Seq(Path) /\ Len(rx') = Len(rx) + 1
      BY <2>1, <3>1, AppendProperties DEF TypeOK
    <3>3. QED
      BY <3>1, <3>2, ChannelAssumption
  <2>3. held' \in Seq(Path) /\ bridge' \in {"polling", "sending"}
        /\ (bridge' = "sending" <=> held' # <<>>)
    BY <1>2, <2>1 DEF BridgeSends, Unsent
  <2>4. UNCHANGED <<raw, rx_open, watching, got, historyVars>>
    BY <1>2 DEF BridgeSends
  <2>5. QED
    BY <2>2, <2>3, <2>4 DEF TypeOK, historyVars
<1>3. CASE BridgeExits
  <2>1. raw' \in Seq(RawEvent) /\ Len(raw') <= RawCap /\ held' \in Seq(Path)
    BY <1>3, ChannelAssumption, EmptySeq DEF BridgeExits
  <2>2. QED
    BY <1>3, <2>1 DEF BridgeExits, TypeOK, historyVars, RawEvent
<1>4. QED
  BY <1>1, <1>2, <1>3

\* The consumer's actions.
LEMMA TypeConsumer ==
  ASSUME TypeOK, NextEvent \/ DropReceiver \/ DropWatcher
  PROVE  TypeOK'
<1>1. CASE NextEvent
  <2>1. Head(rx) \in Path /\ Tail(rx) \in Seq(Path) /\ Len(Tail(rx)) = Len(rx) - 1
    BY <1>1, HeadTailProperties DEF NextEvent, TypeOK
  <2>2. rx' \in Seq(Path) /\ Len(rx') <= Cap
    BY <1>1, <2>1, ChannelAssumption, LenProperties DEF NextEvent, TypeOK
  <2>3. got' \in Path /\ delivered' \in Nat
    BY <1>1, <2>1 DEF NextEvent, TypeOK
  <2>4. UNCHANGED <<raw, held, lifeVars, reports, accepted>>
    BY <1>1 DEF NextEvent
  <2>5. QED
    BY <2>2, <2>3, <2>4 DEF TypeOK, lifeVars
<1>2. CASE DropReceiver
  <2>1. rx' \in Seq(Path) /\ Len(rx') <= Cap
    BY <1>2, ChannelAssumption, EmptySeq DEF DropReceiver
  <2>2. QED
    BY <1>2, <2>1 DEF DropReceiver, TypeOK, historyVars
<1>3. CASE DropWatcher
  BY <1>3 DEF DropWatcher, TypeOK, channelVars, historyVars
<1>4. QED
  BY <1>1, <1>2, <1>3

LEMMA InvNext == Inv /\ [Next]_vars => Inv'
<1> SUFFICES ASSUME Inv, [Next]_vars
             PROVE  Inv'
  OBVIOUS
<1>1. TypeOK /\ DropOrder /\ BridgeOutlivesWatcher
  BY DEF Inv
<1> USE DEF Inv, DropOrder, BridgeOutlivesWatcher
<1>2. ASSUME NEW paths \in RawEvent, Notify(paths)
      PROVE  Inv'
  BY <1>1, <1>2, TypeNotify DEF Notify, lifeVars
<1>3. CASE BridgePolls \/ BridgeSends
  BY <1>1, <1>3, TypeBridge DEF BridgePolls, BridgeSends
<1>4. CASE BridgeExits
  <2>1. ~rx_open
    BY <1>1, <1>4 DEF BridgeExits, MayExit, Disconnected
  <2>2. QED
    BY <1>1, <1>4, <2>1, TypeBridge DEF BridgeExits
<1>5. CASE NextEvent \/ DropReceiver \/ DropWatcher
  <2>1. TypeOK'
    BY <1>1, <1>5, TypeConsumer
  <2>2. UNCHANGED bridge /\ (rx_open' => rx_open) /\ (watching' <=> watching /\ ~DropWatcher)
    BY <1>5 DEF NextEvent, DropReceiver, DropWatcher, lifeVars
  <2>3. DropWatcher => ~rx_open'
    BY DEF DropWatcher
  <2>4. QED
    BY <1>1, <2>1, <2>2, <2>3
<1>6. CASE UNCHANGED vars
  BY <1>1, <1>6 DEF vars, channelVars, lifeVars, historyVars, TypeOK
<1>7. QED
  BY <1>2, <1>3, <1>4, <1>5, <1>6 DEF Next, RawEvent

\* Both channels keep to their capacities, and the bridge is sending exactly
\* when it has paths in hand.
THEOREM WatcherTyped == Spec => []TypeOK
<1>1. Inv => TypeOK
  BY DEF Inv
<1>2. QED
  BY <1>1, InvInit, InvNext, PTL DEF Spec

\* The bridge never ends under a consumer that still has the FileWatcher, for
\* which next_event would return None from then on, at once and for ever.
THEOREM BridgeStays == Spec => []BridgeOutlivesWatcher
<1>1. Inv => BridgeOutlivesWatcher
  BY DEF Inv
<1>2. QED
  BY <1>1, InvInit, InvNext, PTL DEF Spec

------------------------------------------------------------------------------
(* The watcher implements WatchFifo *)

\* The second channel, the paths in hand and those of the first channel.
Joined(a, b, c) == a \o b \o c

\* The bridge takes an event in hand.
LEMMA JoinedPolls ==
  ASSUME NEW V, NEW a \in Seq(V), NEW b \in Seq(V), NEW c \in Seq(V)
  PROVE  Joined(a, b, c) = Joined(a, <<>>, b \o c)
BY DEF Joined

\* The bridge sends a path.
LEMMA JoinedSends ==
  ASSUME NEW V, NEW a \in Seq(V), NEW b \in Seq(V), NEW c \in Seq(V), b # <<>>
  PROVE  Joined(Append(a, Head(b)), Tail(b), c) = Joined(a, b, c)
BY DEF Joined

\* The consumer takes a path.
LEMMA JoinedTakes ==
  ASSUME NEW V, NEW a \in Seq(V), NEW b \in Seq(V), NEW c \in Seq(V), a # <<>>
  PROVE  /\ Joined(a, b, c) # <<>>
         /\ Head(Joined(a, b, c)) = Head(a)
         /\ Tail(Joined(a, b, c)) = Joined(Tail(a), b, c)
BY DEF Joined

Queue == IF rx_open THEN Joined(rx, held, FlattenSeq(raw)) ELSE <<>>

LEMMA QueueIs == Queue = IF rx_open THEN rx \o held \o FlattenSeq(raw) ELSE <<>>
BY DEF Queue, Joined

LEMMA ReportsAreFlat ==
  ASSUME TypeOK
  PROVE  /\ raw \in Seq(Seq(Path)) /\ FlattenSeq(raw) \in Seq(Path)
         /\ rx \in Seq(Path) /\ held \in Seq(Path)
<1>1. raw \in Seq(Seq(Path))
  <2>1. raw \in Seq(RawEvent)
    BY DEF TypeOK, RawEvent
  <2> QED
    BY <2>1, RawEventsArePaths
<1> QED
  BY <1>1, FlatIsSeq DEF TypeOK

LEMMA FifoInit == Init => Fifo!Init
<1> SUFFICES ASSUME Init
             PROVE  Fifo!Init
  OBVIOUS
<1>1. FlattenSeq(raw) = <<>>
  BY FlatEmpty DEF Init
<1>2. Queue = <<>>
  BY <1>1 DEF Init, Queue, Joined
<1> QED
  BY <1>2, QueueIs DEF Init, Fifo!Init

\* A step that leaves the queue, the path taken last and the receiver alone.
LEMMA FifoStutters ==
  ASSUME Queue' = Queue, got' = got, rx_open' = rx_open
  PROVE  UNCHANGED Fifo!vars
BY QueueIs DEF Fifo!vars, Queue, Joined

LEMMA FifoNext == Inv /\ [Next]_vars => [Fifo!Next]_(Fifo!vars)
<1> SUFFICES ASSUME Inv, [Next]_vars
             PROVE  [Fifo!Next]_(Fifo!vars)
  OBVIOUS
<1>1. /\ raw \in Seq(Seq(Path)) /\ FlattenSeq(raw) \in Seq(Path)
      /\ rx \in Seq(Path) /\ held \in Seq(Path)
  BY ReportsAreFlat DEF Inv
<1>2. ASSUME NEW paths \in RawEvent, Notify(paths)
      PROVE  [Fifo!Next]_(Fifo!vars)
  <2>1. paths \in Seq(Path)
    BY RawEventsArePaths
  <2>2. rx' = rx /\ held' = held /\ got' = got /\ rx_open' = rx_open
    BY <1>2 DEF Notify, lifeVars
  <2>3. CASE rx_open /\ HasRoom /\ paths \in EventPaths
    <3>1. raw' = Append(raw, paths)
      BY <1>2, <2>3 DEF Notify
    <3>2. FlattenSeq(raw') = FlattenSeq(raw) \o paths
      BY <1>1, <2>1, <3>1, FlatAppend
    <3>3. Joined(rx, held, FlattenSeq(raw) \o paths) = Joined(rx, held, FlattenSeq(raw)) \o paths
      BY <1>1, <2>1 DEF Joined
    <3>4. Queue' = Queue \o paths
      BY <2>2, <2>3, <3>2, <3>3 DEF Queue
    <3>5. Fifo!Report(paths)
      BY <2>2, <2>3, <3>4, QueueIs DEF Fifo!Report, Queue, Joined
    <3> QED
      BY <2>3, <3>5 DEF Fifo!Next
  <2>4. CASE rx_open /\ HasRoom /\ paths \notin EventPaths
    <3>1. paths = <<>> /\ raw' = Append(raw, paths)
      BY <1>2, <2>4 DEF Notify, RawEvent
    <3>2. FlattenSeq(raw') = FlattenSeq(raw) \o paths
      BY <1>1, <2>1, <3>1, FlatAppend
    <3>3. FlattenSeq(raw') = FlattenSeq(raw)
      BY <1>1, <3>1, <3>2, ConcatEmptySeq
    <3>4. Queue' = Queue
      BY <2>2, <3>3 DEF Queue
    <3> QED
      BY <2>2, <3>4, FifoStutters
  <2>5. CASE ~rx_open \/ ~HasRoom
    <3>1. Queue' = Queue
      BY <1>2, <2>2, <2>5 DEF Notify, Queue
    <3> QED
      BY <2>2, <3>1, FifoStutters
  <2> QED
    BY <2>3, <2>4, <2>5
<1>3. CASE BridgePolls
  <2>1. /\ held = <<>> /\ raw # <<>> /\ held' = Head(raw) /\ raw' = Tail(raw)
        /\ rx' = rx /\ rx_open' = rx_open /\ got' = got
    BY <1>3 DEF BridgePolls, PollOldest, Inv, TypeOK
  <2>2. Head(raw) \in Seq(Path) /\ Tail(raw) \in Seq(Seq(Path))
    BY <1>1, <2>1
  <2>3. FlattenSeq(raw) = held' \o FlattenSeq(raw') /\ FlattenSeq(raw') \in Seq(Path)
    BY <1>1, <2>1, <2>2, FlatHead, FlatIsSeq
  <2>4. Joined(rx, held', FlattenSeq(raw')) = Joined(rx, held, FlattenSeq(raw))
    BY <1>1, <2>1, <2>2, <2>3, JoinedPolls
  <2>5. Queue' = Queue
    BY <2>1, <2>4 DEF Queue
  <2> QED
    BY <2>1, <2>5, FifoStutters
<1>4. CASE BridgeSends
  <2>1. /\ held # <<>> /\ rx' = Append(rx, Head(held)) /\ held' = Tail(held)
        /\ raw' = raw /\ rx_open' = rx_open /\ got' = got
    BY <1>4 DEF BridgeSends, Unsent, Inv, TypeOK
  <2>2. Joined(rx', held', FlattenSeq(raw')) = Joined(rx, held, FlattenSeq(raw))
    BY <1>1, <2>1, JoinedSends
  <2>3. Queue' = Queue
    BY <2>1, <2>2 DEF Queue
  <2> QED
    BY <2>1, <2>3, FifoStutters
<1>5. CASE BridgeExits
  <2>1. ~rx_open
    BY <1>5 DEF BridgeExits, MayExit, Disconnected, Inv, DropOrder
  <2>2. rx_open' = rx_open /\ got' = got
    BY <1>5 DEF BridgeExits
  <2>3. Queue' = Queue
    BY <2>1, <2>2 DEF Queue
  <2> QED
    BY <2>2, <2>3, FifoStutters
<1>6. CASE NextEvent
  <2>1. /\ rx_open /\ rx # <<>> /\ got' = Head(rx) /\ rx' = Tail(rx)
        /\ raw' = raw /\ held' = held /\ rx_open' = rx_open
    BY <1>6 DEF NextEvent, lifeVars
  <2>2. Queue # <<>> /\ Head(Queue) = Head(rx) /\ Tail(Queue) = Queue'
    BY <1>1, <2>1, JoinedTakes DEF Queue
  <2>3. Fifo!Take
    BY <2>1, <2>2, QueueIs DEF Fifo!Take, Queue, Joined
  <2> QED
    BY <2>3 DEF Fifo!Next
<1>7. CASE DropReceiver
  <2>1. rx_open /\ rx_open' = FALSE /\ got' = got
    BY <1>7 DEF DropReceiver
  <2>2. Fifo!Drop
    BY <2>1 DEF Fifo!Drop
  <2> QED
    BY <2>2 DEF Fifo!Next
<1>8. CASE DropWatcher
  <2>1. /\ rx_open' = rx_open /\ got' = got /\ rx' = rx /\ held' = held /\ raw' = raw
    BY <1>8 DEF DropWatcher, channelVars
  <2>2. Queue' = Queue
    BY <2>1 DEF Queue
  <2> QED
    BY <2>1, <2>2, FifoStutters
<1>9. CASE UNCHANGED vars
  <2>1. /\ rx_open' = rx_open /\ got' = got /\ rx' = rx /\ held' = held /\ raw' = raw
    BY <1>9 DEF vars, channelVars, lifeVars
  <2>2. Queue' = Queue
    BY <2>1 DEF Queue
  <2> QED
    BY <2>1, <2>2, FifoStutters
<1> QED
  BY <1>2, <1>3, <1>4, <1>5, <1>6, <1>7, <1>8, <1>9 DEF Next, RawEvent

\* Two channels, the bridge between them and a handler that drops what does
\* not fit amount to one queue, for all capacities and events of any length: no
\* path is reordered or delivered twice, and an event is lost as a whole or not
\* at all.
THEOREM WatcherIsFifo == Spec => ImplementsFifo
<1>1. Init => Fifo!Init
  BY FifoInit
<1>2. Inv /\ [Next]_vars => [Fifo!Next]_(Fifo!vars)
  BY FifoNext
<1> QED
  BY <1>1, <1>2, InvInit, InvNext, PTL DEF Spec, ImplementsFifo, Fifo!Spec
================================================================================
