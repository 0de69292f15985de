----------------------------- MODULE FileWatcher -----------------------------
(***************************************************************************)
(* FileWatcher (src/core/file_watcher.rs): notify's handler runs on its    *)
(* own thread and puts each event into a bounded channel without waiting;  *)
(* an async task, the bridge, polls that channel and sends the paths of    *)
(* each event one by one into a second bounded channel; next_event() takes *)
(* them from there.  Dropping the FileWatcher drops the receiver and then  *)
(* the notify watcher, with the other threads running in between.          *)
(***************************************************************************)
EXTENDS Naturals, Sequences

CONSTANTS
  Path,
  None,         \* nothing taken yet
  RawCap,       \* WATCH_UPSTREAM_CAP, 64
  Cap,          \* the capacity of the async channel, 64
  EventPaths,   \* the path lists an event may carry; none when the queue overflowed
  MaxReports    \* bound: events and errors notify reports

ASSUME ChannelAssumption ==
  /\ RawCap \in Nat \ {0}
  /\ Cap \in Nat \ {0}
  /\ EventPaths \subseteq Seq(Path)
  /\ None \notin Path
  /\ MaxReports \in Nat

VARIABLES
  raw,         \* the sync_channel: path lists, an error counting as an empty one
  bridge,      \* "polling", "sending" or "exited"
  held,        \* the paths of the event in hand that are still to be sent
  rx,          \* the async channel
  rx_open,     \* the FileWatcher's receiver exists
  watching,    \* its notify watcher exists
  got,         \* the path next_event returned last
  reports,     \* counter of the bounded action
  accepted, delivered   \* history: paths that entered the first channel, paths taken

channelVars == <<raw, rx, held>>
lifeVars == <<bridge, rx_open, watching>>
historyVars == <<reports, accepted, delivered>>
vars == <<channelVars, lifeVars, got, historyVars>>

Init ==
  /\ raw = <<>>
  /\ bridge = "polling"
  /\ held = <<>>
  /\ rx = <<>>
  /\ rx_open = TRUE
  /\ watching = TRUE
  /\ got = None
  /\ reports = 0
  /\ accepted = 0
  /\ delivered = 0

------------------------------------------------------------------------------
(* notify's thread *)

\* Mutant: the channel has no bound.
HasAlwaysRoom == bridge # "exited"

\* try_send: a full channel and a receiver that is gone lose the event that
\* arrives.  (The comment above the call speaks of the oldest events.)
HasRoom == Len(raw) < RawCap /\ bridge # "exited"

Notify(paths) ==
  /\ watching
  /\ reports < MaxReports
  /\ reports' = reports + 1
  /\ raw' = IF HasRoom THEN Append(raw, paths) ELSE raw
  /\ accepted' = IF HasRoom THEN accepted + Len(paths) ELSE accepted
  /\ UNCHANGED <<held, rx, lifeVars, got, delivered>>

------------------------------------------------------------------------------
(* The bridge *)

\* Mutant: the newest event is taken first.
PollNewest == held' = raw[Len(raw)] /\ raw' = SubSeq(raw, 1, Len(raw) - 1)

PollOldest == held' = Head(raw) /\ raw' = Tail(raw)

\* An error and an event without paths leave nothing to send.
BridgePolls ==
  /\ bridge = "polling"
  /\ raw # <<>>
  /\ PollOldest
  /\ bridge' = IF held' = <<>> THEN "polling" ELSE "sending"
  /\ UNCHANGED <<rx, rx_open, watching, got, historyVars>>

\* Mutant: one path of an event is enough.
Forgotten == <<>>

Unsent == Tail(held)

\* send().await waits for room.
BridgeSends ==
  /\ bridge = "sending"
  /\ rx_open
  /\ Len(rx) < Cap
  /\ rx' = Append(rx, Head(held))
  /\ held' = Unsent
  /\ bridge' = IF Unsent = <<>> THEN "polling" ELSE "sending"
  /\ UNCHANGED <<raw, rx_open, watching, got, historyVars>>

\* Mutant: an empty channel is always polled again.
EmptyForGood == FALSE

\* Mutant: an empty channel ends the bridge.
EmptyIsTheEnd == raw = <<>>

\* try_recv reports the disconnection once the channel is empty.
Disconnected == ~watching /\ raw = <<>>

\* The receiver is gone when a path is to be sent, or the sender is.
MayExit ==
  \/ bridge = "sending" /\ ~rx_open
  \/ bridge = "polling" /\ Disconnected

BridgeExits ==
  /\ MayExit
  /\ bridge' = "exited"
  /\ held' = <<>>
  /\ raw' = <<>>
  /\ UNCHANGED <<rx, rx_open, watching, got, historyVars>>

------------------------------------------------------------------------------
(* The consumer *)

NextEvent ==
  /\ rx_open
  /\ rx # <<>>
  /\ got' = Head(rx)
  /\ rx' = Tail(rx)
  /\ delivered' = delivered + 1
  /\ UNCHANGED <<raw, held, lifeVars, reports, accepted>>

\* Fields are dropped in declaration order.
DropReceiver ==
  /\ rx_open
  /\ rx_open' = FALSE
  /\ rx' = <<>>
  /\ UNCHANGED <<raw, held, bridge, watching, got, historyVars>>

DropWatcher ==
  /\ ~rx_open
  /\ watching
  /\ watching' = FALSE
  /\ UNCHANGED <<channelVars, bridge, rx_open, got, historyVars>>

------------------------------------------------------------------------------

Next ==
  \/ \E paths \in EventPaths \cup {<<>>} : Notify(paths)
  \/ BridgePolls
  \/ BridgeSends
  \/ BridgeExits
  \/ NextEvent
  \/ DropReceiver
  \/ DropWatcher

Spec == Init /\ [][Next]_vars

\* The executor keeps polling the bridge, the consumer (the shell's watcher
\* thread) asks for the next event as long as it has the watcher, and a drop
\* that has begun ends.
Fairness ==
  /\ WF_vars(BridgePolls)
  /\ WF_vars(BridgeSends)
  /\ WF_vars(BridgeExits)
  /\ WF_vars(NextEvent)
  /\ WF_vars(DropWatcher)

FairSpec == Spec /\ Fairness

------------------------------------------------------------------------------
(* Properties *)

\* The shape of the state; both channels keep to their capacities.
TypeOK ==
  /\ raw \in Seq(EventPaths \cup {<<>>}) /\ Len(raw) <= RawCap
  /\ rx \in Seq(Path) /\ Len(rx) <= Cap
  /\ held \in Seq(Path)
  /\ bridge \in {"polling", "sending", "exited"}
  /\ bridge = "sending" <=> held # <<>>
  /\ rx_open \in BOOLEAN
  /\ watching \in BOOLEAN
  /\ got \in Path \cup {None}
  /\ {reports, accepted, delivered} \subseteq Nat

\* The bridge outlives its FileWatcher: next_event never returns None to a
\* consumer that still has one, which would make the shell's watcher thread
\* spin, since it asks again without looking.
BridgeOutlivesWatcher == bridge = "exited" => ~rx_open

\* Every path that got into the first channel reaches the consumer, unless the
\* watcher is dropped: an overflow costs the event that arrives and none that is
\* queued.
PathsAreDelivered ==
  \A n \in 1..(2 * MaxReports) : (accepted >= n) ~> (delivered >= n \/ ~rx_open)

\* The bridge of a dropped FileWatcher ends, whether it was polling, waiting
\* for room or had events left.
BridgeEnds == ~rx_open ~> bridge = "exited"
==============================================================================
