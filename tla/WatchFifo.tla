------------------------------ MODULE WatchFifo ------------------------------
(***************************************************************************)
(* What FileWatcher promises its consumer: the paths of reported changes,  *)
(* in the order they were reported, each once.  A report may be lost as a  *)
(* whole, and what is still queued goes when the watcher is dropped.       *)
(***************************************************************************)
EXTENDS Sequences

CONSTANTS
  Reports,   \* the path lists a report may have
  None

VARIABLES queue, got, open

vars == <<queue, got, open>>

Init ==
  /\ queue = <<>>
  /\ got = None
  /\ open = TRUE

Report(paths) ==
  /\ open
  /\ queue' = queue \o paths
  /\ UNCHANGED <<got, open>>

Take ==
  /\ open
  /\ queue # <<>>
  /\ got' = Head(queue)
  /\ queue' = Tail(queue)
  /\ UNCHANGED open

Drop ==
  /\ open
  /\ open' = FALSE
  /\ queue' = <<>>
  /\ UNCHANGED got

Next ==
  \/ \E paths \in Reports : Report(paths)
  \/ Take
  \/ Drop

Spec == Init /\ [][Next]_vars
==============================================================================
