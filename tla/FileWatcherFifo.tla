--------------------------- MODULE FileWatcherFifo ---------------------------
(***************************************************************************)
(* FileWatcher implements WatchFifo.  The mapping puts the two channels    *)
(* and the event the bridge has in hand end to end.                        *)
(***************************************************************************)
EXTENDS FileWatcher, SequencesExt

\* Two channels, a task that takes events apart and a handler that drops what
\* does not fit amount to one queue: no path is reordered or delivered twice,
\* and an event is lost as a whole, when it arrives at a full channel, or not at
\* all.
Fifo == INSTANCE WatchFifo WITH
  Reports <- EventPaths,
  queue <- IF rx_open THEN rx \o held \o FlattenSeq(raw) ELSE <<>>,
  open <- rx_open

ImplementsFifo == Fifo!Spec
==============================================================================
