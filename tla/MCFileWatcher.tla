---------------------------- MODULE MCFileWatcher ----------------------------
(* FileWatcher with two paths and events that carry none, one or both. *)
EXTENDS FileWatcherFifo

CONSTANTS a, b

MCPath == {a, b}

MCEventPaths == {<<>>, <<a>>, <<b, a>>}
==============================================================================
