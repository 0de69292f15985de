---------------------------- MODULE EditorTabSeen ----------------------------
(***************************************************************************)
(* EditorTab with a record of the texts the tab has shown between          *)
(* handlers, to ask what Undo brings back.                                 *)
(***************************************************************************)
EXTENDS EditorTab

VARIABLE seen   \* the texts the buffer held while no handler was running

SeenInit == Init /\ seen = {buffer}

SeenNext ==
  /\ Next
  /\ seen' = IF call' = "none" THEN seen \cup {buffer'} ELSE seen

SeenSpec == SeenInit /\ [][SeenNext]_<<tabVars, seen>>

\* The doc comment of TextUndoCommand: Undo restores the state before an edit,
\* so a text the tab has shown.
UndoRestoresSeen == call = "undo" => target \in seen
==============================================================================
