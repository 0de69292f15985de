--------------------------- MODULE MCEditorTabSeen ---------------------------
(* EditorTabSeen with the texts of MCEditorTab. *)
EXTENDS EditorTabSeen

CONSTANTS empty, valid, other

MCText == {empty, valid, other}
==============================================================================
