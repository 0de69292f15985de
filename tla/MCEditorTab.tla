----------------------------- MODULE MCEditorTab -----------------------------
(* EditorTab with three texts: the empty one, one that parses, one that does not. *)
EXTENDS EditorTab

CONSTANTS empty, valid, broken

MCText == {empty, valid, broken}

MCInvalid == {broken}
==============================================================================
