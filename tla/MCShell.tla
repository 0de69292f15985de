------------------------------- MODULE MCShell -------------------------------
(* Shell with two texts that parse, the empty one and another. *)
EXTENDS Shell

CONSTANTS empty, valid
==============================================================================
