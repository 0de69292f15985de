------------------------------ MODULE MCWindows ------------------------------
(* Windows with two windows and two texts. *)
EXTENDS Windows

CONSTANTS empty, default
==============================================================================
