------------------------------ MODULE MCLineDiff ------------------------------
(* LineDiff over all pairs of texts of at most MaxLines lines. *)
EXTENDS LineDiff, TLC

CONSTANTS
  a, b,
  MaxLines   \* bound: the lines of a text

\* Lines of different lengths, without a character of several bytes.
MCLength == Blank :> 0 @@ a :> 1 @@ b :> 2

MCTexts == UNION {[1..n -> Line] : n \in 0..MaxLines}

MCNext == (\E o \in MCTexts, m \in MCTexts : Compare(o, m)) \/ Step

\* A comparison that has begun is carried to its end.
MCSpec == Init /\ [][MCNext]_vars
==============================================================================
