------------------------------ MODULE DocHistory ------------------------------
(***************************************************************************)
(* What an editor with undo promises: a document, the texts Undo can bring *)
(* back (newest last, at most Depth of them) and the texts Redo can.       *)
(* EditorTab.tla, whose buttons work by rewriting a text buffer under a    *)
(* signal handler that records edits, is shown to implement it.            *)
(***************************************************************************)
EXTENDS Naturals, Sequences

CONSTANTS Doc, Depth

VARIABLES doc, past, future

vars == <<doc, past, future>>

Newest(s) == s[Len(s)]

Older(s) == SubSeq(s, 1, Len(s) - 1)

KeepNewest(s) ==
  IF Len(s) <= Depth THEN s ELSE SubSeq(s, Len(s) - Depth + 1, Len(s))

Init ==
  /\ doc \in Doc
  /\ past = <<>>
  /\ future = <<>>

\* Any new text; what had been undone can no longer be redone.
Edit(d) ==
  /\ doc' = d
  /\ past' = KeepNewest(Append(past, doc))
  /\ future' = <<>>

Undo ==
  /\ past # <<>>
  /\ doc' = Newest(past)
  /\ past' = Older(past)
  /\ future' = Append(future, doc)

Redo ==
  /\ future # <<>>
  /\ doc' = Newest(future)
  /\ past' = Append(past, doc)
  /\ future' = Older(future)

Next ==
  \/ \E d \in Doc : Edit(d)
  \/ Undo
  \/ Redo

Spec == Init /\ [][Next]_vars
===============================================================================
