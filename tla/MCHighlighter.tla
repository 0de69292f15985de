---------------------------- MODULE MCHighlighter ----------------------------
(* Highlighter over eleven characters: one for each branch of the scanner, and *)
(* "e" for a letter outside ASCII.                                             *)
EXTENDS Highlighter

MCChar == Special \cup {"1", "a", "e", "{"}

MCBytes(c) == IF c = "e" THEN 2 ELSE 1

MCKeywords == {<<"a">>, <<"a", "-", "a">>}

MCOpened == {<<>>, <<"{">>}

\* A block that is never closed is rejected; at the end of the text the span is
\* empty, elsewhere it is the character behind the bracket.
MCFails(text) == \E k \in DOMAIN text : text[k] = "{"

MCSpanOf(text) ==
  LET before == SelectInSeq(text, LAMBDA c : c = "{")
      bytes == [k \in 1..before |-> MCBytes(text[k])]
  IN  [offset |-> FoldSeq(LAMBDA b, sum : b + sum, 0, bytes),
       len |-> IF before = Len(text) THEN 0 ELSE MCBytes(text[before + 1])]
==============================================================================
