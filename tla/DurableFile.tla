----------------------------- MODULE DurableFile -----------------------------
(***************************************************************************)
(* What the writers of config files promise: a file holds a whole text,    *)
(* the old one or the new one, also after a power loss.  The exceptions    *)
(* are part of the promise: a text that does not parse is not synced, and  *)
(* a generated file is written in place, so these may be found cut off.    *)
(***************************************************************************)
EXTENDS Naturals

CONSTANTS
  Path,      \* config files
  Text,      \* file contents
  Empty,     \* what is left of a file that was cut off
  Invalid,   \* texts that do not parse
  Default,   \* the text that is generated, in place
  Missing    \* there is no file

ASSUME FileAssumption ==
  /\ Empty \in Text
  /\ Invalid \subseteq Text \ {Empty}
  /\ Default \in Text
  /\ Missing \notin Text

VARIABLES
  file,   \* what each path holds for a reader
  past    \* what each path may hold after a power loss

durableVars == <<file, past>>

Content == Text \cup {Missing}

DurableInit ==
  /\ file \in [Path -> Content]
  /\ past = [p \in Path |-> {file[p]}]

\* A path comes to hold a text, with everything it may be found with later.
Becomes(p, now, later) ==
  /\ file' = [file EXCEPT ![p] = now]
  /\ past' = [past EXCEPT ![p] = @ \cup later]

Replace(p, text) ==
  Becomes(p, text, IF text \in Invalid THEN {text, Empty} ELSE {text})

\* Another program replaces or removes the file.
ReplaceOutside(p, content) == Becomes(p, content, {content})

\* Writing in place: cut, then fill.
Cut(p) == Becomes(p, Empty, {Empty})

Fill(p) == Becomes(p, Default, {Default, Empty})

\* The kernel has written the data and the directory.
Settle(p) ==
  /\ past' = [past EXCEPT ![p] = {file[p]}]
  /\ UNCHANGED file

PowerLoss ==
  /\ file' \in [Path -> Content]
  /\ \A p \in Path : file'[p] \in past[p]
  /\ past' = [p \in Path |-> {file'[p]}]

DurableNext ==
  \/ \E p \in Path :
       \/ \E text \in Text : Replace(p, text)
       \/ \E content \in Content : ReplaceOutside(p, content)
       \/ Cut(p)
       \/ Fill(p)
       \/ Settle(p)
  \/ PowerLoss

DurableSpec == DurableInit /\ [][DurableNext]_durableVars
==============================================================================
