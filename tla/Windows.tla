------------------------------- MODULE Windows -------------------------------
(***************************************************************************)
(* Several windows of one process (run_shell, shell.rs).  A second start   *)
(* of the program activates the first again: connect_activate builds       *)
(* another window over the same list of tabs and the same ShellState.      *)
(* Also the first-run page, whose button empties that list.  What a tab    *)
(* does by itself is EditorTab, what the watcher does is Shell; here a tab *)
(* is its text, the text it was read from and whether it has a path.       *)
(***************************************************************************)
EXTENDS Naturals, Sequences, FiniteSetsExt

CONSTANTS
  Text, Empty,
  Default,     \* what generate_default_config writes
  Missing,     \* the config file does not exist
  Window,
  MaxTabs,     \* bound: tabs ever built
  MaxOutside   \* bound: changes of the file by other programs

VARIABLES
  file,
  tabs,         \* every tab built
  states,       \* tab_diff_states: places in `tabs`
  stage,        \* of each window: "none", "first-run", "editor", "closed"
  selected,     \* the tab of each window, 0 when it has none
  is_dirty,     \* the one flag of ShellState
  asking,       \* the windows with a close dialog
  alive,
  outside

windowVars == <<stage, selected, asking>>
vars == <<file, tabs, states, windowVars, is_dirty, alive, outside>>

Tab(text) == [text |-> text, saved |-> text, held |-> {text}, has_path |-> FALSE]

Init ==
  /\ file \in Text \cup {Missing}
  /\ tabs = <<>>
  /\ states = <<>>
  /\ stage = [w \in Window |-> "none"]
  /\ selected = [w \in Window |-> 0]
  /\ is_dirty = FALSE
  /\ asking = {}
  /\ alive = TRUE
  /\ outside = 0

Unsaved(t) == tabs[t].text # tabs[t].saved

\* The tabs a save writes: those of the list that have a path.
Writable == {t \in Range(states) : Unsaved(t) /\ tabs[t].has_path}

\* A window that answers: a dialog is modal to its own window only.
Reacts(w) == alive /\ stage[w] \in {"first-run", "editor"} /\ w \notin asking

\* The tab and the header with its buttons are on the editor page.
Editable(w) == Reacts(w) /\ stage[w] = "editor"

------------------------------------------------------------------------------
(* Windows appear *)

\* The paths are filled in by a zip of the list with the tools: as there is one
\* tool, the list's first tab gets the path, whichever window it belongs to.
FirstGetsPath(list, all) ==
  [all EXCEPT ![Head(list)].has_path = (file # Missing)]

Activate(w) ==
  LET new  == Len(tabs) + 1
      list == Append(states, new)
      text == IF file = Missing THEN Empty ELSE file
  IN  /\ alive
      /\ stage[w] = "none"
      /\ new <= MaxTabs
      /\ states' = list
      /\ tabs' = FirstGetsPath(list, Append(tabs, Tab(text)))
      /\ stage' = [stage EXCEPT ![w] = IF file = Missing THEN "first-run" ELSE "editor"]
      /\ selected' = [selected EXCEPT ![w] = new]
      /\ UNCHANGED <<file, is_dirty, asking, alive, outside>>

\* The file is written whether or not it exists by now, and the list is emptied
\* whatever other windows have in it.
GenerateClicked(w) ==
  LET new == Len(tabs) + 1
  IN  /\ Reacts(w)
      /\ stage[w] = "first-run"
      /\ new <= MaxTabs
      /\ file' = Default
      /\ tabs' = Append(tabs, [Tab(Default) EXCEPT !.has_path = TRUE])
      /\ states' = <<new>>
      /\ stage' = [stage EXCEPT ![w] = "editor"]
      /\ selected' = [selected EXCEPT ![w] = new]
      /\ UNCHANGED <<is_dirty, asking, alive, outside>>

------------------------------------------------------------------------------
(* Edits *)

\* The `changed` handler of a tab sets the flag from that tab alone.
Becomes(t, text) ==
  /\ tabs' = [tabs EXCEPT ![t].text = text, ![t].held = @ \cup {text}]
  /\ is_dirty' = (text # tabs[t].saved)
  /\ UNCHANGED <<file, states, windowVars, alive, outside>>

Edit(w, text) ==
  /\ Editable(w)
  /\ text # tabs[selected[w]].text
  /\ Becomes(selected[w], text)

\* Each window has one page, at position 0, so both buttons address the first
\* tab of the list.  They bring back a text the tab has held.
UndoOrRedoClicked(w, text) ==
  /\ Editable(w)
  /\ text \in tabs[states[1]].held \ {tabs[states[1]].text}
  /\ Becomes(states[1], text)

------------------------------------------------------------------------------
(* Saving and closing *)

\* A write that succeeds is followed by the assignment to a borrowed
\* original_text, which aborts the process.  A tab without a path is skipped.
SaveClicked(w) ==
  /\ Editable(w)
  /\ is_dirty
  /\ \/ UNCHANGED vars
     \/ \E t \in Writable :
          /\ file' = tabs[t].text
          /\ alive' = FALSE
          /\ UNCHANGED <<tabs, states, windowVars, is_dirty, outside>>

\* The application ends with its last window.
Destroyed(w) ==
  /\ stage' = [stage EXCEPT ![w] = "closed"]
  /\ alive' = (\E v \in Window : stage'[v] \in {"first-run", "editor"})
  /\ UNCHANGED file

CloseRequest(w) ==
  /\ Reacts(w)
  /\ IF is_dirty
     THEN asking' = asking \cup {w} /\ UNCHANGED <<file, stage, alive>>
     ELSE Destroyed(w) /\ UNCHANGED asking
  /\ UNCHANGED <<tabs, states, selected, is_dirty, outside>>

Answered(w) == alive /\ w \in asking /\ asking' = asking \ {w}

CloseCancelled(w) ==
  /\ Answered(w)
  /\ UNCHANGED <<file, tabs, states, stage, selected, is_dirty, alive, outside>>

\* The write may fail without a word; the assignment after it aborts.
Written ==
  /\ \E t \in Writable : file' \in {file, tabs[t].text}
  /\ alive' = FALSE
  /\ UNCHANGED stage

CloseConfirmed(w) ==
  /\ Answered(w)
  /\ \/ Destroyed(w)   \* Discard
     \/ Writable = {} /\ Destroyed(w)
     \/ Written
  /\ UNCHANGED <<tabs, states, selected, is_dirty, outside>>

------------------------------------------------------------------------------
(* What else happens to the file *)

OtherProgram(content) ==
  /\ outside < MaxOutside
  /\ outside' = outside + 1
  /\ file' = content
  /\ UNCHANGED <<tabs, states, windowVars, is_dirty, alive>>

Next ==
  \/ \E w \in Window :
       \/ Activate(w)
       \/ GenerateClicked(w)
       \/ SaveClicked(w)
       \/ CloseRequest(w)
       \/ CloseCancelled(w)
       \/ CloseConfirmed(w)
       \/ \E text \in Text : Edit(w, text) \/ UndoOrRedoClicked(w, text)
  \/ \E content \in Text \cup {Missing} : OtherProgram(content)

Spec == Init /\ [][Next]_vars

------------------------------------------------------------------------------
(* Properties *)

Shown == {selected[w] : w \in {v \in Window : stage[v] = "editor"}}

\* The comment on ShellState::is_dirty (shell_state.rs:125): "`true` when any tab
\* has unsaved edits".
AnyTabDirty == alive => ((\E t \in Shown : Unsaved(t)) => is_dirty)
==============================================================================
