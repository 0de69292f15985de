------------------------------ MODULE EditorTab ------------------------------
(***************************************************************************)
(* One editor tab of the shell (build_editor_page, the Undo, Redo, Compare *)
(* and Restore GUI buttons, src/shell.rs): the text buffer, the snapshot   *)
(* taken at load, the undo stack, the fallback view and the debounced      *)
(* validation loop.                                                        *)
(*                                                                         *)
(* Everything runs on the GTK main loop.  A handler that calls             *)
(* TextBuffer::set_text is re-entered by the `changed` signal: once for    *)
(* the deletion of the old text and once for the insertion of the new one. *)
(* The model keeps that nesting: `call` is the handler that is rewriting   *)
(* the buffer, `pending` the texts of the emissions still to come, and     *)
(* nothing else runs until the handler has returned.                       *)
(***************************************************************************)
EXTENDS UndoStack

CONSTANTS
  Text,         \* the contents a buffer or a file may have
  Empty,        \* the empty text, which parses as a document without nodes
  Invalid,      \* the texts kdl::KdlDocument::from_str rejects
  NoText,       \* no text at all
  HasSections   \* whether build_niri_sections returns a page for the tool

ASSUME TextAssumption ==
  /\ Empty \in Text
  /\ Invalid \subseteq Text \ {Empty}
  /\ NoText \notin Text
  /\ HasSections \in BOOLEAN

VARIABLES
  buffer,            \* contents of the GtkTextBuffer
  original_text,     \* the text last read from the file
  previous_text,     \* the text before the edit being handled
  suppressing_undo,
  is_dirty,          \* ShellState's property, which enables the Save button
  view,              \* the visible child of the tab's stack
  error_text,        \* the text whose parse error the fallback view describes
  compare,           \* whether the Compare toggle is active
  diff_panes,        \* the two texts last compared, or <<>>
  debounce_source,   \* "none", "armed", or "fired": the id of a source that is gone
  timer_text,        \* the snapshot the armed timer will validate
  in_flight,         \* texts whose validation has been spawned and not finished
  banner_revealed,
  last_validation,   \* the text last validated and whether there were complaints, or <<>>
  call, pending, target,
  alive              \* FALSE once the process has ended

docVars == <<buffer, original_text, previous_text, suppressing_undo, is_dirty, stackVars>>
viewVars == <<view, error_text, compare, diff_panes>>
validationVars == <<debounce_source, timer_text, in_flight, banner_revealed, last_validation>>
callVars == <<call, pending, target>>
tabVars == <<docVars, viewVars, validationVars, callVars, alive>>

Views == {"sections", "raw", "diff", "fallback"}

\* Mutant: a page name the stack does not have.
StructuredMisnamed == "editor"

\* The page for a text that parses.
Structured == IF HasSections THEN "sections" ELSE "raw"

Command == [old_text : Text, new_text : Text]

Idle == alive /\ call = "none"

\* The first page added to the stack is the visible one, whatever the text.
\* The initial set_text happens before the handler is connected.
TabInit(text) ==
  /\ buffer = text
  /\ original_text = text
  /\ previous_text = text
  /\ StackInit
  /\ suppressing_undo = FALSE
  /\ is_dirty = FALSE
  /\ view = Structured
  /\ error_text = NoText
  /\ compare = FALSE
  /\ diff_panes = <<>>
  /\ debounce_source = "none"
  /\ timer_text = NoText
  /\ in_flight = <<>>
  /\ banner_revealed = FALSE
  /\ last_validation = <<>>
  /\ call = "none"
  /\ pending = <<>>
  /\ target = NoText
  /\ alive = TRUE

------------------------------------------------------------------------------
(* Rewriting the buffer *)

\* The `changed` emissions of TextBuffer::set_text: deleting nothing and
\* inserting nothing are silent.
Emissions(old, new) ==
  (IF old = Empty THEN <<>> ELSE <<Empty>>) \o (IF new = Empty THEN <<>> ELSE <<new>>)

SetText(text, by) ==
  /\ pending' = Emissions(buffer, text)
  /\ target' = text
  /\ call' = by

\* The user types in the raw or in the fallback text view, which share the buffer.
TypeText(text) ==
  /\ Idle
  /\ view \in {"raw", "fallback"}
  /\ text # buffer
  /\ pending' = <<text>>
  /\ target' = text
  /\ call' = "edit"
  /\ UNCHANGED <<docVars, viewVars, validationVars, alive>>

\* A section widget parses the buffer, patches the document and writes all of
\* it back; when the buffer does not parse, the edit is dropped.  What it writes
\* need not parse (Sections).
WidgetEdit(text) ==
  /\ Idle
  /\ view = "sections"
  /\ buffer \notin Invalid
  /\ SetText(text, "edit")
  /\ UNCHANGED <<docVars, viewVars, validationVars, alive>>

UndoClicked ==
  /\ Idle
  /\ Undo
  /\ suppressing_undo' = TRUE
  /\ SetText(Top(undo_buf).old_text, "undo")
  /\ UNCHANGED <<buffer, original_text, previous_text, is_dirty,
                 viewVars, validationVars, alive>>

RedoClicked ==
  /\ Idle
  /\ Redo
  /\ suppressing_undo' = TRUE
  /\ SetText(Top(redo_buf).new_text, "redo")
  /\ UNCHANGED <<buffer, original_text, previous_text, is_dirty,
                 viewVars, validationVars, alive>>

\* handle_external_change, or the Reload answer of its dialog, with the text
\* it read from the file.
Reload(text) ==
  /\ Idle
  /\ SetText(text, "reload")
  /\ UNCHANGED <<docVars, viewVars, validationVars, alive>>

\* Mutant: the reload does not update the snapshot.
ReloadForgetsOriginal == is_dirty' = FALSE /\ UNCHANGED original_text

\* The last two statements of handle_external_change and of its Reload answer.
ReloadSettles == original_text' = target /\ is_dirty' = FALSE

\* What the caller of set_text does once the emissions are over.
SetTextReturns ==
  /\ alive
  /\ call # "none"
  /\ pending = <<>>
  /\ call' = "none"
  /\ target' = NoText
  /\ suppressing_undo' = FALSE
  /\ IF call = "reload"
     THEN ReloadSettles
     ELSE UNCHANGED <<original_text, is_dirty>>
  /\ UNCHANGED <<buffer, previous_text, stackVars, pending,
                 viewVars, validationVars, alive>>

------------------------------------------------------------------------------
(* The `changed` handler *)

\* A text that parses ends the fallback view.
LeaveFallback(text) ==
  /\ text \notin Invalid
  /\ view = "fallback"
  /\ view' = Structured
  /\ UNCHANGED <<error_text, banner_revealed>>

\* A text that does not parse starts it, unless the diff is on display.
EnterFallback(text) ==
  /\ text \in Invalid
  /\ view \notin {"fallback", "diff"}
  /\ view' = "fallback"
  /\ error_text' = text
  /\ banner_revealed' = FALSE

\* Mutant: nothing leaves the fallback view.
KeepAnyView(text) == UNCHANGED <<view, error_text, banner_revealed>>

KeepView(text) ==
  /\ IF text \in Invalid THEN view \in {"fallback", "diff"} ELSE view # "fallback"
  /\ UNCHANGED <<view, error_text, banner_revealed>>

\* Mutant: the buffer writes of Undo and Redo are recorded like edits.
RecordAlways(text) == Push([old_text |-> previous_text, new_text |-> text])

\* The command pushed for this emission, unless Undo or Redo caused it.
Record(text) ==
  IF suppressing_undo \/ previous_text = text
  THEN UNCHANGED stackVars
  ELSE Push([old_text |-> previous_text, new_text |-> text])

\* Mutant: removing a source that is gone does nothing.
RemoveNeverFails == FALSE

\* Removing the source debounce_source names: the id of a timer that has fired
\* names a source that no longer exists.
RemoveFails == debounce_source = "fired"

\* The previous timer, if it is still armed, is removed and a new one is armed
\* with a snapshot of the text.
Changed ==
  /\ alive
  /\ pending # <<>>
  /\ ~RemoveFails
  /\ LET text == Head(pending)
     IN  /\ buffer' = text
         /\ debounce_source' = "armed"
         /\ timer_text' = text
         /\ Record(text)
         /\ previous_text' = text
         /\ is_dirty' = (text # original_text)
         /\ LeaveFallback(text) \/ EnterFallback(text) \/ KeepView(text)
  /\ pending' = Tail(pending)
  /\ UNCHANGED <<original_text, suppressing_undo, compare, diff_panes,
                 in_flight, last_validation, call, target, alive>>

\* SourceId::remove unwraps the failure of g_source_remove, and a panic cannot
\* leave a GTK callback: the process ends.
ChangedAborts ==
  /\ alive
  /\ pending # <<>>
  /\ RemoveFails
  /\ alive' = FALSE
  /\ UNCHANGED <<docVars, viewVars, validationVars, callVars>>

------------------------------------------------------------------------------
(* The validation loop *)

\* Mutant: only a text that parses is validated.
SpawnParsed == IF timer_text \in Invalid THEN in_flight ELSE Append(in_flight, timer_text)

Spawned == Append(in_flight, timer_text)

\* The closure spawns the validation and returns ControlFlow::Break, which
\* destroys the source; nothing clears debounce_source.
DebounceFires ==
  /\ Idle
  /\ debounce_source = "armed"
  /\ debounce_source' = "fired"
  /\ in_flight' = Spawned
  /\ UNCHANGED <<docVars, viewVars, timer_text, banner_revealed, last_validation,
                 callVars, alive>>

Without(s, i) == SubSeq(s, 1, i - 1) \o SubSeq(s, i + 1, Len(s))

\* Any spawned validation may be the next to finish; the banner is revealed
\* when there are issues and when the validator itself fails.
ValidationDone(i, complaints) ==
  /\ Idle
  /\ banner_revealed' = complaints
  /\ last_validation' = <<in_flight[i], complaints>>
  /\ in_flight' = Without(in_flight, i)
  /\ UNCHANGED <<docVars, viewVars, debounce_source, timer_text, callVars, alive>>

------------------------------------------------------------------------------
(* The other buttons of the tab *)

\* Restore GUI parses the buffer: on success it rebuilds the sections page and
\* shows it, on failure it refreshes the diagnostic.
RestoreClicked ==
  /\ Idle
  /\ view = "fallback"
  /\ IF buffer \in Invalid
     THEN error_text' = buffer /\ view' = "fallback"
     ELSE error_text' = error_text /\ view' = Structured
  /\ UNCHANGED <<docVars, compare, diff_panes, validationVars, callVars, alive>>

CompareOn ==
  /\ Idle
  /\ ~compare
  /\ compare' = TRUE
  /\ diff_panes' = <<original_text, buffer>>
  /\ view' = "diff"
  /\ UNCHANGED <<docVars, error_text, validationVars, callVars, alive>>

\* set_tab_mode asks for a page named "editor"; the stack has no such page and
\* keeps the one it shows.
CompareOff ==
  /\ Idle
  /\ compare
  /\ compare' = FALSE
  /\ UNCHANGED <<docVars, view, error_text, diff_panes, validationVars, callVars, alive>>

\* The window is destroyed, or a handler outside the tab aborts.
ProcessEnds ==
  /\ Idle
  /\ alive' = FALSE
  /\ UNCHANGED <<docVars, viewVars, validationVars, callVars>>

------------------------------------------------------------------------------

Init == \E text \in Text : TabInit(text)

Rewrite ==
  \/ \E text \in Text : TypeText(text)
  \/ \E text \in Text : WidgetEdit(text)
  \/ \E text \in Text : Reload(text)
  \/ UndoClicked
  \/ RedoClicked

Validate ==
  \/ DebounceFires
  \/ \E i \in DOMAIN in_flight, complaints \in BOOLEAN : ValidationDone(i, complaints)

Next ==
  \/ Rewrite
  \/ Changed
  \/ ChangedAborts
  \/ SetTextReturns
  \/ Validate
  \/ RestoreClicked
  \/ CompareOn
  \/ CompareOff
  \/ ProcessEnds

\* A handler that is running runs to its end.  A due timer and a future that is
\* ready are sources of the main loop, which dispatches them between handlers
\* however often other handlers run (strong fairness).  Nothing obliges the
\* user or the file to do anything.
Fairness ==
  /\ WF_tabVars(Changed \/ ChangedAborts)
  /\ WF_tabVars(SetTextReturns)
  /\ SF_tabVars(DebounceFires)
  /\ SF_tabVars(\E i \in DOMAIN in_flight, complaints \in BOOLEAN :
                  ValidationDone(i, complaints))

Spec == Init /\ [][Next]_tabVars

FairSpec == Spec /\ Fairness

------------------------------------------------------------------------------
(* Properties *)

\* The shape of the state.
TypeOK ==
  /\ {buffer, original_text, previous_text} \subseteq Text
  /\ {undo_buf, redo_buf} \subseteq Seq(Command)
  /\ {suppressing_undo, is_dirty, stack_dirty, compare, banner_revealed, alive} \subseteq BOOLEAN
  /\ view \in Views
  /\ {error_text, timer_text, target} \subseteq Text \cup {NoText}
  /\ diff_panes \in {<<>>} \cup (Text \X Text)
  /\ debounce_source \in {"none", "armed", "fired"}
  /\ in_flight \in Seq(Text)
  /\ last_validation \in {<<>>} \cup (Text \X BOOLEAN)
  /\ call \in {"none", "edit", "undo", "redo", "reload"}
  /\ pending \in Seq(Text)
  /\ call # "none" => target \in Text
  /\ debounce_source # "none" => timer_text \in Text

\* The text the user is meant to see: while Undo or Redo is rewriting the
\* buffer, the one they are about to restore.
CurrentDoc == IF call \in {"undo", "redo"} THEN target ELSE buffer

\* The commands of undo and redo form one line of edits through the text d:
\* undo leads back from d command by command, redo forward.
LineThrough(undo, redo, d) ==
  /\ undo # <<>> => Top(undo).new_text = d
  /\ redo # <<>> => Top(redo).old_text = d
  /\ \A i \in 1..(Len(undo) - 1) : undo[i].new_text = undo[i + 1].old_text
  /\ \A i \in 1..(Len(redo) - 1) : redo[i].old_text = redo[i + 1].new_text

\* The texts Undo can bring back, and the texts Redo can.
OldTexts(buf) == [i \in DOMAIN buf |-> buf[i].old_text]

NewTexts(buf) == [i \in DOMAIN buf |-> buf[i].new_text]

\* The recorded commands form one unbroken line of edits through the current
\* text, although a reload or a widget edit is recorded as two commands with an
\* empty document in between and Undo itself re-enters the recording handler:
\* no command starts from a text the one before it did not end at.
UndoChain == LineThrough(undo_buf, redo_buf, CurrentDoc)

\* Undo and redo together never hold more than Cap commands, although redo()
\* does not check the cap.
HistoryBounded == Len(undo_buf) + Len(redo_buf) <= Cap

\* The Save button is enabled exactly when the buffer differs from the text
\* last read from the file, across edits, undo, redo and reloads.
DirtyExact == is_dirty = (buffer # original_text)

\* The fallback view only ever shows a text that does not parse, so the
\* success branch of Restore GUI is never taken.
FallbackHoldsInvalid == view = "fallback" => buffer \in Invalid

\* A validation that is running, or whose verdict is the last one given, is
\* about the text in the buffer: the second edit after a timer has fired ends
\* the process before it could make them stale.
VerdictAboutBuffer ==
  /\ \A i \in DOMAIN in_flight : in_flight[i] = buffer
  /\ last_validation # <<>> => last_validation[1] = buffer

\* An armed timer is followed by a verdict on its snapshot, unless a newer edit
\* replaces it or the process ends.
EditsGetValidated ==
  \A text \in Text :
    (debounce_source = "armed" /\ timer_text = text) ~>
      (~alive \/ timer_text # text \/ (last_validation # <<>> /\ last_validation[1] = text))

\* The tab keeps the promise of an undoable document: seen through CurrentDoc
\* and the texts its commands carry, every handler is an edit, an undo, a redo
\* or invisible.
History == INSTANCE DocHistory WITH
  Doc    <- Text,
  Depth  <- Cap,
  doc    <- CurrentDoc,
  past   <- OldTexts(undo_buf),
  future <- NewTexts(redo_buf)

ImplementsHistory == History!Spec

==============================================================================
