-------------------------------- MODULE Shell --------------------------------
(***************************************************************************)
(* The window around the tab (run_shell, handle_external_change and        *)
(* atomic_save_text in src/shell.rs) together with the config file, the    *)
(* programs that also write it, and the chain that reports its changes:    *)
(* inotify, FileWatcher and its thread, the channel, the poll every 100 ms *)
(* and the 500 ms debounce timer.  main.rs registers one tool, so there is *)
(* one tab.                                                                *)
(*                                                                         *)
(* The window has been built: the file existed at startup or has just been *)
(* generated.  A panic inside a GTK callback ends the process.             *)
(***************************************************************************)
EXTENDS EditorTab

CONSTANTS
  Missing,      \* the file does not exist
  Unreadable,   \* it exists and is not UTF-8
  MaxOutside,   \* bound: accesses to the file by other programs
  MaxSaves      \* bound: failed saves

ASSUME FileAssumption ==
  /\ {Missing, Unreadable} \cap (Text \cup {NoText}) = {}
  /\ Missing # Unreadable
  /\ MaxOutside \in Nat
  /\ MaxSaves \in Nat

VARIABLES
  disk,             \* contents of the config file
  rewriting,        \* another program has truncated the file and not yet written it
  watch,            \* "starting", "watching" the inode the path names, or "lost"
  upstream,         \* events notify has reported and the thread has not sent on
  rx,               \* events in the channel the poll reads
  watcher_src,      \* watcher_debounce_src: "none", "armed", "fired"
  reload_dialogs,   \* the texts the open Reload/Ignore dialogs captured
  close_dialog,     \* whether the Save/Discard/Cancel dialog is open
  is_saving,
  releases,         \* timers that will clear is_saving
  ended,            \* how the process ended, or "no"
  outside, saves,   \* counters of the bounded actions
  unreported,       \* history: the file changed and notify was not watching it
  declined          \* history: the user answered Ignore

fileVars == <<disk, rewriting, outside, unreported>>
watcherVars == <<watch, upstream, rx, watcher_src>>
dialogVars == <<reload_dialogs, close_dialog, declined>>
savingVars == <<is_saving, releases, saves>>
shellVars == <<fileVars, watcherVars, dialogVars, savingVars, ended>>
appVars == <<tabVars, shellVars>>

Contents == Text \cup {Missing, Unreadable}

\* A file that cannot be read is shown as an empty document (unwrap_or_default).
Shown == IF disk \in Text THEN disk ELSE Empty

ShellInit ==
  /\ disk \in Text \cup {Unreadable}
  /\ TabInit(Shown)
  /\ rewriting = FALSE
  /\ watch = "starting"
  /\ upstream = 0
  /\ rx = 0
  /\ watcher_src = "none"
  /\ reload_dialogs = <<>>
  /\ close_dialog = FALSE
  /\ is_saving = FALSE
  /\ releases = 0
  /\ ended = "no"
  /\ outside = 0
  /\ saves = 0
  /\ unreported = FALSE
  /\ declined = FALSE

\* Mutant: the process ends and nothing says why.
EndUnseen(how) == ProcessEnds /\ UNCHANGED ended

End(how) ==
  /\ ProcessEnds
  /\ ended' = how

------------------------------------------------------------------------------
(* The file and the watcher *)

Accessed == upstream' = IF watch = "watching" THEN upstream + 1 ELSE upstream

Counted == outside < MaxOutside /\ outside' = outside + 1

Outside ==
  /\ alive
  /\ UNCHANGED <<tabVars, rx, watcher_src, dialogVars, savingVars, ended>>

\* Another program opens the file to read it: notify asks inotify for OPEN too.
ReadOutside ==
  /\ Outside
  /\ Counted
  /\ disk # Missing
  /\ Accessed
  /\ UNCHANGED <<disk, rewriting, watch, unreported>>

\* Another program writes in place: it truncates the file, then writes it.
TruncateOutside ==
  /\ Outside
  /\ Counted
  /\ disk # Missing
  /\ ~rewriting
  /\ disk' = Empty
  /\ rewriting' = TRUE
  /\ Accessed
  /\ unreported' = (unreported \/ watch # "watching")
  /\ UNCHANGED watch

\* The second half of its access, which the bound does not count again.
WriteOutside(text) ==
  /\ Outside
  /\ rewriting
  /\ disk' = text
  /\ rewriting' = FALSE
  /\ Accessed
  /\ unreported' = (unreported \/ watch # "watching")
  /\ UNCHANGED <<outside, watch>>

\* Another program renames a new file over the path, or removes the file: the
\* watch goes with the old inode.
ReplaceOutside(content) ==
  /\ Outside
  /\ Counted
  /\ ~rewriting
  /\ disk' = content
  /\ watch' = IF watch = "watching" THEN "lost" ELSE watch
  /\ Accessed
  /\ unreported' = (unreported \/ watch # "watching")
  /\ UNCHANGED rewriting

\* The watcher thread registers the path, some time after the text was read; a
\* missing file makes watch() fail and the thread return.
WatchStarts ==
  /\ alive
  /\ watch = "starting"
  /\ watch' = IF disk = Missing THEN "lost" ELSE "watching"
  /\ UNCHANGED <<tabVars, fileVars, upstream, rx, watcher_src, dialogVars, savingVars, ended>>

\* notify, the bridge task and the watcher thread pass an event on.
EventSent ==
  /\ alive
  /\ upstream > 0
  /\ upstream' = upstream - 1
  /\ rx' = rx + 1
  /\ UNCHANGED <<tabVars, fileVars, watch, watcher_src, dialogVars, savingVars, ended>>

------------------------------------------------------------------------------
(* The poll and the debounce timer *)

\* Mutant: removing a source that is gone does nothing.
PollNeverFails == FALSE

\* Nothing clears watcher_debounce_src when its timer fires.
PollRemoveFails == watcher_src = "fired"

\* Mutant: what arrives during a save is thrown away.
SuppressedDropped == rx' = 0 /\ UNCHANGED watcher_src

\* A poll that finds the save guard up leaves the events in the channel.
Suppressed == UNCHANGED <<rx, watcher_src>>

\* The poll drains the channel: each event removes the timer before it, the one
\* of an earlier poll included, and arms a new one.
Poll ==
  /\ Idle
  /\ rx > 0
  /\ \/ is_saving /\ Suppressed
     \/ ~is_saving /\ ~PollRemoveFails /\ rx' = 0 /\ watcher_src' = "armed"
  /\ UNCHANGED <<tabVars, fileVars, watch, upstream, dialogVars, savingVars, ended>>

\* The poll is a GTK callback as well: SourceId::remove panics in it.
PollAborts ==
  /\ Idle
  /\ rx > 0
  /\ ~is_saving
  /\ PollRemoveFails
  /\ End("poll_panic")
  /\ UNCHANGED <<fileVars, watcherVars, dialogVars, savingVars>>

\* Mutant: only a file that is gone fails to be read.
ReadableIfThere == disk # Missing

\* read_to_string fails on a missing file and on one that is not UTF-8.
Readable == disk \in Text

\* Mutant: the reload does not look for unsaved edits.
NeverUnsaved == FALSE

\* The comparison handle_external_change makes itself.
Unsaved == buffer # original_text

\* handle_external_change.  Its own read of the file is an event like any other.
WatcherTimerFires ==
  /\ Idle
  /\ watcher_src = "armed"
  /\ watcher_src' = "fired"
  /\ IF disk = Missing THEN UNCHANGED upstream ELSE Accessed
  /\ \/ /\ ~Readable
        /\ UNCHANGED <<tabVars, reload_dialogs>>
     \/ /\ Readable
        /\ Unsaved
        /\ reload_dialogs' = Append(reload_dialogs, disk)
        /\ UNCHANGED tabVars
     \/ /\ Readable
        /\ ~Unsaved
        /\ Reload(disk)
        /\ UNCHANGED reload_dialogs
  /\ UNCHANGED <<fileVars, watch, rx, close_dialog, declined, savingVars, ended>>

AnswerReload(i) ==
  /\ Reload(reload_dialogs[i])
  /\ reload_dialogs' = Without(reload_dialogs, i)
  /\ UNCHANGED <<fileVars, watcherVars, close_dialog, declined, savingVars, ended>>

AnswerIgnore(i) ==
  /\ Idle
  /\ reload_dialogs' = Without(reload_dialogs, i)
  /\ declined' = TRUE
  /\ UNCHANGED <<tabVars, fileVars, watcherVars, close_dialog, savingVars, ended>>

------------------------------------------------------------------------------
(* Saving and closing *)

\* Both dialogs are modal: the widgets under them take no input.
Responsive == reload_dialogs = <<>> /\ ~close_dialog

\* atomic_save_text renames a new file over the path.  kdl prints a parsed
\* document as it was written, and a text that does not parse is written as it
\* is, so the file gets the buffer's text either way.
Written ==
  /\ disk' = buffer
  /\ watch' = IF watch = "watching" THEN "lost" ELSE watch
  /\ Accessed
  /\ rewriting' = FALSE
  /\ UNCHANGED <<outside, unreported, rx, watcher_src>>

\* The button is bound to is-dirty.  When the write has succeeded the handler
\* assigns original_text while it still holds it borrowed, and panics.
SaveClicked ==
  /\ Idle
  /\ Responsive
  /\ is_dirty
  /\ is_saving' = TRUE
  /\ buffer # original_text
  /\ Written
  /\ End("save_panic")
  /\ UNCHANGED <<dialogVars, releases, saves>>

\* The write fails: the handler returns, having scheduled the release of the guard.
SaveFails ==
  /\ Idle
  /\ Responsive
  /\ is_dirty
  /\ saves < MaxSaves
  /\ saves' = saves + 1
  /\ is_saving' = TRUE
  /\ releases' = releases + 1
  /\ UNCHANGED <<tabVars, fileVars, watcherVars, dialogVars, ended>>

\* Mutant: the timer does not clear the guard.
GuardKept == UNCHANGED is_saving

GuardCleared == is_saving' = FALSE

\* 250 ms after a click, whether or not another click has raised the guard since.
SaveGuardReleased ==
  /\ Idle
  /\ releases > 0
  /\ releases' = releases - 1
  /\ GuardCleared
  /\ UNCHANGED <<tabVars, fileVars, watcherVars, dialogVars, saves, ended>>

CloseRequest ==
  /\ Idle
  /\ ~close_dialog
  /\ IF is_dirty
     THEN close_dialog' = TRUE /\ UNCHANGED <<tabVars, ended>>
     ELSE End("closed") /\ UNCHANGED close_dialog
  /\ UNCHANGED <<fileVars, watcherVars, reload_dialogs, declined, savingVars>>

CloseCancelled ==
  /\ Idle
  /\ close_dialog
  /\ close_dialog' = FALSE
  /\ UNCHANGED <<tabVars, fileVars, watcherVars, reload_dialogs, declined, savingVars, ended>>

CloseDiscards ==
  /\ Idle
  /\ close_dialog
  /\ End("discarded")
  /\ UNCHANGED <<fileVars, watcherVars, dialogVars, savingVars>>

\* The answer Save ignores the outcome of the write and panics as Save does;
\* with nothing to write the window closes.
CloseSaves ==
  /\ Idle
  /\ close_dialog
  /\ IF buffer # original_text
     THEN End("close_panic") /\ (Written \/ UNCHANGED <<fileVars, watcherVars>>)
     ELSE End("closed") /\ UNCHANGED <<fileVars, watcherVars>>
  /\ UNCHANGED <<dialogVars, savingVars>>

------------------------------------------------------------------------------
(* The tab inside the window *)

TabInput ==
  /\ Responsive
  /\ \/ \E text \in Text : TypeText(text) \/ WidgetEdit(text)
     \/ UndoClicked
     \/ RedoClicked
     \/ RestoreClicked
     \/ CompareOn
     \/ CompareOff
  /\ UNCHANGED shellVars

TabRuns ==
  /\ Changed \/ SetTextReturns \/ Validate
  /\ UNCHANGED shellVars

TabAborts ==
  /\ ChangedAborts
  /\ ended' = "changed_panic"
  /\ UNCHANGED <<fileVars, watcherVars, dialogVars, savingVars>>

FileOutside ==
  \/ ReadOutside
  \/ TruncateOutside
  \/ \E text \in Text : WriteOutside(text)
  \/ \E content \in Contents : ReplaceOutside(content)

Watching ==
  \/ WatchStarts
  \/ EventSent
  \/ Poll
  \/ PollAborts
  \/ WatcherTimerFires
  \/ \E i \in DOMAIN reload_dialogs : AnswerReload(i) \/ AnswerIgnore(i)

SavingAndClosing ==
  \/ SaveClicked
  \/ SaveFails
  \/ SaveGuardReleased
  \/ CloseRequest
  \/ CloseCancelled
  \/ CloseDiscards
  \/ CloseSaves

ShellNext ==
  \/ TabInput
  \/ TabRuns
  \/ TabAborts
  \/ FileOutside
  \/ Watching
  \/ SavingAndClosing

\* The threads run; the main loop dispatches every due timer, however many
\* other sources are ready in between.
ShellFairness ==
  /\ Fairness
  /\ WF_appVars(WatchStarts)
  /\ WF_appVars(EventSent)
  /\ SF_appVars(Poll \/ PollAborts)
  /\ SF_appVars(WatcherTimerFires)
  /\ SF_appVars(SaveGuardReleased)

ShellSpec == ShellInit /\ [][ShellNext]_appVars

FairShellSpec == ShellSpec /\ ShellFairness

------------------------------------------------------------------------------
(* Properties *)

\* The shape of the shell's state.
ShellTypeOK ==
  /\ disk \in Contents
  /\ rewriting \in BOOLEAN /\ unreported \in BOOLEAN /\ declined \in BOOLEAN
  /\ close_dialog \in BOOLEAN /\ is_saving \in BOOLEAN
  /\ watch \in {"starting", "watching", "lost"}
  /\ upstream \in Nat /\ rx \in Nat /\ releases \in Nat
  /\ outside \in Nat /\ saves \in Nat
  /\ watcher_src \in {"none", "armed", "fired"}
  /\ reload_dialogs \in Seq(Text)
  /\ ended \in {"no", "closed", "discarded", "save_panic", "close_panic", "poll_panic",
                "changed_panic"}
  /\ alive <=> ended = "no"

\* Whatever the watcher, the dialogs, the saves and the other programs do, the
\* tab goes through steps EditorTab allows, so all that holds of the tab alone
\* holds inside the window.
ImplementsTab == Spec

\* Events on their way to handle_external_change.
Pending == upstream + rx > 0 \/ watcher_src = "armed"

\* As long as every change of the file was reported to notify, a tab with no
\* event on the way shows the file's text as its saved text, or is asking the
\* user about it, or was told to ignore it: the two debounces, the poll, the
\* save guard and the watcher's thread lose no change.
ReportedChangesShow ==
  (alive /\ call = "none" /\ ~unreported /\ ~Pending /\ disk \in Text) =>
    (original_text = disk \/ reload_dialogs # <<>> \/ declined)

\* However many events arrive and however they interleave with the timers, two
\* reload dialogs are never open together.
OneReloadDialog == Len(reload_dialogs) <= 1

\* The window closes by itself only over a buffer that holds the saved text:
\* the flag close-request looks at agrees with the buffer it does not look at.
ClosesSettled == ended = "closed" => buffer = original_text

\* Text that was not saved is replaced by the file's only through the Reload
\* answer of a dialog.
ReloadAsksFirst ==
  [][(call = "none" /\ call' = "reload" /\ buffer # original_text)
       => Len(reload_dialogs') < Len(reload_dialogs)]_appVars

\* An event is not left behind: the chain settles or the process ends, even
\* when failing saves keep raising the guard.
EventsGetHandled == Pending ~> (~alive \/ ~Pending)

------------------------------------------------------------------------------
(* What documents and comments of the repository say and the code does not do *)

\* CHECKLIST.pre-release.md, "Save button sensitivity cycle": after a click on
\* Save the program goes on, with the button disabled.
SaveReturns == ended # "save_panic"

\* The user is being asked about the text another program has finished writing
\* over the saved one.
AskedOnce ==
  /\ ~rewriting
  /\ disk # original_text
  /\ reload_dialogs = <<disk>>

\* CHECKLIST.pre-release.md, "500ms external-change debounce": a change leads to
\* one reload or dialog, and that is all it leads to.  Here the tab has unsaved
\* edits, so the change is a dialog, and the program is still there behind it.
EventsAreHarmless == AskedOnce => ended # "poll_panic"
==============================================================================
