------------------------------ MODULE ShellProofs ------------------------------
(***************************************************************************)
(* Proofs about Shell for every set of texts and every bound: the window   *)
(* takes the tab through EditorTab's steps only, so the theorems of        *)
(* EditorTabProofs hold inside it; no reported change of the file is lost  *)
(* between the threads, the debounces and the save guard.                  *)
(***************************************************************************)
EXTENDS Shell, EditorTabProofs

------------------------------------------------------------------------------
(* The window leaves the tab to EditorTab *)

\* The window is built around a tab showing some text.
LEMMA ShellStarts == ShellInit => Init /\ ShellTypeOK
<1> SUFFICES ASSUME ShellInit
             PROVE  Init /\ ShellTypeOK
  OBVIOUS
<1>1. Shown \in Text
  BY TextAssumption DEF Shown
<1>2. Init
  BY <1>1 DEF ShellInit, Init
<1>3. ShellTypeOK
  <2>1. alive <=> ended = "no"
    BY DEF ShellInit, TabInit
  <2>2. reload_dialogs \in Seq(Text)
    BY EmptySeq DEF ShellInit
  <2>3. QED
    BY <2>1, <2>2 DEF ShellInit, ShellTypeOK, Contents
<1>4. QED
  BY <1>2, <1>3

\* A step of the window is a step of the tab, or the tab does not notice it.
LEMMA ShellStepsTab ==
  ASSUME ShellTypeOK, [ShellNext]_appVars
  PROVE  [Next]_tabVars
<1>1. CASE TabInput
  BY <1>1 DEF TabInput, Next, Rewrite
<1>2. CASE TabRuns
  BY <1>2 DEF TabRuns, Next
<1>3. CASE TabAborts
  BY <1>3 DEF TabAborts, Next
<1>4. CASE FileOutside
  BY <1>4 DEF FileOutside, Outside, ReadOutside, TruncateOutside, WriteOutside, ReplaceOutside
<1>5. CASE Watching
  <2>1. CASE WatchStarts \/ EventSent \/ Poll
    BY <2>1 DEF WatchStarts, EventSent, Poll
  <2>2. CASE PollAborts
    BY <2>2 DEF PollAborts, End, Next
  <2>3. CASE WatcherTimerFires
    BY <2>3 DEF WatcherTimerFires, Readable, Next, Rewrite
  <2>4. ASSUME NEW i \in DOMAIN reload_dialogs, AnswerReload(i)
        PROVE  Next
    <3>1. reload_dialogs[i] \in Text
      BY ElementOfSeq, LenProperties DEF ShellTypeOK
    <3>2. QED
      BY <2>4, <3>1 DEF AnswerReload, Next, Rewrite
  <2>5. ASSUME NEW i \in DOMAIN reload_dialogs, AnswerIgnore(i)
        PROVE  UNCHANGED tabVars
    BY <2>5 DEF AnswerIgnore
  <2>6. QED
    BY <1>5, <2>1, <2>2, <2>3, <2>4, <2>5 DEF Watching
<1>6. CASE SavingAndClosing
  <2>1. CASE SaveClicked \/ CloseDiscards
    BY <2>1 DEF SaveClicked, CloseDiscards, End, Next
  <2>2. CASE SaveFails \/ SaveGuardReleased \/ CloseCancelled
    BY <2>2 DEF SaveFails, SaveGuardReleased, CloseCancelled
  <2>3. CASE CloseRequest \/ CloseSaves
    BY <2>3 DEF CloseRequest, CloseSaves, End, Next
  <2>4. QED
    BY <1>6, <2>1, <2>2, <2>3 DEF SavingAndClosing
<1>7. CASE UNCHANGED appVars
  BY <1>7 DEF appVars
<1>8. QED
  BY <1>1, <1>2, <1>3, <1>4, <1>5, <1>6, <1>7 DEF ShellNext

\* The window's own variables keep their types.
LEMMA ShellTypeNext ==
  ASSUME TypeOK, ShellTypeOK, [ShellNext]_appVars
  PROVE  ShellTypeOK'
<1> USE DEF ShellTypeOK, shellVars, fileVars, watcherVars, dialogVars, savingVars
<1>1. CASE TabInput
  <2>1. UNCHANGED alive
    BY <1>1 DEF TabInput, TypeText, WidgetEdit, UndoClicked, RedoClicked, RestoreClicked,
                CompareOn, CompareOff
  <2>2. QED
    BY <1>1, <2>1 DEF TabInput
<1>2. CASE TabRuns
  <2>1. UNCHANGED alive
    BY <1>2 DEF TabRuns, Changed, SetTextReturns, Validate, DebounceFires, ValidationDone
  <2>2. QED
    BY <1>2, <2>1 DEF TabRuns
<1>3. CASE TabAborts
  BY <1>3 DEF TabAborts, ChangedAborts
<1>4. CASE FileOutside
  <2>1. Empty \in Contents /\ Text \subseteq Contents
    BY TextAssumption DEF Contents
  <2>2. Outside /\ Accessed /\ (Counted \/ UNCHANGED outside)
    BY <1>4 DEF FileOutside, ReadOutside, TruncateOutside, WriteOutside, ReplaceOutside
  <2>3. /\ UNCHANGED <<alive, rx, watcher_src, reload_dialogs, close_dialog, declined,
                        is_saving, releases, saves, ended>>
        /\ outside' \in Nat /\ upstream' \in Nat
    BY <2>2 DEF Outside, Counted, Accessed, tabVars
  <2>4. disk' \in Contents /\ rewriting' \in BOOLEAN /\ unreported' \in BOOLEAN
    BY <1>4, <2>1 DEF FileOutside, ReadOutside, TruncateOutside, WriteOutside, ReplaceOutside
  <2>5. watch' \in {"starting", "watching", "lost"}
    BY <1>4 DEF FileOutside, ReadOutside, TruncateOutside, WriteOutside, ReplaceOutside
  <2>6. QED
    BY <2>3, <2>4, <2>5
<1>5. CASE WatchStarts \/ EventSent \/ Poll
  BY <1>5 DEF WatchStarts, EventSent, Poll, Suppressed, tabVars
<1>6. CASE PollAborts
  BY <1>6 DEF PollAborts, End, ProcessEnds, Idle
<1>7. CASE WatcherTimerFires
  <2>1. UNCHANGED alive
    BY <1>7 DEF WatcherTimerFires, Reload, tabVars
  <2>2. reload_dialogs' \in Seq(Text)
    <3>1. CASE UNCHANGED reload_dialogs
      BY <3>1
    <3>2. CASE disk \in Text /\ reload_dialogs' = Append(reload_dialogs, disk)
      <4>1. reload_dialogs \in Seq(Text)
        OBVIOUS
      <4>2. Append(reload_dialogs, disk) \in Seq(Text)
        BY <3>2, <4>1, AppendLast
      <4>3. QED
        BY <3>2, <4>2
    <3>3. QED
      <4>1. UNCHANGED reload_dialogs \/ (disk \in Text /\ reload_dialogs' = Append(reload_dialogs, disk))
        BY <1>7 DEF WatcherTimerFires, Readable
      <4>2. QED
        BY <3>1, <3>2, <4>1
  <2>3. upstream' \in Nat
    BY <1>7 DEF WatcherTimerFires, Accessed
  <2>4. QED
    BY <1>7, <2>1, <2>2, <2>3 DEF WatcherTimerFires
<1>8. ASSUME NEW i \in DOMAIN reload_dialogs, AnswerReload(i) \/ AnswerIgnore(i)
      PROVE  ShellTypeOK'
  <2>1. UNCHANGED alive
    BY <1>8 DEF AnswerReload, AnswerIgnore, Reload, tabVars
  <2>2. reload_dialogs' \in Seq(Text)
    BY <1>8, WithoutType DEF AnswerReload, AnswerIgnore
  <2>3. UNCHANGED <<fileVars, watcherVars, close_dialog, savingVars, ended>> /\ declined' \in BOOLEAN
    BY <1>8 DEF AnswerReload, AnswerIgnore
  <2>4. QED
    BY <2>1, <2>2, <2>3
<1>9. CASE SaveClicked \/ CloseSaves
  <2>1. ~alive' /\ ended' \in {"save_panic", "close_panic", "closed"}
    BY <1>9 DEF SaveClicked, CloseSaves, End, ProcessEnds
  <2>2. UNCHANGED <<reload_dialogs, close_dialog, declined, releases, saves>>
    BY <1>9 DEF SaveClicked, CloseSaves
  <2>3. is_saving' \in BOOLEAN
    BY <1>9 DEF SaveClicked, CloseSaves
  <2>4. Written \/ UNCHANGED <<fileVars, watcherVars>>
    BY <1>9 DEF SaveClicked, CloseSaves
  <2>5. /\ disk' \in Contents /\ rewriting' \in BOOLEAN /\ unreported' \in BOOLEAN
        /\ outside' \in Nat /\ upstream' \in Nat /\ rx' \in Nat
        /\ watch' \in {"starting", "watching", "lost"}
        /\ watcher_src' \in {"none", "armed", "fired"}
    <3>1. CASE Written
      <4>1. disk' \in Contents /\ rewriting' \in BOOLEAN
        BY <3>1 DEF Written, TypeOK, Contents
      <4>2. upstream' \in Nat /\ UNCHANGED <<outside, unreported, rx, watcher_src>>
        BY <3>1 DEF Written, Accessed
      <4>3. watch' \in {"starting", "watching", "lost"}
        BY <3>1 DEF Written
      <4>4. QED
        BY <4>1, <4>2, <4>3
    <3>2. CASE UNCHANGED <<fileVars, watcherVars>>
      BY <3>2
    <3>3. QED
      BY <2>4, <3>1, <3>2
  <2>6. QED
    BY <2>1, <2>2, <2>3, <2>5
<1>10. CASE SaveFails \/ SaveGuardReleased \/ CloseCancelled
  <2>1. UNCHANGED <<alive, fileVars, watcherVars, reload_dialogs, declined, ended>>
    BY <1>10 DEF SaveFails, SaveGuardReleased, CloseCancelled, tabVars
  <2>2. close_dialog' \in BOOLEAN /\ is_saving' \in BOOLEAN
    BY <1>10 DEF SaveFails, SaveGuardReleased, GuardCleared, CloseCancelled
  <2>3. releases' \in Nat /\ saves' \in Nat
    BY <1>10 DEF SaveFails, SaveGuardReleased, CloseCancelled
  <2>4. QED
    BY <2>1, <2>2, <2>3
<1>11. CASE CloseRequest \/ CloseDiscards
  <2>1. UNCHANGED <<fileVars, watcherVars, reload_dialogs, declined, savingVars>>
    BY <1>11 DEF CloseRequest, CloseDiscards
  <2>2. close_dialog' \in BOOLEAN
    BY <1>11 DEF CloseRequest, CloseDiscards
  <2>3. \/ ~alive' /\ ended' \in {"closed", "discarded"}
        \/ UNCHANGED <<alive, ended>>
    BY <1>11 DEF CloseRequest, CloseDiscards, End, ProcessEnds, tabVars
  <2>4. QED
    BY <2>1, <2>2, <2>3
<1>12. CASE UNCHANGED appVars
  BY <1>12 DEF appVars, tabVars
<1>13. QED
  BY <1>1, <1>2, <1>3, <1>4, <1>5, <1>6, <1>7, <1>8, <1>9, <1>10, <1>11, <1>12
  DEF ShellNext, Watching, SavingAndClosing

\* The tab's invariant and the types of the window hold together.
SInv == IInv /\ ShellTypeOK

LEMMA ShellInvariance == ShellSpec => []SInv
<1>1. ShellInit => SInv
  BY ShellStarts, InvInit DEF SInv
<1>2. SInv /\ [ShellNext]_appVars => SInv'
  <2> SUFFICES ASSUME SInv, [ShellNext]_appVars
               PROVE  SInv'
    OBVIOUS
  <2>1. IInv'
    BY ShellStepsTab, InvNext DEF SInv
  <2>2. ShellTypeOK'
    BY ShellTypeNext DEF SInv, IInv
  <2>3. QED
    BY <2>1, <2>2 DEF SInv
<1>3. QED
  BY <1>1, <1>2, PTL DEF ShellSpec

\* The state of the window always has its types; above all, the process is
\* alive exactly as long as nothing has ended it.
THEOREM ShellTyped == ShellSpec => []ShellTypeOK
<1>1. SInv => ShellTypeOK
  BY DEF SInv
<1>2. QED
  BY <1>1, ShellInvariance, PTL

\* Whatever the watcher, the dialogs, saving and other programs do, the tab
\* inside the window behaves as EditorTab specifies.
THEOREM WindowImplementsTab == ShellSpec => ImplementsTab
<1>1. ShellInit => Init
  BY ShellStarts
<1>2. SInv /\ [ShellNext]_appVars => [Next]_tabVars
  BY ShellStepsTab DEF SInv
<1>3. QED
  BY <1>1, <1>2, ShellInvariance, PTL DEF ShellSpec, ImplementsTab, Spec

------------------------------------------------------------------------------
(* The watcher *)

\* Every event the chain still holds.
Underway == upstream + rx

\* What the tab does with a change it has read and not yet been able to show.
Handled ==
  \/ reload_dialogs = <<>> /\ call = "reload" /\ target = disk
  \/ reload_dialogs = <<>> /\ call # "reload" /\ original_text = disk
  \/ reload_dialogs # <<>> /\ \A i \in DOMAIN reload_dialogs : reload_dialogs[i] = disk
  \/ declined

\* Why no reported change is lost.  Before the first timer has fired, a change
\* leaves an event in the chain, since only the poll that arms the timer
\* empties it.  The timer's own read leaves one for good if the file is still
\* watched, since the poll that would empty the chain ends the process; if it
\* is not, the file cannot change unnoticed without becoming unreported.
WatchInv ==
  /\ Len(reload_dialogs) <= 1
  /\ watch = "starting" => Underway = 0 /\ watcher_src = "none"
  /\ watch = "watching" => disk # Missing
  /\ watcher_src # "fired" => reload_dialogs = <<>> /\ call # "reload"
  /\ (alive /\ watcher_src = "none" /\ ~unreported /\ Underway = 0 /\ disk \in Text)
       => original_text = disk
  /\ alive /\ watcher_src = "fired" /\ watch = "watching" => Underway > 0
  /\ (alive /\ watcher_src = "fired" /\ ~unreported /\ Underway = 0 /\ disk \in Text)
       => Handled
  /\ ended = "closed" => buffer = original_text

\* A handler of the tab that is not a reload leaves the saved text alone; when
\* one returns, a reload's text becomes the saved text.
LEMMA TabHandlers ==
  ASSUME TabInput \/ TabRuns
  PROVE  /\ alive /\ UNCHANGED <<shellVars, alive>>
         /\ \/ call' # "reload" /\ call # "reload" /\ UNCHANGED original_text
            \/ UNCHANGED <<call, target, original_text>>
            \/ call = "reload" /\ call' # "reload" /\ original_text' = target
<1>1. CASE TabInput
  <2>1. alive /\ call = "none" /\ UNCHANGED <<shellVars, alive, original_text>>
    BY <1>1 DEF TabInput, TypeText, WidgetEdit, UndoClicked, RedoClicked, RestoreClicked,
                CompareOn, CompareOff, Idle, docVars
  <2>2. call' # "reload"
    BY <1>1, <2>1 DEF TabInput, TypeText, WidgetEdit, UndoClicked, RedoClicked, RestoreClicked,
                      CompareOn, CompareOff, SetText, callVars
  <2>3. QED
    BY <2>1, <2>2
<1>2. CASE TabRuns
  <2>1. CASE Changed
    BY <1>2, <2>1 DEF TabRuns, Changed
  <2>2. CASE SetTextReturns
    BY <1>2, <2>2 DEF TabRuns, SetTextReturns, ReloadSettles
  <2>3. CASE Validate
    <3>1. alive /\ UNCHANGED <<alive, call, target, original_text>>
      BY <2>3 DEF Validate, DebounceFires, ValidationDone, Idle, docVars, callVars
    <3>2. QED
      BY <1>2, <3>1 DEF TabRuns
  <2>4. QED
    BY <1>2, <2>1, <2>2, <2>3 DEF TabRuns
<1>3. QED
  BY <1>1, <1>2

\* The tab's own steps keep it.
LEMMA WatchInvTab ==
  ASSUME ShellTypeOK, WatchInv, TabInput \/ TabRuns
  PROVE  WatchInv'
<1> USE DEF shellVars, fileVars, watcherVars, dialogVars
<1>1. /\ alive /\ alive'
      /\ UNCHANGED <<disk, unreported, watch, upstream, rx, watcher_src, reload_dialogs,
                     declined, ended>>
  BY TabHandlers
<1>2. ended' # "closed"
  BY <1>1 DEF ShellTypeOK
<1>3. watcher_src # "fired" => call' # "reload" /\ UNCHANGED original_text
  BY TabHandlers DEF WatchInv
<1>4. Handled => Handled'
  BY <1>1, TabHandlers DEF Handled
<1>5. QED
  BY <1>1, <1>2, <1>3, <1>4 DEF WatchInv, Underway

\* Another program's access leaves an event behind or is unreported if it
\* changes the file.
LEMMA WatchInvOutside ==
  ASSUME ShellTypeOK, WatchInv, FileOutside
  PROVE  WatchInv'
<1>1. /\ alive /\ alive'
      /\ UNCHANGED <<call, target, original_text, rx, watcher_src, reload_dialogs, declined, ended>>
  <2>1. Outside
    BY DEF FileOutside, ReadOutside, TruncateOutside, WriteOutside, ReplaceOutside
  <2>2. QED
    BY <2>1 DEF Outside, tabVars, docVars, callVars, dialogVars
<1>2. ended' # "closed"
  BY <1>1 DEF ShellTypeOK
<1>3. upstream' = IF watch = "watching" THEN upstream + 1 ELSE upstream
  BY DEF FileOutside, ReadOutside, TruncateOutside, WriteOutside, ReplaceOutside, Accessed
<1>4. \/ UNCHANGED <<disk, watch, unreported>>
      \/ /\ unreported' = (unreported \/ watch # "watching")
         /\ \/ watch' = watch /\ disk' \in Text
            \/ watch' = IF watch = "watching" THEN "lost" ELSE watch
  BY TextAssumption
  DEF FileOutside, ReadOutside, TruncateOutside, WriteOutside, ReplaceOutside
<1>5. Missing \notin Text
  BY FileAssumption
<1>6. upstream \in Nat /\ rx \in Nat
  BY DEF ShellTypeOK
<1>7. CASE watch = "watching"
  <2>1. Underway' > 0
    BY <1>1, <1>3, <1>6, <1>7 DEF Underway
  <2>2. /\ watch' \in {"watching", "lost"}
        /\ watch' = "watching" => disk' # Missing
    BY <1>4, <1>5, <1>7 DEF WatchInv
  <2>3. QED
    BY <1>1, <1>2, <2>1, <2>2 DEF WatchInv
<1>8. CASE watch # "watching"
  <2>1. watch' = watch /\ Underway' = Underway
    BY <1>1, <1>3, <1>4, <1>8 DEF Underway
  <2>2. unreported' \/ UNCHANGED <<disk, unreported>>
    BY <1>4, <1>8
  <2>3. UNCHANGED disk => Handled' = Handled
    BY <1>1 DEF Handled
  <2>4. QED
    BY <1>1, <1>2, <1>8, <2>1, <2>2, <2>3 DEF WatchInv
<1>9. QED
  BY <1>7, <1>8

\* The threads and the poll: only a poll that arms the timer empties the chain.
LEMMA WatchInvChain ==
  ASSUME ShellTypeOK, WatchInv, WatchStarts \/ EventSent \/ Poll
  PROVE  WatchInv'
<1>1. /\ alive /\ alive'
      /\ UNCHANGED <<call, target, original_text, disk, unreported, reload_dialogs, declined, ended>>
  BY DEF WatchStarts, EventSent, Poll, Idle, tabVars, docVars, callVars, fileVars, dialogVars
<1>2. ended' # "closed" /\ Handled' = Handled
  BY <1>1 DEF ShellTypeOK, Handled
<1>3. upstream \in Nat /\ rx \in Nat
  BY DEF ShellTypeOK
<1>4. CASE WatchStarts
  <2>1. /\ watch = "starting" /\ watch' \in {"watching", "lost"}
        /\ watch' = "watching" => disk # Missing
        /\ UNCHANGED <<upstream, rx, watcher_src>>
    BY <1>4 DEF WatchStarts
  <2>2. QED
    BY <1>1, <1>2, <2>1 DEF WatchInv, Underway
<1>5. CASE EventSent
  <2>1. UNCHANGED <<watch, watcher_src>> /\ Underway' = Underway
    BY <1>3, <1>5 DEF EventSent, Underway
  <2>2. QED
    BY <1>1, <1>2, <2>1 DEF WatchInv
<1>6. CASE Poll
  <2>1. UNCHANGED <<watch, upstream>> /\ rx > 0
    BY <1>6 DEF Poll
  <2>2. CASE UNCHANGED <<rx, watcher_src>>
    BY <1>1, <1>2, <2>1, <2>2 DEF WatchInv, Underway
  <2>3. CASE watcher_src # "fired" /\ watcher_src' = "armed"
    <3>1. watch # "starting"
      BY <1>3, <2>1 DEF WatchInv, Underway
    <3>2. QED
      BY <1>1, <1>2, <2>1, <2>3, <3>1 DEF WatchInv
  <2>4. QED
    BY <1>6, <2>2, <2>3 DEF Poll, Suppressed, PollRemoveFails
<1>7. QED
  BY <1>4, <1>5, <1>6

\* The debounce timer reads the file, which is one more event, and shows what
\* it read or asks.
LEMMA WatchInvTimer ==
  ASSUME ShellTypeOK, WatchInv, WatcherTimerFires
  PROVE  WatchInv'
<1>1. /\ alive /\ call = "none" /\ watcher_src = "armed" /\ watcher_src' = "fired"
      /\ UNCHANGED <<disk, unreported, watch, rx, declined, ended>>
  BY DEF WatcherTimerFires, Idle, fileVars
<1>2. ended' # "closed" /\ reload_dialogs = <<>> /\ watch # "starting"
  BY <1>1 DEF ShellTypeOK, WatchInv
<1>3. watch = "watching" => Underway' > 0
  <2>1. upstream \in Nat /\ rx \in Nat
    BY DEF ShellTypeOK
  <2>2. watch = "watching" => upstream' = upstream + 1
    BY DEF WatcherTimerFires, Accessed, WatchInv
  <2>3. QED
    BY <1>1, <2>1, <2>2 DEF Underway
<1>4. CASE disk \notin Text /\ UNCHANGED <<tabVars, reload_dialogs>>
  BY <1>1, <1>2, <1>3, <1>4 DEF WatchInv, tabVars
<1>5. CASE disk \in Text /\ reload_dialogs' = Append(reload_dialogs, disk) /\ UNCHANGED tabVars
  <2>1. reload_dialogs' = <<disk>>
    BY <1>2, <1>5
  <2>2. Len(reload_dialogs') = 1 /\ Handled'
    BY <1>1, <2>1 DEF Handled
  <2>3. QED
    BY <1>1, <1>2, <1>3, <2>2 DEF WatchInv
<1>6. CASE disk \in Text /\ Reload(disk) /\ UNCHANGED reload_dialogs
  <2>1. call' = "reload" /\ target' = disk
    BY <1>6 DEF Reload, SetText
  <2>2. Handled'
    BY <1>1, <1>2, <1>6, <2>1 DEF Handled
  <2>3. QED
    BY <1>1, <1>2, <1>3, <1>6, <2>2 DEF WatchInv
<1>7. QED
  BY <1>4, <1>5, <1>6 DEF WatcherTimerFires, Readable

\* Removing an element of a sequence that has at most one.
LEMMA OnlyOne ==
  ASSUME NEW S, NEW s \in Seq(S), Len(s) <= 1, NEW i \in DOMAIN s
  PROVE  Len(s) = 1 /\ i = 1 /\ Without(s, i) = <<>>
<1>1. Len(s) = 1 /\ i = 1
  <2> DEFINE n == Len(s)
  <2>1. n \in Nat /\ i \in 1..n /\ n <= 1
    BY LenProperties
  <2> HIDE DEF n
  <2>2. n = 1 /\ i = 1
    BY <2>1
  <2>3. QED
    BY <2>2 DEF n
<1>2. SubSeq(s, 1, 0) = <<>>
  <2>1. 1 \in Int /\ 0 \in Int /\ 0 < 1
    OBVIOUS
  <2>2. QED
    BY <2>1, SubSeqEmpty
<1>3. SubSeq(s, 2, 1) = <<>>
  <2>1. 2 \in Int /\ 1 \in Int /\ 1 < 2
    OBVIOUS
  <2>2. QED
    BY <2>1, SubSeqEmpty
<1>4. Without(s, 1) = <<>> \o <<>>
  <2>1. 1 - 1 = 0 /\ 1 + 1 = 2 /\ Len(s) = 1
    BY <1>1
  <2>2. Without(s, 1) = SubSeq(s, 1, 0) \o SubSeq(s, 2, 1)
    BY <2>1 DEF Without
  <2>3. QED
    BY <1>2, <1>3, <2>2
<1>5. QED
  BY <1>1, <1>4

\* Either answer closes the only dialog.
LEMMA WatchInvAnswer ==
  ASSUME ShellTypeOK, WatchInv, NEW i \in DOMAIN reload_dialogs,
         AnswerReload(i) \/ AnswerIgnore(i)
  PROVE  WatchInv'
<1>1. /\ alive /\ alive'
      /\ UNCHANGED <<original_text, disk, unreported, watch, upstream, rx, watcher_src, ended>>
      /\ reload_dialogs' = Without(reload_dialogs, i)
  BY DEF AnswerReload, AnswerIgnore, Reload, Idle, tabVars, docVars, fileVars, watcherVars
<1>2. ended' # "closed"
  BY <1>1 DEF ShellTypeOK
<1>3. /\ Len(reload_dialogs) = 1 /\ i = 1
      /\ Without(reload_dialogs, i) = <<>>
  BY OnlyOne DEF ShellTypeOK, WatchInv
<1>4. watcher_src = "fired"
  <2>1. reload_dialogs # <<>>
    <3>1. Len(reload_dialogs) # 0
      BY <1>3
    <3>2. QED
      BY <3>1, EmptySeq
  <2>2. QED
    BY <2>1 DEF WatchInv
<1>5. reload_dialogs' = <<>>
  BY <1>1, <1>3
<1>6. Handled => Handled'
  <2>1. CASE AnswerIgnore(i)
    BY <1>1, <2>1 DEF AnswerIgnore, Handled
  <2>2. CASE AnswerReload(i)
    <3>1. /\ call = "none" /\ call' = "reload" /\ target' = reload_dialogs[i]
          /\ UNCHANGED declined /\ reload_dialogs # <<>>
      BY <1>4, <2>2, <1>3, EmptySeq DEF AnswerReload, Reload, SetText, Idle
    <3>2. Handled => declined \/ reload_dialogs[i] = disk
      BY <3>1 DEF Handled
    <3>3. QED
      BY <1>1, <1>5, <3>1, <3>2 DEF Handled
  <2>3. QED
    BY <2>1, <2>2
<1>7. Len(reload_dialogs') <= 1 /\ Underway' = Underway
  BY <1>1, <1>5 DEF Underway
<1>8. QED
  BY <1>1, <1>2, <1>4, <1>6, <1>7 DEF WatchInv

\* Saving and closing leave the chain alone, or end the process; a window that
\* closes by itself was not dirty.
LEMMA WatchInvSaving ==
  ASSUME IInv, ShellTypeOK, WatchInv, SavingAndClosing
  PROVE  WatchInv'
<1>1. CASE SaveFails \/ SaveGuardReleased \/ CloseCancelled
  <2>1. UNCHANGED <<tabVars, fileVars, watcherVars, reload_dialogs, declined, ended>>
    BY <1>1 DEF SaveFails, SaveGuardReleased, CloseCancelled, dialogVars
  <2>2. Handled' = Handled
    BY <2>1 DEF Handled, tabVars, callVars, docVars, fileVars
  <2>3. QED
    BY <2>1, <2>2 DEF WatchInv, Underway, tabVars, callVars, docVars, fileVars, watcherVars
<1>2. CASE SaveClicked
  <2>1. /\ ~alive' /\ ended' # "closed" /\ call' = call
        /\ UNCHANGED <<rx, watcher_src, reload_dialogs>>
    BY <1>2 DEF SaveClicked, Written, End, ProcessEnds, callVars, dialogVars
  <2>2. watch' \in {"starting", "lost"} /\ (watch' = "starting" => watch = "starting")
    BY <1>2 DEF SaveClicked, Written, ShellTypeOK
  <2>3. watch = "starting" => Underway' = Underway
    BY <1>2, <2>1 DEF SaveClicked, Written, Accessed, Underway
  <2>4. QED
    BY <2>1, <2>2, <2>3 DEF WatchInv
<1>3. CASE CloseRequest \/ CloseDiscards
  <2>1. UNCHANGED <<call, target, original_text, buffer, fileVars, watcherVars, reload_dialogs,
                    declined>>
    BY <1>3 DEF CloseRequest, CloseDiscards, End, ProcessEnds, tabVars, docVars, callVars,
                dialogVars
  <2>2. /\ ended' = "closed" => buffer = original_text \/ ended = "closed"
        /\ alive' => alive
    BY <1>3 DEF CloseRequest, CloseDiscards, End, ProcessEnds, Idle, IInv, DirtyExact
  <2>3. Handled' = Handled
    BY <2>1 DEF Handled, fileVars
  <2>4. QED
    BY <2>1, <2>2, <2>3 DEF WatchInv, Underway, fileVars, watcherVars
<1>4. CASE CloseSaves
  <2>1. /\ ~alive' /\ UNCHANGED <<call, buffer, original_text, reload_dialogs>>
        /\ ended' = "closed" => buffer = original_text
    BY <1>4 DEF CloseSaves, End, ProcessEnds, docVars, callVars, dialogVars
  <2>2. CASE UNCHANGED <<fileVars, watcherVars>>
    BY <2>1, <2>2 DEF WatchInv, Underway, fileVars, watcherVars
  <2>3. CASE Written
    <3>1. /\ watch' \in {"starting", "lost"} /\ (watch' = "starting" => watch = "starting")
          /\ UNCHANGED watcher_src
      BY <2>3 DEF Written, ShellTypeOK
    <3>2. watch = "starting" => Underway' = Underway
      BY <2>3 DEF Written, Accessed, Underway
    <3>3. QED
      BY <2>1, <3>1, <3>2 DEF WatchInv
  <2>4. QED
    BY <1>4, <2>2, <2>3 DEF CloseSaves
<1>5. QED
  BY <1>1, <1>2, <1>3, <1>4 DEF SavingAndClosing

\* The invariant of the whole window.
AppInv == SInv /\ WatchInv

LEMMA AppInvNext == AppInv /\ [ShellNext]_appVars => AppInv'
<1> SUFFICES ASSUME AppInv, [ShellNext]_appVars
             PROVE  AppInv'
  OBVIOUS
<1>1. IInv /\ ShellTypeOK /\ TypeOK /\ WatchInv
  BY DEF AppInv, SInv, IInv
<1>2. SInv'
  BY <1>1, ShellStepsTab, InvNext, ShellTypeNext DEF SInv
<1>3. CASE TabInput \/ TabRuns
  BY <1>1, <1>2, <1>3, WatchInvTab DEF AppInv
<1>4. CASE FileOutside
  BY <1>1, <1>2, <1>4, WatchInvOutside DEF AppInv
<1>5. CASE SavingAndClosing
  BY <1>1, <1>2, <1>5, WatchInvSaving DEF AppInv
<1>6. CASE WatchStarts \/ EventSent \/ Poll
  BY <1>1, <1>2, <1>6, WatchInvChain DEF AppInv
<1>7. CASE WatcherTimerFires
  BY <1>1, <1>2, <1>7, WatchInvTimer DEF AppInv
<1>8. ASSUME NEW i \in DOMAIN reload_dialogs, AnswerReload(i) \/ AnswerIgnore(i)
      PROVE  AppInv'
  BY <1>1, <1>2, <1>8, WatchInvAnswer DEF AppInv
<1>9. CASE TabAborts \/ PollAborts
  <2>1. /\ ~alive' /\ ended' # "closed"
        /\ UNCHANGED <<call, fileVars, watcherVars, reload_dialogs, declined>>
    BY <1>9 DEF TabAborts, ChangedAborts, PollAborts, End, ProcessEnds, callVars, dialogVars
  <2>2. WatchInv'
    BY <1>1, <2>1 DEF WatchInv, Underway, fileVars, watcherVars
  <2>3. QED
    BY <1>2, <2>2 DEF AppInv
<1>10. CASE UNCHANGED appVars
  <2>1. Handled' = Handled /\ Underway' = Underway
    BY <1>10 DEF Handled, Underway, appVars, tabVars, docVars, callVars, shellVars, fileVars,
                 watcherVars, dialogVars
  <2>2. WatchInv'
    BY <1>1, <1>10, <2>1 DEF WatchInv, appVars, tabVars, docVars, callVars, shellVars, fileVars,
                             watcherVars, dialogVars
  <2>3. QED
    BY <1>2, <2>2 DEF AppInv
<1>11. QED
  BY <1>3, <1>4, <1>5, <1>6, <1>7, <1>8, <1>9, <1>10 DEF ShellNext, Watching

LEMMA AppInvariance == ShellSpec => []AppInv
<1>1. ShellInit => AppInv
  <2> SUFFICES ASSUME ShellInit
               PROVE  AppInv
    OBVIOUS
  <2>1. SInv
    BY ShellStarts, InvInit DEF SInv
  <2>2. /\ call = "none" /\ original_text = Shown /\ ended = "no"
        /\ watch = "starting" /\ watcher_src = "none" /\ reload_dialogs = <<>>
        /\ upstream = 0 /\ rx = 0
    BY DEF ShellInit, TabInit
  <2>3. Len(reload_dialogs) <= 1 /\ Underway = 0
    BY <2>2, EmptySeq DEF Underway
  <2>4. WatchInv
    BY <2>2, <2>3 DEF WatchInv, Shown
  <2>5. QED
    BY <2>1, <2>4 DEF AppInv
<1>2. QED
  BY <1>1, AppInvNext, PTL DEF ShellSpec

------------------------------------------------------------------------------
(* The safety properties *)

\* No reported change of the file is lost: once the chain is quiet, the tab has
\* the file's text as its saved text, or asks about it, or was told to ignore it.
THEOREM ReportedChangesReachTheTab == ShellSpec => []ReportedChangesShow
<1>1. AppInv => ReportedChangesShow
  <2> SUFFICES ASSUME AppInv, alive, call = "none", ~unreported, ~Pending, disk \in Text
               PROVE  original_text = disk \/ reload_dialogs # <<>> \/ declined
    BY DEF ReportedChangesShow
  <2>1. WatchInv /\ upstream \in Nat /\ rx \in Nat /\ watcher_src \in {"none", "armed", "fired"}
    BY DEF AppInv, SInv, ShellTypeOK
  <2>2. Underway = 0 /\ watcher_src \in {"none", "fired"}
    BY <2>1 DEF Pending, Underway
  <2>3. CASE watcher_src = "none"
    BY <2>1, <2>2, <2>3 DEF WatchInv
  <2>4. CASE watcher_src = "fired"
    BY <2>1, <2>2, <2>4 DEF WatchInv, Handled
  <2>5. QED
    BY <2>2, <2>3, <2>4
<1>2. QED
  BY <1>1, AppInvariance, PTL

\* Two Reload/Ignore dialogs are never open together.
THEOREM ReloadDialogsDoNotPileUp == ShellSpec => []OneReloadDialog
<1>1. AppInv => OneReloadDialog
  BY DEF AppInv, WatchInv, OneReloadDialog
<1>2. QED
  BY <1>1, AppInvariance, PTL

\* The window never closes by itself over text that differs from the saved one.
THEOREM ClosingLosesNothing == ShellSpec => []ClosesSettled
<1>1. AppInv => ClosesSettled
  BY DEF AppInv, WatchInv, ClosesSettled
<1>2. QED
  BY <1>1, AppInvariance, PTL

\* Text that was not saved gives way to the file's only through the Reload
\* answer of a dialog.
THEOREM ReloadsAskFirst == ShellSpec => ReloadAsksFirst
<1> DEFINE A == (call = "none" /\ call' = "reload" /\ buffer # original_text)
                  => Len(reload_dialogs') < Len(reload_dialogs)
<1>1. AppInv /\ [ShellNext]_appVars => [A]_appVars
  <2> SUFFICES ASSUME AppInv, ShellNext, call = "none", call' = "reload",
                      buffer # original_text
               PROVE  Len(reload_dialogs') < Len(reload_dialogs)
    OBVIOUS
  <2>1. ASSUME NEW i \in DOMAIN reload_dialogs, AnswerReload(i)
        PROVE  Len(reload_dialogs') < Len(reload_dialogs)
    <3>1. Len(reload_dialogs) = 1 /\ Without(reload_dialogs, i) = <<>>
      BY OnlyOne DEF AppInv, SInv, ShellTypeOK, WatchInv
    <3>2. reload_dialogs' = <<>> /\ Len(<<>>) = 0
      BY <2>1, <3>1 DEF AnswerReload
    <3>3. QED
      BY <3>1, <3>2
  <2>2. ASSUME NEW i \in DOMAIN reload_dialogs, AnswerIgnore(i)
        PROVE  FALSE
    BY <2>2 DEF AnswerIgnore, tabVars, callVars
  <2>3. CASE TabInput
    BY <2>3 DEF TabInput, TypeText, WidgetEdit, UndoClicked, RedoClicked, RestoreClicked,
                CompareOn, CompareOff, SetText, callVars
  <2>4. CASE TabRuns
    BY <2>4 DEF TabRuns, Changed, SetTextReturns, Validate, DebounceFires, ValidationDone,
                callVars
  <2>5. CASE TabAborts \/ PollAborts
    BY <2>5 DEF TabAborts, ChangedAborts, PollAborts, End, ProcessEnds, callVars
  <2>6. CASE FileOutside
    <3>1. Outside
      BY <2>6 DEF FileOutside, ReadOutside, TruncateOutside, WriteOutside, ReplaceOutside
    <3>2. QED
      BY <3>1 DEF Outside, tabVars, callVars
  <2>7. CASE WatchStarts \/ EventSent \/ Poll
    BY <2>7 DEF WatchStarts, EventSent, Poll, tabVars, callVars
  <2>8. CASE WatcherTimerFires
    BY <2>8 DEF WatcherTimerFires, Unsaved, tabVars, callVars
  <2>9. CASE SavingAndClosing
    BY <2>9 DEF SavingAndClosing, SaveClicked, SaveFails, SaveGuardReleased, CloseRequest,
                CloseCancelled, CloseDiscards, CloseSaves, End, ProcessEnds, tabVars, callVars
  <2>10. QED
    BY <2>1, <2>2, <2>3, <2>4, <2>5, <2>6, <2>7, <2>8, <2>9 DEF ShellNext, Watching
<1>2. QED
  BY <1>1, AppInvariance, PTL DEF ShellSpec, ReloadAsksFirst

==============================================================================
