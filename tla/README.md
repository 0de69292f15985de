# Verification of the dotcfg GUI (niri configuration editor)

The program is a GTK/libadwaita window that edits one configuration file, the KDL
file of the niri compositor. It reads the file once, shows it as a text buffer and
as rows of widgets, records an undo history, validates what is typed, compares it
with the saved text, saves it by renaming a new file over the old one, and watches
the file for changes other programs make.

This directory holds TLA+ models of that program, the configurations that
model-check them with TLC, and theorems about them that TLAPS proves. Paths below
are relative to the crate, `src/src/`; `PROJECT.json` maps every definition to its
lines.

To repeat a run: `tlc -config MCShell.cfg MCShell`. To repeat a proof:
`tlapm ShellProofs.tla`.

## 1. The system

### Components

| component | state | operations | where |
|---|---|---|---|
| Undo stack | two deques of commands, cap 256, a dirty flag | push (drops the redo branch, evicts the oldest), undo, redo | `core/undo_stack.rs` |
| Editor tab | text buffer, `original_text`, `previous_text`, `suppressing_undo`, visible page, Compare toggle, 300 ms debounce source, banner, ShellState's `is-dirty` and `last-validation` | typing, widget edits, Undo, Redo, Compare, Restore GUI, the `changed` handler, timer and validation future | `shell.rs` 499-905 |
| Shell window | the tab list and the flag its windows share, the file, `is_saving` and its 250 ms release timers, 500 ms watcher debounce source, Reload/Ignore dialogs, close dialog | startup read, Save, close-request and its answers, the 100 ms poll, `handle_external_change` | `shell.rs` 905-1400 |
| File watcher | bounded `sync_channel`, bridge task, bounded async channel, the notify watcher | notify's handler, the bridge's loop, `next_event`, drop | `core/file_watcher.rs` |
| Config writer | a temporary file beside the target | write, sync, rename | `core/config_writer.rs`, `shell.rs` `atomic_save_text` |
| Section widgets | rows built once from the loaded document; each handler captures an index, a name or a path | read a value, parse-patch-print the buffer | `tools/niri/sections/*.rs`, `tools/niri_shell.rs` |
| Diff engine and Compare view | LCS table, operations, two panes | `line_diff`, `populate_diff_view` | `core/diff.rs`, `shell.rs` |
| NiriTool | a mutex over the path, the document and its index | load, save, validate, apply_saved, generate_default_config | `tools/niri/mod.rs`, `core/tool_plugin.rs` |
| Semantic path index | a map from paths of names to spans | build_index | `core/semantic_path.rs` |
| KDL highlighter | the tags of the buffer | tokenize, apply | `core/kdl_highlighter.rs` |
| Validators | none, or a child process | `validate_kdl` | `core/validator.rs`, `tools/niri_validator.rs` |
| Loader, registry, window-state file, error types, `main` | see section 8 | | |

### How they interact

Everything the user touches runs on the GTK main loop, one handler at a time. Three
things break that apparent simplicity:

* **Re-entrancy.** `TextBuffer::set_text` emits `changed` inside the handler that
  calls it, once for the deletion and once for the insertion. The same `changed`
  handler therefore runs nested in Undo, Redo, a widget's handler, a reload and
  the Reload answer of a dialog, while these hold half-updated state
  (`suppressing_undo`, `previous_text`, `original_text`).
* **What crosses the main loop.** A change of the file travels through
  notify's thread, a bounded channel, the bridge task, a second channel, the
  watcher thread, a third channel, a poll every 100 ms and a 500 ms timer before
  `handle_external_change` reads the file. Meanwhile the user types and saves,
  and other programs write the file again. Validations are futures that finish in
  any order. Dialogs keep text they captured when they opened.
* **What is shared.** A second start of the program activates the first one again:
  `connect_activate` builds another window over the same tab list and the same
  `ShellState`. Two `changed` handlers, the highlighter's and the tab's, share the
  tags of one buffer, and run in the order they were connected. The tool's state is
  behind a mutex that callers from several threads may take.

### What is hard here, and what correctness means

* **Editor tab:** the undo history must stay one line of edits through the text on
  display although one user action is recorded as up to two commands and Undo
  itself re-enters the recorder; the Save button's flag must agree with the
  buffer; a verdict must be about the text shown; every edit must be validated.
* **Shell window:** no reported change may be lost between the debounces, the poll
  and the save guard; unsaved text may be replaced or closed over only with the
  user's consent; the guard must not stay up for ever.
* **File watcher:** order kept, no duplicates, loss only of whole events when a
  queue is full, and a shutdown that ends from every state.
* **Section widgets:** a row built from an old version of the document edits a
  newer one by position or by name; it must touch only one node of its own
  section, and agree with it.
* **Diff:** the panes must read as the two texts, the diff must be minimal, and the
  colours must be on the lines they are about.
* **Saving:** a file must hold a whole old or new text at every moment, also after a
  crash or a power loss, and never a text that belongs to another file.
* **NiriTool:** path, document and index must be of one file, and the mutex free
  while a child process runs.
* **Highlighter:** the scan must end, stay inside the text, give a character at most one
  colour, and leave no tag of an earlier text or an earlier error.

`PROJECT.json` lists the hazards at their lines and the property that covers each, or why none does.

## 2. The modules

| module | models | notes |
|---|---|---|
| `UndoStack` | `core/undo_stack.rs` | extended by EditorTab; buffers are sequences whose last element is popped next |
| `DocHistory` | abstract | a document, the texts Undo and Redo can bring back, at most Depth of them |
| `EditorTab` | one tab, `build_editor_page` and its buttons | one action per handler; refines DocHistory |
| `EditorTabSeen` | EditorTab and the texts it has shown | history variable for one finding |
| `Shell` | `run_shell`, `handle_external_change`, save and close, the file, other programs | EXTENDS EditorTab; each of its steps is a step of the tab or leaves it alone |
| `FileWatcher` | `core/file_watcher.rs` | both channels, bridge, consumer, the two steps of the drop |
| `WatchFifo` | abstract | the queue of paths a consumer may rely on |
| `FileWatcherFifo` | the refinement mapping | `rx \o held \o FlattenSeq(raw)` |
| `Sections` | all section builders and their handlers | documents as sequences of nodes |
| `LineDiff` | `line_diff` and `populate_diff_view` | one action per iteration of each loop |
| `Windows` | `connect_activate` and the first-run page | several windows of one process; a tab is its text, its saved text and its path |
| `DurableFile` | abstract | files that hold whole texts, and what a power loss may bring back |
| `AtomicSave` | `save_config`, `atomic_save_text` | temporary file, write, sync, rename; EXTENDS DurableFile |
| `SemanticIndex` | `core/semantic_path.rs` | `build_index` as a recursive function, and a definition of what it should answer |
| `NiriTool` | `tools/niri/mod.rs` | composes AtomicSave and SemanticIndex with the mutex, other programs and crashes |
| `Highlighter` | `core/kdl_highlighter.rs`, the error mark of `shell.rs` | one action per branch of the scanner, between edits of the buffer |
| `EditorTabProofs`, `ShellProofs`, `FileWatcherProofs`, `LineDiffProofs`, `NiriToolProofs`, `HighlighterProofs`, `SectionsProofs` | theorems | section 5 |
| `NumberLemmas` | lemmas | induction over numbers, what recursive functions satisfy, sequences of sequences put end to end |
| `MC*` | small instances | |

### EditorTab

`call` is the handler that is rewriting the buffer and `pending` the `changed`
emissions still to come: `SetText` computes them from the old and the new text (the
deletion of nothing and the insertion of nothing are silent). While `call` is set,
only `Changed` and then `SetTextReturns` can run, which is the nesting of the code.
`Changed` is the whole handler: dirty flag, recording, parse and view switch,
removal of the old timer and arming of the new one. `debounce_source` has three
values because nothing clears the cell when the timer fires: `"fired"` is the id of
a source that no longer exists, and removing it panics inside a GTK callback
(`ChangedAborts`). `HasSections` covers both a tool with a sections page and one
without.

Texts are a small set; `Invalid` are those the KDL parser rejects. The empty text
parses.

### Shell

`disk` is the file's content, or `Missing`, or `Unreadable` (not UTF-8). `Outside`
actions are other programs: a reader (notify asks inotify for OPEN, so a read is an
event too), an in-place writer as two steps, and a rename or removal, which takes
the watch with the old inode. `upstream` counts events from notify to the watcher
thread, `rx` those in the channel the poll drains. FileWatcher models that stretch in
detail; here it may delay events, which is all the window can tell apart while the
queues are not full. `Poll` drains the channel and arms the 500 ms timer,
`WatcherTimerFires` is `handle_external_change`, whose own read of the file is again
an event. `SaveClicked` and `SaveFails` are the two outcomes of a save; a successful
one ends in the panic of `shell.rs:1113` (finding `save_returns`), after the file was
written. `ended` records how the process ended.

### Sections

A node has a name, entries, optionally a block, and `ends`: whether the block's last child is followed
by a line end or a semicolon, by a space before the brace, or by nothing. An entry is a positional value
or a property. `Settings` are the paths of the settings with a row of their own, one to three
names long; `Switches` are those whose row is a switch. `Unparsed` stands for a buffer that does not
parse. `built` is the document the tool had loaded, `doc` the one in the buffer,
`shown` what each row shows. `EditRow` is a row's handler: it parses the buffer and,
when that works, applies the change through exactly the lookup the handler makes
(first node of each name, first node of the captured monitor, n-th node of a kind).

What the handler prints is parsed again by the next one, and that is not always the same document:

* `AddKid`. `KdlNode::new` gives a node a line end behind it (`vendor/kdl-6.3.0/src/node.rs:62-65`) and nothing in
  front. After a line end the new child is a child; in `{ mode "x" }` it is read as two more entries of
  `mode` (`Lengthened`); in `{mode}` it makes the node `modescale`, and behind a quoted string, a number or a
  block it does not parse (`RunOn`). Whether a word had quotes is not in the document, so `bare` is
  either. After the first created child the block ends with a line end.
* `Written`. A document with a reserved word for a string, or with a piece that needs a space it does not have
  (`Broken`, `Stuck`), prints to a text that does not parse, and the buffer is `Unparsed` from then on.
  A switch row writes the strings "true" and "false", which are such words.

`Replaced` is anything else that changes the buffer.

### FileWatcher and LineDiff

The drop of a `FileWatcher` drops the receiver first and the notify watcher second,
in field order, so the bridge can run between the two. LineDiff walks the table back
and then shows the operations, one action per loop iteration, with the table as two
recursive functions, `Table` over the rows and `NextRow` inside one. `Chars` and `Bytes` give a line its length in characters and in bytes:
`Pane` is the text of a pane, character by character with the row each belongs to, and
`LineStart` is where the code takes a row to begin, a sum over the rows above it.

### Windows

`states` is `tab_diff_states`, the list all windows share, and `selected` the tab each
window shows. `Activate` appends a tab and gives the path to the first of the list, as the
`zip` of the list with the one tool does; so a second window's tab has no path. The Undo and
Redo buttons look a tab up by its position in their own window's view, which is always 0.
`GenerateClicked` empties the list. The watcher, the timers and the re-entrancy are left to
`Shell` and `EditorTab`. Deadlock is not checked: the process ends with its last window.

### DurableFile, AtomicSave and NiriTool

`past` is what a path may hold after a power loss: every text renamed into place since
the kernel last wrote the directory, and an empty file where the data was not synced first.
`AtomicSave` has each writer's steps, any of which may fail; `Syncs` is the difference
between `save_config` and the path `atomic_save_text` takes for a text that does not parse,
whose `flush` does nothing. `NiriTool` adds the callers: a load reads and parses before it
takes the mutex, `save` holds the mutex until the rename, a validation drops it before the
child process runs, `generate_default_config` truncates and then writes the path in place.
`Crash` ends every caller and may take the power with it; the program starts again.

A document is the sequence of its nodes with their depths. A node's position stands for its
span.

### Highlighter

`buffer` is a sequence of characters, one for each branch of the scanner. `Insert` and
`Delete` are one edit each, and move the tags as GTK does: a tag reaches over what is inserted
inside it. Then the two handlers run to their end, `Apply`, the scanner's rounds and
`ApplyTags` for the first, `TabHandles` for the second. `Fails` and `SpanOf` are the parser:
which texts it rejects and the span of the error, in bytes. `Marked` uses the span as the code
does, as positions of characters; `BytesBefore` and `ErrorAt` say where the error is, from the characters'
lengths in UTF-8 (`Bytes`).

## 3. Runs and what they show

| run | states | what it asks |
|---|---|---|
| `editor_tab` | 198,911 | one tab, three texts (empty, valid, broken), Cap 3 |
| `shell` | 333,319 | the window with 1 outside access and 1 failing save, Cap 1, fairness assumed |
| `watcher` | 3,116 | both queues of capacity 2, events with 0, 1 or 2 paths, 4 reports |
| `sections` | 909,434 | six documents, 3 edits |
| `line_diff` | 9,329 | all pairs of texts of up to 4 lines over 2 lines |
| `niri_tool` | 111,591 | 2 callers, 2 files, a text that does not parse, 1 outside write |
| `highlighter` | 1,286,972 | all texts of up to 4 characters over 11 characters |
| `save_returns`, `events_harmless`, `any_tab_dirty`, `undo_seen`, `switch_rows` | | one disagreement each, section 6 |

`editor_tab`: `UndoChain` (the commands form one line of edits through the text the
user is meant to see), `HistoryBounded` (undo and redo together hold at most Cap,
although `redo()` never looks at the cap), `DirtyExact`, `FallbackHoldsInvalid`,
`VerdictAboutBuffer`, the liveness property `EditsGetValidated`, and refinement of
`DocHistory`. Two of these come with a caveat a reader should know: `VerdictAboutBuffer`
holds *because* an edit after a fired timer ends the process before a stale verdict
could appear, and `FallbackHoldsInvalid` says that the success branch of Restore GUI is
dead code.

`shell`: `ReportedChangesShow` (a change that was reported is shown, asked about or was
declined), `OneReloadDialog`, `ClosesSettled`, `ReloadAsksFirst`, and `ImplementsTab`, by
which everything shown of the tab alone holds in the window. `ReportedChangesShow` is
conditioned on `~unreported`: changes made while notify was not watching are lost
(section 6).

`watcher`: `BridgeOutlivesWatcher` (so `next_event` never returns None to a consumer,
which would spin), `ImplementsFifo`, `PathsAreDelivered`, `BridgeEnds`.

`sections`: `EditsAreSmall`, `EditsStayInSection` and `WidgetsAgree`. All three speak of edits that leave a
buffer that parses; of those that do not, section 6 has two kinds. `WidgetsAgree` speaks of
the rows in `Addressed` only: startup rows and layer-rule rows count other nodes than
their handlers do (`startup.rs:36-42` against `80-95`, `layer_rules.rs:42-46` against
`165-175`), a recorded chord does not reach its row (`binds.rs:20-21`), and an action
with a quoted space is split in two. Nor does it speak of the last child of a block on one line that a
created child can change (`Apart`): one without a value, or one without a space before the brace. Those
rows are excluded from agreement, not from `EditsAreSmall` and `EditsStayInSection`.

`line_diff`: `ModifiedDiffers`, `PanesReadAsTexts`, `KeepsMost`, `ColoursOnLines`; its type
invariant bounds the indices by the texts. `ColoursOnLines` speaks of the rows down to the
first that is not ASCII: the code adds up byte lengths and uses the sum as an offset in
characters.

`niri_tool`: `NoMixing` (a document and every file's content belong to their path), `IndexFindsNodes`
(the index in the tool has every path of the document in the tool and no other, and each leads to a
node of that path), `ImplementsDurableFile`, and the liveness property `MutexIsReleased`, which assumes
nothing of the validator's child process.

`highlighter`: `TokensInOrder`, `TokensReadRight` (each token is what its kind says and goes on
for as long as it can), `NothingMissed` (what has no colour is no token), `ColoursAreCurrent`
(no tag is left from an earlier text, and a mark with only one-byte characters up to it is on the error)
and the liveness property `HighlightingEnds`.

### Bounds, and why they are enough

* Three texts suffice for the tab: the handlers tell a text apart only by equality with
  another, emptiness and validity. Cap 3 lets one reload or widget edit, which pushes
  two commands, overflow a stack that has one already, and lets Undo and Redo move in
  between. In the shell Cap is 1: its properties do not depend on the history.
* In `shell`, `MaxOutside` 1 counts an in-place write, with its two steps, as one access; with
  the reads the window makes itself, several events are under way at once. The theorems of
  section 5 lift the bound for the safety properties. `MaxSaves` 1 raises the save guard
  while events are in flight, and lets it drop at every point. It bounds only failing
  saves; a successful one ends the process.
* `shell` uses two texts: validity plays no part in the window's own handlers.
* Capacity 2 lets both queues be full, half full and empty, an event of two paths
  straddle a full queue, and four reports overflow them. What overflows is the event that arrives
  (the comment at `file_watcher.rs:107` says the oldest; section 6).
* The documents of `MCSections` each hold a situation the handlers treat specially: a
  monitor or a setting twice, blocks on one line with and without a space before the brace, an
  empty block, a node without one, a child without a value and one with a block, a `match` node that is not
  the first child, two binds blocks, a switch. Three edits are enough to create a child and then edit it and its neighbour.
* Four lines over two different lines give every shape of the walk: ties, runs of
  removals and additions, repeated lines. The two have different lengths, so that a row
  counted twice or left out moves the colours.
* Two callers are enough for a load inside another's load, a save inside a validation and
  two saves of one file; one file is the tool's own, the other one it only loads. The two documents nest
  three deep, come back up by one and by two levels, and have nodes of the same path and nodes of the
  same name on different paths. The theorems lift these bounds.
* Eleven characters: each one that a branch of the scanner asks for, a digit, a letter, a letter of two bytes
  and a bracket. The parser rejects an open bracket, with a span that may be empty, behind the text, or behind or
  on the longer letter.
  The keywords are two of which one is the other's beginning and has the character that is
  both a sign and part of a word. Four characters hold every token at the end of the text with
  what it looks ahead for, an escape inside a string, a fraction with a sign, and a
  comment in the shadow of another.

`CHECK_DEADLOCK FALSE` is set for the tab, the window, the windows and the watcher, which really
stop: the process ends, the bridge exits. The other runs check deadlock.

## 4. Fairness

* A handler that runs, runs to its end: `WF` on `Changed` and `SetTextReturns`. Nothing
  else is enabled in between, as in the code.
* A due timer, a ready future and the poll are sources of the GLib main loop, which
  dispatches every ready source of equal priority before it polls again. Other handlers
  may run between any two dispatches, and timers are not runnable while a handler is, so
  these get `SF`.
* A validation that was spawned ends. For the niri validator this assumes that the child
  process ends: the code waits for it without a timeout.
* The watcher thread, the bridge task and notify keep running: `WF`.
* In `NiriTool`, a save that has begun is carried on: `WF` on its steps. Nothing is assumed of
  the validator there.
* In `Highlighter`, the handlers run to their end: `WF`.
* Nothing is assumed of the user, of other programs or of dialogs being answered.

Only the liveness properties use these conditions; the invariants and action properties need
none.

## 5. What is proved

All constants are arbitrary (any sets of texts, any caps, any bounds), under the
assumptions named in the modules: `CapAssumption` (Cap is a natural number),
`TextAssumption` (the empty text is a text and parses, NoText is none of them),
`FileAssumption`, `ChannelAssumption` (capacities are positive, an event is a sequence of paths),
`LineAssumption` (Blank is not a line, a line has no more characters than bytes),
`NothingAssumption`, `ToolAssumption` (the generated text is one of its path's),
`DocumentAssumption` (a document's nodes come in the order of the text: a node is at most one level
below the one before it), `CharAssumption` (which characters are special, digits, letters, brackets; a character has one to four
bytes), `SectionsAssumption` (the file's documents are documents that parse, an unparsed buffer is none;
numbers, strings and what no row reads are different values; what two words printed without a space
become is not the name of a monitor's child). TLC evaluates each of them in the runs.

**EditorTabProofs** proves the type invariant, `UndoChain`, `HistoryBounded`, `DirtyExact`,
`FallbackHoldsInvalid`, `VerdictAboutBuffer` and `ImplementsHistory`. None of these is
inductive alone. In the middle of a handler the buffer is not yet the target, the flag
`suppressing_undo` is up exactly during Undo and Redo, `previous_text` has to be the buffer
for a command to join the line, and `pending` has to end at the target. The inductive
invariant says what is true of a handler at each point of its emissions; each property is
then a consequence. For `VerdictAboutBuffer` the strengthening is about the timer: once it
has fired, the buffer cannot move any more without the process ending. For the refinement,
a step of the tab is a step of `DocHistory` when a command is recorded or when Undo or Redo
begins, and a stutter otherwise: `CurrentDoc` jumps to the target when Undo begins, and
stays there while the buffer catches up.

**ShellProofs** proves that every step of the window is a step of the tab or leaves it alone
(`WindowImplementsTab`), so all the tab's theorems transfer. Its invariant
`AppInv` is the tab's, the type invariant, and `WatchInv`, which follows a change by the state of
the 500 ms timer: before it has ever been armed, no dialog is open and a settled chain means the
saved text is the file's; once it has fired, an event is always on its way while the watch is up
(the handler's own read), and with the chain settled the change is being reloaded, is asked about,
was declined or is shown. From it follow
`ReportedChangesReachTheTab`, `ReloadDialogsDoNotPileUp`, `ClosingLosesNothing` and
`ReloadsAskFirst`, for any number of outside accesses and saves.

`ReloadDialogsDoNotPileUp` deserves a remark. The code does not guard against a second
dialog. It cannot open because the timer that opens one fires once: the next event that
would arm it again ends the process (finding `events_harmless`). A repair of that finding
would make the property fail, and the model would show it.

**FileWatcherProofs** proves the type invariant, which includes that both channels keep to
their capacities and that the bridge holds paths exactly while it is sending, `BridgeStays`, and
`WatcherIsFifo`: the two channels and the bridge implement the one queue of `WatchFifo`. The queue is
the second channel, then the paths in hand, then the first channel's events end to end. A report
puts its paths at the end of that or nowhere, taking an event out of the first channel and sending a
path into the second leave it as it is, and `next_event` takes its head. What this needs of
`FlattenSeq` (of nothing, of an event more at the end, of the first event taken away) is in `NumberLemmas`.

**LineDiffProofs** proves, for texts of any length, that the indices of the walk and of the view
stay inside the texts, and every property of the run:

* `ModifiedRowsDiffer`. The view does not compare the two lines it pairs. The invariant that
  justifies it: whenever the operation at the head of the list is an addition, either the line the
  walk is about to remove differs from it, or no such line is left; and every removal followed by an
  addition in the list already differs from it.
* `PanesShowTheTexts`. `PanesInv` has, for each pane, a count of the lines read after each
  operation: the operations found so far read as the text from where the walk is to its end, and the
  rows shown so far as the text up to the operation the view has come to.
* `DiffIsMinimal`. Two halves. By induction over the cells of the table, a common
  subsequence of the first a and b lines is never longer than cell (a, b) says; a subsequence is given
  by its strictly growing places in both texts, and the step takes its last line off or out of one
  text. And along the walk, the cell it is at and the lines kept so far add up to the corner
  of the table (`MostInv`), so that when it ends nothing was lost.
* `ColoursAreOnLines`. The pane as a function of its row number: where the code takes a row to begin
  is the length of the pane above it, as long as the lines down to there have as many
  bytes as characters.

**NiriToolProofs** proves the type invariant, `NoMixing`, `IndexFindsNodes` and
`ImplementsDurableFile`, for every set of callers, files and texts, and documents of any size and depth. The inductive invariant `ToolInv` adds to `NoMixing` what makes it
hold through races: a job that is loading or saving carries a text of its own path, a temporary
file holds its job's text and, before the rename, is synced exactly when that text parses, and `past` holds only texts of its path. For
the refinement, a rename maps to `Replace` because of what the invariant says of the temporary
file, and a truncation and its completion map to `Cut` and `Fill`; all else is a stutter.

`IndexIsRight` has two parts. The index in the tool is always `BuildIndex` of the document in the
tool, which is an invariant of the races (`IndexBelongsToDocument`). And `BuildIndex` is right
(`IndexAnswers`): by induction over the nodes walked so far, the prefix is the path of the last one,
and the entries are the paths of these nodes, each leading to a node that has it (to the last one, which is what makes the
induction go through). The step needs that every node has exactly
one ancestor at each smaller depth, which is where the order of a document's nodes comes in, and that
the ancestors of the next node are the prefix cut back to its depth.

**HighlighterProofs** proves every safety property of the run, for every alphabet, text, parser and
set of keywords. `ScanInv` says that
the tokens found so far end before the place of the scan, and that a string that is open begins
after them; each branch of the scanner is then one step of the proof. `TagsInv` follows the tags through
the two handlers: after an edit nothing is known of them, after `Apply` they are empty, after
`ApplyTags` they are the tokens' kinds, and the error mark is on only where the tab's handler
has just put it. That this is on the error when no longer character comes before is `MarkOnError`: by
induction, as many bytes as characters precede (`OneByteEach`, from what the recursive `BytesBefore` satisfies).

`TokensAreWhole` and `NothingStaysPlain` say what the tokens are. `ReadInv` says it of the text before
the scan: each token found is what its kind says and goes on for as long as it can, and each
character passed by begins nothing. What is open needs its own
part, `StringInv`: the quotes since the string's start are escaped, and the next character is not,
which is true because the scanner passes a backslash together with what follows it.

`ScanGetsFurther` is the safety half of `HighlightingEnds`: a round of the scan always makes `Ahead`
smaller, which counts the characters left twice and one more for an open string. So a text of
n characters takes at most 2n rounds, whatever is in it.

**SectionsProofs** proves the three properties of the run, for every set of documents, settings and values.

* `RowsEditOneNode` and `RowsStayInSection`. They need no invariant besides the shape of the
  documents: a stale row is as harmless as a fresh one. For each kind of row there is a lemma that its
  change keeps the number of nodes, their names, and all nodes but one, which is of its section; and
  for the shared helpers (`SetLeaf`, `PutKids`, `SetKid`) one that they touch one child.
* `WidgetsShowDocument`. A row is read once, and any other row may have edited its node since.
  `SectionsInv` says of every row of an unreplaced buffer that parses that it agrees *if* it is addressed; that is not
  inductive, because a row could become addressed by another row's edit while it shows something
  old. What rules that out is `Kept`: nodes keep their names and
  monitors and `binds` blocks their number of binds, so which node a monitor owns never changes, and the
  first child of a name that is `Apart` keeps its name, its place and its value through every child created behind
  it (`GrownKeeps`). The edit of a setting changes what no other setting's row reads. For
  each kind of row the proof then has two facts, what the row itself reads back after its edit, and that
  every other row reads what it read before.

`Apart` is what the proof asked for: in a block on one line a `mode` without a value, or one with the brace
right behind it, is changed by the child a `scale` row adds, so its row could come to disagree without
having been edited. The documents `Packed` and `Packed2` make TLC meet these blocks.

**NumberLemmas** is the induction over data. The library's induction theorems take an operator, which
none of the provers can instantiate; here they are stated with a set of numbers instead (`LeastNumber`,
`NumberInduction`), and `Recursion` gives what a recursive function over `0..n` satisfies. The uses
define the set of numbers a statement holds of, and hide its definition.

Between them the theorems state every invariant and every action property the passing runs check, and
the refinements.

### What is only model-checked

* Liveness (`EditsGetValidated`, `EventsGetHandled`, `PathsAreDelivered`, `BridgeEnds`,
  `MutexIsReleased`, `HighlightingEnds`): fairness and ENABLED are outside the prover.
* The runs of section 6, whose counterexamples are particular behaviours.

## 6. Disagreements between the code and what the repository says of it

Each is a run whose single property TLC violates.

| run | what the repository says | what the code does |
|---|---|---|
| `save_returns` | after Save the button is disabled again | the handler assigns `original_text` while it is borrowed and panics; the file is written, the process aborts |
| `events_harmless` | however the events of a change arrive, one reload or one dialog is all that happens | the id of the fired 500 ms timer is kept; the next event, which the handler's own read causes, removes a source that is gone and panics. The run shows an unsaved edit, the file rewritten, the one dialog about its text, and the abort behind it; after a silent reload it is the same |
| `any_tab_dirty` | `is-dirty` is true when any tab has unsaved edits | each tab's handler sets it from that tab alone; with two windows, restoring the text of one clears the flag of the other, whose Save is then disabled and which closes without asking |
| `undo_seen` | Undo restores the state before the edit | after a widget edit or a reload it restores an empty document that was never on display |
| `switch_rows` | a switch row edits nodes such as `slow-animations false`, `gesture-swipe-workspace-switch true` | it writes the string, printed without quotes as in these examples; KDL 2 reserves the bare words, so the buffer no longer parses, the fallback page opens and every other row's handler returns without a change |

Other disagreements met while modelling. The models have the code's behaviour; no run is
spent on them:

* An external edit is not noticed when it happens before the watch is registered
  (`shell.rs:1273` against the read at 1210), or after a rename over the path, this program's own save
  included, has taken the watched inode away. `unreported` records it; the feature specification
  (line 31) promises a reload or a banner.
* A child that a `scale` or `mode` row creates ("No scale node found — create one.", `output.rs:161`, and 200 for the mode) is not a child in a
  block on one line: behind `{ mode "x" }` it becomes two entries of `mode`; behind `{mode "x"}`
  the text does not parse; behind `{mode}` it makes a node `modescale`. Once a child has been created the block ends
  with a line end, and the next one is a child.
* `file_watcher.rs:107-108` says of a full channel that the "oldest events are silently dropped". `try_send`
  drops the event that arrives, the newest, and keeps the queued ones, which are delivered
  (`Notify`, `ImplementsFifo`, `PathsAreDelivered`). So what a flood loses is its end, the last change
  included.
* `input.rs:9-12` says that comments are not preserved through a widget's edit because "kdl v6
  discards comments on parse". The crate keeps them as the formatting around nodes, and prints them back; only
  what stands directly before a replaced entry goes with it. The models have no comments.
* The red mark ("Highlight the offending span in red.", `shell.rs:815-820`, and 884-889) takes the error's span, which kdl
  gives in bytes, for one in characters. Behind a character of several bytes it is too far to the
  right by the difference, or past the end of the text and not there at all; on one it is too long. `Marked` has the code's
  arithmetic, and `ColoursAreCurrent` promises the place only of marks with one-byte characters up to them.
* The Reload answer loads the text captured when the dialog opened, not the file's
  (`shell.rs:997`); the comment at 935 says "load on-disk content".
* In the fallback page, an edit that does not repair the text leaves it without the red mark of its
  error: the highlighter removes all tags (`kdl_highlighter.rs:229`), and the tab's handler sets the
  mark only on entering the page. The comment at `shell.rs:556` and `CHECKLIST.pre-release.md:90` have
  the mark there as long as the page is.
* A second window's tab has no path: its Save, and the Save answer when it closes, drop its
  edits without a word. Undo and Redo in any window act on the first tab of the list. Generate in a
  second first-run window empties the list, and overwrites a file that was created meanwhile.
* `semantic_path.rs:56-59` says of a name that repeats under the same parent that "each gets its own
  distinct index entry"; they have one key, and the later node replaces the earlier (`WalkNode`). `IndexFindsNodes` asks
  only that every path has an entry and the entry leads to a node of that path.
* `niri_validator.rs:16-18` says a child that fails gives a warning; its code returns an error when the child
  cannot be run for another reason than a missing binary, and no issue when it fails without output.
  `apply_saved` fails on any issue, the warning about a missing binary included.
* Switching Compare off asks the stack for a page named `editor`, which does not exist
  (`shell.rs:479`); the diff stays on display. `CHECKLIST.pre-release.md:127` expects the editor.
* The `changed` handler keeps the id of its fired 300 ms timer (`shell.rs:684`): the second
  edit that comes more than 300 ms after the first ends the process. `ChangedAborts` models it.
* Startup rows and layer-rule rows are built with one index and handled with another.
  `set_value` on an existing `match` property keeps the printed value (`layer_rules.rs:183`).
* The section rows are never rebuilt from the buffer, after Undo, a reload or the fallback
  view (`CHECKLIST.pre-release.md:94`).
* The Undo and Redo buttons are never disabled.
* The Save answer of the close dialog ignores a failing write, and panics like Save does.
* Two overlapping saves share the guard, which the first one's timer releases.
* A file that is not UTF-8 is shown as an empty document, which a save would then write.
* The generated default configuration has a bare `true` (`tools/niri/mod.rs:156`), which the
  KDL version 2 parser rejects.

## 7. Abstractions

* KDL text is a document, or a set of texts that parse and one that do not; the kdl crate's
  printing matters only where section 2 says so. Quotes, comments and slashdashed nodes are not in the
  documents; where quotes decide what a print is read as, both outcomes are possible (`bare`).
* In `EditorTab` a widget may write any text, one that does not parse included, as `Sections` shows a switch row
  does.
* Widgets: a number row gives one of two numbers, without its range and rounding; an entry
  gives a string of one word, of two, or a reserved one, a switch row a reserved one; action arguments that look like numbers are values the row can enter.
* Time: a timer that is armed may fire at any later moment. The three delays (300, 500,
  250 ms) and the poll interval play no other part.
* One tool, as `main.rs` registers; `Shell` has one window, `Windows` several.
* In `Shell` and `Windows` a save is one step, which `ImplementsDurableFile` justifies for a process
  that goes on; the steps inside it are `AtomicSave`'s.
* A power loss leaves a file empty or whole, not cut in the middle: readers tell no more apart. Each path's
  fate is independent of the others'.
* A panic while the mutex is held (a poisoned mutex) is not modelled; the code under it does not panic.

## 8. Not modelled, and why

* `state_persistence.rs`: the window's size, an advisory file, written at close and read at
  start; any loss of it is accepted by the code.
* `niri_validator.rs`: the heuristics that turn lines of the child's output into issues are
  functions of text with unit tests. The models have a validation that ends with or without
  complaints (EditorTab), or perhaps never (NiriTool).
* `tool_registry.rs`: a vector with a linear search, which the shell does not use. The default bodies of
  `tool_plugin.rs` that NiriTool overrides.
* The tool id of `ShellState` (set once, read by nothing), the emission of its signals only on a change.
* The kdl crate's grammar, and GTK, GLib, notify and libadwaita beyond what the code relies on.
* `main.rs`, `lib.rs`, `error.rs`: no state.

## 9. Plan

Done, in the order of importance: the tab and its refinement, the window, the watcher, the
sections, the diff with its colours, durable saves with the tool that makes them, the index, the highlighter,
several windows, and the proofs of section 5.

To come: properties of `Windows` beside the one that fails (which tab a path belongs to, what a save
from a later window can lose) and their proofs.

Composition: `EditorTab` EXTENDS `UndoStack`; `Shell` EXTENDS `EditorTab`; `FileWatcher` stands
apart and justifies the counters `upstream` and `rx` of `Shell`; `NiriTool` EXTENDS `AtomicSave` and
`SemanticIndex`; `AtomicSave` EXTENDS `DurableFile` and, with the callers of `NiriTool`, implements it.
