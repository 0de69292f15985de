------------------------------- MODULE Sections -------------------------------
(***************************************************************************)
(* The section widgets (src/tools/niri/sections/): rows built once from    *)
(* the tool's parsed document, each with a handler that parses the shared  *)
(* buffer, changes one node and writes the document back.  The rows are    *)
(* not rebuilt when Undo, Redo, a reload or typing in the fallback view    *)
(* replaces the document under them.                                       *)
(*                                                                         *)
(* The buffer is modelled by the document kdl parses it to.  Printing a    *)
(* document and parsing it again gives the same document, except at the    *)
(* three places the handlers run into: a node appended to a block is       *)
(* printed with a line end behind it but nothing in front of it, a         *)
(* reserved word is printed without quotes and does not parse, and an      *)
(* entry given a value with set_value is still printed as it was read.     *)
(***************************************************************************)
EXTENDS SequencesExt

CONSTANTS
  Doc,              \* the documents the file may hold
  Unparsed,         \* a buffer that does not parse
  Num, Str, Flag,   \* numbers, strings, and the values no row reads
  Typed,            \* bound: the strings the user enters
  Spaced,           \* the strings with a space in them ...
  Halves,           \* ... and the two words the action handler makes of one
  Broken,           \* the strings whose print does not parse: reserved words ...
  Stuck,            \* ... and what is printed with no space where one is needed
  Joined,           \* two words printed without a space between, read as one
  Default,          \* what a row shows for a value it cannot read
  NoProp,           \* the key of a positional entry
  Settings,         \* the paths of the settings with a row of their own ...
  Spins,            \* ... of those, the ones whose row is a number ...
  Switches,         \* ... and the ones whose row is a switch
  MaxEdits          \* bound: edits and recordings

IsSeq(s) == s \in Seq(Range(s))

\* A node's block, if it has one, holds nodes again; the rows look at blocks
\* within the blocks of the nodes at the top.  The last child's line ends with
\* a line end or a semicolon, or there is just a space before the brace, or not
\* even that.
IsNode(n) ==
  /\ n = [name |-> n.name, args |-> n.args, block |-> n.block, kids |-> n.kids, ends |-> n.ends]
  /\ IsSeq(n.args) /\ n.block \in BOOLEAN /\ n.ends \in {"line", "space", "brace"}
  /\ n.block \/ n.kids = <<>>

IsBlock(ns) == IsSeq(ns) /\ \A i \in DOMAIN ns : IsNode(ns[i])

HasBlocks(ns) ==
  IsBlock(ns) /\ \A i \in DOMAIN ns : IsBlock(ns[i].kids)

IsDocument(d) ==
  IsBlock(d) /\ \A i \in DOMAIN d : HasBlocks(d[i].kids)

Reads(n) == n.name \notin Broken /\ \A j \in DOMAIN n.args : n.args[j].val \notin Broken

BlockReads(ns) == \A i \in DOMAIN ns : Reads(ns[i])

\* The text printed for the document parses.
Parses(d) ==
  /\ BlockReads(d)
  /\ \A i \in DOMAIN d :
       /\ BlockReads(d[i].kids)
       /\ \A k \in DOMAIN d[i].kids : BlockReads(d[i].kids[k].kids)

\* The sections whose rows are those of the file's nodes.
ListSections ==
  {"output", "preferred-workspace-for-output", "spawn-at-startup", "layer-rules", "binds"}

ASSUME SectionsAssumption ==
  /\ \A d \in Doc : IsDocument(d) /\ Parses(d)
  /\ ~IsDocument(Unparsed)
  /\ Num \cap Str = {} /\ Flag \notin Num \cup Str
  /\ Default \notin Num \cup Str \cup {Flag}
  /\ Typed \subseteq Str /\ Spaced \subseteq Str
  /\ Halves \in Seq(Str \ Spaced)
  /\ Stuck \in Broken /\ Joined \in Str \ Broken
  /\ {Stuck, Joined} \cap {"scale", "mode"} = {}
  /\ Spins \subseteq Settings /\ Switches \subseteq Settings \ Spins
  /\ \A path \in Settings : IsSeq(path) /\ Len(path) \in 1..3 /\ path[1] \notin ListSections

VARIABLES
  doc,        \* the document in the text buffer
  built,      \* the document the tool had loaded when the rows were built
  shown,      \* what each row shows
  by,         \* history: the row last edited, or <<>> when something else came since
  fresh,      \* history: only rows have changed the document since they were built from it
  recorded,   \* history: the chord rows whose chord was last set by Record
  edits       \* bounded: the edits and recordings so far

vars == <<doc, built, shown, by, fresh, recorded, edits>>

Arg(v) == [prop |-> NoProp, val |-> v]

Position(nodes, name) == SelectInSeq(nodes, LAMBDA n : n.name = name)

\* The node of that name that is the idx-th of them, if there are so many.
Nth(nodes, name, idx) ==
  {i \in DOMAIN nodes :
     nodes[i].name = name /\ Cardinality({j \in 1..i : nodes[j].name = name}) = idx}

\* The block of the first node of that name.
KidsAt(nodes, name) ==
  LET i == Position(nodes, name) IN IF i = 0 THEN <<>> ELSE nodes[i].kids

\* The first node of that name gets another block for its block, if it has one.
PutKids(nodes, name, kids) ==
  LET i == Position(nodes, name)
  IN  IF i = 0 THEN nodes
      ELSE IF ~nodes[i].block THEN nodes
      ELSE [nodes EXCEPT ![i].kids = kids]

------------------------------------------------------------------------------
(* The handlers' changes to a document *)

\* Replace the k-th entry, or add one when there are fewer.
SetArg(args, k, v) ==
  IF Len(args) < k THEN Append(args, Arg(v)) ELSE [args EXCEPT ![k] = Arg(v)]

SetLeaf(nodes, name, v) ==
  LET i == Position(nodes, name)
  IN  IF i = 0 THEN nodes ELSE [nodes EXCEPT ![i].args = SetArg(@, 1, v)]

\* set_kdl_value: the first node of each name on the path; a path that leads
\* nowhere changes nothing.
SetSetting(d, path, v) ==
  LET block == KidsAt(d, path[1])
      inner == KidsAt(block, path[2])
  IN  CASE Len(path) = 1 -> SetLeaf(d, path[1], v)
        [] Len(path) = 2 -> PutKids(d, path[1], SetLeaf(block, path[2], v))
        [] OTHER -> PutKids(d, path[1], PutKids(block, path[2], SetLeaf(inner, path[3], v)))

\* The monitor a node is for, as its row captures it.
Monitor(node) ==
  IF node.args # <<>> /\ node.args[1].val \in Str THEN node.args[1].val ELSE Default

IsFor(node, name, monitor) ==
  node.name = name /\ monitor # Default /\ Monitor(node) = monitor

FirstFor(d, name, monitor) == SelectInSeq(d, LAMBDA n : IsFor(n, name, monitor))

NewKid(name, v) ==
  [name |-> name, args |-> <<Arg(v)>>, block |-> FALSE, kids |-> <<>>, ends |-> "line"]

\* A word printed right behind the node's last one: the two are one word if the
\* last one is a word without quotes (bare).
RunOn(node, bare) ==
  LET last == Len(node.args)
      word == IF last = 0 THEN node.name ELSE node.args[last].val
      both == IF bare /\ ~node.block /\ word \notin Num \cup Spaced \cup {Flag} THEN Joined ELSE Stuck
  IN  IF last = 0 THEN [node EXCEPT !.name = both] ELSE [node EXCEPT !.args[last].val = both]

\* The last child with another printed on its line, which is read as more words
\* of it; behind a block of its own there is no room for any.
Lengthened(kid, ends, name, v, bare) ==
  IF ends = "space"
    THEN [kid EXCEPT !.args = @ \o <<Arg(IF kid.block THEN Stuck ELSE name), Arg(v)>>]
    ELSE LET run == RunOn(kid, bare) IN [run EXCEPT !.args = Append(@, Arg(v))]

\* The child is printed at the end of the block, with a line end behind it.
AddKid(node, name, v, bare) ==
  LET last == Len(node.kids)
  IN  IF last = 0 \/ node.ends = "line"
        THEN [node EXCEPT !.kids = Append(@, NewKid(name, v)), !.ends = "line"]
        ELSE [node EXCEPT !.kids[last] = Lengthened(@, node.ends, name, v, bare), !.ends = "line"]

SetKid(node, name, v, bare) ==
  LET k == Position(node.kids, name)
  IN  IF ~node.block THEN node
      ELSE IF k = 0 THEN AddKid(node, name, v, bare)
      ELSE [node EXCEPT !.kids[k].args = SetArg(@, 1, v)]

\* Mutant: the loop does not stop at the monitor's first node.
SetEveryOutput(d, monitor, name, v, bare) ==
  [i \in DOMAIN d |->
     IF IsFor(d[i], "output", monitor) THEN SetKid(d[i], name, v, bare) ELSE d[i]]

\* modify_output_scale and modify_output_mode; a node without a block is left alone.
SetOutput(d, monitor, name, v, bare) ==
  LET i == FirstFor(d, "output", monitor)
  IN  IF i = 0 THEN d ELSE [d EXCEPT ![i] = SetKid(@, name, v, bare)]

SetWorkspace(d, monitor, v) ==
  LET i == FirstFor(d, "preferred-workspace-for-output", monitor)
  IN  IF i = 0 THEN d ELSE [d EXCEPT ![i].args = SetArg(@, 2, v)]

\* Mutant: the index is taken for the place in the document.
SetAnyNode(d, idx, v) ==
  IF idx > Len(d) THEN d ELSE [d EXCEPT ![idx].args = SetArg(@, 1, v)]

\* The handler counts spawn-at-startup nodes until it has seen as many as the
\* row's index, which is the node's place among all the nodes.
SetStartup(d, idx, v) ==
  LET nth == Nth(d, "spawn-at-startup", idx)
  IN  [i \in DOMAIN d |-> IF i \in nth THEN [d[i] EXCEPT !.args = SetArg(@, 1, v)] ELSE d[i]]

\* modify_match_prop on one node: a property that is there keeps its printed value.
SetProp(args, prop, v) ==
  IF \E j \in DOMAIN args : args[j].prop = prop THEN args
  ELSE Append(args, [prop |-> prop, val |-> v])

\* Again the place among all children, used as the place among the match nodes.
SetMatch(d, idx, prop, v) ==
  LET rules == KidsAt(d, "layer-rules")
      nth   == Nth(rules, "match", idx)
  IN  PutKids(d, "layer-rules",
        [k \in DOMAIN rules |->
           IF k \in nth THEN [rules[k] EXCEPT !.args = SetProp(@, prop, v)] ELSE rules[k]])

\* The idx-th child of the first binds node, if there is one.
SetChord(d, idx, chord) ==
  LET binds == KidsAt(d, "binds")
  IN  IF idx > Len(binds) THEN d ELSE PutKids(d, "binds", [binds EXCEPT ![idx].name = chord])

\* The action text is split at white space, quotes or not.
Words(action) ==
  FlattenSeq([j \in DOMAIN action |->
                IF action[j] \in Spaced THEN Halves ELSE <<action[j]>>])

Args(words) == [j \in DOMAIN words |-> Arg(words[j])]

\* Mutant: the entries are added to the old ones.
ExtendAction(d, idx, action) ==
  LET binds == KidsAt(d, "binds")
  IN  IF idx > Len(binds) THEN d
      ELSE PutKids(d, "binds", [binds EXCEPT ![idx].args = @ \o Args(Words(action))])

SetAction(d, idx, action) ==
  LET binds == KidsAt(d, "binds")
  IN  IF idx > Len(binds) THEN d
      ELSE PutKids(d, "binds", [binds EXCEPT ![idx].args = Args(Words(action))])

------------------------------------------------------------------------------
(* The rows *)

NodesNamed(d, name) == {<<i>> : i \in {i \in DOMAIN d : d[i].name = name}}

\* The children with a row in the first node of that name.
KidsOf(d, name, HasRow(_)) ==
  LET i == Position(d, name)
  IN  IF i = 0 THEN {} ELSE {<<i, k>> : k \in {k \in DOMAIN d[i].kids : HasRow(d[i].kids[k])}}

\* A row is known by its kind and, for a setting, by its path, for another by
\* the place of its node in the document it was built from.
Rows(d) ==
  ({"setting"} \X Settings)
  \cup ({"scale", "mode"} \X NodesNamed(d, "output"))
  \cup ({"workspace"} \X NodesNamed(d, "preferred-workspace-for-output"))
  \cup ({"startup"} \X NodesNamed(d, "spawn-at-startup"))
  \cup ({"app-id", "rule-workspace"} \X KidsOf(d, "layer-rules", LAMBDA kid : kid.name = "match"))
  \cup ({"chord", "action"} \X KidsOf(d, "binds", LAMBDA kid : TRUE))

PropOf(kind) == IF kind = "rule-workspace" THEN "workspace" ELSE "app-id"

\* The k-th entry, if there is one and the row can read its value.
Read(args, k, readable) ==
  IF Len(args) >= k /\ args[k].val \in readable THEN args[k].val ELSE Default

\* The value of the first child of that name.
ReadNode(nodes, name, readable) ==
  LET i == Position(nodes, name)
  IN  IF i = 0 THEN Default ELSE Read(nodes[i].args, 1, readable)

ReadProp(args, prop, readable) ==
  LET p == SelectInSeq(args, LAMBDA e : e.prop = prop)
  IN  IF p = 0 THEN Default ELSE Read(args, p, readable)

\* get_kdl_f64 for a number row, get_kdl_str for the others; of a switch row this
\* is the string that decides whether it is on.
ReadSetting(d, path) ==
  LET readable == IF path \in Spins THEN Num ELSE Num \cup Str
      block == CASE Len(path) = 1 -> d
                 [] Len(path) = 2 -> KidsAt(d, path[1])
                 [] OTHER -> KidsAt(KidsAt(d, path[1]), path[2])
  IN  ReadNode(block, path[Len(path)], readable)

\* What a row shows when it is built from d.
Display(d, row) ==
  LET kind == row[1]
      at   == row[2]
      kid  == d[at[1]].kids[at[2]]
  IN  CASE kind = "setting"        -> ReadSetting(d, at)
        [] kind = "scale"          -> ReadNode(d[at[1]].kids, "scale", Num)
        [] kind = "mode"           -> ReadNode(d[at[1]].kids, "mode", Str)
        [] kind = "workspace"      -> Read(d[at[1]].args, 2, Num)
        [] kind = "startup"        -> Read(d[at[1]].args, 1, Str)
        [] kind = "app-id"         -> ReadProp(kid.args, "app-id", Str)
        [] kind = "rule-workspace" -> ReadProp(kid.args, "workspace", Num \cup Str)
        [] kind = "chord"          -> kid.name
        [] kind = "action"         -> [j \in DOMAIN kid.args |-> kid.args[j].val]

\* The document after the row's handler has run with the value v.
Edited(d, row, v, bare) ==
  LET kind == row[1]
      at   == row[2]
  IN  CASE kind = "setting"           -> SetSetting(d, at, v)
        [] kind \in {"scale", "mode"} -> SetOutput(d, Monitor(built[at[1]]), kind, v, bare)
        [] kind = "workspace"         -> SetWorkspace(d, Monitor(built[at[1]]), v)
        [] kind = "startup"           -> SetStartup(d, at[1], v)
        [] kind \in {"app-id", "rule-workspace"} -> SetMatch(d, at[2], PropOf(kind), v)
        [] kind = "chord"             -> SetChord(d, at[2], v)
        [] kind = "action"            -> SetAction(d, at[2], v)

\* What the buffer then is.
Written(d) == IF Parses(d) THEN d ELSE Unparsed

\* What the user can enter: number rows give numbers, entry rows strings; a
\* switch row gives the string "true" or "false".
Input(row) ==
  CASE row[1] = "setting" ->
         IF row[2] \in Spins THEN Num
         ELSE IF row[2] \in Switches THEN Typed \cap Broken
         ELSE Typed
    [] row[1] \in {"scale", "workspace"} -> Num
    [] row[1] = "action" -> {<<a, b>> : a \in Typed, b \in Num \cup Typed}
    [] OTHER -> Typed

------------------------------------------------------------------------------
(* The rows and the buffer over time *)

\* The rows are built from what the tool loaded; when that failed, from an
\* empty document.
Init ==
  /\ doc \in Doc \cup {Unparsed}
  /\ built \in Doc \cup {<<>>}
  /\ shown = [row \in Rows(built) |-> Display(built, row)]
  /\ by = <<>>
  /\ fresh = (doc = built)
  /\ recorded = {}
  /\ edits = 0

\* A row's value changes under the user's hands: its handler runs.  A buffer
\* that does not parse is left alone.  The document does not tell whether a word
\* in it had quotes: bare is one answer or the other.
EditRow(row, v, bare) ==
  /\ edits < MaxEdits
  /\ doc' = IF doc = Unparsed THEN doc ELSE Written(Edited(doc, row, v, bare))
  /\ shown' = [shown EXCEPT ![row] = v]
  /\ by' = row
  /\ recorded' = recorded \ {row}
  /\ edits' = edits + 1
  /\ UNCHANGED <<built, fresh>>

\* The Record dialog of a bind renames it, and leaves its rows as they were.
Record(row, chord) ==
  /\ edits < MaxEdits
  /\ row[1] = "chord"
  /\ doc' = IF doc = Unparsed THEN doc ELSE Written(SetChord(doc, row[2][2], chord))
  /\ by' = row
  /\ recorded' = recorded \cup {row}
  /\ edits' = edits + 1
  /\ UNCHANGED <<built, shown, fresh>>

\* Undo, Redo, a reload, or typing in the fallback view.
Replaced(d) ==
  /\ doc' = d
  /\ by' = <<>>
  /\ fresh' = FALSE
  /\ UNCHANGED <<built, shown, recorded, edits>>

Next ==
  \/ \E row \in DOMAIN shown : \E v \in Input(row), bare \in BOOLEAN : EditRow(row, v, bare)
  \/ \E row \in DOMAIN shown, chord \in Typed : Record(row, chord)
  \/ \E d \in Doc \cup {Unparsed} : Replaced(d)

Spec == Init /\ [][Next]_vars

------------------------------------------------------------------------------
(* Properties *)

\* The two node sequences differ in one node at most.
Near(ns, ms) ==
  /\ Len(ns) = Len(ms)
  /\ Cardinality({i \in DOMAIN ns : ns[i] # ms[i]}) <= 1

\* The two blocks differ in one child, or in one more at the end.
NearBlocks(ns, ms) ==
  \/ Near(ns, ms)
  \/ ms # <<>> /\ ns = Front(ms)

\* As long as the buffer parses, a row edits one node of the document and one
\* child in it: whatever the document has become since the rows were built, and
\* however often a monitor, a section or a setting occurs in it, the other nodes
\* of the document are kept.
EditsAreSmall ==
  [][by' # <<>> /\ doc # Unparsed /\ doc' # Unparsed =>
       /\ Near(doc, doc')
       /\ \A i \in DOMAIN doc : NearBlocks(doc[i].kids, doc'[i].kids)]_vars

SectionOf(row) ==
  CASE row[1] = "setting" -> row[2][1]
    [] row[1] \in {"scale", "mode"} -> "output"
    [] row[1] = "workspace" -> "preferred-workspace-for-output"
    [] row[1] = "startup" -> "spawn-at-startup"
    [] row[1] \in {"app-id", "rule-workspace"} -> "layer-rules"
    [] OTHER -> "binds"

\* A stale row may hit the wrong node, but only one of its own section: an index
\* or a monitor from another version of the file never leads to a node of
\* another name, and never renames one.
EditsStayInSection ==
  [][by' # <<>> /\ doc # Unparsed /\ doc' # Unparsed =>
       \A i \in DOMAIN doc :
         doc[i] # doc'[i] => doc[i].name = SectionOf(by') /\ doc'[i].name = doc[i].name]_vars

\* The node has a monitor, and no other node of its section has the same.
OwnMonitor(d, i) ==
  /\ Monitor(d[i]) # Default
  /\ \A j \in DOMAIN d : j # i => ~IsFor(d[j], d[i].name, Monitor(d[i]))

\* A child printed at the end of the block leaves the first child of that name
\* with its name and its value.
Apart(node, name) ==
  LET k == Position(node.kids, name)
  IN  \/ k = 0 \/ k < Len(node.kids) \/ node.ends = "line"
      \/ node.ends = "space" /\ node.kids[k].args # <<>>

\* The rows whose handler writes where the row was read: a setting or a child
\* that is in the file, a monitor with one node, a bind.  A startup row counts
\* other nodes than its handler does, and a layer rule's handler counts other
\* children and does not get its value printed.  The last child of a block on
\* one line may have another printed right behind it.
Addressed(row) ==
  LET i == row[2][1]
  IN  CASE row[1] = "setting" -> ReadSetting(doc, row[2]) # Default
        [] row[1] \in {"scale", "mode"} ->
             /\ OwnMonitor(doc, i)
             /\ Position(doc[i].kids, row[1]) # 0
             /\ Apart(built[i], row[1])
        [] row[1] = "workspace" -> OwnMonitor(doc, i)
        [] row[1] = "chord" -> row \notin recorded
        [] row[1] = "action" -> \A j \in DOMAIN shown[row] : shown[row][j] \notin Spaced
        [] OTHER -> FALSE

\* As long as only rows have changed the document and it parses, every row that
\* writes where it was read shows what the document says, in whatever order the
\* rows of shared nodes were edited.
WidgetsAgree ==
  fresh /\ doc # Unparsed =>
    \A row \in DOMAIN shown : Addressed(row) => shown[row] = Display(doc, row)

\* "slow-animations false" (animations.rs), "gesture-swipe-workspace-switch true"
\* (gestures.rs), as the "KDL structure" the rows edit: a switch row turned in a
\* document that parses, and that has the switch's node, leaves one that parses.
SwitchesKeepDocument ==
  [][by' \in {"setting"} \X Switches /\ fresh' /\ doc # Unparsed => doc' # Unparsed]_vars
==============================================================================
