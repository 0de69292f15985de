------------------------------- MODULE LineDiff -------------------------------
(***************************************************************************)
(* Compare: line_diff (src/core/diff.rs), which fills a table of the       *)
(* longest common subsequences of two texts' first lines and walks back    *)
(* through it, and populate_diff_view (src/shell.rs), which puts the       *)
(* operations side by side and pairs a removal with the addition after it. *)
(* A text is the sequence of its lines.                                    *)
(***************************************************************************)
EXTENDS Naturals, Sequences, FiniteSets

CONSTANTS
  Line,
  Blank,    \* what fills the other pane beside a line only one text has
  Chars,    \* the characters of a line
  Bytes     \* the bytes of a line, what str::len() returns

ASSUME LineAssumption ==
  /\ Blank \notin Line
  /\ Chars \in [Line \cup {Blank} -> Nat]
  /\ Bytes \in [Line \cup {Blank} -> Nat]
  /\ Chars[Blank] = 0
  /\ \A line \in Line \cup {Blank} : Bytes[line] >= Chars[line]

VARIABLES
  original, modified,   \* the two texts compared
  dp,                   \* the table of the lengths
  i, j,                 \* the lines of either text still to be walked back over
  ops,                  \* the operations found, in the order of the texts
  next,                 \* the operation the view has come to
  rows                  \* the rows of the two panes

texts == <<original, modified, dp>>
walk == <<i, j, ops>>
panes == <<next, rows>>
vars == <<texts, walk, panes>>

Longer(a, b) == IF a >= b THEN a ELSE b

\* Mutant: the lines are compared with the one before.
NextRowOffByOne(o, m, a, above) ==
  LET row[b \in 0..Len(m)] ==
        IF b = 0 THEN 0
        ELSE IF b > 1 /\ o[a] = m[b - 1] THEN above[b - 1] + 1
        ELSE Longer(above[b], row[b - 1])
  IN  row

\* The table's row for the first a lines, from the row above it.
NextRow(o, m, a, above) ==
  LET row[b \in 0..Len(m)] ==
        IF b = 0 THEN 0
        ELSE IF o[a] = m[b] THEN above[b - 1] + 1
        ELSE Longer(above[b], row[b - 1])
  IN  row

\* In row a and column b, the length of a longest common subsequence of the
\* first a and b lines.
Table(o, m) ==
  LET table[a \in 0..Len(o)] ==
        IF a = 0 THEN [b \in 0..Len(m) |-> 0] ELSE NextRow(o, m, a, table[a - 1])
  IN  table

Op(kind, line) == [kind |-> kind, line |-> line]

Row(left, right, kind) == [left |-> left, right |-> right, kind |-> kind]

Init ==
  /\ original = <<>>
  /\ modified = <<>>
  /\ dp = Table(<<>>, <<>>)
  /\ i = 0
  /\ j = 0
  /\ ops = <<>>
  /\ next = 1
  /\ rows = <<>>

Walking == i > 0 \/ j > 0

Showing == ~Walking /\ next <= Len(ops)

\* refresh_tab_diff: both panes are cleared and the texts compared anew.
Compare(o, m) ==
  /\ ~Walking
  /\ ~Showing
  /\ original' = o
  /\ modified' = m
  /\ dp' = Table(o, m)
  /\ i' = Len(o)
  /\ j' = Len(m)
  /\ ops' = <<>>
  /\ next' = 1
  /\ rows' = <<>>

------------------------------------------------------------------------------
(* The walk back through the table *)

\* Mutant: a line is kept without a look at the other text.
BothLeft == i > 0 /\ j > 0

Match == i > 0 /\ j > 0 /\ original[i] = modified[j]

WalkSame ==
  /\ Match
  /\ i' = i - 1
  /\ j' = j - 1
  /\ ops' = <<Op("same", original[i])>> \o ops
  /\ UNCHANGED <<texts, panes>>

\* On a tie the addition is walked over first, so it comes after the removal.
Newer == j > 0 /\ (i > 0 => dp[i][j - 1] >= dp[i - 1][j])

WalkAdded ==
  /\ ~Match
  /\ Newer
  /\ j' = j - 1
  /\ ops' = <<Op("added", modified[j])>> \o ops
  /\ UNCHANGED <<texts, i, panes>>

WalkRemoved ==
  /\ ~Match
  /\ ~Newer
  /\ i > 0
  /\ i' = i - 1
  /\ ops' = <<Op("removed", original[i])>> \o ops
  /\ UNCHANGED <<texts, j, panes>>

------------------------------------------------------------------------------
(* The two panes *)

\* Mutant: any operation after a removal is taken for its addition.
FollowedByAny == next < Len(ops) /\ ops[next].kind = "removed"

\* A removal with an addition right after it.
Replaced ==
  /\ next < Len(ops)
  /\ ops[next].kind = "removed"
  /\ ops[next + 1].kind = "added"

\* Mutant: every row stands for two operations.
ShowTwo(row, count) ==
  /\ rows' = Append(rows, row)
  /\ next' = next + 2
  /\ UNCHANGED <<texts, walk>>

Show(row, count) ==
  /\ rows' = Append(rows, row)
  /\ next' = next + count
  /\ UNCHANGED <<texts, walk>>

ShowSame ==
  /\ Showing
  /\ ops[next].kind = "same"
  /\ Show(Row(ops[next].line, ops[next].line, "same"), 1)

ShowModified ==
  /\ Showing
  /\ Replaced
  /\ Show(Row(ops[next].line, ops[next + 1].line, "modified"), 2)

ShowRemoved ==
  /\ Showing
  /\ ops[next].kind = "removed"
  /\ ~Replaced
  /\ Show(Row(ops[next].line, Blank, "removed"), 1)

ShowAdded ==
  /\ Showing
  /\ ops[next].kind = "added"
  /\ Show(Row(Blank, ops[next].line, "added"), 1)

------------------------------------------------------------------------------
(* The text of a pane and its colours *)

Coloured(side) == IF side = "left" THEN {"removed", "modified"} ELSE {"added", "modified"}

\* The pane, with the row that each character of a line belongs to and 0 for the
\* gutters and the line ends.
Pane(side) ==
  LET f[r \in 0..Len(rows)] ==
        IF r = 0 THEN <<>>
        ELSE f[r - 1]
               \o (IF r > 1 THEN <<0>> ELSE <<>>)
               \o <<0, 0>>
               \o [c \in 1..Chars[rows[r][side]] |-> r]
  IN  f[Len(rows)]

\* Mutant: the end of the line is not counted.
LineStartShort(side, r) ==
  LET f[n \in 0..r] == IF n = 0 THEN 2 ELSE f[n - 1] + Bytes[rows[n][side]] + 2
  IN  f[r - 1]

\* Where the code takes the line of a row to begin.
LineStart(side, r) ==
  LET f[n \in 0..r] == IF n = 0 THEN 2 ELSE f[n - 1] + Bytes[rows[n][side]] + 3
  IN  f[r - 1]

\* The places that get the colour of a row.
ColouredFor(side, r) ==
  IF rows[r].kind \in Coloured(side)
  THEN {k \in DOMAIN Pane(side) :
          LineStart(side, r) < k /\ k <= LineStart(side, r) + Bytes[rows[r][side]]}
  ELSE {}

CompareSome == \E o \in Seq(Line), m \in Seq(Line) : Compare(o, m)

Step ==
  \/ WalkSame \/ WalkAdded \/ WalkRemoved
  \/ ShowSame \/ ShowModified \/ ShowRemoved \/ ShowAdded

Next == CompareSome \/ Step

Spec == Init /\ [][Next]_vars

------------------------------------------------------------------------------
(* Properties *)

Kinds == {"same", "added", "removed"}

\* The shape of the state; neither index runs out of its text, which would be
\* a panic of the slice.
TypeOK ==
  /\ original \in Seq(Line)
  /\ modified \in Seq(Line)
  /\ i \in 0..Len(original)
  /\ j \in 0..Len(modified)
  /\ ops \in Seq([kind : Kinds, line : Line])
  /\ next \in 1..(Len(ops) + 1)
  /\ rows \in Seq([left : Line \cup {Blank}, right : Line \cup {Blank},
                   kind : Kinds \cup {"modified"}])

\* A row marked as modified shows two different lines: the walk has compared the
\* removal and the addition that the view, which does not, takes for a pair.
ModifiedDiffers == \A r \in DOMAIN rows : rows[r].kind = "modified" => rows[r].left # rows[r].right

\* The lines of a pane without those that fill it up.
Shown(side) ==
  LET f[r \in 0..Len(rows)] ==
        IF r = 0 THEN <<>>
        ELSE IF rows[r][side] = Blank THEN f[r - 1]
        ELSE Append(f[r - 1], rows[r][side])
  IN  f[Len(rows)]

Done == ~Walking /\ ~Showing

\* The left pane reads as the whole original and the right pane as the whole
\* modified text, line by line: the walk and the pairing drop, repeat and swap
\* no line.
PanesReadAsTexts == Done => Shown("left") = original /\ Shown("right") = modified

\* The places of two equal lines.
EqualLines == {p \in (DOMAIN original) \X (DOMAIN modified) : original[p[1]] = modified[p[2]]}

\* The pairs are in the same order in both texts: their lines are a common
\* subsequence.
InOrder(pairs) ==
  \A p, q \in pairs :
    p = q \/ (p[1] < q[1] /\ p[2] < q[2]) \/ (q[1] < p[1] /\ q[2] < p[2])

\* The diff is minimal: no common subsequence of the two texts is longer than
\* the lines shown as unchanged.
KeepsMost ==
  Done => \A pairs \in SUBSET EqualLines :
    InOrder(pairs) => Cardinality(pairs) <= Cardinality({r \in DOMAIN rows : rows[r].kind = "same"})

Ascii(line) == Bytes[line] = Chars[line]

\* As long as no line down to this row has a character of several bytes, the
\* colour of a row is on the characters of its line and nowhere else, whatever
\* rows are above it in either pane.
ColoursOnLines ==
  Done => \A side \in {"left", "right"} : \A r \in DOMAIN rows :
    (\A q \in 1..r : Ascii(rows[q][side])) =>
      ColouredFor(side, r) =
        {k \in DOMAIN Pane(side) : Pane(side)[k] = r /\ rows[r].kind \in Coloured(side)}
==============================================================================
