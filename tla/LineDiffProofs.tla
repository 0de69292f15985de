---------------------------- MODULE LineDiffProofs ----------------------------
(***************************************************************************)
(* Theorems about a comparison of texts of any length:                     *)
(*                                                                         *)
(*   - the rows Compare marks as modified do show two different lines. The *)
(*     view pairs a removal with the addition after it without comparing   *)
(*     them, so the invariant has to remember what the walk compared: an   *)
(*     addition at the front of the operations is not the line of the      *)
(*     original the walk has come to (HeadDiffers), and two operations the *)
(*     view will pair differ already (PairsDiffer);                        *)
(*   - the panes read as the texts (PanesInv: what is behind the walk, and *)
(*     later what the view has shown and has still to show, is the text);  *)
(*   - the lines kept are as many as can be (MostInv: the table's cells    *)
(*     bound what a common subsequence of two prefixes can hold, and the   *)
(*     walk loses nothing of the cell it is at);                           *)
(*   - the colours are on their lines (Laid: the pane down to a row).      *)
(***************************************************************************)
EXTENDS LineDiff, NumberLemmas, SequenceTheorems, FiniteSetTheorems, TLAPS

OpType == [kind : Kinds, line : Line]

RowType == [left : Line \cup {Blank}, right : Line \cup {Blank}, kind : Kinds \cup {"modified"}]

HeadDiffers ==
  ops # <<>> /\ ops[1].kind = "added" /\ i > 0 => original[i] # ops[1].line

PairsDiffer ==
  \A x \in 1..(Len(ops) - 1) :
    ops[x].kind = "removed" /\ ops[x + 1].kind = "added" => ops[x].line # ops[x + 1].line

DInv == TypeOK /\ HeadDiffers /\ PairsDiffer /\ ModifiedDiffers

\* Putting an element in front moves the others up by one.
LEMMA Prepended ==
  ASSUME NEW S, NEW e \in S, NEW s \in Seq(S)
  PROVE  /\ <<e>> \o s \in Seq(S)
         /\ Len(<<e>> \o s) = Len(s) + 1
         /\ (<<e>> \o s)[1] = e
         /\ \A x \in 1..Len(s) : (<<e>> \o s)[x + 1] = s[x]
  OBVIOUS

\* A new operation in front keeps PairsDiffer if it does not pair with the one
\* that was in front before.
LEMMA PrependedPairs ==
  ASSUME NEW op \in OpType, ops \in Seq(OpType), PairsDiffer,
         ops' = <<op>> \o ops,
         ops # <<>> /\ op.kind = "removed" /\ ops[1].kind = "added" => op.line # ops[1].line
  PROVE  PairsDiffer'
<1> SUFFICES ASSUME NEW x \in 1..(Len(ops') - 1),
                    ops'[x].kind = "removed", ops'[x + 1].kind = "added"
             PROVE  ops'[x].line # ops'[x + 1].line
  BY DEF PairsDiffer
<1>1. /\ Len(ops') = Len(ops) + 1
      /\ ops'[1] = op
      /\ \A y \in 1..Len(ops) : ops'[y + 1] = ops[y]
  BY Prepended
<1>2. Len(ops) \in Nat /\ x \in 1..Len(ops)
  BY <1>1, LenProperties
<1>3. ops'[x + 1] = ops[x]
  BY <1>1, <1>2
<1>4. CASE x = 1
  <2>1. ops # <<>>
    BY <1>2, EmptySeq
  <2>2. op.kind = "removed" /\ ops[1].kind = "added"
    BY <1>1, <1>3, <1>4
  <2>3. QED
    BY <1>1, <1>3, <1>4, <2>1, <2>2
<1>5. CASE x # 1
  <2>1. x - 1 \in 1..(Len(ops) - 1) /\ x - 1 \in 1..Len(ops)
    BY <1>2, <1>5
  <2>2. ops'[(x - 1) + 1] = ops[x - 1] /\ (x - 1) + 1 = x
    BY <1>1, <2>1
  <2>3. ops'[x] = ops[x - 1]
    BY <2>2
  <2>4. ops[x - 1].kind = "removed" /\ ops[x].kind = "added"
    BY <1>3, <2>3
  <2>5. ops[x - 1].line # ops[(x - 1) + 1].line
    BY <2>1, <2>2, <2>4 DEF PairsDiffer
  <2>6. QED
    BY <1>3, <2>2, <2>3, <2>5
<1>6. QED
  BY <1>4, <1>5

\* Rows are only added, so a row that keeps ModifiedDiffers keeps it for all.
LEMMA ShownRow ==
  ASSUME TypeOK, ModifiedDiffers, NEW row \in RowType, NEW count \in {1, 2},
         row.kind = "modified" => row.left # row.right,
         rows' = Append(rows, row), next' = next + count, UNCHANGED <<texts, walk>>,
         next + count <= Len(ops) + 1
  PROVE  TypeOK' /\ ModifiedDiffers'
<1> USE DEF texts, walk
<1>1. rows \in Seq(RowType) /\ rows' = Append(rows, row)
  BY DEF TypeOK, RowType
<1>2. TypeOK'
  <2>1. rows' \in Seq(RowType)
    BY <1>1, AppendProperties
  <2>2. next' \in 1..(Len(ops') + 1)
    BY LenProperties DEF TypeOK
  <2>3. QED
    BY <2>1, <2>2 DEF TypeOK, RowType
<1>3. ModifiedDiffers'
  <2> SUFFICES ASSUME NEW r \in DOMAIN rows', rows'[r].kind = "modified"
               PROVE  rows'[r].left # rows'[r].right
    BY DEF ModifiedDiffers
  <2>1. CASE r \in DOMAIN rows
    BY <1>1, <2>1, AppendProperties DEF ModifiedDiffers
  <2>2. CASE r \notin DOMAIN rows
    <3>1. rows'[r] = row
      BY <1>1, <2>2, AppendProperties, LenProperties
    <3>2. QED
      BY <3>1
  <2>3. QED
    BY <2>1, <2>2
<1>4. QED
  BY <1>2, <1>3

LEMMA InitDInv == Init => DInv
  BY LineAssumption DEF Init, DInv, TypeOK, HeadDiffers, PairsDiffer, ModifiedDiffers, Kinds

LEMMA NextDInv == DInv /\ [Next]_vars => DInv'
<1> SUFFICES ASSUME DInv, [Next]_vars PROVE DInv'
  OBVIOUS
<1> USE DEF DInv
<1>0. /\ original \in Seq(Line) /\ modified \in Seq(Line)
      /\ i \in 0..Len(original) /\ j \in 0..Len(modified)
      /\ ops \in Seq(OpType)
      /\ next \in 1..(Len(ops) + 1)
      /\ rows \in Seq(RowType)
      /\ Len(original) \in Nat /\ Len(modified) \in Nat /\ Len(ops) \in Nat
  BY LenProperties DEF TypeOK, OpType, RowType
<1>1. ASSUME NEW o \in Seq(Line), NEW m \in Seq(Line), Compare(o, m) PROVE DInv'
  <2>1. Len(o) \in Nat /\ Len(m) \in Nat
    BY <1>1, LenProperties
  <2>2. TypeOK'
    BY <1>1, <2>1 DEF Compare, TypeOK
  <2>3. HeadDiffers' /\ PairsDiffer' /\ ModifiedDiffers'
    BY <1>1 DEF Compare, HeadDiffers, PairsDiffer, ModifiedDiffers
  <2>4. QED
    BY <2>2, <2>3
<1>2. ASSUME NEW op \in OpType, ops' = <<op>> \o ops, UNCHANGED <<original, modified, panes>>,
             i' \in 0..Len(original), j' \in 0..Len(modified)
      PROVE  TypeOK' /\ ModifiedDiffers' /\ ops' # <<>> /\ ops'[1] = op
  <2>1. ops' \in Seq(OpType) /\ Len(ops') = Len(ops) + 1 /\ ops'[1] = op
    BY <1>0, <1>2, Prepended
  <2>2. ops' # <<>>
    BY <1>0, <2>1, EmptySeq
  <2>3. next' \in 1..(Len(ops') + 1)
    BY <1>0, <1>2, <2>1 DEF panes
  <2>4. TypeOK'
    BY <1>0, <1>2, <2>1, <2>3 DEF TypeOK, OpType, RowType, panes
  <2>5. ModifiedDiffers'
    BY <1>2 DEF ModifiedDiffers, panes
  <2>6. QED
    BY <2>1, <2>2, <2>4, <2>5
<1>3. CASE WalkSame
  <2> DEFINE op == Op("same", original[i])
  <2>1. /\ i > 0 /\ j > 0 /\ i' = i - 1 /\ j' = j - 1 /\ ops' = <<op>> \o ops
        /\ UNCHANGED <<original, modified, panes>>
    BY <1>3 DEF WalkSame, Match, texts
  <2>2. op \in OpType /\ op.kind = "same"
    BY <1>0, <2>1 DEF Op, OpType, Kinds
  <2>3. i' \in 0..Len(original) /\ j' \in 0..Len(modified)
    BY <1>0, <2>1
  <2> HIDE DEF op
  <2>4. TypeOK' /\ ModifiedDiffers' /\ ops' # <<>> /\ ops'[1] = op
    BY <1>2, <2>1, <2>2, <2>3
  <2>5. HeadDiffers'
    BY <2>2, <2>4 DEF HeadDiffers
  <2>6. PairsDiffer'
    BY <1>0, <2>1, <2>2, PrependedPairs
  <2>7. QED
    BY <2>4, <2>5, <2>6
<1>4. CASE WalkAdded
  <2> DEFINE op == Op("added", modified[j])
  <2>1. /\ ~Match /\ j > 0 /\ j' = j - 1 /\ i' = i /\ ops' = <<op>> \o ops
        /\ UNCHANGED <<original, modified, panes>>
    BY <1>4 DEF WalkAdded, Newer, texts
  <2>2. op \in OpType /\ op.kind = "added" /\ op.line = modified[j]
    BY <1>0, <2>1 DEF Op, OpType, Kinds
  <2>3. i' \in 0..Len(original) /\ j' \in 0..Len(modified)
    BY <1>0, <2>1
  <2> HIDE DEF op
  <2>4. TypeOK' /\ ModifiedDiffers' /\ ops' # <<>> /\ ops'[1] = op
    BY <1>2, <2>1, <2>2, <2>3
  <2>5. i > 0 => original[i] # modified[j]
    BY <2>1 DEF Match
  <2>6. HeadDiffers'
    BY <2>1, <2>2, <2>4, <2>5 DEF HeadDiffers
  <2>7. PairsDiffer'
    BY <1>0, <2>1, <2>2, PrependedPairs
  <2>8. QED
    BY <2>4, <2>6, <2>7
<1>5. CASE WalkRemoved
  <2> DEFINE op == Op("removed", original[i])
  <2>1. /\ i > 0 /\ i' = i - 1 /\ j' = j /\ ops' = <<op>> \o ops
        /\ UNCHANGED <<original, modified, panes>>
    BY <1>5 DEF WalkRemoved, texts
  <2>2. op \in OpType /\ op.kind = "removed" /\ op.line = original[i]
    BY <1>0, <2>1 DEF Op, OpType, Kinds
  <2>3. i' \in 0..Len(original) /\ j' \in 0..Len(modified)
    BY <1>0, <2>1
  <2> HIDE DEF op
  <2>4. TypeOK' /\ ModifiedDiffers' /\ ops' # <<>> /\ ops'[1] = op
    BY <1>2, <2>1, <2>2, <2>3
  <2>5. HeadDiffers'
    BY <2>2, <2>4 DEF HeadDiffers
  <2>6. ops # <<>> /\ ops[1].kind = "added" => op.line # ops[1].line
    BY <2>1, <2>2 DEF HeadDiffers
  <2>7. PairsDiffer'
    BY <1>0, <2>1, <2>2, <2>6, PrependedPairs
  <2>8. QED
    BY <2>4, <2>5, <2>7
<1>6. ASSUME UNCHANGED <<texts, walk>> PROVE HeadDiffers' /\ PairsDiffer'
  BY <1>6 DEF texts, walk, HeadDiffers, PairsDiffer
<1>7. CASE ShowSame
  <2> DEFINE row == Row(ops[next].line, ops[next].line, "same")
  <2>0. next \in 1..Len(ops) /\ ops[next] \in OpType
    BY <1>0, <1>7 DEF ShowSame, Showing
  <2>1. rows' = Append(rows, row) /\ next' = next + 1 /\ UNCHANGED <<texts, walk>>
    BY <1>7 DEF ShowSame, Show
  <2>2. row \in RowType /\ row.kind = "same"
    BY <2>0 DEF Row, RowType, OpType, Kinds
  <2> HIDE DEF row
  <2>3. next + 1 <= Len(ops) + 1
    BY <1>0, <2>0
  <2>4. TypeOK' /\ ModifiedDiffers'
    BY <2>1, <2>2, <2>3, ShownRow
  <2>5. QED
    BY <1>6, <2>1, <2>4
<1>8. CASE ShowModified
  <2> DEFINE row == Row(ops[next].line, ops[next + 1].line, "modified")
  <2>0. /\ next \in 1..(Len(ops) - 1)
        /\ ops[next] \in OpType /\ ops[next + 1] \in OpType
        /\ ops[next].kind = "removed" /\ ops[next + 1].kind = "added"
    BY <1>0, <1>8 DEF ShowModified, Showing, Replaced
  <2>1. rows' = Append(rows, row) /\ next' = next + 2 /\ UNCHANGED <<texts, walk>>
    BY <1>8 DEF ShowModified, Show
  <2>2. row \in RowType /\ row.left = ops[next].line /\ row.right = ops[next + 1].line
    BY <2>0 DEF Row, RowType, OpType, Kinds
  <2>3. row.left # row.right
    BY <2>0, <2>2 DEF PairsDiffer
  <2> HIDE DEF row
  <2>4. next + 2 <= Len(ops) + 1
    BY <1>0, <2>0
  <2>5. TypeOK' /\ ModifiedDiffers'
    BY <2>1, <2>2, <2>3, <2>4, ShownRow
  <2>6. QED
    BY <1>6, <2>1, <2>5
<1>9. CASE ShowRemoved
  <2> DEFINE row == Row(ops[next].line, Blank, "removed")
  <2>0. next \in 1..Len(ops) /\ ops[next] \in OpType
    BY <1>0, <1>9 DEF ShowRemoved, Showing
  <2>1. rows' = Append(rows, row) /\ next' = next + 1 /\ UNCHANGED <<texts, walk>>
    BY <1>9 DEF ShowRemoved, Show
  <2>2. row \in RowType /\ row.kind = "removed"
    BY <2>0 DEF Row, RowType, OpType, Kinds
  <2> HIDE DEF row
  <2>3. next + 1 <= Len(ops) + 1
    BY <1>0, <2>0
  <2>4. TypeOK' /\ ModifiedDiffers'
    BY <2>1, <2>2, <2>3, ShownRow
  <2>5. QED
    BY <1>6, <2>1, <2>4
<1>10. CASE ShowAdded
  <2> DEFINE row == Row(Blank, ops[next].line, "added")
  <2>0. next \in 1..Len(ops) /\ ops[next] \in OpType
    BY <1>0, <1>10 DEF ShowAdded, Showing
  <2>1. rows' = Append(rows, row) /\ next' = next + 1 /\ UNCHANGED <<texts, walk>>
    BY <1>10 DEF ShowAdded, Show
  <2>2. row \in RowType /\ row.kind = "added"
    BY <2>0 DEF Row, RowType, OpType, Kinds
  <2> HIDE DEF row
  <2>3. next + 1 <= Len(ops) + 1
    BY <1>0, <2>0
  <2>4. TypeOK' /\ ModifiedDiffers'
    BY <2>1, <2>2, <2>3, ShownRow
  <2>5. QED
    BY <1>6, <2>1, <2>4
<1>11. CASE UNCHANGED vars
  BY <1>11 DEF vars, texts, walk, panes, TypeOK, HeadDiffers, PairsDiffer, ModifiedDiffers
<1>12. QED
  BY <1>1, <1>3, <1>4, <1>5, <1>7, <1>8, <1>9, <1>10, <1>11 DEF Next, CompareSome, Step

LEMMA SpecDInv == Spec => []DInv
  BY InitDInv, NextDInv, PTL DEF Spec

\* The walk never reads a line outside of the texts and the view never an
\* operation outside of the list, whatever the texts.
THEOREM DiffTyped == Spec => []TypeOK
  BY SpecDInv, PTL DEF DInv

\* A row marked as modified shows two different lines, whatever the texts.
THEOREM ModifiedRowsDiffer == Spec => []ModifiedDiffers
  BY SpecDInv, PTL DEF DInv
------------------------------------------------------------------------------
(* The table *)

\* What its definition makes of one row, and of the table.
RowIs(o, m, a, above, row) ==
  row = [b \in 0..Len(m) |->
           IF b = 0 THEN 0
           ELSE IF o[a] = m[b] THEN above[b - 1] + 1
           ELSE Longer(above[b], row[b - 1])]

TableIs(o, m, table) ==
  table = [a \in 0..Len(o) |->
             IF a = 0 THEN [b \in 0..Len(m) |-> 0] ELSE NextRow(o, m, a, table[a - 1])]

LEMMA NextRowCells ==
  ASSUME NEW o, NEW m, NEW a, Len(m) \in Nat, NEW above \in [0..Len(m) -> Nat]
  PROVE  /\ NextRow(o, m, a, above) \in [0..Len(m) -> Nat]
         /\ RowIs(o, m, a, above, NextRow(o, m, a, above))
<1> DEFINE M == Len(m)
           step == [b \in 1..M |-> [left \in Nat |->
                      IF o[a] = m[b] THEN above[b - 1] + 1 ELSE Longer(above[b], left)]]
<1>1. step \in [1..M -> [Nat -> Nat]]
  BY DEF Longer
<1>2. PICK row : Follows(row, Nat, 0, M, step)
  <2> HIDE DEF step
  <2> QED
    BY <1>1, Recursion
<1>3. RowIs(o, m, a, above, row)
  <2>1. ASSUME NEW b \in 1..M
        PROVE  row[b] = IF o[a] = m[b] THEN above[b - 1] + 1 ELSE Longer(above[b], row[b - 1])
    <3>1. b - 1 \in 0..M /\ b \in 0..M
      OBVIOUS
    <3>2. row[b - 1] \in Nat
      BY <1>2, <3>1 DEF Follows
    <3>3. row[b] = step[b][row[b - 1]]
      <4> HIDE DEF step
      <4> QED
        BY <1>2 DEF Follows
    <3> QED
      BY <3>2, <3>3
  <2>2. row \in [0..M -> Nat] /\ row[0] = 0
    BY <1>2 DEF Follows
  <2>3. \A b \in 0..M : row[b] = IF b = 0 THEN 0
                                 ELSE IF o[a] = m[b] THEN above[b - 1] + 1
                                 ELSE Longer(above[b], row[b - 1])
    <3> HIDE DEF step
    <3> QED
      BY <2>1, <2>2
  <2> QED
    BY <2>2, <2>3 DEF RowIs
<1>4. NextRow(o, m, a, above) = CHOOSE r : RowIs(o, m, a, above, r)
  BY SMT DEF NextRow, RowIs
<1>5. RowIs(o, m, a, above, NextRow(o, m, a, above))
  BY <1>3, <1>4, Zenon
<1>6. NextRow(o, m, a, above) = row
  <2> DEFINE other == NextRow(o, m, a, above)
             T == {b \in Nat : b <= M => other[b] = row[b]}
  <2> HIDE DEF other
  <2>1. 0 \in T
    BY <1>3, <1>5 DEF RowIs, other
  <2>2. ASSUME NEW b \in T
        PROVE  b + 1 \in T
    BY <1>3, <1>5 DEF RowIs, other
  <2>3. T = Nat
    <3>1. T \in SUBSET Nat
      OBVIOUS
    <3> HIDE DEF T
    <3> QED
      BY <2>1, <2>2, <3>1, NumberInduction
  <2>4. \A b \in 0..M : other[b] = row[b]
    BY <2>3
  <2>5. row \in [0..M -> Nat]
    BY <1>2 DEF Follows
  <2>6. other = [b \in 0..M |-> other[b]] /\ row = [b \in 0..M |-> row[b]]
    <3>1. other = [b \in 0..M |-> IF b = 0 THEN 0
                                  ELSE IF o[a] = m[b] THEN above[b - 1] + 1
                                  ELSE Longer(above[b], other[b - 1])]
      BY <1>5 DEF RowIs, other
    <3> QED
      BY <2>5, <3>1
  <2> QED
    BY <2>4, <2>6 DEF other
<1> QED
  BY <1>2, <1>5, <1>6 DEF Follows

\* What the table t says.
Cell(o, m, t, a, b) ==
  /\ t[a][b] \in Nat
  /\ t[a][b] = IF a = 0 \/ b = 0 THEN 0
               ELSE IF o[a] = m[b] THEN t[a - 1][b - 1] + 1
               ELSE Longer(t[a - 1][b], t[a][b - 1])

LEMMA TableCells ==
  ASSUME NEW S, NEW o \in Seq(S), NEW m \in Seq(S)
  PROVE  \A a \in 0..Len(o), b \in 0..Len(m) : Cell(o, m, Table(o, m), a, b)
<1> DEFINE N == Len(o)
           M == Len(m)
           Nats == [0..M -> Nat]
           step == [a \in 1..N |-> [above \in Nats |-> NextRow(o, m, a, above)]]
           zeros == [b \in 0..M |-> 0]
<1>1. N \in Nat /\ M \in Nat
  OBVIOUS
<1>2. step \in [1..N -> [Nats -> Nats]]
  BY <1>1, NextRowCells
<1>3. zeros \in Nats
  OBVIOUS
<1>4. PICK table : Follows(table, Nats, zeros, N, step)
  <2> HIDE DEF step, zeros, Nats, N
  <2> QED
    BY <1>1, <1>2, <1>3, Recursion, Zenon
<1>5. \A a \in 1..N : table[a] = NextRow(o, m, a, table[a - 1]) /\ table[a - 1] \in Nats
  <2> TAKE a \in 1..N
  <2>1. table[a - 1] \in Nats
    <3>1. a - 1 \in 0..N
      BY <1>1
    <3> HIDE DEF Nats, N
    <3> QED
      BY <1>4, <3>1 DEF Follows
  <2>2. table[a] = step[a][table[a - 1]]
    <3> HIDE DEF Nats, N, step, zeros
    <3> QED
      BY <1>4 DEF Follows
  <2> HIDE DEF Nats, N, zeros
  <2> QED
    BY <2>1, <2>2
<1>6. TableIs(o, m, table)
  <2>1. table \in [0..N -> Nats] /\ table[0] = zeros
    <3> HIDE DEF Nats, zeros, step, N
    <3> QED
      BY <1>4 DEF Follows
  <2> HIDE DEF Nats, zeros
  <2>2. \A a \in 0..N : table[a] = IF a = 0 THEN zeros ELSE NextRow(o, m, a, table[a - 1])
    BY <1>5, <2>1
  <2>3. table = [a \in 0..N |-> IF a = 0 THEN zeros ELSE NextRow(o, m, a, table[a - 1])]
    BY <2>1, <2>2
  <2> QED
    BY <2>3 DEF TableIs, zeros
<1>7. Table(o, m) = CHOOSE t : TableIs(o, m, t)
  BY SMT DEF Table, TableIs
<1>8. TableIs(o, m, Table(o, m))
  BY <1>6, <1>7, Zenon
<1> DEFINE t == Table(o, m)
<1> HIDE DEF t
<1>9. t[0] = zeros /\ \A a \in 1..N : t[a] = NextRow(o, m, a, t[a - 1])
  <2>1. t = [a \in 0..N |-> IF a = 0 THEN zeros ELSE NextRow(o, m, a, t[a - 1])]
    BY <1>8 DEF TableIs, t
  <2> HIDE DEF N, zeros
  <2>2. 0 \in 0..N /\ \A a \in 1..N : a \in 0..N /\ a # 0
    BY <1>1
  <2> QED
    BY <2>1, <2>2
<1>10. \A a \in 0..N : t[a] \in Nats
  <2> DEFINE T == {a \in Nat : a <= N => t[a] \in Nats}
  <2> HIDE DEF Nats, zeros
  <2>1. 0 \in T
    BY <1>3, <1>9
  <2>2. ASSUME NEW a \in T
        PROVE  a + 1 \in T
    <3> SUFFICES ASSUME a + 1 <= N
                 PROVE  t[a + 1] \in Nats
      OBVIOUS
    <3>1. t[a] \in Nats /\ a + 1 \in 1..N /\ (a + 1) - 1 = a
      BY <1>1
    <3>2. t[a + 1] = NextRow(o, m, a + 1, t[a])
      BY <1>9, <3>1
    <3> QED
      <4>1. NextRow(o, m, a + 1, t[a]) \in Nats
        BY <1>1, <3>1, NextRowCells, Zenon DEF Nats
      <4> QED
        BY <3>2, <4>1
  <2>3. T = Nat
    <3>1. T \in SUBSET Nat
      OBVIOUS
    <3> HIDE DEF T
    <3> QED
      BY <2>1, <2>2, <3>1, NumberInduction
  <2> QED
    BY <2>3
<1>11. ASSUME NEW a \in 1..N
       PROVE  RowIs(o, m, a, t[a - 1], t[a])
  <2>1. t[a - 1] \in [0..Len(m) -> Nat]
    BY <1>1, <1>10
  <2>2. t[a] = NextRow(o, m, a, t[a - 1])
    BY <1>9
  <2> QED
    BY <1>1, <2>1, <2>2, NextRowCells, Zenon
<1>12. ASSUME NEW a \in 0..N, NEW b \in 0..M
       PROVE  Cell(o, m, t, a, b)
  <2>1. t[a][b] \in Nat
    BY <1>10
  <2>2. CASE a = 0
    BY <1>9, <2>1, <2>2 DEF Cell
  <2>3. CASE a # 0
    <3>1. RowIs(o, m, a, t[a - 1], t[a])
      BY <1>1, <1>11, <2>3
    <3> QED
      BY <2>1, <2>3, <3>1 DEF RowIs, Cell
  <2> QED
    BY <2>2, <2>3
<1> QED
  BY <1>12 DEF t
------------------------------------------------------------------------------
(* What a pane reads as *)

ShownIs(side, rs, f) ==
  f = [r \in 0..Len(rs) |->
         IF r = 0 THEN <<>>
         ELSE IF rs[r][side] = Blank THEN f[r - 1]
         ELSE Append(f[r - 1], rs[r][side])]

\* Shown, of any rows.
ShownIn(side, rs) == (CHOOSE f : ShownIs(side, rs, f))[Len(rs)]

Sides == {"left", "right"}

LEMMA ShownFunction ==
  ASSUME NEW side \in Sides, NEW rs \in Seq(RowType)
  PROVE  \E f : ShownIs(side, rs, f) /\ f \in [0..Len(rs) -> Seq(Line)]
<1> DEFINE N == Len(rs)
           step == [r \in 1..N |-> [above \in Seq(Line) |->
                      IF rs[r][side] = Blank THEN above ELSE Append(above, rs[r][side])]]
<1>1. N \in Nat
  OBVIOUS
<1>2. \A r \in 1..N : rs[r][side] \in Line \cup {Blank}
  <2>1. \A r \in 1..N : rs[r] \in RowType
    OBVIOUS
  <2>2. \A row \in RowType : row[side] \in Line \cup {Blank}
    BY DEF RowType, Sides
  <2> QED
    BY <2>1, <2>2
<1>3. step \in [1..N -> [Seq(Line) -> Seq(Line)]]
  BY <1>2
<1>4. PICK f : Follows(f, Seq(Line), <<>>, N, step)
  <2>1. <<>> \in Seq(Line)
    OBVIOUS
  <2> HIDE DEF step, N
  <2> QED
    BY <1>1, <1>3, <2>1, Recursion
<1>5. f \in [0..N -> Seq(Line)] /\ f[0] = <<>>
  BY <1>4 DEF Follows
<1>6. ASSUME NEW r \in 1..N
      PROVE  f[r] = IF rs[r][side] = Blank THEN f[r - 1] ELSE Append(f[r - 1], rs[r][side])
  <2>1. r - 1 \in 0..N
    OBVIOUS
  <2>2. f[r - 1] \in Seq(Line)
    BY <1>5, <2>1
  <2>3. f[r] = step[r][f[r - 1]]
    <3> HIDE DEF step
    <3> QED
      BY <1>4 DEF Follows
  <2> QED
    BY <2>2, <2>3
<1>7. ShownIs(side, rs, f)
  <2>1. \A r \in 0..N : f[r] = IF r = 0 THEN <<>>
                              ELSE IF rs[r][side] = Blank THEN f[r - 1]
                              ELSE Append(f[r - 1], rs[r][side])
    <3> HIDE DEF step
    <3>1. \A r \in 0..N : r = 0 \/ r \in 1..N
      BY <1>1
    <3> QED
      BY <1>5, <1>6, <3>1
  <2> QED
    BY <1>5, <2>1 DEF ShownIs
<1> QED
  BY <1>5, <1>7

\* What rows read as depends on these rows only.
LEMMA SameRowsShow ==
  ASSUME NEW side, NEW rs, NEW qs, NEW f, NEW g,
         ShownIs(side, rs, f), ShownIs(side, qs, g),
         NEW n \in Nat, Len(rs) \in Nat, Len(qs) \in Nat, n <= Len(rs), n <= Len(qs),
         \A r \in 1..n : rs[r] = qs[r]
  PROVE  f[n] = g[n]
<1> DEFINE T == {k \in Nat : k <= n => f[k] = g[k]}
<1>1. 0 \in T
  BY DEF ShownIs
<1>2. ASSUME NEW k \in T
      PROVE  k + 1 \in T
  <2> SUFFICES ASSUME k + 1 <= n
               PROVE  f[k + 1] = g[k + 1]
    OBVIOUS
  <2>1. f[k] = g[k] /\ rs[k + 1] = qs[k + 1]
    OBVIOUS
  <2>2. k + 1 \in 0..Len(rs) /\ k + 1 \in 0..Len(qs) /\ k + 1 # 0 /\ (k + 1) - 1 = k
    OBVIOUS
  <2>3. f[k + 1] = IF rs[k + 1][side] = Blank THEN f[k] ELSE Append(f[k], rs[k + 1][side])
    BY <2>2 DEF ShownIs
  <2>4. g[k + 1] = IF qs[k + 1][side] = Blank THEN g[k] ELSE Append(g[k], qs[k + 1][side])
    BY <2>2 DEF ShownIs
  <2> QED
    BY <2>1, <2>3, <2>4
<1>3. T = Nat
  <2>1. T \in SUBSET Nat
    OBVIOUS
  <2> HIDE DEF T
  <2> QED
    BY <1>1, <1>2, <2>1, NumberInduction
<1> QED
  BY <1>3

LEMMA ShownInIs ==
  ASSUME NEW side \in Sides, NEW rs \in Seq(RowType)
  PROVE  \E f : ShownIs(side, rs, f) /\ ShownIn(side, rs) = f[Len(rs)]
<1> DEFINE f == CHOOSE g : ShownIs(side, rs, g)
<1>1. ShownIs(side, rs, f)
  BY ShownFunction
<1>2. ShownIn(side, rs) = f[Len(rs)]
  BY DEF ShownIn
<1> QED
  BY <1>1, <1>2

\* A row adds its line to what its pane reads as, if it has one.
LEMMA ShownAppended ==
  ASSUME NEW side \in Sides, NEW rs \in Seq(RowType), NEW row \in RowType
  PROVE  ShownIn(side, Append(rs, row)) =
           IF row[side] = Blank THEN ShownIn(side, rs) ELSE Append(ShownIn(side, rs), row[side])
<1> DEFINE n == Len(rs)
           qs == Append(rs, row)
<1>1. /\ n \in Nat /\ qs \in Seq(RowType) /\ Len(qs) = n + 1
      /\ qs[n + 1] = row /\ \A r \in 1..n : rs[r] = qs[r]
  BY AppendProperties
<1> HIDE DEF qs
<1>2. PICK f : ShownIs(side, rs, f) /\ ShownIn(side, rs) = f[n]
  BY ShownInIs
<1>3. PICK g : ShownIs(side, qs, g) /\ ShownIn(side, qs) = g[n + 1]
  BY <1>1, ShownInIs
<1>4. f[n] = g[n]
  BY <1>1, <1>2, <1>3, SameRowsShow
<1>5. g[n + 1] = IF row[side] = Blank THEN g[n] ELSE Append(g[n], row[side])
  <2>1. n + 1 \in 0..Len(qs) /\ n + 1 # 0 /\ (n + 1) - 1 = n
    BY <1>1
  <2> QED
    BY <1>1, <1>3, <2>1 DEF ShownIs
<1> QED
  BY <1>2, <1>3, <1>4, <1>5 DEF qs

LEMMA NothingShown ==
  ASSUME NEW side \in Sides
  PROVE  ShownIn(side, <<>>) = <<>>
<1>1. <<>> \in Seq(RowType) /\ Len(<<>>) = 0
  OBVIOUS
<1>2. PICK f : ShownIs(side, <<>>, f) /\ ShownIn(side, <<>>) = f[0]
  BY <1>1, ShownInIs
<1> QED
  BY <1>1, <1>2 DEF ShownIs

LEMMA ShownOfRows == \A side : Shown(side) = ShownIn(side, rows)
  BY SMT DEF Shown, ShownIn, ShownIs

\* The operations a pane shows the line of.
Kept(side) == IF side = "left" THEN {"same", "removed"} ELSE {"same", "added"}

\* The operations o read as the rest of the text after its first from lines: at[k]
\* lines have been read after k operations.
Reads(side, text, from, o, at) ==
  /\ at \in [0..Len(o) -> 0..Len(text)]
  /\ at[0] = from
  /\ at[Len(o)] = Len(text)
  /\ \A k \in 1..Len(o) :
       IF o[k].kind \in Kept(side)
       THEN at[k] = at[k - 1] + 1 /\ o[k].line = text[at[k]]
       ELSE at[k] = at[k - 1]

\* After the walk, the pane reads as what the operations shown so far read as.
PaneReads(side, text, from, o, rs, n, walking) ==
  \E at : /\ Reads(side, text, from, o, at)
          /\ ~walking => ShownIn(side, rs) = SubSeq(text, 1, at[n - 1])

WalkFirst == Walking => rows = <<>> /\ next = 1

PanesInv ==
  /\ WalkFirst
  /\ PaneReads("left", original, i, ops, rows, next, Walking)
  /\ PaneReads("right", modified, j, ops, rows, next, Walking)

LEMMA NothingRead ==
  ASSUME NEW side \in Sides, NEW text \in Seq(Line)
  PROVE  \E at : Reads(side, text, Len(text), <<>>, at)
<1> DEFINE at == [k \in 0..0 |-> Len(text)]
<1>1. Len(text) \in Nat /\ Len(<<>>) = 0
  OBVIOUS
<1>2. Reads(side, text, Len(text), <<>>, at)
  BY <1>1 DEF Reads
<1> QED
  BY <1>2

\* An operation put in front reads as one line more, or as none.
LEMMA WalkedReads ==
  ASSUME NEW side \in Sides, NEW text \in Seq(Line),
         NEW from \in 0..Len(text), NEW to \in 0..Len(text),
         NEW op \in OpType, NEW o \in Seq(OpType), NEW at, Reads(side, text, from, o, at),
         IF op.kind \in Kept(side) THEN from = to + 1 /\ op.line = text[from] ELSE from = to
  PROVE  \E now : Reads(side, text, to, <<op>> \o o, now)
<1> DEFINE q == <<op>> \o o
           n == Len(o)
           now == [k \in 0..(n + 1) |-> IF k = 0 THEN to ELSE at[k - 1]]
<1>1. /\ n \in Nat /\ Len(q) = n + 1 /\ q[1] = op
      /\ \A x \in 1..n : q[x + 1] = o[x]
  BY Prepended
<1>2. at \in [0..n -> 0..Len(text)] /\ at[0] = from /\ at[n] = Len(text)
  BY DEF Reads
<1> HIDE DEF q, n
<1>3. now \in [0..(n + 1) -> 0..Len(text)] /\ now[0] = to /\ now[n + 1] = Len(text)
  BY <1>1, <1>2
<1>4. ASSUME NEW k \in 1..(n + 1)
      PROVE  IF q[k].kind \in Kept(side)
             THEN now[k] = now[k - 1] + 1 /\ q[k].line = text[now[k]]
             ELSE now[k] = now[k - 1]
  <2>1. CASE k = 1
    <3>1. now[1] = from /\ now[0] = to
      BY <1>1, <1>2
    <3> HIDE DEF now
    <3> QED
      BY <1>1, <2>1, <3>1
  <2>2. CASE k # 1
    <3> DEFINE x == k - 1
    <3>1. x \in 1..n /\ k = x + 1 /\ x - 1 \in 0..n
      BY <1>1, <2>2
    <3>2. now[k] = at[x] /\ now[k - 1] = at[x - 1] /\ q[k] = o[x]
      BY <1>1, <3>1
    <3> HIDE DEF now, x
    <3>3. IF o[x].kind \in Kept(side)
          THEN at[x] = at[x - 1] + 1 /\ o[x].line = text[at[x]]
          ELSE at[x] = at[x - 1]
      BY <3>1 DEF Reads, n
    <3> QED
      BY <3>2, <3>3
  <2> QED
    BY <2>1, <2>2
<1>5. Reads(side, text, to, q, now)
  <2> HIDE DEF now
  <2> QED
    BY <1>1, <1>3, <1>4 DEF Reads
<1> QED
  BY <1>5 DEF q

\* Before the first row, the pane is empty.
LEMMA NoRowReads ==
  ASSUME NEW side \in Sides, NEW text \in Seq(Line), NEW from, NEW o, NEW walking,
         \E at : Reads(side, text, from, o, at), ~walking => from = 0
  PROVE  PaneReads(side, text, from, o, <<>>, 1, walking)
<1>1. PICK at : Reads(side, text, from, o, at)
  OBVIOUS
<1>2. ASSUME ~walking
      PROVE  ShownIn(side, <<>>) = SubSeq(text, 1, at[1 - 1])
  <2>1. at[1 - 1] = 0
    BY <1>1, <1>2 DEF Reads
  <2>2. SubSeq(text, 1, 0) = <<>>
    OBVIOUS
  <2> QED
    BY <2>1, <2>2, NothingShown
<1> QED
  BY <1>1, <1>2 DEF PaneReads

LEMMA OneMore ==
  ASSUME NEW text \in Seq(Line), NEW n \in 1..Len(text)
  PROVE  SubSeq(text, 1, n) = Append(SubSeq(text, 1, n - 1), text[n])
  OBVIOUS

\* An operation adds its line to what the pane reads as, or nothing.
ReadsOn(side, text, o, at, k) ==
  SubSeq(text, 1, at[k]) =
    IF o[k].kind \in Kept(side) THEN Append(SubSeq(text, 1, at[k - 1]), o[k].line)
    ELSE SubSeq(text, 1, at[k - 1])

LEMMA ReadOn ==
  ASSUME NEW side \in Sides, NEW text \in Seq(Line), NEW from, NEW o \in Seq(OpType),
         NEW at, Reads(side, text, from, o, at), NEW k \in 1..Len(o)
  PROVE  ReadsOn(side, text, o, at, k)
<1>1. /\ at[k] \in 0..Len(text) /\ at[k - 1] \in 0..Len(text)
      /\ IF o[k].kind \in Kept(side)
         THEN at[k] = at[k - 1] + 1 /\ o[k].line = text[at[k]]
         ELSE at[k] = at[k - 1]
  <2>1. k \in 0..Len(o) /\ k - 1 \in 0..Len(o)
    OBVIOUS
  <2> QED
    BY <2>1 DEF Reads
<1>2. CASE o[k].kind \in Kept(side)
  <2>1. at[k] \in 1..Len(text) /\ at[k] - 1 = at[k - 1]
    BY <1>1, <1>2
  <2>2. SubSeq(text, 1, at[k]) = Append(SubSeq(text, 1, at[k] - 1), text[at[k]])
    BY <2>1, OneMore
  <2> QED
    BY <1>1, <1>2, <2>1, <2>2 DEF ReadsOn
<1> QED
  BY <1>1, <1>2 DEF ReadsOn

LEMMA OperationHasLine ==
  ASSUME NEW op \in OpType
  PROVE  op.line # Blank
  BY LineAssumption DEF OpType

\* A row for one operation.
LEMMA OneShown ==
  ASSUME NEW side \in Sides, NEW text \in Seq(Line), NEW from, NEW o \in Seq(OpType),
         NEW rs \in Seq(RowType), NEW row \in RowType, NEW n \in 1..Len(o),
         PaneReads(side, text, from, o, rs, n, FALSE),
         row[side] = IF o[n].kind \in Kept(side) THEN o[n].line ELSE Blank
  PROVE  PaneReads(side, text, from, o, Append(rs, row), n + 1, FALSE)
<1>1. PICK at : Reads(side, text, from, o, at) /\ ShownIn(side, rs) = SubSeq(text, 1, at[n - 1])
  BY DEF PaneReads
<1>2. SubSeq(text, 1, at[n]) = IF row[side] = Blank THEN ShownIn(side, rs)
                               ELSE Append(ShownIn(side, rs), row[side])
  <2>1. o[n] \in OpType
    OBVIOUS
  <2>2. o[n].line # Blank
    BY <2>1, OperationHasLine
  <2>3. ReadsOn(side, text, o, at, n)
    BY <1>1, ReadOn, Zenon
  <2>4. CASE o[n].kind \in Kept(side)
    BY <1>1, <2>2, <2>3, <2>4, Zenon DEF ReadsOn
  <2>5. CASE o[n].kind \notin Kept(side)
    BY <1>1, <2>3, <2>5, Zenon DEF ReadsOn
  <2> QED
    BY <2>4, <2>5
<1>3. ShownIn(side, Append(rs, row)) = SubSeq(text, 1, at[(n + 1) - 1])
  <2>1. (n + 1) - 1 = n
    OBVIOUS
  <2> QED
    BY <1>2, <2>1, ShownAppended
<1> QED
  BY <1>1, <1>3 DEF PaneReads

\* A row for a removal and the addition after it.
LEMMA PairShown ==
  ASSUME NEW side \in Sides, NEW text \in Seq(Line), NEW from, NEW o \in Seq(OpType),
         NEW rs \in Seq(RowType), NEW row \in RowType, NEW n \in 1..(Len(o) - 1),
         PaneReads(side, text, from, o, rs, n, FALSE),
         o[n].kind = "removed", o[n + 1].kind = "added",
         row.left = o[n].line, row.right = o[n + 1].line
  PROVE  PaneReads(side, text, from, o, Append(rs, row), n + 2, FALSE)
<1>1. PICK at : Reads(side, text, from, o, at) /\ ShownIn(side, rs) = SubSeq(text, 1, at[n - 1])
  BY DEF PaneReads
<1>2. /\ n \in 1..Len(o) /\ n + 1 \in 1..Len(o) /\ (n + 1) - 1 = n
      /\ o[n] \in OpType /\ o[n + 1] \in OpType
  OBVIOUS
<1>3. SubSeq(text, 1, at[n + 1]) = Append(ShownIn(side, rs), row[side])
  <2>1. SubSeq(text, 1, at[n]) =
          IF side = "left" THEN Append(ShownIn(side, rs), o[n].line) ELSE ShownIn(side, rs)
    <3>1. ReadsOn(side, text, o, at, n)
      BY <1>1, <1>2, ReadOn, Zenon
    <3>2. o[n].kind \in Kept(side) <=> side = "left"
      BY DEF Kept
    <3> QED
      BY <1>1, <3>1, <3>2 DEF ReadsOn
  <2>2. SubSeq(text, 1, at[n + 1]) =
          IF side = "left" THEN SubSeq(text, 1, at[n])
          ELSE Append(SubSeq(text, 1, at[n]), o[n + 1].line)
    <3>1. ReadsOn(side, text, o, at, n + 1)
      BY <1>1, <1>2, ReadOn, Zenon
    <3>2. o[n + 1].kind \in Kept(side) <=> side # "left"
      BY DEF Kept
    <3> QED
      BY <1>2, <3>1, <3>2 DEF ReadsOn
  <2>3. side = "right" <=> side # "left"
    BY DEF Sides
  <2> QED
    BY <2>1, <2>2, <2>3
<1>4. row[side] # Blank
  <2>1. side = "left" \/ side = "right"
    BY DEF Sides
  <2> QED
    BY <1>2, <2>1, OperationHasLine
<1>5. ShownIn(side, Append(rs, row)) = SubSeq(text, 1, at[(n + 2) - 1])
  <2>1. (n + 2) - 1 = n + 1
    OBVIOUS
  <2> QED
    BY <1>3, <1>4, <2>1, ShownAppended
<1> QED
  BY <1>1, <1>5 DEF PaneReads

\* A step of the walk, in the words of the lemmas.
LEMMA WalkedPane ==
  ASSUME NEW side \in Sides, NEW text \in Seq(Line),
         NEW from \in 0..Len(text), NEW to \in 0..Len(text),
         NEW op \in OpType, NEW o \in Seq(OpType), NEW walking,
         PaneReads(side, text, from, o, <<>>, 1, TRUE),
         IF op.kind \in Kept(side) THEN from = to + 1 /\ op.line = text[from] ELSE from = to,
         ~walking => to = 0
  PROVE  PaneReads(side, text, to, <<op>> \o o, <<>>, 1, walking)
<1>1. PICK at : Reads(side, text, from, o, at)
  BY DEF PaneReads
<1>2. \E now : Reads(side, text, to, <<op>> \o o, now)
  BY <1>1, WalkedReads
<1> HIDE DEF OpType
<1> QED
  BY <1>2, NoRowReads

LEMMA InitPanesInv == Init => PanesInv
<1> SUFFICES ASSUME Init PROVE PanesInv
  OBVIOUS
<1>1. /\ original = <<>> /\ modified = <<>> /\ i = 0 /\ j = 0 /\ ops = <<>> /\ rows = <<>>
      /\ next = 1 /\ ~Walking /\ <<>> \in Seq(Line) /\ Len(<<>>) = 0
  BY DEF Init, Walking
<1>2. \A side \in Sides : \E at : Reads(side, <<>>, 0, <<>>, at)
  BY <1>1, NothingRead
<1>3. \A side \in Sides : PaneReads(side, <<>>, 0, <<>>, <<>>, 1, Walking)
  BY <1>1, <1>2, NoRowReads
<1> QED
  BY <1>1, <1>3 DEF PanesInv, WalkFirst, Sides

LEMMA NextPanesInv == DInv /\ PanesInv /\ [Next]_vars => PanesInv'
<1> SUFFICES ASSUME DInv, PanesInv, [Next]_vars PROVE PanesInv'
  OBVIOUS
<1>0. /\ original \in Seq(Line) /\ modified \in Seq(Line)
      /\ i \in 0..Len(original) /\ j \in 0..Len(modified)
      /\ ops \in Seq(OpType)
      /\ next \in 1..(Len(ops) + 1)
      /\ rows \in Seq(RowType)
      /\ Len(original) \in Nat /\ Len(modified) \in Nat /\ Len(ops) \in Nat
  BY LenProperties DEF DInv, TypeOK, OpType, RowType
<1>s. "left" \in Sides /\ "right" \in Sides
  BY DEF Sides
<1>1. ASSUME NEW o \in Seq(Line), NEW m \in Seq(Line), Compare(o, m) PROVE PanesInv'
  <2>1. /\ original' = o /\ modified' = m /\ i' = Len(o) /\ j' = Len(m) /\ ops' = <<>>
        /\ next' = 1 /\ rows' = <<>>
    BY <1>1 DEF Compare
  <2>2. Walking' <=> (Len(o) > 0 \/ Len(m) > 0)
    BY <2>1 DEF Walking
  <2>3. Len(o) \in Nat /\ Len(m) \in Nat
    OBVIOUS
  <2>4. PaneReads("left", o, Len(o), <<>>, <<>>, 1, Walking')
    <3>1. \E at : Reads("left", o, Len(o), <<>>, at)
      BY <1>s, NothingRead
    <3>2. ~Walking' => Len(o) = 0
      BY <2>2, <2>3
    <3> QED
      BY <1>s, <3>1, <3>2, NoRowReads
  <2>5. PaneReads("right", m, Len(m), <<>>, <<>>, 1, Walking')
    <3>1. \E at : Reads("right", m, Len(m), <<>>, at)
      BY <1>s, NothingRead
    <3>2. ~Walking' => Len(m) = 0
      BY <2>2, <2>3
    <3> QED
      BY <1>s, <3>1, <3>2, NoRowReads
  <2> QED
    BY <2>1, <2>4, <2>5 DEF PanesInv, WalkFirst
<1>2. ASSUME NEW op \in OpType, Walking, UNCHANGED <<original, modified, panes>>,
             ops' = <<op>> \o ops,
             i' \in 0..Len(original), j' \in 0..Len(modified),
             IF op.kind \in Kept("left") THEN i = i' + 1 /\ op.line = original[i] ELSE i = i',
             IF op.kind \in Kept("right") THEN j = j' + 1 /\ op.line = modified[j] ELSE j = j'
      PROVE  PanesInv'
  <2>1. /\ rows = <<>> /\ next = 1 /\ rows' = <<>> /\ next' = 1
        /\ original' = original /\ modified' = modified
    BY <1>2 DEF PanesInv, WalkFirst, panes
  <2>2. PaneReads("left", original, i, ops, <<>>, 1, TRUE)
        /\ PaneReads("right", modified, j, ops, <<>>, 1, TRUE)
    BY <1>2, <2>1 DEF PanesInv, PaneReads
  <2>3. ~Walking' => i' = 0 /\ j' = 0
    BY <1>0, <1>2 DEF Walking
  <2>4. PaneReads("left", original, i', <<op>> \o ops, <<>>, 1, Walking')
    <3> HIDE DEF Walking, OpType
    <3>1. \A walking : (~walking => i' = 0) =>
            PaneReads("left", original, i', <<op>> \o ops, <<>>, 1, walking)
      BY <1>0, <1>s, <1>2, <2>2, WalkedPane
    <3> QED
      BY <2>3, <3>1
  <2>5. PaneReads("right", modified, j', <<op>> \o ops, <<>>, 1, Walking')
    <3> HIDE DEF Walking, OpType
    <3>1. \A walking : (~walking => j' = 0) =>
            PaneReads("right", modified, j', <<op>> \o ops, <<>>, 1, walking)
      BY <1>0, <1>s, <1>2, <2>2, WalkedPane
    <3> QED
      BY <2>3, <3>1
  <2> QED
    BY <1>2, <2>1, <2>4, <2>5 DEF PanesInv, WalkFirst
<1>3. CASE WalkSame
  <2> DEFINE op == Op("same", original[i])
  <2>1. /\ i > 0 /\ j > 0 /\ i' = i - 1 /\ j' = j - 1 /\ ops' = <<op>> \o ops
        /\ original[i] = modified[j]
        /\ UNCHANGED <<original, modified, panes>>
    BY <1>3 DEF WalkSame, Match, texts
  <2>2. op \in OpType /\ op.kind = "same" /\ op.line = original[i]
    BY <1>0, <2>1 DEF Op, OpType, Kinds
  <2>3. /\ i' \in 0..Len(original) /\ j' \in 0..Len(modified)
        /\ i = i' + 1 /\ j = j' + 1 /\ Walking
    BY <1>0, <2>1 DEF Walking
  <2>4. op.kind \in Kept("left") /\ op.kind \in Kept("right")
    BY <2>2 DEF Kept
  <2> HIDE DEF op
  <2>5. QED
    BY <1>2, <2>1, <2>2, <2>3, <2>4
<1>4. CASE WalkAdded
  <2> DEFINE op == Op("added", modified[j])
  <2>1. /\ j > 0 /\ j' = j - 1 /\ i' = i /\ ops' = <<op>> \o ops
        /\ UNCHANGED <<original, modified, panes>>
    BY <1>4 DEF WalkAdded, Newer, texts
  <2>2. op \in OpType /\ op.kind = "added" /\ op.line = modified[j]
    BY <1>0, <2>1 DEF Op, OpType, Kinds
  <2>3. i' \in 0..Len(original) /\ j' \in 0..Len(modified) /\ j = j' + 1 /\ i = i' /\ Walking
    BY <1>0, <2>1 DEF Walking
  <2>4. op.kind \notin Kept("left") /\ op.kind \in Kept("right")
    BY <2>2 DEF Kept
  <2> HIDE DEF op
  <2>5. QED
    BY <1>2, <2>1, <2>2, <2>3, <2>4
<1>5. CASE WalkRemoved
  <2> DEFINE op == Op("removed", original[i])
  <2>1. /\ i > 0 /\ i' = i - 1 /\ j' = j /\ ops' = <<op>> \o ops
        /\ UNCHANGED <<original, modified, panes>>
    BY <1>5 DEF WalkRemoved, texts
  <2>2. op \in OpType /\ op.kind = "removed" /\ op.line = original[i]
    BY <1>0, <2>1 DEF Op, OpType, Kinds
  <2>3. i' \in 0..Len(original) /\ j' \in 0..Len(modified) /\ i = i' + 1 /\ j = j' /\ Walking
    BY <1>0, <2>1 DEF Walking
  <2>4. op.kind \in Kept("left") /\ op.kind \notin Kept("right")
    BY <2>2 DEF Kept
  <2> HIDE DEF op
  <2>5. QED
    BY <1>2, <2>1, <2>2, <2>3, <2>4
<1>6. ASSUME Showing, NEW row \in RowType, NEW count \in {1, 2}, Show(row, count),
             IF count = 1
             THEN /\ row.left = IF ops[next].kind \in Kept("left") THEN ops[next].line ELSE Blank
                  /\ row.right = IF ops[next].kind \in Kept("right") THEN ops[next].line ELSE Blank
             ELSE /\ next < Len(ops) /\ ops[next].kind = "removed" /\ ops[next + 1].kind = "added"
                  /\ row.left = ops[next].line /\ row.right = ops[next + 1].line
      PROVE  PanesInv'
  <2>1. /\ rows' = Append(rows, row) /\ next' = next + count /\ ~Walking /\ ~Walking'
        /\ original' = original /\ modified' = modified /\ i' = i /\ j' = j /\ ops' = ops
    BY <1>6 DEF Show, texts, walk, Showing, Walking
  <2>2. PaneReads("left", original, i, ops, rows, next, FALSE)
        /\ PaneReads("right", modified, j, ops, rows, next, FALSE)
    BY <2>1 DEF PanesInv, PaneReads
  <2>3. /\ PaneReads("left", original, i, ops, Append(rows, row), next + count, FALSE)
        /\ PaneReads("right", modified, j, ops, Append(rows, row), next + count, FALSE)
    <3> HIDE DEF OpType, RowType
    <3>1. CASE count = 1
      <4>1. next \in 1..Len(ops)
        BY <1>0, <1>6 DEF Showing
      <4>2. /\ row.left = IF ops[next].kind \in Kept("left") THEN ops[next].line ELSE Blank
            /\ row.right = IF ops[next].kind \in Kept("right") THEN ops[next].line ELSE Blank
        BY <1>6, <3>1
      <4>3. PaneReads("left", original, i, ops, Append(rows, row), next + 1, FALSE)
        BY <1>0, <1>s, <2>2, <4>1, <4>2, OneShown
      <4>4. PaneReads("right", modified, j, ops, Append(rows, row), next + 1, FALSE)
        BY <1>0, <1>s, <2>2, <4>1, <4>2, OneShown
      <4> QED
        BY <3>1, <4>3, <4>4
    <3>2. CASE count = 2
      <4>1. /\ next < Len(ops) /\ ops[next].kind = "removed" /\ ops[next + 1].kind = "added"
            /\ row.left = ops[next].line /\ row.right = ops[next + 1].line
        BY <1>6, <3>2
      <4>2. next \in 1..(Len(ops) - 1)
        BY <1>0, <4>1
      <4>3. PaneReads("left", original, i, ops, Append(rows, row), next + 2, FALSE)
        BY <1>0, <1>s, <2>2, <4>1, <4>2, PairShown
      <4>4. PaneReads("right", modified, j, ops, Append(rows, row), next + 2, FALSE)
        BY <1>0, <1>s, <2>2, <4>1, <4>2, PairShown
      <4> QED
        BY <3>2, <4>3, <4>4
    <3> QED
      BY <3>1, <3>2
  <2> QED
    BY <2>1, <2>3 DEF PanesInv, WalkFirst, PaneReads
<1>t. Showing => next \in 1..Len(ops) /\ ops[next] \in OpType
  BY <1>0 DEF Showing
<1>7. CASE ShowSame
  <2> DEFINE row == Row(ops[next].line, ops[next].line, "same")
  <2>1. Showing /\ ops[next].kind = "same" /\ Show(row, 1) /\ ops[next] \in OpType
    BY <1>7, <1>t DEF ShowSame
  <2>2. row \in RowType /\ row.left = ops[next].line /\ row.right = ops[next].line
    BY <2>1 DEF Row, RowType, OpType, Kinds
  <2>3. ops[next].kind \in Kept("left") /\ ops[next].kind \in Kept("right")
    BY <2>1 DEF Kept
  <2> HIDE DEF row
  <2> QED
    BY <1>6, <2>1, <2>2, <2>3
<1>8. CASE ShowModified
  <2> DEFINE row == Row(ops[next].line, ops[next + 1].line, "modified")
  <2>1. /\ Showing /\ next < Len(ops) /\ Show(row, 2)
        /\ ops[next].kind = "removed" /\ ops[next + 1].kind = "added"
    BY <1>8 DEF ShowModified, Replaced
  <2>2. ops[next] \in OpType /\ ops[next + 1] \in OpType
    BY <1>0, <2>1
  <2>3. row \in RowType /\ row.left = ops[next].line /\ row.right = ops[next + 1].line
    BY <2>2 DEF Row, RowType, OpType, Kinds
  <2> HIDE DEF row
  <2> QED
    BY <1>6, <2>1, <2>3
<1>9. CASE ShowRemoved
  <2> DEFINE row == Row(ops[next].line, Blank, "removed")
  <2>1. Showing /\ ops[next].kind = "removed" /\ Show(row, 1) /\ ops[next] \in OpType
    BY <1>9, <1>t DEF ShowRemoved
  <2>2. row \in RowType /\ row.left = ops[next].line /\ row.right = Blank
    BY <2>1 DEF Row, RowType, OpType, Kinds
  <2>3. ops[next].kind \in Kept("left") /\ ops[next].kind \notin Kept("right")
    BY <2>1 DEF Kept
  <2> HIDE DEF row
  <2> QED
    BY <1>6, <2>1, <2>2, <2>3
<1>10. CASE ShowAdded
  <2> DEFINE row == Row(Blank, ops[next].line, "added")
  <2>1. Showing /\ ops[next].kind = "added" /\ Show(row, 1) /\ ops[next] \in OpType
    BY <1>10, <1>t DEF ShowAdded
  <2>2. row \in RowType /\ row.left = Blank /\ row.right = ops[next].line
    BY <2>1 DEF Row, RowType, OpType, Kinds
  <2>3. ops[next].kind \notin Kept("left") /\ ops[next].kind \in Kept("right")
    BY <2>1 DEF Kept
  <2> HIDE DEF row
  <2> QED
    BY <1>6, <2>1, <2>2, <2>3
<1>11. CASE UNCHANGED vars
  BY <1>11 DEF vars, texts, walk, panes, PanesInv, WalkFirst, Walking
<1>12. QED
  BY <1>1, <1>3, <1>4, <1>5, <1>7, <1>8, <1>9, <1>10, <1>11 DEF Next, CompareSome, Step

LEMMA SpecPanesInv == Spec => []PanesInv
  BY SpecDInv, InitPanesInv, NextPanesInv, PTL DEF Spec

LEMMA PanesInvReads == DInv /\ PanesInv => PanesReadAsTexts
<1> SUFFICES ASSUME DInv, PanesInv, Done
             PROVE  Shown("left") = original /\ Shown("right") = modified
  BY DEF PanesReadAsTexts
<1>1. /\ original \in Seq(Line) /\ modified \in Seq(Line) /\ ~Walking
      /\ next - 1 = Len(ops)
  BY LenProperties DEF DInv, TypeOK, Done, Showing
<1>2. ASSUME NEW side, NEW text \in Seq(Line), NEW from,
             PaneReads(side, text, from, ops, rows, next, Walking)
      PROVE  Shown(side) = text
  <2>1. PICK at : Reads(side, text, from, ops, at) /\ ShownIn(side, rows) = SubSeq(text, 1, at[next - 1])
    BY <1>1, <1>2 DEF PaneReads
  <2>2. at[next - 1] = Len(text)
    BY <1>1, <2>1 DEF Reads
  <2>3. SubSeq(text, 1, Len(text)) = text
    OBVIOUS
  <2> QED
    BY <2>1, <2>2, <2>3, ShownOfRows
<1> QED
  BY <1>1, <1>2 DEF PanesInv

\* The panes of a finished comparison read as the two texts, whatever they are:
\* the walk and the pairing drop, repeat and swap no line.
THEOREM PanesShowTheTexts == Spec => []PanesReadAsTexts
  BY SpecDInv, SpecPanesInv, PanesInvReads, PTL
------------------------------------------------------------------------------
(* The walk is along a longest common subsequence *)

\* The pairs of lines that the first a and b lines of two texts have in common.
Common(o, m, a, b) == {p \in (1..a) \X (1..b) : o[p[1]] = m[p[2]]}

\* No common subsequence of the first a and b lines is longer than the table says.
Bounded(o, m, a, b) ==
  \A pairs \in SUBSET Common(o, m, a, b) :
    InOrder(pairs) => IsFiniteSet(pairs) /\ Cardinality(pairs) <= Table(o, m)[a][b]

LEMMA NoLines ==
  ASSUME NEW o \in Seq(Line), NEW m \in Seq(Line),
         NEW a \in 0..Len(o), NEW b \in 0..Len(m), a = 0 \/ b = 0
  PROVE  Bounded(o, m, a, b)
<1>1. Common(o, m, a, b) = {}
  BY DEF Common
<1>2. Table(o, m)[a][b] = 0
  <2>1. Cell(o, m, Table(o, m), a, b)
    BY TableCells
  <2> QED
    BY <2>1 DEF Cell
<1>3. IsFiniteSet({}) /\ Cardinality({}) = 0
  BY FS_EmptySet
<1> QED
  <2> SUFFICES ASSUME NEW pairs \in SUBSET Common(o, m, a, b)
               PROVE  IsFiniteSet(pairs) /\ Cardinality(pairs) <= Table(o, m)[a][b]
    BY DEF Bounded
  <2>1. pairs = {}
    BY <1>1
  <2> QED
    BY <1>2, <1>3, <2>1

LEMMA NoneAfterLast ==
  ASSUME NEW a \in Nat, NEW b \in Nat,
         NEW x \in 1..a, NEW y \in 1..b, NEW u \in 1..a, NEW v \in 1..b, x = a \/ y = b
  PROVE  ~(x < u /\ y < v)
  OBVIOUS

\* Two equal last lines: only one pair can have either of them.
LEMMA EqualLastLines ==
  ASSUME NEW o \in Seq(Line), NEW m \in Seq(Line),
         NEW a \in 1..Len(o), NEW b \in 1..Len(m), o[a] = m[b], Bounded(o, m, a - 1, b - 1)
  PROVE  Bounded(o, m, a, b)
<1> SUFFICES ASSUME NEW pairs \in SUBSET Common(o, m, a, b), InOrder(pairs)
             PROVE  IsFiniteSet(pairs) /\ Cardinality(pairs) <= Table(o, m)[a][b]
  BY DEF Bounded
<1> DEFINE fewer == {p \in pairs : p[1] < a /\ p[2] < b}
           t == Table(o, m)
<1>1. t[a - 1][b - 1] \in Nat /\ t[a][b] = t[a - 1][b - 1] + 1
  <2>1. a \in 0..Len(o) /\ b \in 0..Len(m) /\ a - 1 \in 0..Len(o) /\ b - 1 \in 0..Len(m)
        /\ a # 0 /\ b # 0
    OBVIOUS
  <2>2. Cell(o, m, t, a, b) /\ Cell(o, m, t, a - 1, b - 1)
    BY <2>1, TableCells
  <2> HIDE DEF t
  <2> QED
    BY <2>1, <2>2 DEF Cell
<1> HIDE DEF t
<1>2. fewer \in SUBSET Common(o, m, a - 1, b - 1) /\ InOrder(fewer)
  BY DEF Common, InOrder
<1>3. IsFiniteSet(fewer) /\ Cardinality(fewer) <= t[a - 1][b - 1] /\ Cardinality(fewer) \in Nat
  BY <1>2, FS_CardinalityType DEF Bounded, t
<1>4. \A p, q \in pairs \ fewer : p = q
  <2> TAKE p, q \in pairs \ fewer
  <2>1. /\ p[1] \in 1..a /\ p[2] \in 1..b /\ q[1] \in 1..a /\ q[2] \in 1..b
        /\ p[1] = a \/ p[2] = b
        /\ q[1] = a \/ q[2] = b
    BY DEF Common
  <2>2. p = q \/ (p[1] < q[1] /\ p[2] < q[2]) \/ (q[1] < p[1] /\ q[2] < p[2])
    BY DEF InOrder
  <2>3. a \in Nat /\ b \in Nat
    OBVIOUS
  <2>4. ~(p[1] < q[1] /\ p[2] < q[2]) /\ ~(q[1] < p[1] /\ q[2] < p[2])
    BY <2>1, <2>3, NoneAfterLast
  <2> QED
    BY <2>2, <2>4, Zenon
<1>5. CASE pairs = fewer
  <2> HIDE DEF fewer
  <2>1. IsFiniteSet(pairs) /\ Cardinality(pairs) <= t[a - 1][b - 1] /\ Cardinality(pairs) \in Nat
    BY <1>3, <1>5
  <2> QED
    BY <1>1, <2>1 DEF t
<1>6. CASE pairs # fewer
  <2>1. PICK p \in pairs : p \notin fewer
    BY <1>6
  <2>2. pairs = fewer \cup {p}
    BY <1>4, <2>1
  <2> HIDE DEF fewer
  <2>3. IsFiniteSet(pairs) /\ Cardinality(pairs) = Cardinality(fewer) + 1
    BY <1>3, <2>1, <2>2, FS_AddElement
  <2> QED
    BY <1>1, <1>3, <2>3 DEF t
<1> QED
  BY <1>5, <1>6

\* Two different last lines: they cannot both be in pairs.
LEMMA DifferentLastLines ==
  ASSUME NEW o \in Seq(Line), NEW m \in Seq(Line),
         NEW a \in 1..Len(o), NEW b \in 1..Len(m), o[a] # m[b],
         Bounded(o, m, a - 1, b), Bounded(o, m, a, b - 1)
  PROVE  Bounded(o, m, a, b)
<1> SUFFICES ASSUME NEW pairs \in SUBSET Common(o, m, a, b), InOrder(pairs)
             PROVE  IsFiniteSet(pairs) /\ Cardinality(pairs) <= Table(o, m)[a][b]
  BY DEF Bounded
<1> DEFINE t == Table(o, m)
<1>1. /\ t[a - 1][b] \in Nat /\ t[a][b - 1] \in Nat
      /\ t[a][b] = Longer(t[a - 1][b], t[a][b - 1])
  <2>1. a \in 0..Len(o) /\ b \in 0..Len(m) /\ a - 1 \in 0..Len(o) /\ b - 1 \in 0..Len(m)
        /\ a # 0 /\ b # 0
    OBVIOUS
  <2>2. Cell(o, m, t, a, b) /\ Cell(o, m, t, a - 1, b) /\ Cell(o, m, t, a, b - 1)
    BY <2>1, TableCells
  <2> HIDE DEF t
  <2> QED
    BY <2>1, <2>2 DEF Cell
<1>2. t[a - 1][b] <= t[a][b] /\ t[a][b - 1] <= t[a][b]
  <2> HIDE DEF t
  <2> QED
    BY <1>1 DEF Longer
<1> HIDE DEF t
<1>3. ASSUME NEW p \in pairs
      PROVE  /\ p[1] \in 1..a /\ p[2] \in 1..b /\ o[p[1]] = m[p[2]]
             /\ ~(p[1] = a /\ p[2] = b)
  BY DEF Common
<1>4. (\A p \in pairs : p[1] < a) \/ (\A p \in pairs : p[2] < b)
  <2> SUFFICES ASSUME NEW p \in pairs, p[1] = a, NEW q \in pairs, q[2] = b
               PROVE  FALSE
    BY <1>3
  <2>1. p[2] < b /\ q[1] < a /\ p[2] \in Int /\ q[1] \in Int
    BY <1>3
  <2>2. p = q \/ (p[1] < q[1] /\ p[2] < q[2]) \/ (q[1] < p[1] /\ q[2] < p[2])
    BY DEF InOrder
  <2> QED
    BY <2>1, <2>2
<1>5. CASE \A p \in pairs : p[1] < a
  <2>1. pairs \in SUBSET Common(o, m, a - 1, b)
    BY <1>5 DEF Common
  <2>2. IsFiniteSet(pairs) /\ Cardinality(pairs) <= t[a - 1][b]
    BY <2>1 DEF Bounded, t
  <2>3. Cardinality(pairs) \in Nat
    BY <2>2, FS_CardinalityType
  <2> QED
    BY <1>1, <1>2, <2>2, <2>3 DEF t, Longer
<1>6. CASE \A p \in pairs : p[2] < b
  <2>1. pairs \in SUBSET Common(o, m, a, b - 1)
    BY <1>6 DEF Common
  <2>2. IsFiniteSet(pairs) /\ Cardinality(pairs) <= t[a][b - 1]
    BY <2>1 DEF Bounded, t
  <2>3. Cardinality(pairs) \in Nat
    BY <2>2, FS_CardinalityType
  <2> QED
    BY <1>1, <1>2, <2>2, <2>3 DEF t, Longer
<1> QED
  BY <1>4, <1>5, <1>6

\* The table is right.
LEMMA TableBounds ==
  ASSUME NEW o \in Seq(Line), NEW m \in Seq(Line)
  PROVE  \A a \in 0..Len(o), b \in 0..Len(m) : Bounded(o, m, a, b)
<1> DEFINE T == {n \in Nat : \A a \in 0..Len(o), b \in 0..Len(m) :
                              a + b <= n => Bounded(o, m, a, b)}
<1>1. 0 \in T
  <2>1. \A a \in 0..Len(o), b \in 0..Len(m) : a + b <= 0 => a = 0
    OBVIOUS
  <2> QED
    BY <2>1, NoLines
<1>2. ASSUME NEW n \in T
      PROVE  n + 1 \in T
  <2> SUFFICES ASSUME NEW a \in 0..Len(o), NEW b \in 0..Len(m), a + b <= n + 1
               PROVE  Bounded(o, m, a, b)
    OBVIOUS
  <2>1. CASE a = 0 \/ b = 0
    BY <2>1, NoLines
  <2>2. CASE a # 0 /\ b # 0
    <3>1. /\ a \in 1..Len(o) /\ b \in 1..Len(m)
          /\ a - 1 \in 0..Len(o) /\ b - 1 \in 0..Len(m)
          /\ (a - 1) + (b - 1) <= n /\ (a - 1) + b <= n /\ a + (b - 1) <= n
      BY <2>2
    <3>2. Bounded(o, m, a - 1, b - 1) /\ Bounded(o, m, a - 1, b) /\ Bounded(o, m, a, b - 1)
      BY <3>1
    <3> QED
      BY <3>1, <3>2, EqualLastLines, DifferentLastLines
  <2> QED
    BY <2>1, <2>2
<1>3. T = Nat
  <2>1. T \in SUBSET Nat
    OBVIOUS
  <2> HIDE DEF T
  <2> QED
    BY <1>1, <1>2, <2>1, NumberInduction
<1> QED
  <2> TAKE a \in 0..Len(o), b \in 0..Len(m)
  <2>1. a + b \in Nat /\ a + b <= a + b
    OBVIOUS
  <2>2. a + b \in T
    BY <1>3, <2>1
  <2> QED
    BY <2>1, <2>2

\* c[k] lines are kept after k operations, the ones before the walk included.
Counts(o, before, total, c) ==
  /\ c \in [0..Len(o) -> Nat]
  /\ c[0] = before
  /\ c[Len(o)] = total
  /\ \A k \in 1..Len(o) : c[k] = IF o[k].kind = "same" THEN c[k - 1] + 1 ELSE c[k - 1]

SameRows(rs) == {r \in DOMAIN rs : rs[r].kind = "same"}

\* After the walk, a row is unchanged for every line kept so far.
Keeps(o, before, total, rs, n, walking) ==
  \E c : /\ Counts(o, before, total, c)
         /\ ~walking => IsFiniteSet(SameRows(rs)) /\ Cardinality(SameRows(rs)) = c[n - 1]

\* The lines still to be kept are as many as the table says.
MostInv ==
  /\ dp = Table(original, modified)
  /\ Keeps(ops, dp[i][j], dp[Len(original)][Len(modified)], rows, next, Walking)

LEMMA NoRowsSame == IsFiniteSet(SameRows(<<>>)) /\ Cardinality(SameRows(<<>>)) = 0
<1>1. SameRows(<<>>) = {}
  BY DEF SameRows
<1> QED
  BY <1>1, FS_EmptySet

\* An operation put in front keeps a line, or does not.
LEMMA WalkedCounts ==
  ASSUME NEW op \in OpType, NEW o \in Seq(OpType), NEW before \in Nat, NEW now \in Nat,
         NEW total, NEW walking, Keeps(o, before, total, <<>>, 1, TRUE),
         before = IF op.kind = "same" THEN now + 1 ELSE now,
         ~walking => now = 0
  PROVE  Keeps(<<op>> \o o, now, total, <<>>, 1, walking)
<1>1. PICK c : Counts(o, before, total, c)
  BY DEF Keeps
<1> DEFINE q == <<op>> \o o
           n == Len(o)
           d == [k \in 0..(n + 1) |-> IF k = 0 THEN now ELSE c[k - 1]]
<1>2. /\ n \in Nat /\ Len(q) = n + 1 /\ q[1] = op
      /\ \A x \in 1..n : q[x + 1] = o[x]
  BY Prepended
<1>3. c \in [0..n -> Nat] /\ c[0] = before /\ c[n] = total
  BY <1>1 DEF Counts
<1> HIDE DEF q, n
<1>4. d \in [0..(n + 1) -> Nat] /\ d[0] = now /\ d[n + 1] = total
  BY <1>2, <1>3
<1>5. ASSUME NEW k \in 1..(n + 1)
      PROVE  d[k] = IF q[k].kind = "same" THEN d[k - 1] + 1 ELSE d[k - 1]
  <2>1. CASE k = 1
    <3>1. d[1] = before /\ d[0] = now
      BY <1>2, <1>3
    <3> HIDE DEF d
    <3> QED
      BY <1>2, <2>1, <3>1
  <2>2. CASE k # 1
    <3> DEFINE x == k - 1
    <3>1. x \in 1..n /\ k = x + 1 /\ x - 1 \in 0..n
      BY <1>2, <2>2
    <3>2. d[k] = c[x] /\ d[k - 1] = c[x - 1] /\ q[k] = o[x]
      BY <1>2, <3>1
    <3> HIDE DEF d, x
    <3>3. c[x] = IF o[x].kind = "same" THEN c[x - 1] + 1 ELSE c[x - 1]
      BY <1>1, <3>1 DEF Counts, n
    <3> QED
      BY <3>2, <3>3
  <2> QED
    BY <2>1, <2>2
<1>6. Counts(q, now, total, d)
  <2> HIDE DEF d
  <2> QED
    BY <1>2, <1>4, <1>5 DEF Counts
<1>7. ~walking => Cardinality(SameRows(<<>>)) = d[1 - 1]
  <2> HIDE DEF d
  <2> QED
    BY <1>4, NoRowsSame
<1> HIDE DEF d
<1> QED
  BY <1>6, <1>7, NoRowsSame DEF Keeps, q

\* A new row counts if it is unchanged.
LEMMA SameRowsAppended ==
  ASSUME NEW rs \in Seq(RowType), NEW row \in RowType, IsFiniteSet(SameRows(rs))
  PROVE  /\ IsFiniteSet(SameRows(Append(rs, row)))
         /\ row.kind = "same" =>
              Cardinality(SameRows(Append(rs, row))) = Cardinality(SameRows(rs)) + 1
         /\ row.kind # "same" =>
              Cardinality(SameRows(Append(rs, row))) = Cardinality(SameRows(rs))
<1> DEFINE n == Len(rs) + 1
           qs == Append(rs, row)
<1>1. /\ n \in Nat /\ n >= 1 /\ DOMAIN rs = 1..(n - 1) /\ DOMAIN qs = 1..n /\ qs[n] = row
      /\ \A r \in 1..(n - 1) : qs[r] = rs[r]
  BY AppendProperties
<1> HIDE DEF n, qs
<1>2. SameRows(qs) = IF row.kind = "same" THEN SameRows(rs) \cup {n} ELSE SameRows(rs)
  BY <1>1 DEF SameRows
<1>3. n \notin SameRows(rs)
  BY <1>1 DEF SameRows
<1>4. IsFiniteSet(SameRows(rs) \cup {n})
      /\ Cardinality(SameRows(rs) \cup {n}) = Cardinality(SameRows(rs)) + 1
  BY <1>3, FS_AddElement
<1> QED
  BY <1>2, <1>4 DEF qs

\* A row for one operation, or for a removal and the addition after it.
LEMMA ShownCounts ==
  ASSUME NEW o \in Seq(OpType), NEW before, NEW total, NEW rs \in Seq(RowType),
         NEW row \in RowType, NEW count \in {1, 2}, NEW n \in 1..Len(o),
         n + count <= Len(o) + 1, Keeps(o, before, total, rs, n, FALSE),
         IF count = 1 THEN row.kind = o[n].kind
         ELSE row.kind # "same" /\ o[n].kind # "same" /\ o[n + 1].kind # "same"
  PROVE  Keeps(o, before, total, Append(rs, row), n + count, FALSE)
<1>1. PICK c : /\ Counts(o, before, total, c)
               /\ IsFiniteSet(SameRows(rs)) /\ Cardinality(SameRows(rs)) = c[n - 1]
  BY DEF Keeps
<1>2. Len(o) \in Nat
  OBVIOUS
<1>3. \A k \in 1..Len(o) : c[k] = IF o[k].kind = "same" THEN c[k - 1] + 1 ELSE c[k - 1]
  BY <1>1 DEF Counts
<1>4. c[(n + count) - 1] = IF row.kind = "same" THEN c[n - 1] + 1 ELSE c[n - 1]
  <2>1. c[n] = IF o[n].kind = "same" THEN c[n - 1] + 1 ELSE c[n - 1]
    BY <1>3
  <2>2. CASE count = 1
    <3>1. (n + count) - 1 = n /\ row.kind = o[n].kind
      BY <2>2
    <3> QED
      BY <2>1, <3>1
  <2>3. CASE count = 2
    <3>1. (n + count) - 1 = n + 1 /\ n + 1 \in 1..Len(o) /\ (n + 1) - 1 = n
          /\ row.kind # "same" /\ o[n].kind # "same" /\ o[n + 1].kind # "same"
      BY <1>2, <2>3
    <3>2. c[n + 1] = c[n]
      BY <1>3, <3>1
    <3> QED
      BY <2>1, <3>1, <3>2
  <2> QED
    BY <2>2, <2>3
<1>5. IsFiniteSet(SameRows(Append(rs, row)))
      /\ Cardinality(SameRows(Append(rs, row))) = c[(n + count) - 1]
  BY <1>1, <1>4, SameRowsAppended
<1> QED
  BY <1>1, <1>5 DEF Keeps

LEMMA InitMostInv == Init => MostInv
<1> SUFFICES ASSUME Init PROVE MostInv
  OBVIOUS
<1>1. /\ original = <<>> /\ modified = <<>> /\ i = 0 /\ j = 0 /\ ops = <<>> /\ rows = <<>>
      /\ next = 1 /\ dp = Table(original, modified) /\ Len(<<>>) = 0 /\ <<>> \in Seq(Line)
  BY DEF Init
<1> DEFINE c == [k \in 0..0 |-> 0]
<1>2. dp[0][0] = 0
  <2>1. Cell(<<>>, <<>>, Table(<<>>, <<>>), 0, 0)
    <3>1. 0 \in 0..Len(<<>>)
      BY <1>1
    <3>2. \A o, m \in Seq(Line) : \A a \in 0..Len(o), b \in 0..Len(m) : Cell(o, m, Table(o, m), a, b)
      BY TableCells
    <3> QED
      BY <1>1, <3>1, <3>2, Zenon
  <2> QED
    BY <1>1, <2>1 DEF Cell
<1>3. Counts(<<>>, 0, 0, c)
  BY <1>1 DEF Counts
<1>4. Cardinality(SameRows(<<>>)) = c[1 - 1]
  BY NoRowsSame
<1> HIDE DEF c
<1>5. Keeps(<<>>, 0, 0, <<>>, 1, Walking)
  BY <1>3, <1>4, NoRowsSame DEF Keeps
<1> QED
  BY <1>1, <1>2, <1>5 DEF MostInv

LEMMA NextMostInv == DInv /\ WalkFirst /\ MostInv /\ [Next]_vars => MostInv'
<1> SUFFICES ASSUME DInv, WalkFirst, MostInv, [Next]_vars PROVE MostInv'
  OBVIOUS
<1>0. /\ original \in Seq(Line) /\ modified \in Seq(Line)
      /\ i \in 0..Len(original) /\ j \in 0..Len(modified)
      /\ ops \in Seq(OpType)
      /\ next \in 1..(Len(ops) + 1)
      /\ rows \in Seq(RowType)
      /\ Len(original) \in Nat /\ Len(modified) \in Nat /\ Len(ops) \in Nat
  BY LenProperties DEF DInv, TypeOK, OpType, RowType
<1> DEFINE total == dp[Len(original)][Len(modified)]
<1>c. \A a \in 0..Len(original), b \in 0..Len(modified) : Cell(original, modified, dp, a, b)
  BY <1>0, TableCells DEF MostInv
<1>1. ASSUME NEW o \in Seq(Line), NEW m \in Seq(Line), Compare(o, m) PROVE MostInv'
  <2>1. /\ original' = o /\ modified' = m /\ i' = Len(o) /\ j' = Len(m) /\ ops' = <<>>
        /\ next' = 1 /\ rows' = <<>> /\ dp' = Table(o, m)
    BY <1>1 DEF Compare
  <2>2. /\ Walking' <=> (Len(o) > 0 \/ Len(m) > 0)
        /\ Len(o) \in Nat /\ Len(m) \in Nat /\ Len(<<>>) = 0
    BY <2>1 DEF Walking
  <2> DEFINE most == Table(o, m)[Len(o)][Len(m)]
             c == [k \in 0..0 |-> most]
  <2>3. most \in Nat /\ (~Walking' => most = 0)
    <3>1. Cell(o, m, Table(o, m), Len(o), Len(m))
      BY <2>2, TableCells
    <3>2. ~Walking' => Len(o) = 0
      BY <2>2
    <3> QED
      BY <3>1, <3>2 DEF Cell
  <2> HIDE DEF most
  <2>4. Counts(<<>>, most, most, c)
    BY <2>2, <2>3 DEF Counts
  <2>5. ~Walking' => Cardinality(SameRows(<<>>)) = c[1 - 1]
    <3>1. c[1 - 1] = most
      OBVIOUS
    <3> HIDE DEF c
    <3> QED
      BY <2>3, <3>1, NoRowsSame
  <2> HIDE DEF c
  <2>6. Keeps(<<>>, most, most, <<>>, 1, Walking')
    BY <2>4, <2>5, NoRowsSame DEF Keeps
  <2> QED
    BY <2>1, <2>6 DEF MostInv, most
<1>2. ASSUME NEW op \in OpType, Walking, UNCHANGED <<texts, panes>>, ops' = <<op>> \o ops,
             i' \in 0..Len(original), j' \in 0..Len(modified),
             dp[i][j] = IF op.kind = "same" THEN dp[i'][j'] + 1 ELSE dp[i'][j']
      PROVE  MostInv'
  <2>1. /\ rows = <<>> /\ next = 1 /\ rows' = <<>> /\ next' = 1
        /\ original' = original /\ modified' = modified /\ dp' = dp
    BY <1>2 DEF WalkFirst, panes, texts
  <2>2. Keeps(ops, dp[i][j], total, <<>>, 1, TRUE)
    BY <1>2, <2>1 DEF MostInv, Keeps
  <2>3. dp[i][j] \in Nat /\ dp[i'][j'] \in Nat
    BY <1>0, <1>2, <1>c DEF Cell
  <2>4. ~Walking' => dp[i'][j'] = 0
    BY <1>0, <1>2, <1>c DEF Walking, Cell
  <2>5. Keeps(<<op>> \o ops, dp[i'][j'], total, <<>>, 1, Walking')
    <3> DEFINE now == dp[i'][j']
    <3>1. now \in Nat /\ dp[i][j] = IF op.kind = "same" THEN now + 1 ELSE now
      BY <1>2, <2>3
    <3> HIDE DEF Walking, OpType, total, now
    <3>2. \A walking : (~walking => now = 0) =>
            Keeps(<<op>> \o ops, now, total, <<>>, 1, walking)
      BY <1>0, <2>2, <2>3, <3>1, WalkedCounts
    <3> QED
      BY <2>4, <3>2 DEF now
  <2> QED
    BY <1>2, <2>1, <2>5 DEF MostInv
<1>3. CASE WalkSame
  <2> DEFINE op == Op("same", original[i])
  <2>1. /\ i > 0 /\ j > 0 /\ i' = i - 1 /\ j' = j - 1 /\ ops' = <<op>> \o ops
        /\ original[i] = modified[j]
        /\ UNCHANGED <<texts, panes>>
    BY <1>3 DEF WalkSame, Match
  <2>2. op \in OpType /\ op.kind = "same"
    BY <1>0, <2>1 DEF Op, OpType, Kinds
  <2>3. i' \in 0..Len(original) /\ j' \in 0..Len(modified) /\ Walking
    BY <1>0, <2>1 DEF Walking
  <2>4. dp[i][j] = dp[i'][j'] + 1
    BY <1>0, <1>c, <2>1 DEF Cell
  <2> HIDE DEF op
  <2>5. QED
    BY <1>2, <2>1, <2>2, <2>3, <2>4
<1>4. CASE WalkAdded
  <2> DEFINE op == Op("added", modified[j])
  <2>1. /\ j > 0 /\ j' = j - 1 /\ i' = i /\ ops' = <<op>> \o ops
        /\ ~Match /\ Newer
        /\ UNCHANGED <<texts, panes>>
    BY <1>4 DEF WalkAdded, Newer
  <2>2. op \in OpType /\ op.kind = "added"
    BY <1>0, <2>1 DEF Op, OpType, Kinds
  <2>3. i' \in 0..Len(original) /\ j' \in 0..Len(modified) /\ Walking
    BY <1>0, <2>1 DEF Walking
  <2>4. dp[i][j] = dp[i'][j']
    <3>1. CASE i = 0
      BY <1>0, <1>c, <2>1, <2>3, <3>1 DEF Cell
    <3>2. CASE i # 0
      <4>1. original[i] # modified[j] /\ dp[i][j - 1] >= dp[i - 1][j]
        BY <1>0, <2>1, <3>2 DEF Match, Newer
      <4>2. i - 1 \in 0..Len(original) /\ j - 1 \in 0..Len(modified)
        BY <1>0, <2>1, <3>2
      <4>3. dp[i][j - 1] \in Nat /\ dp[i - 1][j] \in Nat
        BY <1>0, <1>c, <4>2 DEF Cell
      <4>4. dp[i][j] = Longer(dp[i - 1][j], dp[i][j - 1])
        BY <1>0, <1>c, <2>1, <3>2, <4>1 DEF Cell
      <4> QED
        BY <2>1, <4>1, <4>3, <4>4 DEF Longer
    <3> QED
      BY <3>1, <3>2
  <2> HIDE DEF op
  <2>5. QED
    BY <1>2, <2>1, <2>2, <2>3, <2>4
<1>5. CASE WalkRemoved
  <2> DEFINE op == Op("removed", original[i])
  <2>1. /\ i > 0 /\ i' = i - 1 /\ j' = j /\ ops' = <<op>> \o ops
        /\ ~Match /\ ~Newer
        /\ UNCHANGED <<texts, panes>>
    BY <1>5 DEF WalkRemoved
  <2>2. op \in OpType /\ op.kind = "removed"
    BY <1>0, <2>1 DEF Op, OpType, Kinds
  <2>3. i' \in 0..Len(original) /\ j' \in 0..Len(modified) /\ Walking
    BY <1>0, <2>1 DEF Walking
  <2>4. dp[i][j] = dp[i'][j']
    <3>1. CASE j = 0
      BY <1>0, <1>c, <2>1, <2>3, <3>1 DEF Cell
    <3>2. CASE j # 0
      <4>1. original[i] # modified[j] /\ ~(dp[i][j - 1] >= dp[i - 1][j])
        BY <1>0, <2>1, <3>2 DEF Match, Newer
      <4>2. i - 1 \in 0..Len(original) /\ j - 1 \in 0..Len(modified)
        BY <1>0, <2>1, <3>2
      <4>3. dp[i][j - 1] \in Nat /\ dp[i - 1][j] \in Nat
        BY <1>0, <1>c, <4>2 DEF Cell
      <4>4. dp[i][j] = Longer(dp[i - 1][j], dp[i][j - 1])
        BY <1>0, <1>c, <2>1, <3>2, <4>1 DEF Cell
      <4> QED
        BY <2>1, <4>1, <4>3, <4>4 DEF Longer
    <3> QED
      BY <3>1, <3>2
  <2> HIDE DEF op
  <2>5. QED
    BY <1>2, <2>1, <2>2, <2>3, <2>4
<1>6. ASSUME Showing, NEW row \in RowType, NEW count \in {1, 2}, Show(row, count),
             next + count <= Len(ops) + 1,
             IF count = 1 THEN row.kind = ops[next].kind
             ELSE row.kind # "same" /\ ops[next].kind # "same" /\ ops[next + 1].kind # "same"
      PROVE  MostInv'
  <2>1. /\ rows' = Append(rows, row) /\ next' = next + count /\ ~Walking /\ ~Walking'
        /\ original' = original /\ modified' = modified /\ dp' = dp
        /\ i' = i /\ j' = j /\ ops' = ops
    BY <1>6 DEF Show, texts, walk, Showing, Walking
  <2>2. Keeps(ops, dp[i][j], total, rows, next, FALSE)
    BY <2>1 DEF MostInv, Keeps
  <2>3. next \in 1..Len(ops)
    BY <1>0, <1>6 DEF Showing
  <2>4. Keeps(ops, dp[i][j], total, Append(rows, row), next + count, FALSE)
    <3> HIDE DEF OpType, RowType, total
    <3> QED
      BY <1>0, <1>6, <2>2, <2>3, ShownCounts
  <2> QED
    BY <2>1, <2>4 DEF MostInv, Keeps
<1>t. Showing => next \in 1..Len(ops) /\ ops[next] \in OpType /\ next + 1 <= Len(ops) + 1
  BY <1>0 DEF Showing
<1>7. CASE ShowSame
  <2> DEFINE row == Row(ops[next].line, ops[next].line, "same")
  <2>1. Showing /\ ops[next].kind = "same" /\ Show(row, 1) /\ ops[next] \in OpType
        /\ next + 1 <= Len(ops) + 1
    BY <1>7, <1>t DEF ShowSame
  <2>2. row \in RowType /\ row.kind = ops[next].kind
    BY <2>1 DEF Row, RowType, OpType, Kinds
  <2> HIDE DEF row
  <2> QED
    BY <1>6, <2>1, <2>2
<1>8. CASE ShowModified
  <2> DEFINE row == Row(ops[next].line, ops[next + 1].line, "modified")
  <2>1. /\ Showing /\ next < Len(ops) /\ Show(row, 2)
        /\ ops[next].kind = "removed" /\ ops[next + 1].kind = "added"
    BY <1>8 DEF ShowModified, Replaced
  <2>2. ops[next] \in OpType /\ ops[next + 1] \in OpType /\ next + 2 <= Len(ops) + 1
    BY <1>0, <2>1
  <2>3. row \in RowType /\ row.kind = "modified"
    BY <2>2 DEF Row, RowType, OpType, Kinds
  <2> HIDE DEF row
  <2> QED
    BY <1>6, <2>1, <2>2, <2>3
<1>9. CASE ShowRemoved
  <2> DEFINE row == Row(ops[next].line, Blank, "removed")
  <2>1. Showing /\ ops[next].kind = "removed" /\ Show(row, 1) /\ ops[next] \in OpType
        /\ next + 1 <= Len(ops) + 1
    BY <1>9, <1>t DEF ShowRemoved
  <2>2. row \in RowType /\ row.kind = ops[next].kind
    BY <2>1 DEF Row, RowType, OpType, Kinds
  <2> HIDE DEF row
  <2> QED
    BY <1>6, <2>1, <2>2
<1>10. CASE ShowAdded
  <2> DEFINE row == Row(Blank, ops[next].line, "added")
  <2>1. Showing /\ ops[next].kind = "added" /\ Show(row, 1) /\ ops[next] \in OpType
        /\ next + 1 <= Len(ops) + 1
    BY <1>10, <1>t DEF ShowAdded
  <2>2. row \in RowType /\ row.kind = ops[next].kind
    BY <2>1 DEF Row, RowType, OpType, Kinds
  <2> HIDE DEF row
  <2> QED
    BY <1>6, <2>1, <2>2
<1>11. CASE UNCHANGED vars
  BY <1>11 DEF vars, texts, walk, panes, MostInv, Walking
<1>12. QED
  BY <1>1, <1>3, <1>4, <1>5, <1>7, <1>8, <1>9, <1>10, <1>11 DEF Next, CompareSome, Step

LEMMA SpecMostInv == Spec => []MostInv
<1>1. PanesInv => WalkFirst
  BY DEF PanesInv
<1> QED
  BY <1>1, SpecDInv, SpecPanesInv, InitMostInv, NextMostInv, PTL DEF Spec

LEMMA MostInvKeeps == DInv /\ MostInv => KeepsMost
<1> SUFFICES ASSUME DInv, MostInv, Done, NEW pairs \in SUBSET EqualLines, InOrder(pairs)
             PROVE  Cardinality(pairs) <= Cardinality(SameRows(rows))
  BY DEF KeepsMost, SameRows
<1> DEFINE a == Len(original)
           b == Len(modified)
<1>1. /\ original \in Seq(Line) /\ modified \in Seq(Line) /\ ~Walking
      /\ next - 1 = Len(ops) /\ a \in Nat /\ b \in Nat
      /\ DOMAIN original = 1..a /\ DOMAIN modified = 1..b
  BY LenProperties DEF DInv, TypeOK, Done, Showing
<1>2. PICK c : /\ Counts(ops, dp[i][j], dp[a][b], c)
               /\ Cardinality(SameRows(rows)) = c[next - 1]
  BY <1>1 DEF MostInv, Keeps
<1>3. Cardinality(SameRows(rows)) = Table(original, modified)[a][b]
  BY <1>1, <1>2 DEF Counts, MostInv
<1>4. pairs \in SUBSET Common(original, modified, a, b)
  BY <1>1 DEF EqualLines, Common
<1>5. Bounded(original, modified, a, b)
  BY <1>1, TableBounds
<1> QED
  BY <1>3, <1>4, <1>5 DEF Bounded

\* The diff is minimal whatever the texts: no common subsequence of the two is
\* longer than the lines a finished comparison shows as unchanged.
THEOREM DiffIsMinimal == Spec => []KeepsMost
  BY SpecDInv, SpecMostInv, MostInvKeeps, PTL
------------------------------------------------------------------------------
(* The colours of a row are on its line *)

\* The line end of the row above.
Gutter(r) == IF r > 1 THEN <<0>> ELSE <<>>

\* What precedes a line in its pane.
Lead(r) == IF r > 1 THEN 3 ELSE 2

PaneIs(side, f) ==
  f = [r \in 0..Len(rows) |->
         IF r = 0 THEN <<>>
         ELSE f[r - 1]
                \o Gutter(r)
                \o <<0, 0>>
                \o [c \in 1..Chars[rows[r][side]] |-> r]]

\* The pane, of the first n rows.
PaneDownTo(side, n) == (CHOOSE f : PaneIs(side, f))[n]

\* Where the line of a row begins in its pane.
Begin(side, r) == Len(PaneDownTo(side, r - 1)) + Lead(r)

Width(side, r) == Chars[rows[r][side]]

LEMMA RowsHaveLines ==
  ASSUME TypeOK, NEW side \in Sides, NEW r \in 1..Len(rows)
  PROVE  /\ Chars[rows[r][side]] \in Nat
         /\ Bytes[rows[r][side]] \in Nat
<1>0. rows \in Seq(RowType)
  BY DEF TypeOK, RowType
<1>1. rows[r] \in RowType
  BY <1>0
<1>2. rows[r][side] \in Line \cup {Blank}
  BY <1>1 DEF RowType, Sides
<1> QED
  BY <1>2, LineAssumption

\* t is s with n times v after it.
Padded(s, n, v, t) ==
  /\ t \in Seq(Nat)
  /\ Len(t) = Len(s) + n
  /\ \A k \in 1..Len(t) : t[k] = IF k <= Len(s) THEN s[k] ELSE v

LEMMA Padding ==
  ASSUME NEW s \in Seq(Nat), NEW u \in Seq(Nat), NEW v, \A k \in 1..Len(u) : u[k] = v
  PROVE  Padded(s, Len(u), v, s \o u)
<1> DEFINE t == s \o u
<1>1. t \in Seq(Nat) /\ Len(t) = Len(s) + Len(u) /\ Len(s) \in Nat /\ Len(u) \in Nat
  BY ConcatProperties
<1>2. ASSUME NEW k \in 1..Len(t)
      PROVE  t[k] = IF k <= Len(s) THEN s[k] ELSE v
  <2>1. t[k] = IF k <= Len(s) THEN s[k] ELSE u[k - Len(s)]
    BY <1>1, ConcatProperties
  <2>2. ~(k <= Len(s)) => k - Len(s) \in 1..Len(u)
    BY <1>1
  <2> HIDE DEF t
  <2> QED
    BY <2>1, <2>2
<1> HIDE DEF t
<1>3. Padded(s, Len(u), v, t)
  BY <1>1, <1>2 DEF Padded
<1> QED
  BY <1>3 DEF t

LEMMA PaddedTwice ==
  ASSUME NEW s \in Seq(Nat), NEW m \in Nat, NEW n \in Nat, NEW v, NEW t, NEW u,
         Padded(s, m, v, t), Padded(t, n, v, u)
  PROVE  Padded(s, m + n, v, u)
<1>1. Len(s) \in Nat /\ Len(t) = Len(s) + m /\ Len(u) = Len(s) + (m + n) /\ u \in Seq(Nat)
  BY DEF Padded
<1>2. ASSUME NEW k \in 1..Len(u)
      PROVE  u[k] = IF k <= Len(s) THEN s[k] ELSE v
  <2>1. u[k] = IF k <= Len(t) THEN t[k] ELSE v
    BY DEF Padded
  <2>2. CASE k <= Len(t)
    <3>1. k \in 1..Len(t)
      BY <1>1, <2>2
    <3>2. t[k] = IF k <= Len(s) THEN s[k] ELSE v
      BY <3>1 DEF Padded
    <3> QED
      BY <2>1, <2>2, <3>2
  <2>3. CASE ~(k <= Len(t))
    BY <1>1, <2>1, <2>3
  <2> QED
    BY <2>2, <2>3
<1> QED
  BY <1>1, <1>2 DEF Padded

\* A line and what precedes it, after the lines above.
LineAdded(s, r, w, t) ==
  /\ t \in Seq(Nat)
  /\ Len(t) = Len(s) + Lead(r) + w
  /\ \A k \in 1..Len(t) :
       t[k] = IF k <= Len(s) THEN s[k] ELSE IF k <= Len(s) + Lead(r) THEN 0 ELSE r

LEMMA NextLine ==
  ASSUME NEW s \in Seq(Nat), NEW r \in Nat, NEW w \in Nat, NEW t,
         t = s \o Gutter(r) \o <<0, 0>> \o [c \in 1..w |-> r]
  PROVE  LineAdded(s, r, w, t)
<1> DEFINE gap == Gutter(r)
           line == [c \in 1..w |-> r]
           a == s \o gap
           b == a \o <<0, 0>>
           u == b \o line
<1>1. /\ gap \in Seq(Nat) /\ Len(gap) = Lead(r) - 2
      /\ \A k \in 1..Len(gap) : gap[k] = 0
  <2>1. CASE r > 1
    BY <2>1 DEF Lead, Gutter
  <2>2. CASE ~(r > 1)
    BY <2>2 DEF Lead, Gutter
  <2> QED
    BY <2>1, <2>2
<1>2. line \in Seq(Nat) /\ Len(line) = w /\ \A k \in 1..Len(line) : line[k] = r
  OBVIOUS
<1>3. <<0, 0>> \in Seq(Nat) /\ Len(<<0, 0>>) = 2 /\ \A k \in 1..Len(<<0, 0>>) : <<0, 0>>[k] = 0
  OBVIOUS
<1>4. Lead(r) \in Nat /\ Lead(r) - 2 \in Nat /\ (Lead(r) - 2) + 2 = Lead(r) /\ Len(s) \in Nat
  BY DEF Lead
<1> HIDE DEF gap, line
<1>5. Padded(s, Lead(r) - 2, 0, a)
  BY <1>1, Padding
<1>6. a \in Seq(Nat)
  BY <1>5 DEF Padded
<1>7. Padded(a, 2, 0, b)
  <2> HIDE DEF a
  <2>1. Padded(a, Len(<<0, 0>>), 0, a \o <<0, 0>>)
    BY <1>3, <1>6, Padding, Zenon
  <2> QED
    BY <1>3, <2>1
<1> HIDE DEF a
<1>8. Padded(s, Lead(r), 0, b)
  <2> HIDE DEF b
  <2>1. Padded(s, (Lead(r) - 2) + 2, 0, b)
    BY <1>4, <1>5, <1>7, PaddedTwice
  <2> QED
    BY <1>4, <2>1
<1> HIDE DEF b
<1>9. b \in Seq(Nat)
  BY <1>8 DEF Padded
<1>10. Padded(b, w, r, u)
  BY <1>2, <1>9, Padding
<1> HIDE DEF u
<1>11. LineAdded(s, r, w, u)
  <2>1. Len(b) = Len(s) + Lead(r) /\ Len(u) = Len(b) + w /\ u \in Seq(Nat)
    BY <1>8, <1>10 DEF Padded
  <2>2. ASSUME NEW k \in 1..Len(u)
        PROVE  u[k] = IF k <= Len(s) THEN s[k] ELSE IF k <= Len(s) + Lead(r) THEN 0 ELSE r
    <3>1. u[k] = IF k <= Len(b) THEN b[k] ELSE r
      BY <1>10 DEF Padded
    <3>2. CASE k <= Len(b)
      <4>1. k \in 1..Len(b)
        BY <1>4, <2>1, <3>2
      <4>2. b[k] = IF k <= Len(s) THEN s[k] ELSE 0
        BY <1>8, <4>1 DEF Padded
      <4> QED
        BY <2>1, <3>1, <3>2, <4>2
    <3>3. CASE ~(k <= Len(b))
      BY <1>4, <2>1, <3>1, <3>3
    <3> QED
      BY <3>2, <3>3
  <2> QED
    BY <2>1, <2>2 DEF LineAdded
<1>12. t = u
  BY DEF u, b, a, gap, line
<1> QED
  BY <1>11, <1>12

LEMMA PaneUnfolds ==
  ASSUME TypeOK, NEW side \in Sides
  PROVE  PaneIs(side, CHOOSE f : PaneIs(side, f))
<1> DEFINE N == Len(rows)
           step == [r \in 1..N |-> [above \in Seq(Nat) |->
                      above \o Gutter(r) \o <<0, 0>>
                            \o [c \in 1..Chars[rows[r][side]] |-> r]]]
<1>1. N \in Nat
  BY DEF TypeOK
<1>2. step \in [1..N -> [Seq(Nat) -> Seq(Nat)]]
  <2>1. ASSUME NEW r \in 1..N, NEW above \in Seq(Nat)
        PROVE  above \o Gutter(r) \o <<0, 0>>
                     \o [c \in 1..Chars[rows[r][side]] |-> r] \in Seq(Nat)
    <3>1. Chars[rows[r][side]] \in Nat /\ r \in Nat
      BY RowsHaveLines
    <3>2. \A w \in Nat : \A t :
            t = above \o Gutter(r) \o <<0, 0>> \o [c \in 1..w |-> r]
              => t \in Seq(Nat)
      BY <3>1, NextLine DEF LineAdded
    <3> QED
      BY <3>1, <3>2
  <2> QED
    BY <2>1
<1>3. PICK f : Follows(f, Seq(Nat), <<>>, N, step)
  <2>1. <<>> \in Seq(Nat)
    OBVIOUS
  <2> HIDE DEF step, N
  <2> QED
    BY <1>1, <1>2, <2>1, Recursion
<1>4. f \in [0..N -> Seq(Nat)] /\ f[0] = <<>>
  BY <1>3 DEF Follows
<1>5. ASSUME NEW r \in 1..N
      PROVE  f[r] = f[r - 1] \o Gutter(r) \o <<0, 0>>
                            \o [c \in 1..Chars[rows[r][side]] |-> r]
  <2>1. r - 1 \in 0..N
    BY <1>1
  <2>2. f[r - 1] \in Seq(Nat)
    BY <1>4, <2>1
  <2>3. f[r] = step[r][f[r - 1]]
    <3> HIDE DEF step
    <3> QED
      BY <1>3 DEF Follows
  <2> HIDE DEF N
  <2> QED
    BY <2>2, <2>3
<1>6. PaneIs(side, f)
  <2> HIDE DEF step, N
  <2>1. \A r \in 0..N : r = 0 \/ r \in 1..N
    BY <1>1
  <2>2. \A r \in 0..N : f[r] = IF r = 0 THEN <<>>
                              ELSE f[r - 1] \o Gutter(r) \o <<0, 0>>
                                            \o [c \in 1..Chars[rows[r][side]] |-> r]
    BY <1>4, <1>5, <2>1
  <2>3. f = [r \in 0..N |-> f[r]]
    BY <1>4
  <2> QED
    BY <2>2, <2>3 DEF PaneIs, N
<1> QED
  BY <1>6, Zenon

LEMMA PaneGrows ==
  ASSUME TypeOK, NEW side \in Sides, NEW r \in 1..Len(rows), PaneDownTo(side, r - 1) \in Seq(Nat)
  PROVE  /\ PaneDownTo(side, r) \in Seq(Nat)
         /\ Begin(side, r) \in Nat
         /\ Len(PaneDownTo(side, r)) = Begin(side, r) + Width(side, r)
         /\ \A k \in 1..Len(PaneDownTo(side, r)) :
              PaneDownTo(side, r)[k] =
                IF k <= Len(PaneDownTo(side, r - 1)) THEN PaneDownTo(side, r - 1)[k]
                ELSE IF k <= Begin(side, r) THEN 0 ELSE r
<1> DEFINE f == CHOOSE g : PaneIs(side, g)
           above == PaneDownTo(side, r - 1)
           t == PaneDownTo(side, r)
           w == Width(side, r)
<1>1. PaneIs(side, f)
  BY PaneUnfolds
<1>2. f[r] = t /\ f[r - 1] = above
  BY DEF PaneDownTo
<1>3. r \in 0..Len(rows) /\ r # 0 /\ r \in Nat /\ w \in Nat
  BY RowsHaveLines DEF Width
<1> HIDE DEF f
<1>4. f[r] = f[r - 1] \o Gutter(r) \o <<0, 0>>
                      \o [c \in 1..Chars[rows[r][side]] |-> r]
  BY <1>1, <1>3 DEF PaneIs
<1>5. t = above \o Gutter(r) \o <<0, 0>> \o [c \in 1..w |-> r]
  BY <1>2, <1>4 DEF Width
<1>6. Begin(side, r) = Len(above) + Lead(r)
  BY DEF Begin
<1> HIDE DEF above, t, w
<1>7. above \in Seq(Nat)
  BY DEF above
<1>8. LineAdded(above, r, w, t)
  BY <1>3, <1>5, <1>7, NextLine, Zenon
<1>9. Begin(side, r) \in Nat
  BY <1>6, <1>7 DEF Lead
<1> QED
  BY <1>6, <1>8, <1>9 DEF LineAdded, above, t, w

\* The characters of every row down to the nth are at its line and nowhere else.
Laid(side, n) ==
  /\ PaneDownTo(side, n) \in Seq(Nat)
  /\ \A k \in 1..Len(PaneDownTo(side, n)) : PaneDownTo(side, n)[k] <= n
  /\ \A r \in 1..n :
       /\ Begin(side, r) \in Nat
       /\ Begin(side, r) + Width(side, r) <= Len(PaneDownTo(side, n))
       /\ \A k \in 1..Len(PaneDownTo(side, n)) :
            PaneDownTo(side, n)[k] = r
              <=> Begin(side, r) < k /\ k <= Begin(side, r) + Width(side, r)

LEMMA NoRowLaid ==
  ASSUME TypeOK, NEW side \in Sides
  PROVE  PaneDownTo(side, 0) = <<>> /\ Laid(side, 0)
<1>1. PaneDownTo(side, 0) = <<>>
  <2> DEFINE f == CHOOSE g : PaneIs(side, g)
  <2>1. PaneIs(side, f)
    BY PaneUnfolds
  <2>2. f[0] = PaneDownTo(side, 0)
    BY DEF PaneDownTo
  <2>3. 0 \in 0..Len(rows)
    BY DEF TypeOK
  <2> HIDE DEF f
  <2> QED
    BY <2>1, <2>2, <2>3 DEF PaneIs
<1>2. PaneDownTo(side, 0) \in Seq(Nat) /\ Len(PaneDownTo(side, 0)) = 0
  <2>1. <<>> \in Seq(Nat) /\ Len(<<>>) = 0
    OBVIOUS
  <2> QED
    BY <1>1, <2>1, Zenon
<1>3. \A k \in 1..0 : FALSE
  OBVIOUS
<1>4. Laid(side, 0)
  BY <1>2, <1>3, Zenon DEF Laid
<1> QED
  BY <1>1, <1>4

LEMMA NextRowLaid ==
  ASSUME TypeOK, NEW side \in Sides, NEW n \in 1..Len(rows), Laid(side, n - 1)
  PROVE  Laid(side, n)
<1> DEFINE above == PaneDownTo(side, n - 1)
           t == PaneDownTo(side, n)
           w == Width(side, n)
           b == Begin(side, n)
<1>1. /\ above \in Seq(Nat)
      /\ \A k \in 1..Len(above) : above[k] <= n - 1
  BY DEF Laid
<1>2. /\ t \in Seq(Nat) /\ b \in Nat /\ Len(t) = b + w
      /\ \A k \in 1..Len(t) :
           t[k] = IF k <= Len(above) THEN above[k] ELSE IF k <= b THEN 0 ELSE n
      /\ b >= Len(above)
  BY <1>1, PaneGrows DEF Begin, Lead
<1>3. w \in Nat /\ n \in Nat
  BY RowsHaveLines DEF Width
<1>4. \A r \in 1..(n - 1) :
        /\ Begin(side, r) \in Nat
        /\ Begin(side, r) + Width(side, r) <= Len(above)
        /\ \A k \in 1..Len(above) :
             above[k] = r <=> Begin(side, r) < k /\ k <= Begin(side, r) + Width(side, r)
  BY DEF Laid
<1> HIDE DEF above, t, w, b
<1>5. \A k \in 1..Len(t) : t[k] <= n
  <2> TAKE k \in 1..Len(t)
  <2>1. CASE k <= Len(above)
    <3>1. k \in 1..Len(above)
      BY <1>1, <2>1
    <3>2. above[k] \in Nat /\ above[k] <= n - 1 /\ t[k] = above[k]
      BY <1>1, <1>2, <3>1
    <3> QED
      BY <1>3, <3>2
  <2>2. CASE ~(k <= Len(above))
    BY <1>2, <1>3, <2>2
  <2> QED
    BY <2>1, <2>2
<1>6. ASSUME NEW r \in 1..(n - 1)
      PROVE  /\ Begin(side, r) \in Nat
             /\ Begin(side, r) + Width(side, r) <= Len(t)
             /\ \A k \in 1..Len(t) :
                  t[k] = r <=> Begin(side, r) < k /\ k <= Begin(side, r) + Width(side, r)
  <2> DEFINE x == Begin(side, r)
             y == Width(side, r)
  <2>1. y \in Nat
    BY RowsHaveLines DEF Width
  <2>2. x \in Nat /\ x + y <= Len(above)
        /\ \A k \in 1..Len(above) : above[k] = r <=> x < k /\ k <= x + y
    BY <1>4
  <2> HIDE DEF x, y
  <2>3. x + y <= Len(t)
    BY <1>1, <1>2, <1>3, <2>1, <2>2
  <2>4. ASSUME NEW k \in 1..Len(t)
        PROVE  t[k] = r <=> x < k /\ k <= x + y
    <3>1. CASE k <= Len(above)
      <4>0. Len(above) \in Nat /\ Len(t) \in Nat
        BY <1>1, <1>2
      <4>1. k \in 1..Len(above)
        BY <3>1, <4>0
      <4>2. t[k] = above[k]
        BY <1>2, <3>1
      <4>3. above[k] = r <=> x < k /\ k <= x + y
        BY <2>2, <4>1
      <4> QED
        BY <4>2, <4>3
    <3>2. CASE ~(k <= Len(above))
      <4>1. t[k] \in {0, n} /\ r # 0 /\ r # n
        BY <1>2, <1>3, <3>2
      <4>2. Len(above) \in Nat /\ k \in Nat /\ x + y \in Nat /\ x + y <= Len(above)
        BY <1>1, <2>1, <2>2
      <4>3. ~(k <= x + y)
        BY <3>2, <4>2
      <4> QED
        BY <4>1, <4>3
    <3> QED
      BY <3>1, <3>2
  <2> QED
    BY <2>2, <2>3, <2>4 DEF x, y
<1>7. ASSUME NEW k \in 1..Len(t)
      PROVE  t[k] = n <=> b < k /\ k <= b + w
  <2>1. CASE k <= Len(above)
    <3>1. k \in 1..Len(above)
      BY <1>1, <2>1
    <3>2. above[k] \in Nat /\ above[k] <= n - 1 /\ t[k] = above[k]
      BY <1>1, <1>2, <3>1
    <3> QED
      BY <1>1, <1>2, <1>3, <2>1, <3>2
  <2>2. CASE ~(k <= Len(above))
    BY <1>2, <1>3, <2>2
  <2> QED
    BY <2>1, <2>2
<1>8. \A r \in 1..n : r = n \/ r \in 1..(n - 1)
  BY <1>3
<1>9. b + w <= Len(t)
  BY <1>2, <1>3
<1> QED
  BY <1>2, <1>5, <1>6, <1>7, <1>8, <1>9 DEF Laid, t, b, w

LEMMA AllRowsLaid ==
  ASSUME TypeOK, NEW side \in Sides
  PROVE  \A n \in 0..Len(rows) : Laid(side, n)
<1> DEFINE T == {n \in Nat : n <= Len(rows) => Laid(side, n)}
<1>1. 0 \in T
  BY NoRowLaid
<1>2. ASSUME NEW n \in T
      PROVE  n + 1 \in T
  <2> SUFFICES ASSUME n + 1 <= Len(rows)
               PROVE  Laid(side, n + 1)
    OBVIOUS
  <2>0. Len(rows) \in Nat
    BY DEF TypeOK
  <2>1. n + 1 \in 1..Len(rows) /\ (n + 1) - 1 = n
    BY <2>0
  <2>2. Laid(side, n)
    BY <2>0
  <2> QED
    BY <2>1, <2>2, NextRowLaid
<1>3. T = Nat
  <2>1. T \in SUBSET Nat
    OBVIOUS
  <2> HIDE DEF T
  <2> QED
    BY <1>1, <1>2, <2>1, NumberInduction
<1> QED
  <2> TAKE n \in 0..Len(rows)
  <2>1. n \in Nat /\ n <= Len(rows)
    BY DEF TypeOK
  <2>2. n \in T
    BY <1>3, <2>1
  <2> QED
    BY <2>1, <2>2

StartIs(side, r, g) ==
  g = [n \in 0..r |-> IF n = 0 THEN 2 ELSE g[n - 1] + Bytes[rows[n][side]] + 3]

LEMMA StartUnfolds ==
  ASSUME TypeOK, NEW side \in Sides, NEW r \in 1..Len(rows)
  PROVE  StartIs(side, r, CHOOSE g : StartIs(side, r, g))
<1> DEFINE step == [n \in 1..r |-> [before \in Nat |-> before + Bytes[rows[n][side]] + 3]]
<1>1. r \in Nat /\ \A n \in 1..r : n \in 1..Len(rows)
  BY DEF TypeOK
<1>2. \A n \in 1..r : Bytes[rows[n][side]] \in Nat
  BY <1>1, RowsHaveLines
<1>3. step \in [1..r -> [Nat -> Nat]]
  BY <1>2
<1>4. PICK g : Follows(g, Nat, 2, r, step)
  <2> HIDE DEF step
  <2> QED
    BY <1>1, <1>3, Recursion
<1>5. g \in [0..r -> Nat] /\ g[0] = 2
  BY <1>4 DEF Follows
<1>6. ASSUME NEW n \in 1..r
      PROVE  g[n] = g[n - 1] + Bytes[rows[n][side]] + 3
  <2>1. n - 1 \in 0..r
    BY <1>1
  <2>2. g[n] = step[n][g[n - 1]]
    <3> HIDE DEF step
    <3> QED
      BY <1>4 DEF Follows
  <2> QED
    BY <1>5, <2>1, <2>2
<1>7. StartIs(side, r, g)
  <2> HIDE DEF step
  <2>1. \A n \in 0..r : n = 0 \/ n \in 1..r
    BY <1>1
  <2> QED
    BY <1>5, <1>6, <2>1 DEF StartIs
<1> QED
  BY <1>7, Zenon

\* Where the code takes a line to begin is where it does, after lines that have
\* as many bytes as characters.
LEMMA StartsAtBegin ==
  ASSUME TypeOK, NEW side \in Sides, NEW r \in 1..Len(rows),
         \A q \in 1..r : Ascii(rows[q][side])
  PROVE  LineStart(side, r) = Begin(side, r)
<1> DEFINE g == CHOOSE h : StartIs(side, r, h)
           T == {n \in Nat : n <= r - 1 => g[n] = Len(PaneDownTo(side, n)) + Lead(n + 1)}
<1>1. LineStart(side, r) = g[r - 1]
  BY SMT DEF LineStart, StartIs
<1>2. StartIs(side, r, g)
  BY StartUnfolds
<1>3. Len(rows) \in Nat /\ r \in Nat
  BY DEF TypeOK
<1> HIDE DEF g
<1>4. 0 \in T
  <2>1. g[0] = 2
    BY <1>2, <1>3 DEF StartIs
  <2>2. Len(PaneDownTo(side, 0)) = 0
    BY NoRowLaid
  <2> QED
    BY <2>1, <2>2 DEF Lead
<1>5. ASSUME NEW n \in T
      PROVE  n + 1 \in T
  <2> SUFFICES ASSUME n + 1 <= r - 1
               PROVE  g[n + 1] = Len(PaneDownTo(side, n + 1)) + Lead((n + 1) + 1)
    OBVIOUS
  <2>1. /\ n \in 0..Len(rows) /\ n + 1 \in 1..Len(rows) /\ n + 1 \in 1..r /\ n + 1 \in 0..r
        /\ (n + 1) - 1 = n /\ n + 1 # 0 /\ g[n] = Len(PaneDownTo(side, n)) + Lead(n + 1)
    BY <1>3
  <2>2. g[n + 1] = g[n] + Bytes[rows[n + 1][side]] + 3
    BY <1>2, <2>1 DEF StartIs
  <2>3. Bytes[rows[n + 1][side]] = Width(side, n + 1) /\ Width(side, n + 1) \in Nat
    BY <2>1, RowsHaveLines DEF Ascii, Width
  <2>4. PaneDownTo(side, n) \in Seq(Nat)
    BY <2>1, AllRowsLaid DEF Laid
  <2>5. Len(PaneDownTo(side, n + 1)) = Begin(side, n + 1) + Width(side, n + 1)
    BY <2>1, <2>4, PaneGrows
  <2>6. Begin(side, n + 1) = Len(PaneDownTo(side, n)) + Lead(n + 1)
    BY <2>1 DEF Begin
  <2>7. Lead((n + 1) + 1) = 3 /\ Lead(n + 1) \in Nat /\ Len(PaneDownTo(side, n)) \in Nat
    BY <2>1, <2>4 DEF Lead
  <2> QED
    BY <2>1, <2>2, <2>3, <2>5, <2>6, <2>7
<1>6. T = Nat
  <2>1. T \in SUBSET Nat
    OBVIOUS
  <2> HIDE DEF T
  <2> QED
    BY <1>4, <1>5, <2>1, NumberInduction
<1>7. g[r - 1] = Len(PaneDownTo(side, r - 1)) + Lead(r)
  <2>1. r - 1 \in T /\ (r - 1) + 1 = r /\ r - 1 <= r - 1
    BY <1>3, <1>6
  <2> QED
    BY <2>1
<1> QED
  BY <1>1, <1>7 DEF Begin

LEMMA PaneIsWhole == \A side : Pane(side) = PaneDownTo(side, Len(rows))
  BY SMT DEF Pane, PaneDownTo, PaneIs, Gutter

LEMMA TypedColours == TypeOK => ColoursOnLines
<1> SUFFICES ASSUME TypeOK, NEW side \in Sides, NEW r \in DOMAIN rows,
                    \A q \in 1..r : Ascii(rows[q][side])
             PROVE  ColouredFor(side, r) =
                      {k \in DOMAIN Pane(side) :
                         Pane(side)[k] = r /\ rows[r].kind \in Coloured(side)}
  BY DEF ColoursOnLines, Sides
<1>1. r \in 1..Len(rows) /\ Len(rows) \in 0..Len(rows)
  BY DEF TypeOK
<1> DEFINE p == Pane(side)
<1>2. /\ p \in Seq(Nat)
      /\ \A k \in 1..Len(p) :
           p[k] = r <=> Begin(side, r) < k /\ k <= Begin(side, r) + Width(side, r)
  <2>1. Laid(side, Len(rows))
    BY <1>1, AllRowsLaid
  <2> QED
    BY <1>1, <2>1, PaneIsWhole DEF Laid
<1>3. LineStart(side, r) = Begin(side, r) /\ Bytes[rows[r][side]] = Width(side, r)
  BY <1>1, StartsAtBegin DEF Ascii, Width
<1>4. \A k \in DOMAIN p :
        p[k] = r <=> LineStart(side, r) < k /\ k <= LineStart(side, r) + Bytes[rows[r][side]]
  BY <1>2, <1>3
<1> HIDE DEF p
<1> QED
  BY <1>4 DEF ColouredFor, p

\* The colour of a row is on the characters of its line and nowhere else, in
\* panes of any rows, as long as the lines down to it have one byte a character.
THEOREM ColoursAreOnLines == Spec => []ColoursOnLines
  BY SpecDInv, TypedColours, PTL DEF DInv
==============================================================================
