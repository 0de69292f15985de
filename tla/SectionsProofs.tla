---------------------------- MODULE SectionsProofs ----------------------------
(***************************************************************************)
(* Theorems about the section widgets, for every set of documents, values  *)
(* and settings: an edit changes one node of its row's section, and the    *)
(* rows go on showing what the document says.  The first part is about     *)
(* what each handler does to a document, the second about what the rows    *)
(* read of it afterwards.                                                  *)
(***************************************************************************)
EXTENDS Sections, NumberLemmas, SequenceTheorems, FiniteSetTheorems, TLAPS

------------------------------------------------------------------------------
(* Sequences, first places and nodes *)

Put(s, i, x) == [s EXCEPT ![i] = x]

LEMMA SeqIs ==
  ASSUME NEW s, IsSeq(s)
  PROVE  /\ Len(s) \in Nat /\ DOMAIN s = 1..Len(s)
         /\ s = [i \in 1..Len(s) |-> s[i]]
<1>1. s \in Seq(Range(s))
  BY DEF IsSeq
<1>2. Len(s) \in Nat /\ s \in [1..Len(s) -> Range(s)] /\ DOMAIN s = 1..Len(s)
  BY <1>1, LenProperties
<1> QED
  BY <1>2

LEMMA SeqBy ==
  ASSUME NEW n \in Nat, NEW s, DOMAIN s = 1..n, s = [i \in 1..n |-> s[i]]
  PROVE  IsSeq(s) /\ Len(s) = n
<1>1. \A i \in 1..n : s[i] \in Range(s)
  BY DEF Range
<1>2. s \in [1..n -> Range(s)]
  BY <1>1
<1>3. s \in Seq(Range(s)) /\ Len(s) = n
  BY <1>2
<1> QED
  BY <1>3 DEF IsSeq

LEMMA PutIs ==
  ASSUME NEW s, IsSeq(s), NEW i \in DOMAIN s, NEW x
  PROVE  /\ IsSeq(Put(s, i, x)) /\ Len(Put(s, i, x)) = Len(s)
         /\ DOMAIN Put(s, i, x) = DOMAIN s
         /\ Put(s, i, x)[i] = x
         /\ \A j \in DOMAIN s : j # i => Put(s, i, x)[j] = s[j]
<1> DEFINE t == Put(s, i, x)
<1>1. Len(s) \in Nat /\ DOMAIN s = 1..Len(s) /\ s = [j \in 1..Len(s) |-> s[j]]
  BY SeqIs
<1>2. /\ DOMAIN t = 1..Len(s) /\ t[i] = x
      /\ t = [j \in 1..Len(s) |-> t[j]]
      /\ \A j \in DOMAIN s : j # i => t[j] = s[j]
  BY <1>1 DEF Put
<1> HIDE DEF t
<1>3. IsSeq(t) /\ Len(t) = Len(s)
  BY <1>1, <1>2, SeqBy
<1>4. QED
  BY <1>1, <1>2, <1>3 DEF t

LEMMA EmptyIsSeq == IsSeq(<<>>) /\ Len(<<>>) = 0 /\ DOMAIN <<>> = {}
<1>1. <<>> \in Seq(Range(<<>>)) /\ Len(<<>>) = 0
  OBVIOUS
<1>2. IsSeq(<<>>)
  BY <1>1 DEF IsSeq
<1>3. DOMAIN <<>> = 1..0
  BY <1>1, <1>2, SeqIs
<1> QED
  BY <1>1, <1>2, <1>3

LEMMA AppendIs ==
  ASSUME NEW s, IsSeq(s), NEW x
  PROVE  /\ IsSeq(Append(s, x)) /\ Len(Append(s, x)) = Len(s) + 1
         /\ DOMAIN Append(s, x) = 1 .. Len(s) + 1
         /\ Append(s, x)[Len(s) + 1] = x
         /\ \A j \in DOMAIN s : Append(s, x)[j] = s[j]
<1> DEFINE S == Range(s) \cup {x}
           t == Append(s, x)
<1>1. Len(s) \in Nat /\ DOMAIN s = 1..Len(s)
  BY SeqIs
<1>2. s \in Seq(S) /\ x \in S
  BY <1>1, SeqIs DEF Range
<1>3. /\ t \in Seq(S) /\ Len(t) = Len(s) + 1
      /\ t[Len(s) + 1] = x
      /\ \A j \in 1..Len(s) : t[j] = s[j]
  BY <1>1, <1>2, AppendProperties
<1> HIDE DEF t, S
<1>4. DOMAIN t = 1..Len(t) /\ t \in [1..Len(t) -> S] /\ Len(t) \in Nat
  BY <1>3, LenProperties
<1>5. t = [j \in 1..Len(t) |-> t[j]]
  BY <1>4
<1>6. IsSeq(t)
  BY <1>4, <1>5, SeqBy
<1> QED
  BY <1>1, <1>3, <1>4, <1>6 DEF t

\* The least of the places, or 0.
FirstIn(places) == IF places # {} THEN Min(places) ELSE 0

LEMMA FirstIs ==
  ASSUME NEW places \in SUBSET Nat
  PROVE  /\ places = {} => FirstIn(places) = 0
         /\ places # {} => /\ FirstIn(places) \in places
                           /\ \A i \in places : FirstIn(places) <= i
<1>1. ASSUME places # {}
      PROVE  Min(places) \in places /\ \A i \in places : Min(places) <= i
  <2>1. \E x \in places : \A y \in places : x <= y
    BY <1>1, LeastNumber
  <2> QED
    BY <2>1 DEF Min
<1> QED
  BY <1>1 DEF FirstIn

Places(nodes, name) == {i \in 1..Len(nodes) : nodes[i].name = name}

LEMMA PositionIs ==
  ASSUME NEW nodes, IsSeq(nodes), NEW name
  PROVE  /\ \A i \in DOMAIN nodes : nodes[i].name = name => Position(nodes, name) # 0
         /\ Position(nodes, name) # 0 =>
              /\ Position(nodes, name) \in DOMAIN nodes
              /\ nodes[Position(nodes, name)].name = name
         /\ \A i \in DOMAIN nodes : nodes[i].name = name => Position(nodes, name) <= i
<1> DEFINE P == Places(nodes, name)
<1>1. Position(nodes, name) = FirstIn(P)
  BY DEF Position, SelectInSeq, FirstIn, Places
<1>2. Len(nodes) \in Nat /\ DOMAIN nodes = 1..Len(nodes)
  BY SeqIs
<1>3. \A i : i \in P <=> i \in DOMAIN nodes /\ nodes[i].name = name
  BY <1>2 DEF Places
<1>4. P \in SUBSET Nat /\ 0 \notin P
  BY <1>2 DEF Places
<1> HIDE DEF P
<1>5. CASE P = {}
  <2>1. Position(nodes, name) = 0
    BY <1>1, <1>4, <1>5, FirstIs
  <2> QED
    BY <1>3, <1>5, <2>1
<1>6. CASE P # {}
  <2>1. FirstIn(P) \in P /\ \A i \in P : FirstIn(P) <= i
    BY <1>4, <1>6, FirstIs
  <2> QED
    BY <1>1, <1>3, <1>4, <2>1
<1> QED
  BY <1>5, <1>6

\* Nodes of the same names in the same places.
SameNames(ns, ms) == DOMAIN ns = DOMAIN ms /\ \A i \in DOMAIN ns : ms[i].name = ns[i].name

LEMMA SamePosition ==
  ASSUME NEW ns, NEW ms, IsSeq(ns), IsSeq(ms), SameNames(ns, ms), NEW name
  PROVE  Position(ms, name) = Position(ns, name)
<1>1. /\ Len(ns) \in Nat /\ DOMAIN ns = 1..Len(ns)
      /\ Len(ms) \in Nat /\ DOMAIN ms = 1..Len(ms)
  BY SeqIs
<1>2. Places(ms, name) = Places(ns, name)
  BY <1>1 DEF Places, SameNames
<1>3. Position(ms, name) = FirstIn(Places(ms, name)) /\ Position(ns, name) = FirstIn(Places(ns, name))
  BY DEF Position, SelectInSeq, FirstIn, Places
<1> QED
  BY <1>2, <1>3

WithArgs(n, args) == [n EXCEPT !.args = args]
WithKids(n, kids) == [n EXCEPT !.kids = kids]

LEMMA WithArgsIs ==
  ASSUME NEW n, IsNode(n), NEW args, IsSeq(args)
  PROVE  /\ IsNode(WithArgs(n, args))
         /\ WithArgs(n, args).name = n.name /\ WithArgs(n, args).args = args
         /\ WithArgs(n, args).block = n.block /\ WithArgs(n, args).kids = n.kids
<1>1. n = [name |-> n.name, args |-> n.args, block |-> n.block, kids |-> n.kids, ends |-> n.ends]
  BY DEF IsNode
<1>2. WithArgs(n, args) = [name |-> n.name, args |-> args, block |-> n.block, kids |-> n.kids, ends |-> n.ends]
  BY <1>1 DEF WithArgs
<1> QED
  BY <1>2 DEF IsNode

LEMMA KidsReplaced ==
  ASSUME NEW n, NEW a, NEW b, NEW c, NEW d, NEW e, NEW kids,
         n = [name |-> a, args |-> b, block |-> c, kids |-> d, ends |-> e]
  PROVE  WithKids(n, kids) = [name |-> a, args |-> b, block |-> c, kids |-> kids, ends |-> e]
  BY DEF WithKids

LEMMA WithKidsIs ==
  ASSUME NEW n, IsNode(n), n.block, NEW kids
  PROVE  /\ IsNode(WithKids(n, kids))
         /\ WithKids(n, kids).name = n.name /\ WithKids(n, kids).args = n.args
         /\ WithKids(n, kids).block /\ WithKids(n, kids).kids = kids
<1>1. n = [name |-> n.name, args |-> n.args, block |-> n.block, kids |-> n.kids, ends |-> n.ends]
  BY DEF IsNode
<1>2. WithKids(n, kids) = [name |-> n.name, args |-> n.args, block |-> n.block, kids |-> kids, ends |-> n.ends]
  BY <1>1, KidsReplaced
<1> QED
  BY <1>2 DEF IsNode

------------------------------------------------------------------------------
(* One node changed *)

LEMMA NearSelf ==
  ASSUME NEW ns
  PROVE  Near(ns, ns)
<1>1. {i \in DOMAIN ns : ns[i] # ns[i]} = {}
  OBVIOUS
<1> QED
  BY <1>1, FS_EmptySet DEF Near

LEMMA NearPut ==
  ASSUME NEW ns, IsSeq(ns), NEW i \in DOMAIN ns, NEW x
  PROVE  Near(ns, Put(ns, i, x))
<1> DEFINE D == {j \in DOMAIN ns : ns[j] # Put(ns, i, x)[j]}
<1>1. D \subseteq {i}
  BY PutIs
<1>2. IsFiniteSet({i}) /\ Cardinality({i}) = 1
  BY FS_Singleton
<1> HIDE DEF D
<1>3. IsFiniteSet(D) /\ Cardinality(D) <= 1
  BY <1>1, <1>2, FS_Subset
<1> QED
  BY <1>3, PutIs DEF Near, D

LEMMA NoBlocks == IsBlock(<<>>) /\ HasBlocks(<<>>)
  BY EmptyIsSeq DEF IsBlock, HasBlocks

LEMMA KidsAreBlocks ==
  ASSUME NEW d, IsDocument(d), NEW i \in DOMAIN d
  PROVE  HasBlocks(d[i].kids) /\ IsSeq(d[i].kids) /\ IsNode(d[i])
<1>1. HasBlocks(d[i].kids)
  BY DEF IsDocument
<1> QED
  BY <1>1 DEF IsDocument, HasBlocks, IsBlock

LEMMA KidsOfKids ==
  ASSUME NEW ns, HasBlocks(ns), NEW i \in DOMAIN ns
  PROVE  IsBlock(ns[i].kids) /\ IsSeq(ns[i].kids) /\ IsNode(ns[i])
<1>1. IsBlock(ns[i].kids)
  BY DEF HasBlocks
<1> QED
  BY <1>1 DEF HasBlocks, IsBlock

LEMMA KidsAtAreBlocks ==
  ASSUME NEW d, IsDocument(d), NEW name
  PROVE  HasBlocks(KidsAt(d, name)) /\ IsSeq(KidsAt(d, name))
<1>1. IsSeq(d)
  BY DEF IsDocument, IsBlock
<1>2. HasBlocks(KidsAt(d, name))
  BY <1>1, PositionIs, KidsAreBlocks, NoBlocks DEF KidsAt
<1> QED
  BY <1>2 DEF HasBlocks, IsBlock

LEMMA KidsAtKids ==
  ASSUME NEW ns, HasBlocks(ns), NEW name
  PROVE  IsBlock(KidsAt(ns, name)) /\ IsSeq(KidsAt(ns, name))
<1>1. IsSeq(ns)
  BY DEF HasBlocks, IsBlock
<1>2. IsBlock(KidsAt(ns, name))
  BY <1>1, PositionIs, KidsOfKids, NoBlocks DEF KidsAt
<1> QED
  BY <1>2 DEF IsBlock

\* A node may take the place of another in a block.
LEMMA PutInBlock ==
  ASSUME NEW ns, IsBlock(ns), NEW i \in DOMAIN ns, NEW n, IsNode(n)
  PROVE  /\ IsBlock(Put(ns, i, n)) /\ Near(ns, Put(ns, i, n))
         /\ n.name = ns[i].name => SameNames(ns, Put(ns, i, n))
         /\ DOMAIN Put(ns, i, n) = DOMAIN ns
         /\ Put(ns, i, n)[i] = n
         /\ \A j \in DOMAIN ns : j # i => Put(ns, i, n)[j] = ns[j]
<1>1. IsSeq(ns) /\ \A j \in DOMAIN ns : IsNode(ns[j])
  BY DEF IsBlock
<1>2. /\ IsSeq(Put(ns, i, n)) /\ DOMAIN Put(ns, i, n) = DOMAIN ns
      /\ Put(ns, i, n)[i] = n
      /\ \A j \in DOMAIN ns : j # i => Put(ns, i, n)[j] = ns[j]
  BY <1>1, PutIs
<1>3. Near(ns, Put(ns, i, n))
  BY <1>1, NearPut
<1>4. IsBlock(Put(ns, i, n)) /\ (n.name = ns[i].name => SameNames(ns, Put(ns, i, n)))
  BY <1>1, <1>2 DEF IsBlock, SameNames
<1> QED
  BY <1>2, <1>3, <1>4

LEMMA PutInBlocks ==
  ASSUME NEW ns, HasBlocks(ns), NEW i \in DOMAIN ns, NEW n, IsNode(n), IsBlock(n.kids)
  PROVE  /\ HasBlocks(Put(ns, i, n)) /\ Near(ns, Put(ns, i, n))
         /\ n.name = ns[i].name => SameNames(ns, Put(ns, i, n))
         /\ DOMAIN Put(ns, i, n) = DOMAIN ns
         /\ Put(ns, i, n)[i] = n
         /\ \A j \in DOMAIN ns : j # i => Put(ns, i, n)[j] = ns[j]
<1>1. IsBlock(ns)
  BY DEF HasBlocks
<1>2. /\ IsBlock(Put(ns, i, n)) /\ Near(ns, Put(ns, i, n))
      /\ n.name = ns[i].name => SameNames(ns, Put(ns, i, n))
      /\ DOMAIN Put(ns, i, n) = DOMAIN ns
      /\ Put(ns, i, n)[i] = n
      /\ \A j \in DOMAIN ns : j # i => Put(ns, i, n)[j] = ns[j]
  BY <1>1, PutInBlock
<1>3. HasBlocks(Put(ns, i, n))
  BY <1>2 DEF HasBlocks
<1> QED
  BY <1>2, <1>3

\* What may become of the node a row edits.
Becomes(n, m, name) ==
  /\ n.name = name /\ m.name = name
  /\ IsNode(m) /\ HasBlocks(m.kids)
  /\ NearBlocks(n.kids, m.kids)

\* The document is the same, or one node of that name has changed.
OneChanged(d, e, name) ==
  e = d \/ \E i \in DOMAIN d : e = Put(d, i, e[i]) /\ Becomes(d[i], e[i], name)

LEMMA PutChanges ==
  ASSUME NEW d, IsDocument(d), NEW i \in DOMAIN d, NEW n, NEW name, Becomes(d[i], n, name)
  PROVE  OneChanged(d, Put(d, i, n), name)
<1>1. IsSeq(d)
  BY DEF IsDocument, IsBlock
<1>2. Put(d, i, n)[i] = n
  BY <1>1, PutIs
<1> QED
  BY <1>2 DEF OneChanged

LEMMA OneChangedIsDocument ==
  ASSUME NEW d, IsDocument(d), NEW e, NEW name, OneChanged(d, e, name)
  PROVE  IsDocument(e) /\ SameNames(d, e)
<1>1. CASE e = d
  BY <1>1 DEF SameNames
<1>2. ASSUME NEW i \in DOMAIN d, e = Put(d, i, e[i]), Becomes(d[i], e[i], name)
      PROVE  IsDocument(e) /\ SameNames(d, e)
  <2>1. IsBlock(d) /\ IsNode(e[i]) /\ e[i].name = d[i].name
    BY <1>2 DEF IsDocument, Becomes
  <2>2. /\ IsBlock(e) /\ SameNames(d, e)
        /\ \A j \in DOMAIN d : j # i => e[j] = d[j]
    BY <1>2, <2>1, PutInBlock
  <2>3. HasBlocks(e[i].kids)
    BY <1>2 DEF Becomes
  <2> QED
    BY <2>2, <2>3 DEF IsDocument, SameNames
<1> QED
  BY <1>1, <1>2 DEF OneChanged

LEMMA OneChangedIsSmall ==
  ASSUME NEW d, IsDocument(d), NEW e, NEW name, OneChanged(d, e, name)
  PROVE  /\ Near(d, e)
         /\ \A i \in DOMAIN d : NearBlocks(d[i].kids, e[i].kids)
         /\ \A i \in DOMAIN d : d[i] # e[i] => d[i].name = name /\ e[i].name = name
<1>1. \A ns : NearBlocks(ns, ns)
  BY NearSelf DEF NearBlocks
<1>2. CASE e = d
  BY <1>1, <1>2, NearSelf
<1>3. ASSUME NEW i \in DOMAIN d, e = Put(d, i, e[i]), Becomes(d[i], e[i], name)
      PROVE  /\ Near(d, e)
             /\ \A j \in DOMAIN d : NearBlocks(d[j].kids, e[j].kids)
             /\ \A j \in DOMAIN d : d[j] # e[j] => d[j].name = name /\ e[j].name = name
  <2>1. IsSeq(d)
    BY DEF IsDocument, IsBlock
  <2>2. Near(d, e)
    BY <1>3, <2>1, NearPut
  <2>3. \A j \in DOMAIN d : j # i => e[j] = d[j]
    BY <1>3, <2>1, PutIs
  <2>4. /\ NearBlocks(d[i].kids, e[i].kids)
        /\ d[i].name = name /\ e[i].name = name
    BY <1>3 DEF Becomes
  <2> QED
    BY <1>1, <2>2, <2>3, <2>4
<1> QED
  BY <1>2, <1>3 DEF OneChanged

------------------------------------------------------------------------------
(* What the handlers do to a document *)

LEMMA SetArgIs ==
  ASSUME NEW args, IsSeq(args), NEW k \in Nat \ {0}, NEW v
  PROVE  /\ IsSeq(SetArg(args, k, v))
         /\ Len(args) + 1 >= k => Len(SetArg(args, k, v)) >= k /\ SetArg(args, k, v)[k] = Arg(v)
         /\ Len(SetArg(args, k, v)) >= Len(args)
         /\ \A j \in DOMAIN args : j # k => SetArg(args, k, v)[j] = args[j]
<1>1. Len(args) \in Nat /\ DOMAIN args = 1..Len(args)
  BY SeqIs
<1>2. CASE Len(args) < k
  <2>1. SetArg(args, k, v) = Append(args, Arg(v))
    BY <1>2 DEF SetArg
  <2>2. Len(args) + 1 >= k => Len(args) + 1 = k
    BY <1>1, <1>2
  <2>3. /\ IsSeq(Append(args, Arg(v))) /\ Len(Append(args, Arg(v))) = Len(args) + 1
        /\ Append(args, Arg(v))[Len(args) + 1] = Arg(v)
        /\ \A j \in DOMAIN args : Append(args, Arg(v))[j] = args[j]
    BY AppendIs
  <2> QED
    BY <1>1, <2>1, <2>2, <2>3
<1>3. CASE ~(Len(args) < k)
  <2>1. SetArg(args, k, v) = Put(args, k, Arg(v))
    BY <1>3 DEF SetArg, Put
  <2>2. k \in DOMAIN args
    BY <1>1, <1>3
  <2>3. /\ IsSeq(Put(args, k, Arg(v))) /\ Len(Put(args, k, Arg(v))) = Len(args)
        /\ Put(args, k, Arg(v))[k] = Arg(v)
        /\ \A j \in DOMAIN args : j # k => Put(args, k, Arg(v))[j] = args[j]
    BY <2>2, PutIs
  <2> QED
    BY <1>1, <1>3, <2>1, <2>3
<1> QED
  BY <1>2, <1>3

\* A node with other entries.
LEMMA ArgsBecome ==
  ASSUME NEW d, IsDocument(d), NEW i \in DOMAIN d, NEW args, IsSeq(args), NEW name, d[i].name = name
  PROVE  OneChanged(d, Put(d, i, WithArgs(d[i], args)), name)
<1> DEFINE m == WithArgs(d[i], args)
<1>1. IsNode(d[i])
  BY KidsAreBlocks
<1>2. IsNode(m) /\ m.name = name /\ m.kids = d[i].kids
  BY <1>1, WithArgsIs
<1> HIDE DEF m
<1>3. NearBlocks(d[i].kids, m.kids)
  BY <1>2, NearSelf DEF NearBlocks
<1>4. HasBlocks(d[i].kids)
  BY DEF IsDocument
<1>5. Becomes(d[i], m, name)
  BY <1>2, <1>3, <1>4 DEF Becomes
<1> QED
  BY <1>5, PutChanges DEF m

LEMMA SetLeafIs ==
  ASSUME NEW ns, NEW name, NEW v
  PROVE  /\ Position(ns, name) = 0 => SetLeaf(ns, name, v) = ns
         /\ Position(ns, name) # 0 =>
              SetLeaf(ns, name, v) =
                Put(ns, Position(ns, name),
                    WithArgs(ns[Position(ns, name)], SetArg(ns[Position(ns, name)].args, 1, v)))
  BY DEF SetLeaf, Put, WithArgs

LEMMA SetLeafInBlock ==
  ASSUME NEW ns, IsBlock(ns), NEW name, NEW v
  PROVE  /\ IsBlock(SetLeaf(ns, name, v)) /\ Near(ns, SetLeaf(ns, name, v))
         /\ SameNames(ns, SetLeaf(ns, name, v))
<1> DEFINE i == Position(ns, name)
<1>1. IsSeq(ns)
  BY DEF IsBlock
<1>2. CASE i = 0
  <2>1. SetLeaf(ns, name, v) = ns
    BY <1>2, SetLeafIs
  <2> QED
    BY <2>1, NearSelf DEF SameNames
<1>3. CASE i # 0
  <2>1. i \in DOMAIN ns
    BY <1>1, <1>3, PositionIs
  <2> HIDE DEF i
  <2> DEFINE args == SetArg(ns[i].args, 1, v)
  <2>2. IsNode(ns[i]) /\ IsSeq(ns[i].args)
    BY <2>1 DEF IsBlock, IsNode
  <2>3. IsSeq(args)
    BY <2>2, SetArgIs
  <2>4. SetLeaf(ns, name, v) = Put(ns, i, WithArgs(ns[i], args))
    BY <1>3, SetLeafIs DEF i
  <2> HIDE DEF args
  <2>5. IsNode(WithArgs(ns[i], args)) /\ WithArgs(ns[i], args).name = ns[i].name
    BY <2>2, <2>3, WithArgsIs
  <2> QED
    BY <2>1, <2>4, <2>5, PutInBlock
<1> QED
  BY <1>2, <1>3

LEMMA SetLeafInBlocks ==
  ASSUME NEW ns, HasBlocks(ns), NEW name, NEW v
  PROVE  HasBlocks(SetLeaf(ns, name, v))
<1> DEFINE i == Position(ns, name)
<1>1. IsSeq(ns) /\ IsBlock(ns)
  BY DEF HasBlocks, IsBlock
<1>2. CASE i = 0
  BY <1>2, SetLeafIs
<1>3. CASE i # 0
  <2>1. i \in DOMAIN ns
    BY <1>1, <1>3, PositionIs
  <2> HIDE DEF i
  <2> DEFINE args == SetArg(ns[i].args, 1, v)
  <2>2. IsNode(ns[i]) /\ IsSeq(ns[i].args)
    BY <1>1, <2>1 DEF IsBlock, IsNode
  <2>3. IsSeq(args)
    BY <2>2, SetArgIs
  <2>4. SetLeaf(ns, name, v) = Put(ns, i, WithArgs(ns[i], args))
    BY <1>3, SetLeafIs DEF i
  <2> HIDE DEF args
  <2>5. /\ IsNode(WithArgs(ns[i], args)) /\ WithArgs(ns[i], args).name = ns[i].name
        /\ WithArgs(ns[i], args).kids = ns[i].kids
    BY <2>2, <2>3, WithArgsIs
  <2>6. IsBlock(ns[i].kids)
    BY <2>1 DEF HasBlocks
  <2> QED
    BY <2>1, <2>4, <2>5, <2>6, PutInBlocks
<1> QED
  BY <1>2, <1>3

\* The first node of that name has a block.
HasBlock(ns, name) == Position(ns, name) # 0 /\ ns[Position(ns, name)].block

LEMMA PutKidsIs ==
  ASSUME NEW ns, NEW name, NEW kids
  PROVE  /\ ~HasBlock(ns, name) => PutKids(ns, name, kids) = ns
         /\ HasBlock(ns, name) =>
              /\ KidsAt(ns, name) = ns[Position(ns, name)].kids
              /\ PutKids(ns, name, kids) =
                   Put(ns, Position(ns, name), WithKids(ns[Position(ns, name)], kids))
  BY DEF PutKids, Put, WithKids, HasBlock, KidsAt

LEMMA PutKidsInBlocks ==
  ASSUME NEW ns, HasBlocks(ns), NEW name, NEW kids, IsBlock(kids)
  PROVE  /\ HasBlocks(PutKids(ns, name, kids)) /\ Near(ns, PutKids(ns, name, kids))
         /\ SameNames(ns, PutKids(ns, name, kids))
<1> DEFINE i == Position(ns, name)
<1>1. IsSeq(ns) /\ IsBlock(ns)
  BY DEF HasBlocks, IsBlock
<1>2. CASE ~HasBlock(ns, name)
  <2>1. PutKids(ns, name, kids) = ns
    BY <1>2, PutKidsIs
  <2> QED
    BY <2>1, NearSelf DEF SameNames
<1>3. CASE HasBlock(ns, name)
  <2>1. i \in DOMAIN ns
    BY <1>1, <1>3, PositionIs DEF HasBlock
  <2>2. PutKids(ns, name, kids) = Put(ns, i, WithKids(ns[i], kids))
    BY <1>3, PutKidsIs
  <2> HIDE DEF i
  <2>3. IsNode(ns[i]) /\ ns[i].block
    BY <1>1, <1>3, <2>1 DEF IsBlock, HasBlock, i
  <2>4. /\ IsNode(WithKids(ns[i], kids)) /\ WithKids(ns[i], kids).name = ns[i].name
        /\ WithKids(ns[i], kids).kids = kids
    BY <2>3, WithKidsIs
  <2> QED
    BY <2>1, <2>2, <2>4, PutInBlocks
<1> QED
  BY <1>2, <1>3

LEMMA PutKidsChanges ==
  ASSUME NEW d, IsDocument(d), NEW name, NEW kids,
         HasBlocks(kids), Near(KidsAt(d, name), kids)
  PROVE  OneChanged(d, PutKids(d, name, kids), name)
<1> DEFINE i == Position(d, name)
<1>1. IsSeq(d)
  BY DEF IsDocument, IsBlock
<1>2. CASE ~HasBlock(d, name)
  BY <1>2, PutKidsIs DEF OneChanged
<1>3. CASE HasBlock(d, name)
  <2>1. i \in DOMAIN d /\ d[i].name = name
    BY <1>1, <1>3, PositionIs DEF HasBlock
  <2>2. /\ PutKids(d, name, kids) = Put(d, i, WithKids(d[i], kids))
        /\ KidsAt(d, name) = d[i].kids /\ d[i].block
    BY <1>3, PutKidsIs DEF HasBlock
  <2> HIDE DEF i
  <2> DEFINE m == WithKids(d[i], kids)
  <2>3. IsNode(m) /\ m.name = name /\ m.kids = kids
    <3>1. IsNode(d[i])
      BY <2>1, KidsAreBlocks
    <3> QED
      BY <2>1, <2>2, <3>1, WithKidsIs
  <2> HIDE DEF m
  <2>4. NearBlocks(d[i].kids, m.kids)
    BY <2>2, <2>3 DEF NearBlocks
  <2>5. Becomes(d[i], m, name)
    BY <2>1, <2>3, <2>4 DEF Becomes
  <2> QED
    BY <2>1, <2>2, <2>5, PutChanges DEF m
<1> QED
  BY <1>2, <1>3

LEMMA SetSettingChanges ==
  ASSUME NEW d, IsDocument(d), NEW path, Len(path) \in 1..3, NEW v
  PROVE  OneChanged(d, SetSetting(d, path, v), path[1])
<1> DEFINE block == KidsAt(d, path[1])
           inner == KidsAt(block, path[2])
<1>1. HasBlocks(block) /\ IsBlock(block)
  BY KidsAtAreBlocks DEF HasBlocks
<1>2. IsBlock(inner)
  BY <1>1, KidsAtKids
<1>3. CASE Len(path) = 1
  <2> DEFINE i == Position(d, path[1])
             args == SetArg(d[i].args, 1, v)
  <2>1. SetSetting(d, path, v) = SetLeaf(d, path[1], v)
    BY <1>3 DEF SetSetting
  <2>2. IsSeq(d)
    BY DEF IsDocument, IsBlock
  <2>3. CASE i = 0
    BY <2>1, <2>3, SetLeafIs DEF OneChanged
  <2>4. CASE i # 0
    <3>1. i \in DOMAIN d /\ d[i].name = path[1]
      BY <2>2, <2>4, PositionIs
    <3>2. SetLeaf(d, path[1], v) = Put(d, i, WithArgs(d[i], args))
      BY <2>4, SetLeafIs
    <3>3. IsSeq(d[i].args)
      BY <3>1, KidsAreBlocks DEF IsNode
    <3>4. IsSeq(args)
      BY <3>3, SetArgIs
    <3> HIDE DEF i, args
    <3> QED
      BY <2>1, <3>1, <3>2, <3>4, ArgsBecome
  <2> QED
    BY <2>3, <2>4
<1>4. CASE Len(path) = 2
  <2> HIDE DEF block
  <2> DEFINE kids == SetLeaf(block, path[2], v)
  <2>1. HasBlocks(kids) /\ Near(block, kids)
    BY <1>1, SetLeafInBlock, SetLeafInBlocks
  <2>2. SetSetting(d, path, v) = PutKids(d, path[1], kids)
    BY <1>4 DEF SetSetting, block
  <2> HIDE DEF kids
  <2> QED
    BY <2>1, <2>2, PutKidsChanges DEF block
<1>5. CASE Len(path) = 3
  <2> HIDE DEF block, inner
  <2> DEFINE leaves == SetLeaf(inner, path[3], v)
             kids == PutKids(block, path[2], leaves)
  <2>1. IsBlock(leaves)
    BY <1>2, SetLeafInBlock
  <2>2. SetSetting(d, path, v) = PutKids(d, path[1], kids)
    BY <1>5 DEF SetSetting, block, inner
  <2> HIDE DEF leaves
  <2>3. HasBlocks(kids) /\ Near(block, kids)
    BY <1>1, <2>1, PutKidsInBlocks
  <2> HIDE DEF kids
  <2> QED
    BY <2>2, <2>3, PutKidsChanges DEF block
<1> QED
  BY <1>3, <1>4, <1>5

LEMMA FrontOfAppend ==
  ASSUME NEW s, IsSeq(s), NEW x
  PROVE  Append(s, x) # <<>> /\ s = Front(Append(s, x))
<1> DEFINE S == Range(s) \cup {x}
           t == Append(s, x)
<1>1. Len(s) \in Nat /\ DOMAIN s = 1..Len(s)
  BY SeqIs
<1>2. s \in Seq(S) /\ x \in S
  BY <1>1, SeqIs DEF Range
<1>3. t # <<>> /\ t \in Seq(S) /\ Len(t) = Len(s) + 1 /\ \A j \in 1..Len(s) : t[j] = s[j]
  BY <1>2, AppendProperties
<1> HIDE DEF t, S
<1>4. Len(t) - 1 = Len(s)
  BY <1>1, <1>3
<1>5. /\ SubSeq(t, 1, Len(s)) \in Seq(S) /\ Len(SubSeq(t, 1, Len(s))) = Len(s)
      /\ \A j \in 1..Len(s) : SubSeq(t, 1, Len(s))[j] = s[j]
  BY <1>1, <1>3
<1>6. s = SubSeq(t, 1, Len(s))
  BY <1>2, <1>5, SeqEqual
<1> QED
  BY <1>3, <1>4, <1>6 DEF Front, t

LEMMA AppendBlocks ==
  ASSUME NEW ns, HasBlocks(ns), NEW n, IsNode(n), IsBlock(n.kids)
  PROVE  HasBlocks(Append(ns, n)) /\ NearBlocks(ns, Append(ns, n))
<1>1. IsSeq(ns)
  BY DEF HasBlocks, IsBlock
<1>2. /\ IsSeq(Append(ns, n)) /\ DOMAIN Append(ns, n) = 1 .. Len(ns) + 1
      /\ Append(ns, n)[Len(ns) + 1] = n
      /\ \A j \in DOMAIN ns : Append(ns, n)[j] = ns[j]
  BY <1>1, AppendIs
<1>3. Len(ns) \in Nat /\ DOMAIN ns = 1..Len(ns)
  BY <1>1, SeqIs
<1>4. \A j \in DOMAIN Append(ns, n) : j = Len(ns) + 1 \/ j \in DOMAIN ns
  BY <1>2, <1>3
<1>5. HasBlocks(Append(ns, n))
  BY <1>2, <1>4 DEF HasBlocks, IsBlock
<1> QED
  BY <1>1, <1>5, FrontOfAppend DEF NearBlocks

LEMMA NewKidIsNode ==
  ASSUME NEW name, NEW v
  PROVE  /\ IsNode(NewKid(name, v)) /\ IsBlock(NewKid(name, v).kids)
         /\ NewKid(name, v).name = name /\ NewKid(name, v).args = <<Arg(v)>>
<1>1. IsSeq(<<Arg(v)>>)
  <2>1. DOMAIN <<Arg(v)>> = 1..1 /\ <<Arg(v)>> = [i \in 1..1 |-> <<Arg(v)>>[i]]
    OBVIOUS
  <2>2. 1 \in Nat
    OBVIOUS
  <2> QED
    BY <2>1, <2>2, SeqBy
<1>2. IsBlock(<<>>)
  BY NoBlocks
<1> QED
  BY <1>1, <1>2 DEF IsNode, NewKid

\* A block with other children, the last of which ends its line.
Filled(n, kids) == [n EXCEPT !.kids = kids, !.ends = "line"]

LEMMA FieldsFilled ==
  ASSUME NEW n, NEW a, NEW b, NEW c, NEW d, NEW e, NEW kids,
         n = [name |-> a, args |-> b, block |-> c, kids |-> d, ends |-> e]
  PROVE  Filled(n, kids) = [name |-> a, args |-> b, block |-> c, kids |-> kids, ends |-> "line"]
<1> DEFINE m == [n EXCEPT !.kids = kids]
<1>1. m = [name |-> a, args |-> b, block |-> c, kids |-> kids, ends |-> e]
  OBVIOUS
<1>2. Filled(n, kids) = [m EXCEPT !.ends = "line"]
  BY DEF Filled
<1> HIDE DEF m
<1>3. [m EXCEPT !.ends = "line"] = [name |-> a, args |-> b, block |-> c, kids |-> kids, ends |-> "line"]
  BY <1>1
<1> QED
  BY <1>2, <1>3

LEMMA FilledIs ==
  ASSUME NEW n, IsNode(n), n.block, NEW kids
  PROVE  /\ IsNode(Filled(n, kids))
         /\ Filled(n, kids).name = n.name /\ Filled(n, kids).args = n.args
         /\ Filled(n, kids).kids = kids /\ Filled(n, kids).ends = "line"
<1>1. n = [name |-> n.name, args |-> n.args, block |-> n.block, kids |-> n.kids, ends |-> n.ends]
  BY DEF IsNode
<1>2. Filled(n, kids) =
        [name |-> n.name, args |-> n.args, block |-> n.block, kids |-> kids, ends |-> "line"]
  BY <1>1, FieldsFilled
<1> QED
  BY <1>2 DEF IsNode

\* The four outcomes of a monitor's row.
KidSet(node, k, v) == WithKids(node, Put(node.kids, k, WithArgs(node.kids[k], SetArg(node.kids[k].args, 1, v))))

LastOf(node, name, v, bare) ==
  Lengthened(node.kids[Len(node.kids)], node.ends, name, v, bare)

Merged(node, name, v, bare) ==
  Filled(node, Put(node.kids, Len(node.kids), LastOf(node, name, v, bare)))

Grown(node, name, v) == Filled(node, Append(node.kids, NewKid(name, v)))

Merges(node, name) ==
  Position(node.kids, name) = 0 /\ Len(node.kids) # 0 /\ node.ends # "line"

LEMMA SetKidIs ==
  ASSUME NEW node, IsNode(node), NEW name, NEW v, NEW bare
  PROVE  /\ ~node.block => SetKid(node, name, v, bare) = node
         /\ node.block /\ Position(node.kids, name) # 0 =>
              SetKid(node, name, v, bare) = KidSet(node, Position(node.kids, name), v)
         /\ node.block /\ Merges(node, name) =>
              SetKid(node, name, v, bare) = Merged(node, name, v, bare)
         /\ node.block /\ Position(node.kids, name) = 0 /\ ~Merges(node, name) =>
              SetKid(node, name, v, bare) = Grown(node, name, v)
<1>1. ~node.block => SetKid(node, name, v, bare) = node
  BY DEF SetKid
<1>2. ASSUME node.block, Position(node.kids, name) # 0
      PROVE  SetKid(node, name, v, bare) = KidSet(node, Position(node.kids, name), v)
  BY <1>2 DEF SetKid, KidSet, WithKids, WithArgs, Put
<1>3. ASSUME node.block, Merges(node, name)
      PROVE  SetKid(node, name, v, bare) = Merged(node, name, v, bare)
  <2>1. SetKid(node, name, v, bare) = AddKid(node, name, v, bare)
    BY <1>3 DEF SetKid, Merges
  <2>2. AddKid(node, name, v, bare) = Merged(node, name, v, bare)
    BY <1>3 DEF AddKid, Merges, Merged, LastOf, Filled, Put
  <2> QED
    BY <2>1, <2>2
<1>4. ASSUME node.block, Position(node.kids, name) = 0, ~Merges(node, name)
      PROVE  SetKid(node, name, v, bare) = Grown(node, name, v)
  <2>1. SetKid(node, name, v, bare) = AddKid(node, name, v, bare)
    BY <1>4 DEF SetKid
  <2>2. AddKid(node, name, v, bare) = Grown(node, name, v)
    BY <1>4 DEF AddKid, Merges, Grown, Filled
  <2> QED
    BY <2>1, <2>2
<1> QED
  BY <1>1, <1>2, <1>3, <1>4

LEMMA AppendTwo ==
  ASSUME NEW s, IsSeq(s), NEW x, NEW y
  PROVE  /\ IsSeq(s \o <<x, y>>) /\ Len(s \o <<x, y>>) = Len(s) + 2
         /\ \A j \in DOMAIN s : (s \o <<x, y>>)[j] = s[j]
<1> DEFINE S == Range(s) \cup {x, y}
           t == s \o <<x, y>>
<1>1. Len(s) \in Nat /\ DOMAIN s = 1..Len(s)
  BY SeqIs
<1>2. s \in Seq(S) /\ x \in S /\ y \in S
  BY <1>1, SeqIs DEF Range
<1>3. <<x, y>> \in Seq(S) /\ Len(<<x, y>>) = 2
  BY <1>2
<1> HIDE DEF S
<1>4. t \in Seq(S) /\ Len(t) = Len(s) + 2 /\ \A j \in 1..Len(s) : t[j] = s[j]
  BY <1>1, <1>2, <1>3, ConcatProperties
<1> HIDE DEF t
<1>5. DOMAIN t = 1..Len(t) /\ t \in [1..Len(t) -> S] /\ Len(t) \in Nat
  BY <1>4, LenProperties
<1>6. t = [j \in 1..Len(t) |-> t[j]]
  BY <1>5
<1>7. IsSeq(t)
  BY <1>5, <1>6, SeqBy
<1> QED
  BY <1>1, <1>4, <1>7 DEF t

\* A node with another name and other entries.
LEMMA NodeRenamed ==
  ASSUME NEW n, IsNode(n), NEW name
  PROVE  LET m == [n EXCEPT !.name = name]
         IN  IsNode(m) /\ m.name = name /\ m.args = n.args /\ m.kids = n.kids
<1> DEFINE m == [n EXCEPT !.name = name]
<1>1. n = [name |-> n.name, args |-> n.args, block |-> n.block, kids |-> n.kids, ends |-> n.ends]
  BY DEF IsNode
<1>2. m = [name |-> name, args |-> n.args, block |-> n.block, kids |-> n.kids, ends |-> n.ends]
  BY <1>1
<1> QED
  BY <1>2 DEF IsNode

LEMMA RunOnIs ==
  ASSUME NEW n, IsNode(n), NEW bare
  PROVE  /\ IsNode(RunOn(n, bare)) /\ RunOn(n, bare).kids = n.kids
         /\ RunOn(n, bare).name \in {n.name, Joined, Stuck}
<1> DEFINE last == Len(n.args)
           word == IF last = 0 THEN n.name ELSE n.args[last].val
           both == IF bare /\ ~n.block /\ word \notin Num \cup Spaced \cup {Flag} THEN Joined ELSE Stuck
           x == [n.args[last] EXCEPT !.val = both]
<1>1. both \in {Joined, Stuck}
  OBVIOUS
<1>2. RunOn(n, bare) =
        IF last = 0 THEN [n EXCEPT !.name = both] ELSE WithArgs(n, Put(n.args, last, x))
  BY DEF RunOn, WithArgs, Put
<1>3. IsSeq(n.args)
  BY DEF IsNode
<1> HIDE DEF both, x
<1>4. CASE last = 0
  BY <1>1, <1>2, <1>4, NodeRenamed
<1>5. CASE last # 0
  <2>1. last \in DOMAIN n.args
    BY <1>3, <1>5, SeqIs
  <2>2. IsSeq(Put(n.args, last, x))
    BY <1>3, <2>1, PutIs
  <2> QED
    BY <1>2, <1>5, <2>2, WithArgsIs
<1> QED
  BY <1>4, <1>5

\* The last child keeps its name and its value behind a space.
LEMMA LengthenedIs ==
  ASSUME NEW kid, IsNode(kid), NEW ends, NEW name, NEW v, NEW bare
  PROVE  LET long == Lengthened(kid, ends, name, v, bare)
         IN  /\ IsNode(long) /\ long.kids = kid.kids
             /\ long.name \in {kid.name, Joined, Stuck}
             /\ ends = "space" /\ kid.args # <<>> =>
                  /\ long.name = kid.name
                  /\ Len(kid.args) >= 1 /\ Len(long.args) >= 1
                  /\ long.args[1] = kid.args[1]
<1> DEFINE long == Lengthened(kid, ends, name, v, bare)
<1>1. IsSeq(kid.args)
  BY DEF IsNode
<1>2. CASE ends = "space"
  <2> DEFINE first == Arg(IF kid.block THEN Stuck ELSE name)
             args == kid.args \o <<first, Arg(v)>>
  <2>1. long = WithArgs(kid, args)
    BY <1>2 DEF Lengthened, WithArgs
  <2> HIDE DEF first
  <2>2. /\ IsSeq(args) /\ Len(args) = Len(kid.args) + 2
        /\ \A j \in DOMAIN kid.args : args[j] = kid.args[j]
    BY <1>1, AppendTwo
  <2> HIDE DEF args, long
  <2>3. IsNode(long) /\ long.kids = kid.kids /\ long.name = kid.name /\ long.args = args
    BY <2>1, <2>2, WithArgsIs
  <2>4. ASSUME kid.args # <<>>
        PROVE  Len(kid.args) >= 1 /\ Len(args) >= 1 /\ args[1] = kid.args[1]
    <3>1. Len(kid.args) \in Nat /\ DOMAIN kid.args = 1..Len(kid.args)
      BY <1>1, SeqIs
    <3>2. Len(kid.args) # 0
      BY <1>1, <2>4, SeqIs
    <3> QED
      BY <2>2, <3>1, <3>2
  <2> QED
    BY <2>3, <2>4 DEF long
<1>3. CASE ends # "space"
  <2> DEFINE run == RunOn(kid, bare)
             args == Append(run.args, Arg(v))
  <2>1. long = WithArgs(run, args)
    BY <1>3 DEF Lengthened, WithArgs
  <2>2. IsNode(run) /\ run.kids = kid.kids /\ run.name \in {kid.name, Joined, Stuck}
    BY RunOnIs
  <2> HIDE DEF run
  <2>3. IsSeq(run.args)
    BY <2>2 DEF IsNode
  <2>4. IsSeq(args)
    BY <2>3, AppendIs
  <2> HIDE DEF args, long
  <2>5. IsNode(long) /\ long.kids = run.kids /\ long.name = run.name
    BY <2>1, <2>2, <2>4, WithArgsIs
  <2> QED
    BY <1>3, <2>2, <2>5 DEF long
<1> QED
  BY <1>2, <1>3

\* A block with another list of entries at one child.
LEMMA KidArgs ==
  ASSUME NEW kids, HasBlocks(kids), NEW k \in DOMAIN kids, NEW args, IsSeq(args)
  PROVE  /\ HasBlocks(Put(kids, k, WithArgs(kids[k], args)))
         /\ Near(kids, Put(kids, k, WithArgs(kids[k], args)))
         /\ SameNames(kids, Put(kids, k, WithArgs(kids[k], args)))
         /\ Put(kids, k, WithArgs(kids[k], args))[k].args = args
         /\ \A j \in DOMAIN kids : j # k => Put(kids, k, WithArgs(kids[k], args))[j] = kids[j]
<1> DEFINE n == WithArgs(kids[k], args)
<1>1. IsNode(kids[k]) /\ IsBlock(kids[k].kids)
  BY DEF HasBlocks, IsBlock
<1>2. IsNode(n) /\ n.name = kids[k].name /\ n.args = args /\ n.kids = kids[k].kids
  BY <1>1, WithArgsIs
<1> HIDE DEF n
<1>3. /\ HasBlocks(Put(kids, k, n)) /\ Near(kids, Put(kids, k, n)) /\ SameNames(kids, Put(kids, k, n))
      /\ Put(kids, k, n)[k] = n
      /\ \A j \in DOMAIN kids : j # k => Put(kids, k, n)[j] = kids[j]
  BY <1>1, <1>2, PutInBlocks
<1> QED
  BY <1>2, <1>3 DEF n

LEMMA SetKidBecomes ==
  ASSUME NEW node, IsNode(node), HasBlocks(node.kids), NEW name, NEW v, NEW bare
  PROVE  Becomes(node, SetKid(node, name, v, bare), node.name)
<1> DEFINE kids == node.kids
<1>1. IsSeq(kids) /\ IsBlock(kids)
  BY DEF HasBlocks, IsBlock
<1>2. \A k \in DOMAIN kids : IsNode(kids[k]) /\ IsSeq(kids[k].args)
  BY <1>1 DEF IsBlock, IsNode
<1>3. CASE ~node.block
  <2>1. SetKid(node, name, v, bare) = node
    BY <1>3, SetKidIs
  <2> QED
    BY <2>1, NearSelf DEF Becomes, NearBlocks
<1>4. ASSUME node.block, NEW k \in DOMAIN kids, NEW args, IsSeq(args)
      PROVE  Becomes(node, WithKids(node, Put(kids, k, WithArgs(kids[k], args))), node.name)
  <2> DEFINE other == Put(kids, k, WithArgs(kids[k], args))
  <2>1. HasBlocks(other) /\ Near(kids, other)
    BY <1>4, KidArgs
  <2> HIDE DEF other
  <2>2. /\ IsNode(WithKids(node, other)) /\ WithKids(node, other).name = node.name
        /\ WithKids(node, other).kids = other
    BY <1>4, WithKidsIs
  <2> QED
    BY <2>1, <2>2 DEF Becomes, NearBlocks, other
<1>5. CASE node.block /\ Position(kids, name) # 0
  <2> DEFINE k == Position(kids, name)
             args == SetArg(kids[k].args, 1, v)
  <2>1. k \in DOMAIN kids
    BY <1>1, <1>5, PositionIs
  <2>2. IsSeq(args)
    BY <1>2, <2>1, SetArgIs
  <2>3. SetKid(node, name, v, bare) = WithKids(node, Put(kids, k, WithArgs(kids[k], args)))
    BY <1>5, SetKidIs DEF KidSet
  <2> HIDE DEF k, args
  <2> QED
    BY <1>4, <1>5, <2>1, <2>2, <2>3
<1>6. ASSUME node.block, NEW other, HasBlocks(other), NearBlocks(kids, other)
      PROVE  Becomes(node, Filled(node, other), node.name)
  BY <1>6, FilledIs DEF Becomes
<1>7. CASE node.block /\ Merges(node, name)
  <2> DEFINE k == Len(kids)
             long == LastOf(node, name, v, bare)
             other == Put(kids, k, long)
  <2>1. k \in DOMAIN kids
    BY <1>1, <1>7, SeqIs DEF Merges
  <2>2. SetKid(node, name, v, bare) = Filled(node, other)
    BY <1>7, SetKidIs DEF Merged
  <2>3. IsNode(long) /\ long.kids = kids[k].kids
    BY <1>2, <2>1, LengthenedIs DEF LastOf
  <2> HIDE DEF long, k
  <2>4. IsBlock(long.kids)
    BY <2>1, <2>3, KidsOfKids
  <2>5. HasBlocks(other) /\ NearBlocks(kids, other)
    BY <2>1, <2>3, <2>4, PutInBlocks DEF NearBlocks
  <2> HIDE DEF other
  <2> QED
    BY <1>6, <1>7, <2>2, <2>5
<1>8. CASE node.block /\ Position(kids, name) = 0 /\ ~Merges(node, name)
  <2> DEFINE other == Append(kids, NewKid(name, v))
  <2>1. SetKid(node, name, v, bare) = Filled(node, other)
    BY <1>8, SetKidIs DEF Grown
  <2>2. HasBlocks(other) /\ NearBlocks(kids, other)
    BY NewKidIsNode, AppendBlocks
  <2> HIDE DEF other
  <2> QED
    BY <1>6, <1>8, <2>1, <2>2
<1> QED
  BY <1>3, <1>5, <1>7, <1>8

LEMMA FirstForIs ==
  ASSUME NEW d, IsSeq(d), NEW name, NEW monitor
  PROVE  /\ \A i \in DOMAIN d : IsFor(d[i], name, monitor) => FirstFor(d, name, monitor) # 0
         /\ FirstFor(d, name, monitor) # 0 =>
              /\ FirstFor(d, name, monitor) \in DOMAIN d
              /\ IsFor(d[FirstFor(d, name, monitor)], name, monitor)
<1> DEFINE P == {i \in 1..Len(d) : IsFor(d[i], name, monitor)}
<1>1. FirstFor(d, name, monitor) = FirstIn(P)
  BY DEF FirstFor, SelectInSeq, FirstIn
<1>2. Len(d) \in Nat /\ DOMAIN d = 1..Len(d)
  BY SeqIs
<1>3. \A i : i \in P <=> i \in DOMAIN d /\ IsFor(d[i], name, monitor)
  BY <1>2
<1>4. P \in SUBSET Nat /\ 0 \notin P
  BY <1>2
<1> HIDE DEF P
<1>5. CASE P = {}
  <2>1. FirstFor(d, name, monitor) = 0
    BY <1>1, <1>4, <1>5, FirstIs
  <2> QED
    BY <1>3, <1>5, <2>1
<1>6. CASE P # {}
  <2>1. FirstIn(P) \in P
    BY <1>4, <1>6, FirstIs
  <2> QED
    BY <1>1, <1>3, <1>4, <2>1
<1> QED
  BY <1>5, <1>6

LEMMA SetOutputChanges ==
  ASSUME NEW d, IsDocument(d), NEW monitor, NEW name, NEW v, NEW bare
  PROVE  OneChanged(d, SetOutput(d, monitor, name, v, bare), "output")
<1> DEFINE i == FirstFor(d, "output", monitor)
<1>1. IsSeq(d)
  BY DEF IsDocument, IsBlock
<1>2. CASE i = 0
  BY <1>2 DEF SetOutput, OneChanged
<1>3. CASE i # 0
  <2>1. SetOutput(d, monitor, name, v, bare) = Put(d, i, SetKid(d[i], name, v, bare))
    BY <1>3 DEF SetOutput, Put
  <2>2. i \in DOMAIN d /\ d[i].name = "output"
    BY <1>1, <1>3, FirstForIs DEF IsFor
  <2> HIDE DEF i
  <2>3. Becomes(d[i], SetKid(d[i], name, v, bare), "output")
    BY <2>2, KidsAreBlocks, SetKidBecomes
  <2> QED
    BY <2>1, <2>2, <2>3, PutChanges
<1> QED
  BY <1>2, <1>3

LEMMA SetWorkspaceChanges ==
  ASSUME NEW d, IsDocument(d), NEW monitor, NEW v
  PROVE  OneChanged(d, SetWorkspace(d, monitor, v), "preferred-workspace-for-output")
<1> DEFINE i == FirstFor(d, "preferred-workspace-for-output", monitor)
           args == SetArg(d[i].args, 2, v)
<1>1. IsSeq(d)
  BY DEF IsDocument, IsBlock
<1>2. CASE i = 0
  BY <1>2 DEF SetWorkspace, OneChanged
<1>3. CASE i # 0
  <2>1. SetWorkspace(d, monitor, v) = Put(d, i, WithArgs(d[i], args))
    BY <1>3 DEF SetWorkspace, Put, WithArgs
  <2>2. i \in DOMAIN d /\ d[i].name = "preferred-workspace-for-output"
    BY <1>1, <1>3, FirstForIs DEF IsFor
  <2>3. IsSeq(args)
    <3>1. IsSeq(d[i].args)
      BY <2>2, KidsAreBlocks DEF IsNode
    <3> QED
      BY <3>1, SetArgIs
  <2> HIDE DEF i, args
  <2> QED
    BY <2>1, <2>2, <2>3, ArgsBecome
<1> QED
  BY <1>2, <1>3

\* No two nodes are the idx-th of their name.
LEMMA NthIsOne ==
  ASSUME NEW ns, IsSeq(ns), NEW name, NEW idx,
         NEW i \in Nth(ns, name, idx), NEW j \in Nth(ns, name, idx)
  PROVE  i = j
<1> DEFINE A(k) == {m \in 1..k : ns[m].name = name}
<1>1. Len(ns) \in Nat /\ DOMAIN ns = 1..Len(ns)
  BY SeqIs
<1>2. \A k \in DOMAIN ns : IsFiniteSet(A(k)) /\ Cardinality(A(k)) \in Nat
  <2> TAKE k \in DOMAIN ns
  <2>1. IsFiniteSet(1..k)
    BY <1>1, FS_Interval
  <2>2. IsFiniteSet(A(k))
    BY <2>1, FS_Subset
  <2> QED
    BY <2>2, FS_CardinalityType
<1>3. ASSUME NEW k \in Nth(ns, name, idx), NEW l \in Nth(ns, name, idx), k < l
      PROVE  FALSE
  <2>1. /\ k \in DOMAIN ns /\ l \in DOMAIN ns /\ ns[l].name = name
        /\ Cardinality(A(k)) = idx /\ Cardinality(A(l)) = idx
    BY DEF Nth
  <2>2. l \notin A(k) /\ A(k) \cup {l} \subseteq A(l)
    BY <1>1, <1>3, <2>1
  <2>3. IsFiniteSet(A(k)) /\ IsFiniteSet(A(l)) /\ Cardinality(A(k)) \in Nat
    BY <1>2, <2>1
  <2> HIDE DEF A
  <2>4. Cardinality(A(k) \cup {l}) = Cardinality(A(k)) + 1
    BY <2>2, <2>3, FS_AddElement
  <2>5. Cardinality(A(k) \cup {l}) <= Cardinality(A(l))
    BY <2>2, <2>3, FS_Subset
  <2> QED
    BY <2>1, <2>3, <2>4, <2>5
<1>4. i \in Nat /\ j \in Nat
  BY <1>1 DEF Nth
<1> QED
  BY <1>3, <1>4

LEMMA SetStartupChanges ==
  ASSUME NEW d, IsDocument(d), NEW idx, NEW v
  PROVE  OneChanged(d, SetStartup(d, idx, v), "spawn-at-startup")
<1> DEFINE nth == Nth(d, "spawn-at-startup", idx)
           e == SetStartup(d, idx, v)
<1>1. IsSeq(d) /\ d = [i \in DOMAIN d |-> d[i]]
  BY SeqIs DEF IsDocument, IsBlock
<1>2. e = [k \in DOMAIN d |->
             IF k \in nth THEN WithArgs(d[k], SetArg(d[k].args, 1, v)) ELSE d[k]]
  BY DEF SetStartup, WithArgs
<1> HIDE DEF e
<1>3. CASE nth = {}
  BY <1>1, <1>2, <1>3 DEF OneChanged, e
<1>4. CASE nth # {}
  <2>1. PICK i \in nth : TRUE
    BY <1>4
  <2>2. \A k \in nth : k = i
    BY <1>1, <2>1, NthIsOne
  <2>3. i \in DOMAIN d /\ d[i].name = "spawn-at-startup"
    BY <2>1 DEF Nth
  <2> HIDE DEF nth
  <2> DEFINE args == SetArg(d[i].args, 1, v)
             n == WithArgs(d[i], args)
  <2>4. \A k \in DOMAIN d : e[k] = IF k = i THEN n ELSE d[k]
    BY <1>2, <2>1, <2>2
  <2>5. e = [k \in DOMAIN d |-> e[k]]
    BY <1>2
  <2>6. IsSeq(args)
    <3>1. IsSeq(d[i].args)
      BY <2>3, KidsAreBlocks DEF IsNode
    <3> QED
      BY <3>1, SetArgIs
  <2> HIDE DEF args, n
  <2>7. e = Put(d, i, n)
    BY <2>4, <2>5 DEF Put
  <2> QED
    BY <2>3, <2>6, <2>7, ArgsBecome DEF e, n
<1> QED
  BY <1>3, <1>4

LEMMA SetMatchChanges ==
  ASSUME NEW d, IsDocument(d), NEW idx, NEW prop, NEW v
  PROVE  OneChanged(d, SetMatch(d, idx, prop, v), "layer-rules")
<1> DEFINE rules == KidsAt(d, "layer-rules")
           nth == Nth(rules, "match", idx)
           kids == [k \in DOMAIN rules |->
                      IF k \in nth THEN WithArgs(rules[k], SetProp(rules[k].args, prop, v)) ELSE rules[k]]
<1>1. HasBlocks(rules) /\ IsSeq(rules)
  BY KidsAtAreBlocks
<1>2. SetMatch(d, idx, prop, v) = PutKids(d, "layer-rules", kids)
  BY DEF SetMatch, WithArgs
<1> HIDE DEF rules
<1>3. rules = [k \in DOMAIN rules |-> rules[k]]
  BY <1>1, SeqIs
<1>4. HasBlocks(kids) /\ Near(rules, kids)
  <2>1. CASE nth = {}
    <3>1. kids = rules
      BY <1>3, <2>1
    <3> QED
      BY <1>1, <3>1, NearSelf
  <2>2. CASE nth # {}
    <3>1. PICK i \in nth : TRUE
      BY <2>2
    <3>2. \A k \in nth : k = i
      BY <1>1, <3>1, NthIsOne
    <3>3. i \in DOMAIN rules
      BY <3>1 DEF Nth
    <3> HIDE DEF nth
    <3> DEFINE args == SetProp(rules[i].args, prop, v)
               n == WithArgs(rules[i], args)
    <3>4. \A k \in DOMAIN rules : kids[k] = IF k = i THEN n ELSE rules[k]
      BY <3>1, <3>2
    <3>5. kids = [k \in DOMAIN rules |-> kids[k]]
      OBVIOUS
    <3>6. IsSeq(args)
      <4>1. IsSeq(rules[i].args)
        BY <1>1, <3>3 DEF HasBlocks, IsBlock, IsNode
      <4> QED
        BY <4>1, AppendIs DEF SetProp
    <3> HIDE DEF args, n, kids
    <3>7. kids = Put(rules, i, n)
      BY <3>4, <3>5 DEF Put
    <3> QED
      BY <1>1, <3>3, <3>6, <3>7, KidArgs DEF n
  <2> QED
    BY <2>1, <2>2
<1> HIDE DEF kids
<1> QED
  BY <1>2, <1>4, PutKidsChanges DEF rules

WithName(n, name) == [n EXCEPT !.name = name]

LEMMA WithNameIs ==
  ASSUME NEW n, IsNode(n), NEW name
  PROVE  /\ IsNode(WithName(n, name)) /\ WithName(n, name).name = name
         /\ WithName(n, name).args = n.args /\ WithName(n, name).kids = n.kids
<1>1. n = [name |-> n.name, args |-> n.args, block |-> n.block, kids |-> n.kids, ends |-> n.ends]
  BY DEF IsNode
<1>2. WithName(n, name) =
        [name |-> name, args |-> n.args, block |-> n.block, kids |-> n.kids, ends |-> n.ends]
  BY <1>1 DEF WithName
<1> QED
  BY <1>2 DEF IsNode

LEMMA SetChordIs ==
  ASSUME NEW d, NEW idx, NEW chord
  PROVE  /\ idx > Len(KidsAt(d, "binds")) => SetChord(d, idx, chord) = d
         /\ ~(idx > Len(KidsAt(d, "binds"))) =>
              SetChord(d, idx, chord) =
                PutKids(d, "binds",
                        Put(KidsAt(d, "binds"), idx, WithName(KidsAt(d, "binds")[idx], chord)))
  BY DEF SetChord, Put, WithName

LEMMA SetActionIs ==
  ASSUME NEW d, NEW idx, NEW action
  PROVE  /\ idx > Len(KidsAt(d, "binds")) => SetAction(d, idx, action) = d
         /\ ~(idx > Len(KidsAt(d, "binds"))) =>
              SetAction(d, idx, action) =
                PutKids(d, "binds",
                        Put(KidsAt(d, "binds"), idx,
                            WithArgs(KidsAt(d, "binds")[idx], Args(Words(action)))))
  BY DEF SetAction, Put, WithArgs

------------------------------------------------------------------------------
(* The words of an action *)

Parts(action) == [j \in DOMAIN action |-> IF action[j] \in Spaced THEN Halves ELSE <<action[j]>>]

LEMMA WordsAre ==
  ASSUME NEW action \in Seq(Num \cup Str)
  PROVE  /\ Words(action) \in Seq(Num \cup Str)
         /\ (\A j \in DOMAIN action : action[j] \notin Spaced) => Words(action) = action
<1> DEFINE V == Num \cup Str
           parts == Parts(action)
           N == Len(action)
<1>1. N \in Nat /\ DOMAIN action = 1..N /\ \A j \in 1..N : action[j] \in V
  OBVIOUS
<1>2. Halves \in Seq(V)
  <2>1. Halves \in Seq(Str \ Spaced)
    BY SectionsAssumption
  <2> QED
    BY <2>1
<1>3. parts \in Seq(Seq(V)) /\ Len(parts) = N
  <2>1. \A j \in 1..N : (IF action[j] \in Spaced THEN Halves ELSE <<action[j]>>) \in Seq(V)
    <3> TAKE j \in 1..N
    <3>1. <<action[j]>> \in Seq(V)
      BY <1>1
    <3> QED
      BY <1>2, <3>1
  <2> QED
    BY <1>1, <2>1 DEF Parts
<1>4. Words(action) = FlattenSeq(parts)
  BY DEF Words, Parts
<1>5. CASE N = 0
  <2>1. parts = <<>> /\ action = <<>>
    BY <1>3, <1>5
  <2>2. FlattenSeq(parts) = parts
    BY <1>3, <1>5 DEF FlattenSeq
  <2> QED
    BY <1>4, <2>1, <2>2
<1>6. CASE N # 0
  <2> HIDE DEF parts, V
  <2>1. PICK f : /\ FlatIs(parts, f)
                 /\ f \in [1..N -> Seq(V)]
                 /\ FlattenSeq(parts) = f[N]
    BY <1>3, <1>6, Flattened
  <2>2. Words(action) \in Seq(V)
    BY <1>1, <1>4, <1>6, <2>1
  <2>3. ASSUME \A j \in DOMAIN action : action[j] \notin Spaced
        PROVE  Words(action) = action
    <3>1. \A j \in 1..N : parts[j] = <<action[j]>>
      BY <1>1, <2>3 DEF Parts, parts
    <3>2. f = [i \in 1..N |-> IF i = 1 THEN <<action[i]>> ELSE f[i - 1] \o <<action[i]>>]
      BY <1>3, <2>1, <3>1 DEF FlatIs
    <3>3. action \in Seq(V)
      BY DEF V
    <3> DEFINE T == {n \in Nat : n + 1 \in 1..N => f[n + 1] = SubSeq(action, 1, n + 1)}
    <3>4. 0 \in T
      <4>1. 1 \in 1..N /\ f[1] = <<action[1]>>
        BY <1>1, <1>6, <3>2
      <4>2. /\ SubSeq(action, 1, 1) \in Seq(V) /\ Len(SubSeq(action, 1, 1)) = 1
            /\ SubSeq(action, 1, 1)[1] = action[1]
        BY <3>3, <4>1
      <4>3. <<action[1]>> \in Seq(V) /\ Len(<<action[1]>>) = 1 /\ <<action[1]>>[1] = action[1]
        BY <1>1, <4>1 DEF V
      <4>4. SubSeq(action, 1, 1) = <<action[1]>>
        <5>1. \A i \in 1..1 : SubSeq(action, 1, 1)[i] = <<action[1]>>[i]
          BY <4>2, <4>3
        <5> QED
          BY <4>2, <4>3, <5>1, SeqEqual
      <4> QED
        BY <4>1, <4>4
    <3>5. ASSUME NEW n \in T
          PROVE  n + 1 \in T
      <4> SUFFICES ASSUME (n + 1) + 1 \in 1..N
                   PROVE  f[(n + 1) + 1] = SubSeq(action, 1, (n + 1) + 1)
        OBVIOUS
      <4>1. n + 1 \in 1..N /\ (n + 1) + 1 # 1 /\ ((n + 1) + 1) - 1 = n + 1
        BY <1>1
      <4>2. f[(n + 1) + 1] = f[n + 1] \o <<action[(n + 1) + 1]>>
        BY <3>2, <4>1
      <4>3. f[n + 1] = SubSeq(action, 1, n + 1)
        BY <4>1
      <4>4. 1 \in 1..Len(action) /\ (n + 1) + 1 \in 1..Len(action)
        BY <1>1, <4>1
      <4>5. SubSeq(action, 1, (n + 1) + 1) =
              SubSeq(action, 1, ((n + 1) + 1) - 1) \o <<action[(n + 1) + 1]>>
        BY <3>3, <4>4, SubSeqRecursiveSecond
      <4> QED
        BY <4>1, <4>2, <4>3, <4>5
    <3>6. T = Nat
      <4>1. T \in SUBSET Nat
        OBVIOUS
      <4> HIDE DEF T
      <4> QED
        BY <3>4, <3>5, <4>1, NumberInduction
    <3>7. N - 1 \in T /\ (N - 1) + 1 = N
      <4>1. N - 1 \in Nat /\ (N - 1) + 1 = N
        BY <1>1, <1>6
      <4> HIDE DEF T
      <4> QED
        BY <3>6, <4>1
    <3>8. f[N] = SubSeq(action, 1, N)
      BY <1>1, <1>6, <3>7
    <3> QED
      BY <1>4, <2>1, <3>3, <3>8, SubSeqFull
  <2> QED
    BY <2>2, <2>3 DEF V
<1> QED
  BY <1>5, <1>6

------------------------------------------------------------------------------
(* Every row changes one node of its section *)

LEMMA ArgsIs ==
  ASSUME NEW V, NEW words \in Seq(V)
  PROVE  IsSeq(Args(words)) /\ Len(Args(words)) = Len(words)
<1>1. Len(words) \in Nat /\ DOMAIN words = 1..Len(words)
  OBVIOUS
<1>2. DOMAIN Args(words) = 1..Len(words) /\ Args(words) = [i \in 1..Len(words) |-> Args(words)[i]]
  BY <1>1 DEF Args
<1> QED
  BY <1>1, <1>2, SeqBy

LEMMA SetChordChanges ==
  ASSUME NEW d, IsDocument(d), NEW idx \in Nat \ {0}, NEW chord
  PROVE  OneChanged(d, SetChord(d, idx, chord), "binds")
<1> DEFINE binds == KidsAt(d, "binds")
           n == WithName(binds[idx], chord)
<1>1. HasBlocks(binds) /\ IsSeq(binds)
  BY KidsAtAreBlocks
<1>2. CASE idx > Len(binds)
  BY <1>2, SetChordIs DEF OneChanged
<1>3. CASE ~(idx > Len(binds))
  <2>1. SetChord(d, idx, chord) = PutKids(d, "binds", Put(binds, idx, n))
    BY <1>3, SetChordIs
  <2> HIDE DEF binds
  <2>2. idx \in DOMAIN binds
    BY <1>1, <1>3, SeqIs
  <2>3. IsNode(n) /\ IsBlock(n.kids)
    BY <1>1, <2>2, WithNameIs DEF HasBlocks, IsBlock
  <2> HIDE DEF n
  <2>4. HasBlocks(Put(binds, idx, n)) /\ Near(binds, Put(binds, idx, n))
    BY <1>1, <2>2, <2>3, PutInBlocks
  <2> QED
    BY <2>1, <2>4, PutKidsChanges DEF binds
<1> QED
  BY <1>2, <1>3

LEMMA SetActionChanges ==
  ASSUME NEW d, IsDocument(d), NEW idx \in Nat \ {0}, NEW action \in Seq(Num \cup Str)
  PROVE  OneChanged(d, SetAction(d, idx, action), "binds")
<1> DEFINE binds == KidsAt(d, "binds")
           args == Args(Words(action))
<1>1. HasBlocks(binds) /\ IsSeq(binds)
  BY KidsAtAreBlocks
<1>2. CASE idx > Len(binds)
  BY <1>2, SetActionIs DEF OneChanged
<1>3. CASE ~(idx > Len(binds))
  <2>1. SetAction(d, idx, action) = PutKids(d, "binds", Put(binds, idx, WithArgs(binds[idx], args)))
    BY <1>3, SetActionIs
  <2> HIDE DEF binds
  <2>2. idx \in DOMAIN binds
    BY <1>1, <1>3, SeqIs
  <2>3. IsSeq(args)
    BY WordsAre, ArgsIs
  <2> HIDE DEF args
  <2> DEFINE kids == Put(binds, idx, WithArgs(binds[idx], args))
  <2>4. HasBlocks(kids) /\ Near(binds, kids)
    BY <1>1, <2>2, <2>3, KidArgs
  <2> HIDE DEF kids
  <2> QED
    BY <2>1, <2>4, PutKidsChanges DEF binds, kids
<1> QED
  BY <1>2, <1>3

OfNode == {"scale", "mode", "workspace", "startup"}
OfKid == {"app-id", "rule-workspace", "chord", "action"}

\* What the rows of a document are.
LEMMA RowsAre ==
  ASSUME NEW d, IsDocument(d), NEW row \in Rows(d)
  PROVE  /\ row = <<row[1], row[2]>>
         /\ row[1] \in {"setting"} \cup OfNode \cup OfKid
         /\ row[1] = "setting" => row[2] \in Settings
         /\ row[1] \in OfNode => /\ row[2] = <<row[2][1]>> /\ row[2][1] \in DOMAIN d
                                 /\ d[row[2][1]].name = SectionOf(row)
         /\ row[1] \in OfKid => /\ row[2] = <<row[2][1], row[2][2]>>
                                /\ row[2][1] = Position(d, SectionOf(row)) /\ row[2][1] \in DOMAIN d
                                /\ row[2][2] \in DOMAIN KidsAt(d, SectionOf(row))
                                /\ d[row[2][1]].name = SectionOf(row)
<1>1. IsSeq(d)
  BY DEF IsDocument, IsBlock
<1>2. CASE row \in {"setting"} \X Settings
  BY <1>2 DEF OfNode, OfKid
<1>3. ASSUME NEW kind \in OfNode, NEW name, row \in {kind} \X NodesNamed(d, name)
      PROVE  /\ row = <<row[1], row[2]>> /\ row[1] = kind /\ row[2] = <<row[2][1]>>
             /\ row[2][1] \in DOMAIN d /\ d[row[2][1]].name = name
  BY <1>3 DEF NodesNamed
<1>4. ASSUME NEW kind \in OfKid, NEW name, NEW kids, row \in {kind} \X kids,
             kids = {} \/ /\ Position(d, name) # 0
                          /\ \A at \in kids : /\ at = <<at[1], at[2]>> /\ at[1] = Position(d, name)
                                              /\ at[2] \in DOMAIN d[Position(d, name)].kids
      PROVE  /\ row = <<row[1], row[2]>> /\ row[1] = kind /\ row[2] = <<row[2][1], row[2][2]>>
             /\ row[2][1] = Position(d, name) /\ row[2][1] \in DOMAIN d
             /\ row[2][2] \in DOMAIN KidsAt(d, name)
             /\ d[row[2][1]].name = name
  BY <1>1, <1>4, PositionIs DEF KidsAt
<1> DEFINE matches == KidsOf(d, "layer-rules", LAMBDA kid : kid.name = "match")
           binds == KidsOf(d, "binds", LAMBDA kid : TRUE)
           Fits(kids, name) ==
             kids = {} \/ /\ Position(d, name) # 0
                          /\ \A at \in kids : /\ at = <<at[1], at[2]>> /\ at[1] = Position(d, name)
                                              /\ at[2] \in DOMAIN d[Position(d, name)].kids
<1>5. Fits(matches, "layer-rules")
  BY DEF KidsOf
<1>6. Fits(binds, "binds")
  BY DEF KidsOf
<1>7. \/ row \in {"setting"} \X Settings
      \/ \E kind \in {"scale", "mode"} : row \in {kind} \X NodesNamed(d, "output")
      \/ row \in {"workspace"} \X NodesNamed(d, "preferred-workspace-for-output")
      \/ row \in {"startup"} \X NodesNamed(d, "spawn-at-startup")
      \/ \E kind \in {"app-id", "rule-workspace"} : row \in {kind} \X matches
      \/ \E kind \in {"chord", "action"} : row \in {kind} \X binds
  BY DEF Rows
<1> HIDE DEF matches, binds, Fits
<1>8. ASSUME NEW kind \in {"scale", "mode"}, row \in {kind} \X NodesNamed(d, "output")
      PROVE  /\ row = <<row[1], row[2]>> /\ row[1] = kind /\ row[2] = <<row[2][1]>>
             /\ row[2][1] \in DOMAIN d /\ d[row[2][1]].name = SectionOf(row)
  BY <1>3, <1>8 DEF OfNode, SectionOf
<1>9. CASE row \in {"workspace"} \X NodesNamed(d, "preferred-workspace-for-output")
  BY <1>3, <1>9 DEF OfNode, OfKid, SectionOf
<1>10. CASE row \in {"startup"} \X NodesNamed(d, "spawn-at-startup")
  BY <1>3, <1>10 DEF OfNode, OfKid, SectionOf
<1>11. ASSUME NEW kind \in {"app-id", "rule-workspace"}, row \in {kind} \X matches
       PROVE  /\ row = <<row[1], row[2]>> /\ row[1] = kind
              /\ SectionOf(row) = "layer-rules" /\ row[2] = <<row[2][1], row[2][2]>>
              /\ row[2][1] = Position(d, "layer-rules") /\ row[2][1] \in DOMAIN d
              /\ row[2][2] \in DOMAIN KidsAt(d, "layer-rules")
              /\ d[row[2][1]].name = "layer-rules"
  BY <1>4, <1>5, <1>11 DEF OfKid, SectionOf, Fits
<1>12. ASSUME NEW kind \in {"chord", "action"}, row \in {kind} \X binds
       PROVE  /\ row = <<row[1], row[2]>> /\ row[1] = kind
              /\ SectionOf(row) = "binds" /\ row[2] = <<row[2][1], row[2][2]>>
              /\ row[2][1] = Position(d, "binds") /\ row[2][1] \in DOMAIN d
              /\ row[2][2] \in DOMAIN KidsAt(d, "binds")
              /\ d[row[2][1]].name = "binds"
  BY <1>4, <1>6, <1>12 DEF OfKid, SectionOf, Fits
<1> QED
  BY <1>2, <1>7, <1>8, <1>9, <1>10, <1>11, <1>12 DEF OfNode, OfKid

\* What a bind's or a rule's row knows of its node is a place counted from 1.
LEMMA PlacesCount ==
  ASSUME NEW d, IsDocument(d), NEW row \in Rows(d)
  PROVE  row[1] \in OfKid => row[2][2] \in Nat \ {0}
<1> SUFFICES ASSUME row[1] \in OfKid PROVE row[2][2] \in Nat \ {0}
  OBVIOUS
<1> DEFINE kids == KidsAt(d, SectionOf(row))
<1>1. row[2][2] \in DOMAIN kids
  BY RowsAre
<1>2. IsSeq(kids)
  BY KidsAtAreBlocks
<1> HIDE DEF kids
<1>3. DOMAIN kids = 1..Len(kids) /\ Len(kids) \in Nat
  BY <1>2, SeqIs
<1> QED
  BY <1>1, <1>3

LEMMA ActionsAre ==
  ASSUME NEW row, row[1] = "action", NEW v \in Input(row)
  PROVE  v \in Seq(Num \cup Str)
<1>1. PICK a \in Str, b \in Num \cup Str : v = <<a, b>>
  BY SectionsAssumption DEF Input
<1> QED
  BY <1>1

\* A row reads the values it can be given.
LEMMA InputsAre ==
  ASSUME NEW row, NEW v \in Input(row)
  PROVE  /\ row[1] = "setting" => v \in IF row[2] \in Spins THEN Num ELSE Str
         /\ row[1] \in {"scale", "workspace"} => v \in Num
         /\ row[1] = "mode" => v \in Str
BY SectionsAssumption DEF Input

LEMMA EditedChanges ==
  ASSUME NEW d, IsDocument(d), IsDocument(built), NEW row \in Rows(built), NEW v \in Input(row), NEW bare
  PROVE  OneChanged(d, Edited(d, row, v, bare), SectionOf(row))
<1>1. CASE row[1] = "setting"
  <2>1. Edited(d, row, v, bare) = SetSetting(d, row[2], v) /\ SectionOf(row) = row[2][1]
    BY <1>1 DEF Edited, SectionOf
  <2>2. Len(row[2]) \in 1..3
    BY <1>1, RowsAre, SectionsAssumption
  <2> QED
    BY <2>1, <2>2, SetSettingChanges
<1>2. CASE row[1] \in {"scale", "mode"}
  <2>1. /\ Edited(d, row, v, bare) = SetOutput(d, Monitor(built[row[2][1]]), row[1], v, bare)
        /\ SectionOf(row) = "output"
    BY <1>2 DEF Edited, SectionOf
  <2> QED
    BY <2>1, SetOutputChanges
<1>3. CASE row[1] = "workspace"
  <2>1. /\ Edited(d, row, v, bare) = SetWorkspace(d, Monitor(built[row[2][1]]), v)
        /\ SectionOf(row) = "preferred-workspace-for-output"
    BY <1>3 DEF Edited, SectionOf
  <2> QED
    BY <2>1, SetWorkspaceChanges
<1>4. CASE row[1] = "startup"
  <2>1. Edited(d, row, v, bare) = SetStartup(d, row[2][1], v) /\ SectionOf(row) = "spawn-at-startup"
    BY <1>4 DEF Edited, SectionOf
  <2> QED
    BY <2>1, SetStartupChanges
<1>5. CASE row[1] \in {"app-id", "rule-workspace"}
  <2>1. /\ Edited(d, row, v, bare) = SetMatch(d, row[2][2], PropOf(row[1]), v)
        /\ SectionOf(row) = "layer-rules"
    BY <1>5 DEF Edited, SectionOf
  <2> QED
    BY <2>1, SetMatchChanges
<1>6. CASE row[1] = "chord"
  <2>1. Edited(d, row, v, bare) = SetChord(d, row[2][2], v) /\ SectionOf(row) = "binds"
    BY <1>6 DEF Edited, SectionOf
  <2>2. row[2][2] \in Nat \ {0}
    BY <1>6, PlacesCount DEF OfKid
  <2> QED
    BY <2>1, <2>2, SetChordChanges
<1>7. CASE row[1] = "action"
  <2>1. Edited(d, row, v, bare) = SetAction(d, row[2][2], v) /\ SectionOf(row) = "binds"
    BY <1>7 DEF Edited, SectionOf
  <2>2. row[2][2] \in Nat \ {0}
    BY <1>7, PlacesCount DEF OfKid
  <2>3. v \in Seq(Num \cup Str)
    BY <1>7, ActionsAre
  <2> QED
    BY <2>1, <2>2, <2>3, SetActionChanges
<1> QED
  BY <1>1, <1>2, <1>3, <1>4, <1>5, <1>6, <1>7, RowsAre DEF OfNode, OfKid

\* The buffer holds a document whenever it parses, and there is a row for each
\* row of the document they were built from.
Shape ==
  /\ built \in Doc \cup {<<>>}
  /\ doc = Unparsed \/ IsDocument(doc)
  /\ DOMAIN shown = Rows(built)

LEMMA DocumentsAre == \A d \in Doc \cup {<<>>} : IsDocument(d)
  BY NoBlocks, EmptyIsSeq, SectionsAssumption DEF IsDocument

LEMMA ShapeInit == Init => Shape
  BY DocumentsAre DEF Init, Shape

\* Any edit of a row, or a recording: the buffer is left alone or one node
\* of the row's section has changed.
LEMMA EditsChangeOne ==
  ASSUME Shape, NEW row \in DOMAIN shown, NEW v, NEW bare,
         (v \in Input(row) /\ EditRow(row, v, bare)) \/ Record(row, v)
  PROVE  /\ by' = row /\ row = <<row[1], row[2]>>
         /\ doc = Unparsed => doc' = doc
         /\ doc # Unparsed => IsDocument(doc)
         /\ doc # Unparsed /\ doc' # Unparsed => OneChanged(doc, doc', SectionOf(row))
<1>1. IsDocument(built) /\ row \in Rows(built) /\ (doc # Unparsed => IsDocument(doc))
  BY DocumentsAre DEF Shape
<1>2. row = <<row[1], row[2]>>
  BY <1>1, RowsAre
<1>3. CASE v \in Input(row) /\ EditRow(row, v, bare)
  <2>1. /\ by' = row
        /\ doc = Unparsed => doc' = doc
        /\ doc # Unparsed /\ doc' # Unparsed => doc' = Edited(doc, row, v, bare)
    BY <1>3 DEF EditRow, Written
  <2> QED
    BY <1>1, <1>2, <1>3, <2>1, EditedChanges
<1>4. CASE Record(row, v)
  <2>1. /\ by' = row /\ row[1] = "chord"
        /\ doc = Unparsed => doc' = doc
        /\ doc # Unparsed /\ doc' # Unparsed => doc' = SetChord(doc, row[2][2], v)
    BY <1>4 DEF Record, Written
  <2>2. SectionOf(row) = "binds" /\ row[2][2] \in Nat \ {0}
    BY <1>1, <2>1, PlacesCount DEF SectionOf, OfKid
  <2> QED
    BY <1>1, <1>2, <2>1, <2>2, SetChordChanges
<1> QED
  BY <1>3, <1>4

LEMMA ShapeNext == Shape /\ [Next]_vars => Shape'
<1> SUFFICES ASSUME Shape, [Next]_vars PROVE Shape'
  OBVIOUS
<1>1. ASSUME NEW row \in DOMAIN shown, NEW v \in Input(row), NEW bare \in BOOLEAN, EditRow(row, v, bare)
      PROVE  Shape'
  <2>1. doc' = Unparsed \/ IsDocument(doc')
    BY <1>1, EditsChangeOne, OneChangedIsDocument
  <2> QED
    BY <1>1, <2>1 DEF EditRow, Shape
<1>2. ASSUME NEW row \in DOMAIN shown, NEW chord \in Typed, Record(row, chord)
      PROVE  Shape'
  <2>1. doc' = Unparsed \/ IsDocument(doc')
    BY <1>2, EditsChangeOne, OneChangedIsDocument
  <2> QED
    BY <1>2, <2>1 DEF Record, Shape
<1>3. ASSUME NEW d \in Doc \cup {Unparsed}, Replaced(d)
      PROVE  Shape'
  BY <1>3, DocumentsAre DEF Replaced, Shape
<1>4. CASE UNCHANGED vars
  BY <1>4 DEF vars, Shape
<1> QED
  BY <1>1, <1>2, <1>3, <1>4 DEF Next

LEMMA ShapeKept == Spec => []Shape
  BY ShapeInit, ShapeNext, PTL DEF Spec

\* What a step of the rows does to the document.
LEMMA StepsChangeOne ==
  ASSUME Shape, [Next]_vars, by' # <<>>, doc # Unparsed, doc' # Unparsed
  PROVE  IsDocument(doc) /\ OneChanged(doc, doc', SectionOf(by'))
<1>1. IsDocument(doc)
  BY DEF Shape
<1>2. ASSUME NEW row \in DOMAIN shown, NEW v \in Input(row), NEW bare \in BOOLEAN, EditRow(row, v, bare)
      PROVE  OneChanged(doc, doc', SectionOf(by'))
  BY <1>2, EditsChangeOne
<1>3. ASSUME NEW row \in DOMAIN shown, NEW chord \in Typed, Record(row, chord)
      PROVE  OneChanged(doc, doc', SectionOf(by'))
  BY <1>3, EditsChangeOne
<1>4. ASSUME NEW d \in Doc \cup {Unparsed}, Replaced(d)
      PROVE  FALSE
  BY <1>4 DEF Replaced
<1>5. CASE UNCHANGED vars
  BY <1>1, <1>5 DEF vars, OneChanged
<1> QED
  BY <1>1, <1>2, <1>3, <1>4, <1>5 DEF Next

\* Whatever the documents, settings and values: a row changes one node of the
\* document and one child in it.
THEOREM RowsEditOneNode == Spec => EditsAreSmall
<1>1. Shape /\ [Next]_vars =>
        (by' # <<>> /\ doc # Unparsed /\ doc' # Unparsed =>
           /\ Near(doc, doc')
           /\ \A i \in DOMAIN doc : NearBlocks(doc[i].kids, doc'[i].kids))
  BY StepsChangeOne, OneChangedIsSmall
<1> QED
  BY <1>1, ShapeKept, PTL DEF Spec, EditsAreSmall

\* Whatever the documents: a row, stale or not, only changes a node of its own
\* section, and leaves it its name.
THEOREM RowsStayInSection == Spec => EditsStayInSection
<1>1. Shape /\ [Next]_vars =>
        (by' # <<>> /\ doc # Unparsed /\ doc' # Unparsed =>
           \A i \in DOMAIN doc :
             doc[i] # doc'[i] => doc[i].name = SectionOf(by') /\ doc'[i].name = doc[i].name)
  BY StepsChangeOne, OneChangedIsSmall
<1> QED
  BY <1>1, ShapeKept, PTL DEF Spec, EditsStayInSection

------------------------------------------------------------------------------
(* What is read after a change *)

LEMMA RowsDiffer ==
  ASSUME NEW d, IsDocument(d), NEW row \in Rows(d), NEW other \in Rows(d),
         row # other, row[1] = other[1]
  PROVE  /\ row[1] = "setting" => row[2] # other[2]
         /\ row[1] \in OfNode => row[2][1] # other[2][1]
         /\ row[1] \in OfKid => row[2][2] # other[2][2]
<1>1. row[2] # other[2]
  BY RowsAre
<1>2. ASSUME row[1] \in OfNode
      PROVE  row[2] = <<row[2][1]>> /\ other[2] = <<other[2][1]>>
  BY <1>2, RowsAre
<1>3. ASSUME row[1] \in OfKid
      PROVE  /\ row[2] = <<row[2][1], row[2][2]>> /\ other[2] = <<other[2][1], other[2][2]>>
             /\ row[2][1] = other[2][1]
  <2>1. SectionOf(row) = SectionOf(other)
    BY <1>3 DEF SectionOf, OfKid
  <2> QED
    BY <1>3, <2>1, RowsAre
<1> QED
  BY <1>1, <1>2, <1>3

\* Another list of entries at one node of a block.
LEMMA ArgsPut ==
  ASSUME NEW ns, IsBlock(ns), NEW k \in DOMAIN ns, NEW args, IsSeq(args)
  PROVE  LET ms == Put(ns, k, WithArgs(ns[k], args))
         IN  /\ IsBlock(ms)
             /\ \A name : /\ Position(ms, name) = Position(ns, name)
                          /\ KidsAt(ms, name) = KidsAt(ns, name)
             /\ \A name, readable :
                  /\ Position(ns, name) # k =>
                       ReadNode(ms, name, readable) = ReadNode(ns, name, readable)
                  /\ Position(ns, name) = k =>
                       ReadNode(ms, name, readable) = Read(args, 1, readable)
<1> DEFINE n == WithArgs(ns[k], args)
           ms == Put(ns, k, n)
<1>1. IsSeq(ns) /\ IsNode(ns[k])
  BY DEF IsBlock
<1>2. IsNode(n) /\ n.name = ns[k].name /\ n.args = args /\ n.kids = ns[k].kids
  BY <1>1, WithArgsIs
<1> HIDE DEF n
<1>3. /\ IsBlock(ms) /\ SameNames(ns, ms) /\ ms[k] = n
      /\ \A j \in DOMAIN ns : j # k => ms[j] = ns[j]
  BY <1>2, PutInBlock
<1>4. IsSeq(ms)
  BY <1>3 DEF IsBlock
<1> HIDE DEF ms
<1>5. \A name : Position(ms, name) = Position(ns, name)
  BY <1>1, <1>3, <1>4, SamePosition
<1>6. k # 0
  BY <1>1, SeqIs
<1>7. \A name : KidsAt(ms, name) = KidsAt(ns, name)
  <2> TAKE name
  <2>1. Position(ns, name) # 0 => Position(ns, name) \in DOMAIN ns
    BY <1>1, PositionIs
  <2> QED
    BY <1>2, <1>3, <1>5, <2>1 DEF KidsAt
<1>8. ASSUME NEW name, NEW readable
      PROVE  /\ Position(ns, name) # k =>
                  ReadNode(ms, name, readable) = ReadNode(ns, name, readable)
             /\ Position(ns, name) = k =>
                  ReadNode(ms, name, readable) = Read(args, 1, readable)
  <2>1. Position(ns, name) # 0 => Position(ns, name) \in DOMAIN ns
    BY <1>1, PositionIs
  <2> QED
    BY <1>2, <1>3, <1>5, <1>6, <2>1 DEF ReadNode
<1> QED
  BY <1>3, <1>5, <1>7, <1>8 DEF ms, n

LEMMA ReadSetArg ==
  ASSUME NEW args, IsSeq(args), NEW k \in Nat \ {0}, Len(args) + 1 >= k,
         NEW readable, NEW v \in readable
  PROVE  Read(SetArg(args, k, v), k, readable) = v
<1>1. Len(SetArg(args, k, v)) >= k /\ SetArg(args, k, v)[k] = Arg(v)
  BY SetArgIs
<1> QED
  BY <1>1 DEF Read, Arg

\* After a value was set at the first node of a name.
LEMMA SetLeafReads ==
  ASSUME NEW ns, IsBlock(ns), NEW name, NEW v
  PROVE  /\ \A other : KidsAt(SetLeaf(ns, name, v), other) = KidsAt(ns, other)
         /\ \A other, readable : other # name =>
              ReadNode(SetLeaf(ns, name, v), other, readable) = ReadNode(ns, other, readable)
         /\ \A readable : v \in readable /\ Default \notin readable =>
              ReadNode(SetLeaf(ns, name, v), name, readable) \in {v, Default}
<1> DEFINE i == Position(ns, name)
           args == SetArg(ns[i].args, 1, v)
           ms == Put(ns, i, WithArgs(ns[i], args))
<1>1. IsSeq(ns)
  BY DEF IsBlock
<1>2. CASE i = 0
  <2>1. SetLeaf(ns, name, v) = ns
    BY <1>2, SetLeafIs
  <2>2. \A readable : ReadNode(ns, name, readable) = Default
    BY <1>2 DEF ReadNode
  <2> QED
    BY <2>1, <2>2
<1>3. CASE i # 0
  <2>1. i \in DOMAIN ns /\ ns[i].name = name
    BY <1>1, <1>3, PositionIs
  <2>2. IsSeq(ns[i].args)
    BY <2>1 DEF IsBlock, IsNode
  <2>3. IsSeq(args)
    BY <2>2, SetArgIs
  <2>4. SetLeaf(ns, name, v) = ms
    BY <1>3, SetLeafIs
  <2> HIDE DEF args
  <2>5. /\ \A other : KidsAt(ms, other) = KidsAt(ns, other)
        /\ \A other, readable :
             /\ Position(ns, other) # i => ReadNode(ms, other, readable) = ReadNode(ns, other, readable)
             /\ Position(ns, other) = i => ReadNode(ms, other, readable) = Read(args, 1, readable)
    <3> HIDE DEF i
    <3> QED
      BY <2>1, <2>3, ArgsPut
  <2> HIDE DEF ms
  <2>6. \A other : other # name => Position(ns, other) # i
    BY <1>1, <1>3, <2>1, PositionIs
  <2>7. \A readable : v \in readable => Read(args, 1, readable) = v
    <3>1. 1 \in Nat \ {0} /\ Len(ns[i].args) + 1 >= 1
      BY <2>2, SeqIs
    <3> QED
      BY <2>2, <3>1, ReadSetArg DEF args
  <2> QED
    BY <2>4, <2>5, <2>6, <2>7
<1> QED
  BY <1>2, <1>3

\* After the first node of a name got another block.
LEMMA PutKidsReads ==
  ASSUME NEW ns, IsBlock(ns), NEW name, NEW kids, KidsAt(ns, name) = <<>> => kids = <<>>
  PROVE  /\ KidsAt(PutKids(ns, name, kids), name) = kids
         /\ \A other : other # name => KidsAt(PutKids(ns, name, kids), other) = KidsAt(ns, other)
         /\ \A other, readable :
              ReadNode(PutKids(ns, name, kids), other, readable) = ReadNode(ns, other, readable)
<1> DEFINE i == Position(ns, name)
           n == WithKids(ns[i], kids)
           ms == Put(ns, i, n)
<1>1. IsSeq(ns)
  BY DEF IsBlock
<1>2. CASE ~HasBlock(ns, name)
  <2>1. PutKids(ns, name, kids) = ns
    BY <1>2, PutKidsIs
  <2>2. KidsAt(ns, name) = <<>>
    <3>1. i # 0 => i \in DOMAIN ns
      BY <1>1, PositionIs
    <3>2. i # 0 => ns[i].kids = <<>>
      BY <1>2, <3>1 DEF HasBlock, IsBlock, IsNode
    <3> QED
      BY <3>2 DEF KidsAt
  <2> QED
    BY <2>1, <2>2
<1>3. CASE HasBlock(ns, name)
  <2>1. i \in DOMAIN ns /\ i # 0 /\ ns[i].block
    BY <1>1, <1>3, PositionIs DEF HasBlock
  <2>2. PutKids(ns, name, kids) = ms
    BY <1>3, PutKidsIs
  <2> HIDE DEF i
  <2>3. IsNode(ns[i])
    BY <2>1 DEF IsBlock
  <2>4. IsNode(n) /\ n.name = ns[i].name /\ n.args = ns[i].args /\ n.kids = kids
    BY <2>1, <2>3, WithKidsIs
  <2> HIDE DEF n
  <2>5. /\ IsBlock(ms) /\ SameNames(ns, ms) /\ ms[i] = n
        /\ \A j \in DOMAIN ns : j # i => ms[j] = ns[j]
    BY <2>1, <2>4, PutInBlock
  <2>6. IsSeq(ms)
    BY <2>5 DEF IsBlock
  <2> HIDE DEF ms
  <2>7. \A other : Position(ms, other) = Position(ns, other)
    BY <1>1, <2>5, <2>6, SamePosition
  <2>8. KidsAt(ms, name) = kids
    BY <2>1, <2>4, <2>5, <2>7 DEF KidsAt, i
  <2>9. ASSUME NEW other
        PROVE  Position(ns, other) # 0 =>
                 Position(ns, other) \in DOMAIN ns /\ ns[Position(ns, other)].name = other
    BY <1>1, PositionIs
  <2>10. ASSUME NEW other, other # name
         PROVE  KidsAt(ms, other) = KidsAt(ns, other)
    <3>1. Position(ns, other) # 0 => Position(ns, other) # i
      BY <1>1, <2>1, <2>9, <2>10, PositionIs DEF i
    <3> QED
      BY <2>5, <2>7, <2>9, <3>1 DEF KidsAt
  <2>11. ASSUME NEW other, NEW readable
         PROVE  ReadNode(ms, other, readable) = ReadNode(ns, other, readable)
    BY <2>4, <2>5, <2>7, <2>9 DEF ReadNode
  <2> QED
    BY <2>2, <2>8, <2>10, <2>11
<1> QED
  BY <1>2, <1>3

\* The block a setting's last name is looked up in.
BlockOf(d, path) ==
  CASE Len(path) = 1 -> d
    [] Len(path) = 2 -> KidsAt(d, path[1])
    [] OTHER -> KidsAt(KidsAt(d, path[1]), path[2])

Readable(path) == IF path \in Spins THEN Num ELSE Num \cup Str

LEMMA ReadSettingIs ==
  ASSUME NEW d, NEW path
  PROVE  ReadSetting(d, path) = ReadNode(BlockOf(d, path), path[Len(path)], Readable(path))
  BY DEF ReadSetting, BlockOf, Readable

LEMMA SamePath ==
  ASSUME NEW path \in Settings, NEW other \in Settings, Len(path) = Len(other),
         \A i \in 1..Len(path) : path[i] = other[i]
  PROVE  path = other
<1>1. IsSeq(path) /\ IsSeq(other)
  BY SectionsAssumption
<1>2. path = [i \in 1..Len(path) |-> path[i]] /\ other = [i \in 1..Len(other) |-> other[i]]
  BY <1>1, SeqIs
<1> QED
  BY <1>2

LEMMA NothingInside ==
  /\ \A name : KidsAt(<<>>, name) = <<>> /\ Position(<<>>, name) = 0
  /\ \A name, v : SetLeaf(<<>>, name, v) = <<>>
  /\ \A name, kids : PutKids(<<>>, name, kids) = <<>>
<1>1. \A name : Position(<<>>, name) = 0
  BY EmptyIsSeq, PositionIs
<1> QED
  BY <1>1 DEF KidsAt, SetLeaf, PutKids

\* The block of a setting after it was set, and of the other settings.
LEMMA SettingBlocks ==
  ASSUME NEW d, IsDocument(d), NEW path \in Settings, NEW other \in Settings, NEW v
  PROVE  LET e == SetSetting(d, path, v)
         IN  /\ BlockOf(e, path) = SetLeaf(BlockOf(d, path), path[Len(path)], v)
             /\ IsBlock(BlockOf(d, path))
             /\ other # path =>
                  \A readable : ReadNode(BlockOf(e, other), other[Len(other)], readable)
                                 = ReadNode(BlockOf(d, other), other[Len(other)], readable)
<1> DEFINE e == SetSetting(d, path, v)
           block == KidsAt(d, path[1])
           inner == KidsAt(block, path[2])
<1>1. Len(path) \in 1..3 /\ Len(other) \in 1..3
  BY SectionsAssumption
<1>2. IsBlock(d) /\ HasBlocks(block) /\ IsBlock(block) /\ IsBlock(inner)
  BY KidsAtAreBlocks, KidsAtKids DEF IsDocument, HasBlocks
<1>3. CASE Len(path) = 1
  <2> DEFINE leaf == SetLeaf(d, path[1], v)
  <2>1. e = leaf
    BY <1>3 DEF SetSetting
  <2>2. /\ \A name : KidsAt(leaf, name) = KidsAt(d, name)
        /\ \A name, readable : name # path[1] => ReadNode(leaf, name, readable) = ReadNode(d, name, readable)
    BY <1>2, SetLeafReads
  <2>3. Len(other) = 1 /\ other # path => other[1] # path[1]
    BY <1>3, SamePath
  <2> HIDE DEF leaf
  <2> QED
    BY <1>1, <1>2, <1>3, <2>1, <2>2, <2>3 DEF BlockOf, leaf
<1>4. CASE Len(path) = 2
  <2> DEFINE leaf == SetLeaf(block, path[2], v)
             f == PutKids(d, path[1], leaf)
  <2>1. e = f
    BY <1>4 DEF SetSetting
  <2> HIDE DEF block
  <2>2. /\ \A name : KidsAt(leaf, name) = KidsAt(block, name)
        /\ \A name, readable :
             name # path[2] => ReadNode(leaf, name, readable) = ReadNode(block, name, readable)
    BY <1>2, SetLeafReads
  <2>3. block = <<>> => leaf = <<>>
    BY NothingInside
  <2> HIDE DEF leaf
  <2>4. /\ KidsAt(f, path[1]) = leaf
        /\ \A name : name # path[1] => KidsAt(f, name) = KidsAt(d, name)
        /\ \A name, readable : ReadNode(f, name, readable) = ReadNode(d, name, readable)
    BY <1>2, <2>3, PutKidsReads DEF block
  <2>5. Len(other) = 2 /\ other # path => other[1] # path[1] \/ other[2] # path[2]
    BY <1>4, SamePath
  <2> HIDE DEF f
  <2>6. BlockOf(e, path) = leaf /\ BlockOf(d, path) = block
    BY <1>4, <2>1, <2>4 DEF BlockOf, block
  <2>7. ASSUME other # path, NEW readable
        PROVE  ReadNode(BlockOf(e, other), other[Len(other)], readable)
                 = ReadNode(BlockOf(d, other), other[Len(other)], readable)
    <3>1. CASE Len(other) = 1
      BY <2>1, <2>4, <3>1 DEF BlockOf
    <3>2. CASE Len(other) = 2
      BY <2>1, <2>2, <2>4, <2>5, <2>7, <3>2 DEF BlockOf, block
    <3>3. CASE Len(other) = 3
      BY <2>1, <2>2, <2>4, <3>3 DEF BlockOf, block
    <3> QED
      BY <1>1, <3>1, <3>2, <3>3
  <2> QED
    BY <1>2, <1>4, <2>6, <2>7 DEF leaf
<1>5. CASE Len(path) = 3
  <2> DEFINE leaf == SetLeaf(inner, path[3], v)
             kids == PutKids(block, path[2], leaf)
             f == PutKids(d, path[1], kids)
  <2>1. e = f
    BY <1>5 DEF SetSetting
  <2> HIDE DEF block, inner
  <2>2. \A name, readable :
          name # path[3] => ReadNode(leaf, name, readable) = ReadNode(inner, name, readable)
    BY <1>2, SetLeafReads
  <2>3. inner = <<>> => leaf = <<>>
    BY NothingInside
  <2> HIDE DEF leaf
  <2>4. /\ KidsAt(kids, path[2]) = leaf
        /\ \A name : name # path[2] => KidsAt(kids, name) = KidsAt(block, name)
        /\ \A name, readable : ReadNode(kids, name, readable) = ReadNode(block, name, readable)
    BY <1>2, <2>3, PutKidsReads DEF inner
  <2>5. block = <<>> => kids = <<>>
    BY NothingInside
  <2> HIDE DEF kids
  <2>6. /\ KidsAt(f, path[1]) = kids
        /\ \A name : name # path[1] => KidsAt(f, name) = KidsAt(d, name)
        /\ \A name, readable : ReadNode(f, name, readable) = ReadNode(d, name, readable)
    BY <1>2, <2>5, PutKidsReads DEF block
  <2> HIDE DEF f
  <2>7. Len(other) = 3 /\ other # path =>
          other[1] # path[1] \/ other[2] # path[2] \/ other[3] # path[3]
    BY <1>5, SamePath
  <2>8. BlockOf(e, path) = leaf /\ BlockOf(d, path) = inner
    BY <1>5, <2>1, <2>4, <2>6 DEF BlockOf, block, inner
  <2>9. ASSUME other # path, NEW readable
        PROVE  ReadNode(BlockOf(e, other), other[Len(other)], readable)
                 = ReadNode(BlockOf(d, other), other[Len(other)], readable)
    <3>1. CASE Len(other) = 1
      BY <2>1, <2>6, <3>1 DEF BlockOf
    <3>2. CASE Len(other) = 2
      BY <2>1, <2>4, <2>6, <3>2 DEF BlockOf, block
    <3>3. CASE Len(other) = 3
      BY <2>1, <2>2, <2>4, <2>6, <2>7, <2>9, <3>3 DEF BlockOf, block, inner
    <3> QED
      BY <1>1, <3>1, <3>2, <3>3
  <2> QED
    BY <1>2, <1>5, <2>8, <2>9 DEF leaf
<1> QED
  BY <1>1, <1>3, <1>4, <1>5

\* A setting's row reads what it wrote, when there is something to read, and
\* leaves the other settings alone.
LEMMA SettingReads ==
  ASSUME NEW d, IsDocument(d), NEW path \in Settings, NEW v \in Readable(path)
  PROVE  /\ ReadSetting(SetSetting(d, path, v), path) \in {v, Default}
         /\ \A other \in Settings : other # path =>
              ReadSetting(SetSetting(d, path, v), other) = ReadSetting(d, other)
<1> DEFINE e == SetSetting(d, path, v)
<1>1. /\ BlockOf(e, path) = SetLeaf(BlockOf(d, path), path[Len(path)], v)
      /\ IsBlock(BlockOf(d, path))
  BY SettingBlocks
<1>2. ASSUME NEW other \in Settings, other # path
      PROVE  ReadNode(BlockOf(e, other), other[Len(other)], Readable(other))
               = ReadNode(BlockOf(d, other), other[Len(other)], Readable(other))
  BY <1>2, SettingBlocks
<1> HIDE DEF e
<1>3. Default \notin Readable(path)
  BY SectionsAssumption DEF Readable
<1>4. ReadNode(BlockOf(e, path), path[Len(path)], Readable(path)) \in {v, Default}
  BY <1>1, <1>3, SetLeafReads
<1> QED
  BY <1>2, <1>4, ReadSettingIs DEF e

------------------------------------------------------------------------------
(* A row shows what it writes *)

\* Addressed and Display in terms of a document, the rows recorded and what the
\* row shows.
Addresses(d, rec, row, s) ==
  CASE row[1] = "setting" -> ReadSetting(d, row[2]) # Default
    [] row[1] \in {"scale", "mode"} ->
         /\ OwnMonitor(d, row[2][1])
         /\ Position(d[row[2][1]].kids, row[1]) # 0
         /\ Apart(built[row[2][1]], row[1])
    [] row[1] = "workspace" -> OwnMonitor(d, row[2][1])
    [] row[1] = "chord" -> row \notin rec
    [] row[1] = "action" -> \A j \in DOMAIN s : s[j] \notin Spaced
    [] OTHER -> FALSE

Agrees(d, rec, row, s) == Addresses(d, rec, row, s) => s = Display(d, row)

\* What the rows were built on and their edits keep: the nodes and monitors in
\* their places, the number of binds, and the children with nothing behind them.
Kept(d) ==
  /\ SameNames(built, d)
  /\ \A i \in DOMAIN d :
       /\ d[i].name \in {"output", "preferred-workspace-for-output"} =>
            Monitor(d[i]) = Monitor(built[i])
       /\ d[i].name = "binds" => Len(d[i].kids) = Len(built[i].kids)
       /\ d[i].name = "output" =>
            \A kind \in {"scale", "mode"} : Apart(built[i], kind) => Apart(d[i], kind)

\* All nodes outside one section are the same in both documents.
Outside(d, e, section) ==
  /\ IsDocument(d) /\ IsDocument(e) /\ SameNames(d, e)
  /\ \A i \in DOMAIN d : d[i].name # section => e[i] = d[i]

LEMMA OneChangedOutside ==
  ASSUME NEW d, IsDocument(d), NEW e, NEW section, OneChanged(d, e, section)
  PROVE  Outside(d, e, section)
BY OneChangedIsDocument, OneChangedIsSmall DEF Outside

LEMMA OwnMonitorOutside ==
  ASSUME NEW d, NEW e, NEW section, Outside(d, e, section),
         NEW i \in DOMAIN d, d[i].name # section
  PROVE  OwnMonitor(e, i) = OwnMonitor(d, i)
<1>1. DOMAIN e = DOMAIN d /\ e[i] = d[i]
  BY DEF Outside, SameNames
<1>2. \A j \in DOMAIN d : IsFor(e[j], d[i].name, Monitor(d[i])) <=> IsFor(d[j], d[i].name, Monitor(d[i]))
  BY DEF Outside, SameNames, IsFor
<1> QED
  BY <1>1, <1>2 DEF OwnMonitor

LEMMA ReadSettingOutside ==
  ASSUME NEW d, NEW e, NEW section, Outside(d, e, section),
         NEW path \in Settings, path[1] # section
  PROVE  ReadSetting(e, path) = ReadSetting(d, path)
<1>1. IsSeq(d) /\ IsSeq(e) /\ Len(path) \in 1..3
  BY SectionsAssumption DEF Outside, IsDocument, IsBlock
<1>2. Position(e, path[1]) = Position(d, path[1])
  BY <1>1, SamePosition DEF Outside
<1>3. Position(d, path[1]) # 0 => e[Position(d, path[1])] = d[Position(d, path[1])]
  <2>1. Position(d, path[1]) # 0 =>
          Position(d, path[1]) \in DOMAIN d /\ d[Position(d, path[1])].name = path[1]
    BY <1>1, PositionIs
  <2> QED
    BY <2>1 DEF Outside
<1>4. KidsAt(e, path[1]) = KidsAt(d, path[1])
  BY <1>2, <1>3 DEF KidsAt
<1>5. \A readable : ReadNode(e, path[1], readable) = ReadNode(d, path[1], readable)
  BY <1>2, <1>3 DEF ReadNode
<1>6. CASE Len(path) = 1
  BY <1>5, <1>6, ReadSettingIs DEF BlockOf
<1>7. CASE Len(path) # 1
  <2>1. BlockOf(e, path) = BlockOf(d, path)
    BY <1>4, <1>7 DEF BlockOf
  <2> QED
    BY <2>1, ReadSettingIs
<1> QED
  BY <1>6, <1>7

\* An edit in one section leaves the rows of the others as they were.
LEMMA OthersAgree ==
  ASSUME IsDocument(built), NEW d, Kept(d), NEW e, NEW section, Outside(d, e, section),
         NEW row \in Rows(built), SectionOf(row) # section,
         NEW rec, NEW later, row \in later => row \in rec, row \in rec => row \in later,
         NEW s, Agrees(d, rec, row, s)
  PROVE  Agrees(e, later, row, s)
<1>1. CASE row[1] = "setting"
  <2>1. row[2] \in Settings /\ row[2][1] # section
    BY <1>1, RowsAre DEF SectionOf
  <2>2. ReadSetting(e, row[2]) = ReadSetting(d, row[2])
    BY <2>1, ReadSettingOutside
  <2>3. Display(e, row) = Display(d, row)
    BY <1>1, <2>2 DEF Display
  <2> QED
    BY <1>1, <2>2, <2>3 DEF Agrees, Addresses
<1>2. CASE row[1] \in OfNode \cup OfKid
  <2> DEFINE i == row[2][1]
  <2>1. i \in DOMAIN built /\ built[i].name = SectionOf(row)
    BY <1>2, RowsAre
  <2>2. i \in DOMAIN d /\ d[i].name = SectionOf(row)
    BY <2>1 DEF Kept, SameNames
  <2>3. e[i] = d[i] /\ OwnMonitor(e, i) = OwnMonitor(d, i)
    BY <2>2, OwnMonitorOutside DEF Outside
  <2>4. Display(e, row) = Display(d, row)
    BY <1>2, <2>3 DEF Display, OfNode, OfKid
  <2>5. Addresses(e, later, row, s) => Addresses(d, rec, row, s)
    BY <1>2, <2>3 DEF Addresses, OfNode, OfKid
  <2> QED
    BY <2>4, <2>5 DEF Agrees
<1> QED
  BY <1>1, <1>2, RowsAre

LEMMA OthersKept ==
  ASSUME NEW d, Kept(d), NEW e, NEW section, Outside(d, e, section),
         section \notin {"output", "preferred-workspace-for-output", "binds"}
  PROVE  Kept(e)
<1>1. SameNames(d, e) /\ DOMAIN e = DOMAIN d
  BY DEF Outside, SameNames
<1>2. \A i \in DOMAIN d :
        d[i].name \in {"output", "preferred-workspace-for-output", "binds"} => e[i] = d[i]
  BY DEF Outside
<1>3. SameNames(built, e)
  BY <1>1 DEF Kept, SameNames
<1>4. \A i \in DOMAIN d : e[i].name = d[i].name
  BY <1>1 DEF SameNames
<1> QED
  BY <1>1, <1>2, <1>3, <1>4 DEF Kept

\* Where one node has changed, no more than that node is to be looked at.
LEMMA OneKept ==
  ASSUME NEW d, IsDocument(d), Kept(d), NEW i \in DOMAIN d, NEW n, n.name = d[i].name,
         d[i].name \in {"output", "preferred-workspace-for-output"} => Monitor(n) = Monitor(d[i]),
         d[i].name = "binds" => Len(n.kids) = Len(d[i].kids),
         d[i].name = "output" =>
           \A kind \in {"scale", "mode"} : Apart(d[i], kind) => Apart(n, kind)
  PROVE  Kept(Put(d, i, n))
<1> DEFINE e == Put(d, i, n)
<1>1. /\ DOMAIN e = DOMAIN d /\ e[i] = n
      /\ \A j \in DOMAIN d : j # i => e[j] = d[j]
  BY PutIs DEF IsDocument, IsBlock
<1> HIDE DEF e
<1>2. SameNames(built, e)
  BY <1>1 DEF Kept, SameNames
<1>3. ASSUME NEW j \in DOMAIN d
      PROVE  /\ e[j].name \in {"output", "preferred-workspace-for-output"} =>
                  Monitor(e[j]) = Monitor(built[j])
             /\ e[j].name = "binds" => Len(e[j].kids) = Len(built[j].kids)
             /\ e[j].name = "output" =>
                  \A kind \in {"scale", "mode"} : Apart(built[j], kind) => Apart(e[j], kind)
  <2>1. CASE j # i
    BY <1>1, <2>1 DEF Kept
  <2>2. CASE j = i
    BY <1>1, <2>2 DEF Kept
  <2> QED
    BY <2>1, <2>2
<1>4. Kept(e)
  BY <1>1, <1>2, <1>3 DEF Kept
<1> QED
  BY <1>4 DEF e

LEMMA PositionAppended ==
  ASSUME NEW ns, IsSeq(ns), NEW n, NEW name
  PROVE  Position(Append(ns, n), name) =
           IF Position(ns, name) # 0 THEN Position(ns, name)
           ELSE IF n.name = name THEN Len(ns) + 1 ELSE 0
<1> DEFINE ms == Append(ns, n)
           p == Position(ms, name)
           q == Position(ns, name)
<1>1. /\ Len(ns) \in Nat /\ DOMAIN ns = 1..Len(ns)
      /\ IsSeq(ms) /\ DOMAIN ms = 1 .. Len(ns) + 1 /\ ms[Len(ns) + 1] = n
      /\ \A j \in DOMAIN ns : ms[j] = ns[j]
  BY AppendIs, SeqIs
<1> HIDE DEF ms
<1>2. /\ p # 0 => p \in 1 .. Len(ns) + 1 /\ ms[p].name = name
      /\ \A j \in 1 .. Len(ns) + 1 : ms[j].name = name => p # 0 /\ p <= j
  BY <1>1, PositionIs
<1>3. /\ q # 0 => q \in 1..Len(ns) /\ ns[q].name = name
      /\ \A j \in 1..Len(ns) : ns[j].name = name => q # 0 /\ q <= j
  BY <1>1, PositionIs
<1> HIDE DEF p, q
<1>4. CASE q # 0
  <2>1. q \in 1 .. Len(ns) + 1 /\ ms[q].name = name
    BY <1>1, <1>3, <1>4
  <2>2. p # 0 /\ p <= q /\ p \in 1..Len(ns)
    BY <1>1, <1>2, <1>3, <1>4, <2>1
  <2>3. q <= p
    BY <1>1, <1>2, <1>3, <2>2
  <2>4. p = q
    BY <1>1, <1>3, <1>4, <2>2, <2>3
  <2> QED
    BY <1>4, <2>4 DEF p, q, ms
<1>5. ASSUME q = 0, p # 0
      PROVE  p = Len(ns) + 1 /\ n.name = name
  <2>1. p \notin 1..Len(ns)
    BY <1>1, <1>2, <1>3, <1>5
  <2> QED
    BY <1>1, <1>2, <1>5, <2>1
<1>6. CASE q = 0 /\ n.name = name
  <2>1. p # 0
    BY <1>1, <1>2, <1>6
  <2> QED
    BY <1>5, <1>6, <2>1 DEF p, q, ms
<1>7. CASE q = 0 /\ n.name # name
  BY <1>5, <1>7 DEF p, q, ms
<1> QED
  BY <1>4, <1>6, <1>7

\* Another node in a place no search ended at, and under another name.
LEMMA PositionPut ==
  ASSUME NEW ns, IsSeq(ns), NEW k \in DOMAIN ns, NEW n, NEW name, n.name # name,
         Position(ns, name) # k
  PROVE  Position(Put(ns, k, n), name) = Position(ns, name)
<1> DEFINE ms == Put(ns, k, n)
           p == Position(ms, name)
           q == Position(ns, name)
<1>1. /\ Len(ns) \in Nat /\ DOMAIN ns = 1..Len(ns)
      /\ IsSeq(ms) /\ DOMAIN ms = DOMAIN ns /\ ms[k] = n
      /\ \A j \in DOMAIN ns : j # k => ms[j] = ns[j]
  BY PutIs, SeqIs
<1> HIDE DEF ms
<1>2. /\ p # 0 => p \in 1..Len(ns) /\ ms[p].name = name
      /\ \A j \in 1..Len(ns) : ms[j].name = name => p # 0 /\ p <= j
  BY <1>1, PositionIs
<1>3. /\ q # 0 => q \in 1..Len(ns) /\ ns[q].name = name
      /\ \A j \in 1..Len(ns) : ns[j].name = name => q # 0 /\ q <= j
  BY <1>1, PositionIs
<1> HIDE DEF p, q
<1>4. q # k
  BY DEF q
<1>5. p # 0 => p # k /\ q # 0 /\ q <= p
  BY <1>1, <1>2, <1>3
<1>6. q # 0 => p # 0 /\ p <= q
  BY <1>1, <1>2, <1>3, <1>4
<1>7. p = q
  BY <1>1, <1>2, <1>3, <1>5, <1>6
<1> QED
  BY <1>7 DEF p, q, ms

Kinds == {"scale", "mode"}

\* Of a node the child of a monitor's row has another value.
KidHas(node, m, name, v) ==
  /\ m.name = node.name /\ m.args = node.args
  /\ \A other \in Kinds : Apart(node, other) => Apart(m, other)
  /\ \A other \in Kinds : \A readable : other # name /\ Apart(node, other) =>
       /\ Position(m.kids, other) = Position(node.kids, other)
       /\ ReadNode(m.kids, other, readable) = ReadNode(node.kids, other, readable)
  /\ \A readable : v \in readable /\ Position(m.kids, name) # 0 =>
       ReadNode(m.kids, name, readable) = v

LEMMA KidSetKeeps ==
  ASSUME NEW node, IsNode(node), node.block, IsBlock(node.kids), NEW name, NEW v,
         Position(node.kids, name) # 0
  PROVE  KidHas(node, KidSet(node, Position(node.kids, name), v), name, v)
<1> DEFINE kids == node.kids
           k == Position(kids, name)
           args == SetArg(kids[k].args, 1, v)
           m == KidSet(node, k, v)
<1>1. IsSeq(kids)
  BY DEF IsBlock
<1>2. \A other : Position(kids, other) # 0 =>
        Position(kids, other) \in DOMAIN kids /\ kids[Position(kids, other)].name = other
  BY <1>1, PositionIs
<1>3. k \in DOMAIN kids /\ kids[k].name = name
  BY <1>2
<1>4. IsNode(kids[k]) /\ IsSeq(kids[k].args)
  BY <1>3 DEF IsBlock, IsNode
<1>5. 1 \in Nat \ {0} /\ Len(kids[k].args) + 1 >= 1
  BY <1>4, SeqIs
<1>6. IsSeq(args) /\ Len(args) >= 1 /\ \A readable : v \in readable => Read(args, 1, readable) = v
  BY <1>4, <1>5, SetArgIs, ReadSetArg
<1>7. args # <<>>
  BY <1>6, EmptyIsSeq
<1> DEFINE n == WithArgs(kids[k], args)
           other == Put(kids, k, n)
<1>8. m = WithKids(node, other)
  BY DEF KidSet
<1>9. m.name = node.name /\ m.args = node.args /\ m.kids = other /\ m.ends = node.ends
  BY <1>8, WithKidsIs DEF WithKids, IsNode
<1> HIDE DEF args, m
<1>10. /\ \A x : Position(other, x) = Position(kids, x)
       /\ \A x, readable :
            /\ Position(kids, x) # k => ReadNode(other, x, readable) = ReadNode(kids, x, readable)
            /\ Position(kids, x) = k => ReadNode(other, x, readable) = Read(args, 1, readable)
  BY <1>3, <1>6, ArgsPut
<1>11. n.args = args
  BY <1>4, <1>6, WithArgsIs
<1> HIDE DEF n
<1>12. /\ other[k] = n /\ Len(other) = Len(kids)
       /\ \A j \in DOMAIN kids : j # k => other[j] = kids[j]
  BY <1>1, <1>3, PutIs
<1> HIDE DEF other, k
<1>13. \A x : x # name => Position(kids, x) = 0 \/ Position(kids, x) # k
  BY <1>2, <1>3
<1>14. k # 0
  BY DEF k
<1>15. ASSUME NEW x, Apart(node, x)
       PROVE  Apart(m, x)
  BY <1>2, <1>7, <1>9, <1>10, <1>11, <1>12, <1>15 DEF Apart
<1>16. \A x, readable : x # name =>
         /\ Position(m.kids, x) = Position(kids, x)
         /\ ReadNode(m.kids, x, readable) = ReadNode(kids, x, readable)
  BY <1>9, <1>10, <1>13, <1>14
<1>17. \A readable : v \in readable => ReadNode(m.kids, name, readable) = v
  BY <1>6, <1>9, <1>10 DEF k
<1> QED
  BY <1>9, <1>15, <1>16, <1>17 DEF KidHas, m, k

LEMMA MergedKeeps ==
  ASSUME NEW node, IsNode(node), node.block, IsBlock(node.kids), NEW name \in Kinds, NEW v, NEW bare,
         Merges(node, name)
  PROVE  KidHas(node, Merged(node, name, v, bare), name, v)
<1> DEFINE kids == node.kids
           k == Len(kids)
           long == LastOf(node, name, v, bare)
           other == Put(kids, k, long)
           m == Merged(node, name, v, bare)
<1>1. IsSeq(kids) /\ k \in Nat /\ k # 0 /\ k \in DOMAIN kids /\ DOMAIN kids = 1..k
  BY SeqIs DEF IsBlock, Merges
<1>2. \A x : Position(kids, x) # 0 =>
        Position(kids, x) \in DOMAIN kids /\ kids[Position(kids, x)].name = x
  BY <1>1, PositionIs
<1>3. Position(kids, name) = 0 /\ node.ends # "line"
  BY DEF Merges
<1>4. /\ IsNode(long) /\ long.name \in {kids[k].name, Joined, Stuck}
      /\ node.ends = "space" /\ kids[k].args # <<>> =>
           /\ long.name = kids[k].name
           /\ Len(kids[k].args) >= 1 /\ Len(long.args) >= 1
           /\ long.args[1] = kids[k].args[1]
  <2>1. IsNode(kids[k])
    BY <1>1 DEF IsBlock
  <2> QED
    BY <2>1, LengthenedIs DEF LastOf
<1>5. /\ m.name = node.name /\ m.args = node.args /\ m.kids = other /\ m.ends = "line"
  BY FilledIs DEF Merged
<1> HIDE DEF long, m, k
<1>6. other[k] = long /\ \A j \in DOMAIN kids : j # k => other[j] = kids[j]
  BY <1>1, PutIs
<1>7. \A x \in Kinds : Joined # x /\ Stuck # x
  BY SectionsAssumption DEF Kinds
<1>8. \A x : long.name = kids[k].name => Position(other, x) = Position(kids, x)
  <2>1. ASSUME long.name = kids[k].name
        PROVE  SameNames(kids, other) /\ IsSeq(other)
    BY <1>1, <1>4, <2>1, PutInBlock DEF IsBlock
  <2> QED
    BY <1>1, <2>1, SamePosition
<1>9. ASSUME NEW x \in Kinds, Position(kids, x) # k
      PROVE  Position(other, x) = Position(kids, x)
  <2>1. CASE long.name = kids[k].name
    BY <1>8, <2>1
  <2>2. CASE long.name # kids[k].name
    <3>1. long.name # x
      BY <1>4, <1>7, <2>2
    <3> QED
      BY <1>1, <1>9, <3>1, PositionPut
  <2> QED
    BY <2>1, <2>2
<1> HIDE DEF other
<1>10. ASSUME NEW x \in Kinds, NEW readable, Apart(node, x)
       PROVE  /\ Position(other, x) = Position(kids, x)
              /\ ReadNode(other, x, readable) = ReadNode(kids, x, readable)
  <2>1. CASE Position(kids, x) # k
    BY <1>2, <1>6, <1>9, <2>1 DEF ReadNode
  <2>2. CASE Position(kids, x) = k
    <3>1. node.ends = "space" /\ kids[k].args # <<>>
      BY <1>1, <1>3, <1>10, <2>2 DEF Apart, k
    <3>2. Position(other, x) = k
      BY <1>4, <1>8, <2>2, <3>1
    <3>3. Read(long.args, 1, readable) = Read(kids[k].args, 1, readable)
      BY <1>4, <3>1 DEF Read
    <3> QED
      BY <1>1, <1>6, <2>2, <3>2, <3>3 DEF ReadNode
  <2> QED
    BY <2>1, <2>2
<1>11. Position(other, name) = 0
  BY <1>1, <1>3, <1>9
<1>12. \A x : Apart(m, x)
  BY <1>5 DEF Apart
<1> QED
  BY <1>5, <1>10, <1>11, <1>12 DEF KidHas, m

LEMMA GrownKeeps ==
  ASSUME NEW node, IsNode(node), node.block, IsBlock(node.kids), NEW name, NEW v,
         Position(node.kids, name) = 0
  PROVE  KidHas(node, Grown(node, name, v), name, v)
<1> DEFINE kids == node.kids
           n == NewKid(name, v)
           grown == Append(kids, n)
           m == Grown(node, name, v)
<1>1. IsSeq(kids)
  BY DEF IsBlock
<1>2. /\ m.name = node.name /\ m.args = node.args /\ m.kids = grown /\ m.ends = "line"
  BY FilledIs DEF Grown
<1>3. n.name = name /\ n.args = <<Arg(v)>>
  BY NewKidIsNode
<1> HIDE DEF m, n
<1>4. /\ Len(kids) \in Nat /\ grown[Len(kids) + 1] = n
      /\ \A j \in DOMAIN kids : grown[j] = kids[j]
  BY <1>1, AppendIs, SeqIs
<1>5. \A x : Position(grown, x) =
        IF Position(kids, x) # 0 THEN Position(kids, x)
        ELSE IF name = x THEN Len(kids) + 1 ELSE 0
  BY <1>1, <1>3, PositionAppended
<1> HIDE DEF grown
<1>6. Len(n.args) = 1 /\ n.args[1].val = v
  BY <1>3 DEF Arg
<1>7. ASSUME NEW x, x # name, NEW readable
      PROVE  /\ Position(m.kids, x) = Position(kids, x)
             /\ ReadNode(m.kids, x, readable) = ReadNode(kids, x, readable)
  <2>1. Position(kids, x) # 0 => Position(kids, x) \in DOMAIN kids
    BY <1>1, PositionIs
  <2> QED
    BY <1>2, <1>4, <1>5, <1>7, <2>1 DEF ReadNode
<1>8. Position(grown, name) = Len(kids) + 1 /\ Len(kids) + 1 # 0
  BY <1>4, <1>5
<1>9. \A readable : v \in readable => ReadNode(m.kids, name, readable) = v
  BY <1>2, <1>4, <1>6, <1>8 DEF ReadNode, Read
<1>10. \A x : Apart(m, x)
  BY <1>2 DEF Apart
<1> QED
  BY <1>2, <1>7, <1>9, <1>10 DEF m, KidHas

LEMMA SetKidKeeps ==
  ASSUME NEW node, IsNode(node), HasBlocks(node.kids), NEW name \in Kinds, NEW v, NEW bare
  PROVE  KidHas(node, SetKid(node, name, v, bare), name, v)
<1>1. IsBlock(node.kids)
  BY DEF HasBlocks
<1>2. CASE ~node.block
  <2>1. SetKid(node, name, v, bare) = node
    BY <1>2, SetKidIs
  <2>2. Position(node.kids, name) = 0
    BY <1>2, NothingInside DEF IsNode
  <2> QED
    BY <2>1, <2>2 DEF KidHas
<1>3. CASE node.block /\ Position(node.kids, name) # 0
  BY <1>1, <1>3, SetKidIs, KidSetKeeps
<1>4. CASE node.block /\ Merges(node, name)
  BY <1>1, <1>4, SetKidIs, MergedKeeps
<1>5. CASE node.block /\ Position(node.kids, name) = 0 /\ ~Merges(node, name)
  BY <1>1, <1>5, SetKidIs, GrownKeeps
<1> QED
  BY <1>2, <1>3, <1>4, <1>5 DEF Merges

LEMMA OwnIsFirst ==
  ASSUME NEW d, IsSeq(d), NEW i \in DOMAIN d, OwnMonitor(d, i)
  PROVE  FirstFor(d, d[i].name, Monitor(d[i])) = i
<1> DEFINE f == FirstFor(d, d[i].name, Monitor(d[i]))
<1>1. IsFor(d[i], d[i].name, Monitor(d[i]))
  BY DEF OwnMonitor, IsFor
<1>2. f \in DOMAIN d /\ IsFor(d[f], d[i].name, Monitor(d[i]))
  BY <1>1, FirstForIs
<1> QED
  BY <1>2 DEF OwnMonitor

LEMMA OwnMonitorKept ==
  ASSUME NEW d, IsSeq(d), NEW i \in DOMAIN d, NEW n, n.name = d[i].name, Monitor(n) = Monitor(d[i])
  PROVE  \A j \in DOMAIN d : OwnMonitor(Put(d, i, n), j) = OwnMonitor(d, j)
<1> DEFINE e == Put(d, i, n)
<1>1. /\ DOMAIN e = DOMAIN d
      /\ \A j \in DOMAIN d : e[j].name = d[j].name /\ Monitor(e[j]) = Monitor(d[j])
  BY PutIs
<1> HIDE DEF e
<1>2. \A j \in DOMAIN d : \A name, monitor : IsFor(e[j], name, monitor) = IsFor(d[j], name, monitor)
  BY <1>1 DEF IsFor
<1>3. \A j \in DOMAIN d : OwnMonitor(e, j) = OwnMonitor(d, j)
  BY <1>1, <1>2 DEF OwnMonitor
<1> QED
  BY <1>3 DEF e

\* What an edit of one row leaves true of its section: the row shows what it
\* wrote, and the others what they did.
SectionAgrees(d, e, row, v) ==
  /\ Kept(e)
  /\ \A later : row \notin later => Agrees(e, later, row, v)
  /\ \A other \in Rows(built) : \A rec, later, s :
       (/\ other # row /\ SectionOf(other) = SectionOf(row)
        /\ other \in rec => other \in later
        /\ Agrees(d, rec, other, s))
       => Agrees(e, later, other, s)

LEMMA OutputAgrees ==
  ASSUME IsDocument(built), NEW d, IsDocument(d), Kept(d),
         NEW row \in Rows(built), row[1] \in {"scale", "mode"}, NEW v \in Input(row), NEW bare
  PROVE  SectionAgrees(d, Edited(d, row, v, bare), row, v)
<1> DEFINE kind == row[1]
           j == row[2][1]
           M == Monitor(built[j])
           f == FirstFor(d, "output", M)
           e == Edited(d, row, v, bare)
           R(k) == IF k = "scale" THEN Num ELSE Str
<1>1. IsSeq(d)
  BY DEF IsDocument, IsBlock
<1>2. /\ j \in DOMAIN d /\ d[j].name = "output" /\ Monitor(d[j]) = M
      /\ SectionOf(row) = "output"
  <2>1. j \in DOMAIN built /\ built[j].name = SectionOf(row)
    BY RowsAre DEF OfNode
  <2>2. SectionOf(row) = "output"
    BY DEF SectionOf
  <2> QED
    BY <2>1, <2>2 DEF Kept, SameNames
<1>3. e = SetOutput(d, M, kind, v, bare) /\ v \in R(kind)
  BY InputsAre DEF Edited
<1>5. ASSUME NEW other \in Rows(built), SectionOf(other) = "output"
      PROVE  /\ other[1] \in {"scale", "mode"}
             /\ other[2][1] \in DOMAIN d /\ d[other[2][1]].name = "output"
             /\ \A x : Display(x, other) = ReadNode(x[other[2][1]].kids, other[1], R(other[1]))
  <2>1. other[1] # "setting"
    <3>1. ASSUME other[1] = "setting"
          PROVE  FALSE
      <4>1. other[2] \in Settings /\ other[2][1] = "output"
        BY <1>5, <3>1, RowsAre DEF SectionOf
      <4> QED
        BY <4>1, SectionsAssumption DEF ListSections
    <3> QED
      BY <3>1
  <2>2. other[1] \in {"scale", "mode"}
    BY <1>5, <2>1, RowsAre DEF SectionOf, OfNode, OfKid
  <2>3. other[2][1] \in DOMAIN built /\ built[other[2][1]].name = "output"
    BY <1>5, <2>2, RowsAre DEF OfNode
  <2>4. other[2][1] \in DOMAIN d /\ d[other[2][1]].name = "output"
    BY <2>3 DEF Kept, SameNames
  <2>5. \A x : Display(x, other) = ReadNode(x[other[2][1]].kids, other[1], R(other[1]))
    BY <2>2 DEF Display
  <2> QED
    BY <2>2, <2>4, <2>5
<1>6. OwnMonitor(d, j) => f = j
  BY <1>1, <1>2, OwnIsFirst
<1>7. j # 0
  BY <1>1, <1>2, SeqIs
<1> HIDE DEF e, M, f, R
<1>8. CASE f = 0
  <2>1. e = d
    BY <1>3, <1>8 DEF SetOutput, f
  <2>2. ~OwnMonitor(d, j)
    BY <1>6, <1>7, <1>8
  <2>3. \A later : Agrees(d, later, row, v)
    BY <2>2 DEF Agrees, Addresses
  <2>4. ASSUME NEW other \in Rows(built), NEW rec, NEW later, NEW s,
               SectionOf(other) = SectionOf(row), Agrees(d, rec, other, s)
        PROVE  Agrees(d, later, other, s)
    BY <1>2, <1>5, <2>4 DEF Agrees, Addresses
  <2>5. SectionAgrees(d, d, row, v)
    BY <2>3, <2>4 DEF SectionAgrees
  <2> QED
    BY <2>1, <2>5 DEF e
<1>9. CASE f # 0
  <2> DEFINE n == SetKid(d[f], kind, v, bare)
  <2>1. e = Put(d, f, n)
    BY <1>3, <1>9 DEF SetOutput, f, Put
  <2>2. f \in DOMAIN d /\ IsFor(d[f], "output", M)
    BY <1>1, <1>9, FirstForIs DEF f
  <2>3. d[f].name = "output" /\ Monitor(d[f]) = M /\ M # Default
    BY <2>2 DEF IsFor
  <2>4. KidHas(d[f], n, kind, v)
    <3>1. IsNode(d[f]) /\ HasBlocks(d[f].kids) /\ kind \in Kinds
      BY <2>2, KidsAreBlocks DEF Kinds
    <3> QED
      BY <3>1, SetKidKeeps
  <2> HIDE DEF n
  <2>5. Monitor(n) = Monitor(d[f])
    BY <2>4 DEF Monitor, KidHas
  <2>6. e[f] = n /\ \A i \in DOMAIN d : i # f => e[i] = d[i]
    BY <1>1, <2>1, <2>2, PutIs
  <2>7. Kept(e)
    BY <2>1, <2>2, <2>3, <2>4, <2>5, OneKept DEF KidHas, Kinds
  <2>8. \A i \in DOMAIN d : OwnMonitor(e, i) = OwnMonitor(d, i)
    BY <1>1, <2>1, <2>2, <2>4, <2>5, OwnMonitorKept DEF KidHas
  <2>9. ASSUME NEW later, Addresses(e, later, row, v)
        PROVE  v = Display(e, row)
    <3>1. OwnMonitor(e, j) /\ Position(e[j].kids, kind) # 0
      BY <2>9 DEF Addresses
    <3>2. f = j
      BY <1>2, <1>6, <2>8, <3>1
    <3> QED
      BY <1>2, <1>3, <1>5, <2>4, <2>6, <3>1, <3>2 DEF KidHas
  <2>10. ASSUME NEW other \in Rows(built), NEW rec, NEW later, NEW s, other # row,
                SectionOf(other) = SectionOf(row), Agrees(d, rec, other, s),
                Addresses(e, later, other, s)
         PROVE  s = Display(e, other)
    <3> DEFINE i == other[2][1]
    <3>1. /\ other[1] \in {"scale", "mode"} /\ i \in DOMAIN d /\ d[i].name = "output"
          /\ \A x : Display(x, other) = ReadNode(x[i].kids, other[1], R(other[1]))
      BY <1>2, <1>5, <2>10
    <3>2. OwnMonitor(d, i) /\ Position(e[i].kids, other[1]) # 0 /\ Apart(built[i], other[1])
      BY <2>8, <2>10, <3>1 DEF Addresses
    <3>3. Addresses(d, rec, other, s) => s = Display(d, other)
      BY <2>10 DEF Agrees
    <3>4. CASE i # f
      <4>1. e[i] = d[i]
        BY <2>6, <3>1, <3>4
      <4>2. Addresses(d, rec, other, s)
        BY <3>1, <3>2, <4>1 DEF Addresses
      <4> QED
        BY <3>1, <3>3, <4>1, <4>2
    <3>5. CASE i = f
      <4>1. other[1] # kind
        <5>1. ASSUME other[1] = kind
              PROVE  FALSE
          <6>1. i # j
            BY <2>10, <5>1, RowsDiffer DEF OfNode
          <6>2. IsFor(d[j], d[i].name, Monitor(d[i]))
            BY <1>2, <2>3, <3>1, <3>5 DEF IsFor
          <6> QED
            BY <1>2, <3>2, <6>1, <6>2 DEF OwnMonitor
        <5> QED
          BY <5>1
      <4>2. Apart(d[i], other[1])
        BY <3>1, <3>2 DEF Kept
      <4>3. /\ Position(e[i].kids, other[1]) = Position(d[i].kids, other[1])
            /\ ReadNode(e[i].kids, other[1], R(other[1])) = ReadNode(d[i].kids, other[1], R(other[1]))
        BY <2>4, <2>6, <3>1, <3>5, <4>1, <4>2 DEF KidHas, Kinds
      <4>4. Addresses(d, rec, other, s)
        BY <3>1, <3>2, <4>3 DEF Addresses
      <4> QED
        BY <3>1, <3>3, <4>3, <4>4
    <3> QED
      BY <3>4, <3>5
  <2>11. SectionAgrees(d, e, row, v)
    BY <2>7, <2>9, <2>10 DEF SectionAgrees, Agrees
  <2> QED
    BY <2>11 DEF e
<1> QED
  BY <1>8, <1>9

LEMMA WorkspaceAgrees ==
  ASSUME IsDocument(built), NEW d, IsDocument(d), Kept(d),
         NEW row \in Rows(built), row[1] = "workspace", NEW v \in Input(row), NEW bare
  PROVE  SectionAgrees(d, Edited(d, row, v, bare), row, v)
<1> DEFINE section == "preferred-workspace-for-output"
           j == row[2][1]
           M == Monitor(built[j])
           f == FirstFor(d, section, M)
           e == Edited(d, row, v, bare)
<1>1. IsSeq(d)
  BY DEF IsDocument, IsBlock
<1>2. /\ j \in DOMAIN d /\ d[j].name = section /\ Monitor(d[j]) = M
      /\ SectionOf(row) = section
  <2>1. j \in DOMAIN built /\ built[j].name = SectionOf(row)
    BY RowsAre DEF OfNode
  <2>2. SectionOf(row) = section
    BY DEF SectionOf
  <2> QED
    BY <2>1, <2>2 DEF Kept, SameNames
<1>3. e = SetWorkspace(d, M, v) /\ v \in Num
  BY InputsAre DEF Edited
<1>4. ASSUME NEW other \in Rows(built), SectionOf(other) = section
      PROVE  /\ other[1] = "workspace"
             /\ other[2][1] \in DOMAIN d /\ d[other[2][1]].name = section
             /\ \A x : Display(x, other) = Read(x[other[2][1]].args, 2, Num)
  <2>1. other[1] # "setting"
    <3>1. ASSUME other[1] = "setting"
          PROVE  FALSE
      <4>1. other[2] \in Settings /\ other[2][1] = section
        BY <1>4, <3>1, RowsAre DEF SectionOf
      <4> QED
        BY <4>1, SectionsAssumption DEF ListSections
    <3> QED
      BY <3>1
  <2>2. other[1] = "workspace"
    BY <1>4, <2>1, RowsAre DEF SectionOf, OfNode, OfKid
  <2>3. other[2][1] \in DOMAIN built /\ built[other[2][1]].name = section
    BY <1>4, <2>2, RowsAre DEF OfNode
  <2>4. other[2][1] \in DOMAIN d /\ d[other[2][1]].name = section
    BY <2>3 DEF Kept, SameNames
  <2>5. \A x : Display(x, other) = Read(x[other[2][1]].args, 2, Num)
    BY <2>2 DEF Display
  <2> QED
    BY <2>2, <2>4, <2>5
<1>5. OwnMonitor(d, j) => f = j
  BY <1>1, <1>2, OwnIsFirst
<1>6. j # 0
  BY <1>1, <1>2, SeqIs
<1> HIDE DEF e, M, f
<1>7. CASE f = 0
  <2>1. e = d
    BY <1>3, <1>7 DEF SetWorkspace, f
  <2>2. ~OwnMonitor(d, j)
    BY <1>5, <1>6, <1>7
  <2>3. \A later : Agrees(d, later, row, v)
    BY <2>2 DEF Agrees, Addresses
  <2>4. ASSUME NEW other \in Rows(built), NEW rec, NEW later, NEW s,
               SectionOf(other) = SectionOf(row), Agrees(d, rec, other, s)
        PROVE  Agrees(d, later, other, s)
    BY <1>2, <1>4, <2>4 DEF Agrees, Addresses
  <2>5. SectionAgrees(d, d, row, v)
    BY <2>3, <2>4 DEF SectionAgrees
  <2> QED
    BY <2>1, <2>5 DEF e
<1>8. CASE f # 0
  <2> DEFINE old == d[f].args
             args == SetArg(old, 2, v)
             n == WithArgs(d[f], args)
  <2>1. e = Put(d, f, n)
    BY <1>3, <1>8 DEF SetWorkspace, f, Put, WithArgs
  <2>2. f \in DOMAIN d /\ IsFor(d[f], section, M)
    BY <1>1, <1>8, FirstForIs DEF f
  <2>3. d[f].name = section /\ Monitor(d[f]) = M /\ M # Default
    BY <2>2 DEF IsFor
  <2>4. IsNode(d[f]) /\ IsSeq(old)
    BY <2>2, KidsAreBlocks DEF IsNode
  <2>5. Len(old) \in Nat /\ Len(old) >= 1 /\ DOMAIN old = 1..Len(old) /\ old # <<>> /\ old[1].val = M /\ M \in Str
    <3>1. old # <<>> /\ old[1].val \in Str /\ old[1].val = M
      BY <2>3 DEF Monitor
    <3>2. Len(old) \in Nat /\ DOMAIN old = 1..Len(old) /\ Len(old) # 0
      BY <2>4, <3>1, SeqIs
    <3> QED
      BY <3>1, <3>2
  <2>6. 2 \in Nat \ {0} /\ Len(old) + 1 >= 2 /\ 1 \in DOMAIN old
    BY <2>5
  <2>7. IsSeq(args) /\ Len(args) >= Len(old) /\ args[1] = old[1] /\ Read(args, 2, Num) = v
    <3>1. IsSeq(args) /\ Len(args) >= Len(old) /\ args[1] = old[1]
      BY <2>4, <2>6, SetArgIs
    <3>2. Read(args, 2, Num) = v
      BY <1>3, <2>4, <2>6, ReadSetArg
    <3> QED
      BY <3>1, <3>2
  <2> HIDE DEF args
  <2>8. n.name = d[f].name /\ n.args = args
    BY <2>4, <2>7, WithArgsIs
  <2> HIDE DEF n
  <2>9. Monitor(n) = Monitor(d[f])
    <3>1. args # <<>>
      <4>1. Len(args) # 0
        BY <2>4, <2>5, <2>7, SeqIs
      <4> QED
        BY <4>1, EmptyIsSeq
    <3> QED
      BY <2>3, <2>5, <2>7, <2>8, <3>1 DEF Monitor
  <2>10. e[f] = n /\ \A i \in DOMAIN d : i # f => e[i] = d[i]
    BY <1>1, <2>1, <2>2, PutIs
  <2>11. Kept(e)
    BY <2>1, <2>2, <2>3, <2>8, <2>9, OneKept
  <2>12. \A i \in DOMAIN d : OwnMonitor(e, i) = OwnMonitor(d, i)
    BY <1>1, <2>1, <2>2, <2>8, <2>9, OwnMonitorKept
  <2>13. ASSUME NEW later, Addresses(e, later, row, v)
         PROVE  v = Display(e, row)
    <3>1. OwnMonitor(e, j)
      BY <2>13 DEF Addresses
    <3>2. f = j
      BY <1>2, <1>5, <2>12, <3>1
    <3> QED
      BY <1>2, <1>4, <2>7, <2>8, <2>10, <3>2
  <2>14. ASSUME NEW other \in Rows(built), NEW rec, NEW later, NEW s, other # row,
                SectionOf(other) = SectionOf(row), Agrees(d, rec, other, s),
                Addresses(e, later, other, s)
         PROVE  s = Display(e, other)
    <3> DEFINE i == other[2][1]
    <3>1. /\ other[1] = "workspace" /\ i \in DOMAIN d /\ d[i].name = section
          /\ \A x : Display(x, other) = Read(x[i].args, 2, Num)
      BY <1>2, <1>4, <2>14
    <3>2. OwnMonitor(d, i)
      BY <2>12, <2>14, <3>1 DEF Addresses
    <3>3. s = Display(d, other)
      BY <2>14, <3>1, <3>2 DEF Agrees, Addresses
    <3>4. i # f
      <4>1. ASSUME i = f
            PROVE  FALSE
        <5>1. i # j
          BY <2>14, <3>1, RowsDiffer DEF OfNode
        <5>2. IsFor(d[j], d[i].name, Monitor(d[i]))
          BY <1>2, <2>3, <3>1, <4>1 DEF IsFor
        <5> QED
          BY <1>2, <3>2, <5>1, <5>2 DEF OwnMonitor
      <4> QED
        BY <4>1
    <3> QED
      BY <2>10, <3>1, <3>3, <3>4
  <2>15. SectionAgrees(d, e, row, v)
    BY <2>11, <2>13, <2>14 DEF SectionAgrees, Agrees
  <2> QED
    BY <2>15 DEF e
<1> QED
  BY <1>7, <1>8

LEMMA SettingAgrees ==
  ASSUME IsDocument(built), NEW d, IsDocument(d), Kept(d),
         NEW row \in Rows(built), row[1] = "setting", NEW v \in Input(row), NEW bare
  PROVE  SectionAgrees(d, Edited(d, row, v, bare), row, v)
<1> DEFINE path == row[2]
           e == Edited(d, row, v, bare)
<1>1. /\ path \in Settings /\ path[1] \notin ListSections /\ Len(path) \in 1..3
      /\ SectionOf(row) = path[1]
  BY RowsAre, SectionsAssumption DEF SectionOf
<1>2. e = SetSetting(d, path, v) /\ v \in Readable(path)
  BY InputsAre DEF Edited, Readable
<1>3. /\ ReadSetting(e, path) \in {v, Default}
      /\ \A other \in Settings : other # path => ReadSetting(e, other) = ReadSetting(d, other)
  BY <1>1, <1>2, SettingReads
<1>4. OneChanged(d, e, path[1])
  BY <1>1, <1>2, SetSettingChanges
<1> HIDE DEF e
<1>5. Kept(e)
  <2>1. Outside(d, e, path[1])
    BY <1>4, OneChangedOutside
  <2> QED
    BY <1>1, <2>1, OthersKept DEF ListSections
<1>6. \A later : Agrees(e, later, row, v)
  BY <1>3 DEF Agrees, Addresses, Display
<1>7. ASSUME NEW other \in Rows(built), NEW rec, NEW later, NEW s, other # row,
             SectionOf(other) = SectionOf(row), Agrees(d, rec, other, s)
      PROVE  Agrees(e, later, other, s)
  <2>1. other[1] = "setting"
    BY <1>1, <1>7, RowsAre DEF SectionOf, OfNode, OfKid, ListSections
  <2>2. other[2] \in Settings /\ other[2] # path
    BY <1>7, <2>1, RowsAre, RowsDiffer
  <2>3. ReadSetting(e, other[2]) = ReadSetting(d, other[2])
    BY <1>3, <2>2
  <2> QED
    BY <1>7, <2>1, <2>3 DEF Agrees, Addresses, Display
<1>8. SectionAgrees(d, e, row, v)
  BY <1>5, <1>6, <1>7 DEF SectionAgrees
<1> QED
  BY <1>8 DEF e

\* The rows of the binds and where they find theirs.
BindRow(row) == row \in Rows(built) /\ row[1] \in {"chord", "action"}

LEMMA BindsAt ==
  ASSUME IsDocument(built), NEW d, IsDocument(d), Kept(d), NEW row, BindRow(row)
  PROVE  /\ row[2][1] \in DOMAIN d /\ d[row[2][1]].name = "binds"
         /\ row[2][1] = Position(d, "binds") /\ KidsAt(d, "binds") = d[row[2][1]].kids
         /\ HasBlock(d, "binds")
         /\ row[2][2] \in DOMAIN d[row[2][1]].kids
         /\ row[2][2] \in Nat \ {0} /\ ~(row[2][2] > Len(d[row[2][1]].kids))
<1> DEFINE i == row[2][1]
           k == row[2][2]
<1>1. /\ i = Position(built, "binds") /\ i \in DOMAIN built /\ built[i].name = "binds"
      /\ k \in DOMAIN KidsAt(built, "binds")
  <2>1. SectionOf(row) = "binds" /\ row[1] \in OfKid
    BY DEF BindRow, SectionOf, OfKid
  <2> QED
    BY <2>1, RowsAre DEF BindRow
<1>2. IsSeq(d) /\ IsSeq(built) /\ SameNames(built, d)
  BY DEF IsDocument, IsBlock, Kept
<1>3. i \in DOMAIN d /\ d[i].name = "binds" /\ i # 0
  BY <1>1, <1>2, SeqIs DEF SameNames
<1>4. Position(d, "binds") = i
  BY <1>1, <1>2, SamePosition
<1> HIDE DEF i, k
<1>5. KidsAt(d, "binds") = d[i].kids /\ KidsAt(built, "binds") = built[i].kids
  BY <1>1, <1>3, <1>4 DEF KidsAt
<1>6. Len(d[i].kids) = Len(built[i].kids)
  BY <1>3 DEF Kept
<1>7. IsSeq(d[i].kids) /\ IsNode(d[i]) /\ IsSeq(built[i].kids)
  BY <1>1, <1>3, KidsAreBlocks
<1>8. /\ DOMAIN d[i].kids = 1..Len(d[i].kids) /\ DOMAIN built[i].kids = 1..Len(built[i].kids)
      /\ Len(d[i].kids) \in Nat
  BY <1>7, SeqIs
<1>9. k \in 1..Len(d[i].kids)
  BY <1>1, <1>5, <1>6, <1>8
<1>10. d[i].block
  <2>1. d[i].kids # <<>>
    BY <1>8, <1>9
  <2> QED
    BY <1>7, <2>1 DEF IsNode
<1> QED
  BY <1>3, <1>4, <1>5, <1>8, <1>9, <1>10 DEF HasBlock, i, k

\* The row's bind, and only it, is another node.
BindIsPut(d, e, row, n) ==
  e = PutKids(d, "binds", Put(KidsAt(d, "binds"), row[2][2], n))

BindHas(d, e, row, n) ==
  /\ Kept(e)
  /\ e[row[2][1]].kids[row[2][2]] = n
  /\ \A k \in DOMAIN d[row[2][1]].kids : k # row[2][2] =>
       e[row[2][1]].kids[k] = d[row[2][1]].kids[k]

LEMMA BindPut ==
  ASSUME IsDocument(built), NEW d, IsDocument(d), Kept(d), NEW row, BindRow(row), NEW n,
         NEW e, BindIsPut(d, e, row, n)
  PROVE  BindHas(d, e, row, n)
<1> DEFINE i == row[2][1]
           k == row[2][2]
           kids == Put(d[i].kids, k, n)
           m == WithKids(d[i], kids)
<1>1. /\ i \in DOMAIN d /\ d[i].name = "binds" /\ i = Position(d, "binds")
      /\ KidsAt(d, "binds") = d[i].kids /\ HasBlock(d, "binds")
      /\ k \in DOMAIN d[i].kids
  BY BindsAt
<1> HIDE DEF i, k
<1>2. e = Put(d, i, m)
  BY <1>1, PutKidsIs DEF BindIsPut, k
<1>3. IsSeq(d) /\ IsNode(d[i]) /\ IsSeq(d[i].kids) /\ d[i].block
  BY <1>1, KidsAreBlocks DEF IsDocument, IsBlock, HasBlock
<1>4. /\ Len(kids) = Len(d[i].kids) /\ kids[k] = n
      /\ \A l \in DOMAIN d[i].kids : l # k => kids[l] = d[i].kids[l]
  BY <1>1, <1>3, PutIs
<1> HIDE DEF kids
<1>5. m.name = d[i].name /\ m.kids = kids
  BY <1>3, WithKidsIs
<1> HIDE DEF m
<1>6. Kept(e)
  BY <1>1, <1>2, <1>4, <1>5, OneKept
<1>7. e[i] = m
  BY <1>1, <1>2, <1>3, PutIs
<1> QED
  BY <1>4, <1>5, <1>6, <1>7 DEF BindHas, i, k

\* A bind's row changes its name, or its entries.
SameBut(row, old, n) ==
  \/ row[1] = "chord" /\ n.args = old.args
  \/ row[1] = "action" /\ n.name = old.name

\* The other rows of the binds, after one of them changed a name or the entries.
LEMMA BindOthers ==
  ASSUME IsDocument(built), NEW d, IsDocument(d), Kept(d), NEW row, BindRow(row), NEW n,
         SameBut(row, d[row[2][1]].kids[row[2][2]], n),
         NEW e, BindIsPut(d, e, row, n),
         NEW other \in Rows(built), other # row, SectionOf(other) = "binds",
         NEW rec, NEW later, other \in rec => other \in later,
         NEW s, Agrees(d, rec, other, s)
  PROVE  Agrees(e, later, other, s)
<1> DEFINE i == row[2][1]
           k == row[2][2]
           l == other[2][2]
<1>1. BindRow(other)
  <2>1. other[1] # "setting"
    BY RowsAre, SectionsAssumption DEF SectionOf, ListSections
  <2> QED
    BY <2>1, RowsAre DEF BindRow, SectionOf, OfNode, OfKid
<1>2. i = Position(d, "binds") /\ other[2][1] = Position(d, "binds") /\ l \in DOMAIN d[i].kids
  <2>1. i = Position(d, "binds")
    BY BindsAt
  <2>2. /\ other[2][1] = Position(d, "binds")
        /\ l \in DOMAIN d[other[2][1]].kids
    BY <1>1, BindsAt
  <2> QED
    BY <2>1, <2>2
<1>3. /\ e[i].kids[k] = n
      /\ \A x \in DOMAIN d[i].kids : x # k => e[i].kids[x] = d[i].kids[x]
  <2>1. BindHas(d, e, row, n)
    BY BindPut
  <2> QED
    BY <2>1 DEF BindHas
<1>4. other[2][1] = i
  BY <1>2
<1>5. other[1] = row[1] => l # k
  BY <1>1, RowsDiffer DEF BindRow, OfKid
<1> DEFINE old == d[i].kids[l]
           new == e[i].kids[l]
<1>6. \/ other[1] = "chord" /\ new.name = old.name
      \/ other[1] = "action" /\ new.args = old.args
  <2>1. CASE l # k
    <3>1. new = old
      BY <1>2, <1>3, <2>1
    <3> QED
      BY <1>1, <3>1 DEF BindRow
  <2>2. CASE l = k
    <3>1. new = n /\ other[1] # row[1]
      BY <1>3, <1>5, <2>2
    <3> QED
      BY <1>1, <2>2, <3>1 DEF BindRow, SameBut
  <2> QED
    BY <2>1, <2>2
<1>7. Display(e, other) = Display(d, other)
  BY <1>4, <1>6 DEF Display
<1>8. Addresses(e, later, other, s) => Addresses(d, rec, other, s)
  BY <1>1 DEF Addresses, BindRow
<1> QED
  BY <1>7, <1>8 DEF Agrees

LEMMA ChordAgrees ==
  ASSUME IsDocument(built), NEW d, IsDocument(d), Kept(d),
         NEW row, BindRow(row), row[1] = "chord", NEW v
  PROVE  SectionAgrees(d, SetChord(d, row[2][2], v), row, v)
<1> DEFINE i == row[2][1]
           k == row[2][2]
           n == WithName(d[i].kids[k], v)
           e == SetChord(d, k, v)
<1>1. /\ i \in DOMAIN d /\ KidsAt(d, "binds") = d[i].kids
      /\ k \in DOMAIN d[i].kids /\ ~(k > Len(d[i].kids))
  BY BindsAt
<1>2. IsNode(d[i].kids[k])
  BY <1>1, KidsAreBlocks, KidsOfKids
<1>3. n.name = v /\ n.args = d[i].kids[k].args
  BY <1>2, WithNameIs
<1>4. BindIsPut(d, e, row, n)
  BY <1>1, SetChordIs DEF BindIsPut
<1>5. SectionOf(row) = "binds"
  BY DEF SectionOf
<1> HIDE DEF e, n
<1>6. Kept(e) /\ e[i].kids[k] = n
  <2>1. BindHas(d, e, row, n)
    BY <1>4, BindPut
  <2> QED
    BY <2>1 DEF BindHas
<1>7. \A later : Agrees(e, later, row, v)
  BY <1>3, <1>6 DEF Agrees, Display
<1>8. ASSUME NEW other \in Rows(built), NEW rec, NEW later, NEW s, other # row,
             SectionOf(other) = SectionOf(row), other \in rec => other \in later,
             Agrees(d, rec, other, s)
      PROVE  Agrees(e, later, other, s)
  <2>1. SameBut(row, d[i].kids[k], n)
    BY <1>3 DEF SameBut
  <2> QED
    BY <1>4, <1>5, <1>8, <2>1, BindOthers
<1>9. SectionAgrees(d, e, row, v)
  BY <1>6, <1>7, <1>8 DEF SectionAgrees
<1> QED
  BY <1>9 DEF e

LEMMA ActionAgrees ==
  ASSUME IsDocument(built), NEW d, IsDocument(d), Kept(d),
         NEW row, BindRow(row), row[1] = "action", NEW v \in Seq(Num \cup Str)
  PROVE  SectionAgrees(d, SetAction(d, row[2][2], v), row, v)
<1> DEFINE i == row[2][1]
           k == row[2][2]
           words == Words(v)
           n == WithArgs(d[i].kids[k], Args(words))
           e == SetAction(d, k, v)
<1>1. /\ i \in DOMAIN d /\ KidsAt(d, "binds") = d[i].kids
      /\ k \in DOMAIN d[i].kids /\ ~(k > Len(d[i].kids))
  BY BindsAt
<1>2. IsNode(d[i].kids[k])
  BY <1>1, KidsAreBlocks, KidsOfKids
<1>3. /\ IsSeq(Args(words))
      /\ (\A j \in DOMAIN v : v[j] \notin Spaced) => words = v
  BY WordsAre, ArgsIs
<1>4. BindIsPut(d, e, row, n)
  BY <1>1, SetActionIs DEF BindIsPut
<1> HIDE DEF words
<1>5. n.name = d[i].kids[k].name /\ n.args = Args(words)
  BY <1>2, <1>3, WithArgsIs
<1>6. SectionOf(row) = "binds"
  BY DEF SectionOf
<1> HIDE DEF e, n
<1>7. Kept(e) /\ e[i].kids[k] = n
  <2>1. BindHas(d, e, row, n)
    BY <1>4, BindPut
  <2> QED
    BY <2>1 DEF BindHas
<1>8. ASSUME NEW later, Addresses(e, later, row, v)
      PROVE  v = Display(e, row)
  <2>1. words = v
    BY <1>3, <1>8 DEF Addresses
  <2>2. Display(e, row) = [j \in DOMAIN Args(v) |-> Args(v)[j].val]
    BY <1>5, <1>7, <2>1 DEF Display
  <2>3. [j \in DOMAIN Args(v) |-> Args(v)[j].val] = [j \in DOMAIN v |-> v[j]]
    BY DEF Args, Arg
  <2> QED
    BY <2>2, <2>3
<1>9. ASSUME NEW other \in Rows(built), NEW rec, NEW later, NEW s, other # row,
             SectionOf(other) = SectionOf(row), other \in rec => other \in later,
             Agrees(d, rec, other, s)
      PROVE  Agrees(e, later, other, s)
  <2>1. SameBut(row, d[i].kids[k], n)
    BY <1>5 DEF SameBut
  <2> QED
    BY <1>4, <1>6, <1>9, <2>1, BindOthers
<1>10. SectionAgrees(d, e, row, v)
  BY <1>7, <1>8, <1>9 DEF SectionAgrees, Agrees
<1> QED
  BY <1>10 DEF e

LEMMA EditedSectionAgrees ==
  ASSUME IsDocument(built), NEW d, IsDocument(d), Kept(d),
         NEW row \in Rows(built), NEW v \in Input(row), NEW bare
  PROVE  SectionAgrees(d, Edited(d, row, v, bare), row, v)
<1>1. CASE row[1] = "setting"
  BY <1>1, SettingAgrees
<1>2. CASE row[1] \in {"scale", "mode"}
  BY <1>2, OutputAgrees
<1>3. CASE row[1] = "workspace"
  BY <1>3, WorkspaceAgrees
<1>4. CASE row[1] = "chord"
  <2>1. BindRow(row) /\ Edited(d, row, v, bare) = SetChord(d, row[2][2], v)
    BY <1>4 DEF BindRow, Edited
  <2> QED
    BY <1>4, <2>1, ChordAgrees
<1>5. CASE row[1] = "action"
  <2>1. BindRow(row) /\ Edited(d, row, v, bare) = SetAction(d, row[2][2], v)
    BY <1>5 DEF BindRow, Edited
  <2>2. v \in Seq(Num \cup Str)
    BY <1>5, ActionsAre
  <2> QED
    BY <1>5, <2>1, <2>2, ActionAgrees
<1>6. CASE row[1] \in {"startup", "app-id", "rule-workspace"}
  <2> DEFINE e == Edited(d, row, v, bare)
  <2>1. SectionOf(row) \in {"spawn-at-startup", "layer-rules"}
    BY <1>6 DEF SectionOf
  <2>2. OneChanged(d, e, SectionOf(row))
    BY EditedChanges
  <2> HIDE DEF e
  <2>3. Kept(e)
    <3>1. Outside(d, e, SectionOf(row))
      BY <2>2, OneChangedOutside
    <3> QED
      BY <2>1, <3>1, OthersKept
  <2>4. \A later : Agrees(e, later, row, v)
    BY <1>6 DEF Agrees, Addresses
  <2>5. ASSUME NEW other \in Rows(built), SectionOf(other) = SectionOf(row)
        PROVE  other[1] \in {"startup", "app-id", "rule-workspace"}
    <3>1. other[1] # "setting"
      <4>1. ASSUME other[1] = "setting"
            PROVE  FALSE
        <5>1. other[2] \in Settings /\ other[2][1] = SectionOf(row)
          BY <2>5, <4>1, RowsAre DEF SectionOf
        <5> QED
          BY <2>1, <5>1, SectionsAssumption DEF ListSections
      <4> QED
        BY <4>1
    <3> QED
      BY <2>1, <2>5, <3>1, RowsAre DEF SectionOf, OfNode, OfKid
  <2>6. \A other \in Rows(built) : SectionOf(other) = SectionOf(row) =>
          \A later, s : Agrees(e, later, other, s)
    BY <2>5 DEF Agrees, Addresses
  <2>7. SectionAgrees(d, e, row, v)
    BY <2>3, <2>4, <2>6 DEF SectionAgrees
  <2> QED
    BY <2>7 DEF e
<1> QED
  BY <1>1, <1>2, <1>3, <1>4, <1>5, <1>6, RowsAre DEF OfNode, OfKid

\* Together with what it leaves alone, an edit keeps every other row in
\* agreement with the document.
LEMMA SectionsApart ==
  ASSUME IsDocument(built), NEW d, IsDocument(d), Kept(d),
         NEW row, NEW v, NEW e, OneChanged(d, e, SectionOf(row)), SectionAgrees(d, e, row, v),
         NEW other \in Rows(built), other # row,
         NEW rec, NEW later, other \in rec => other \in later, other \in later => other \in rec,
         NEW s, Agrees(d, rec, other, s)
  PROVE  Agrees(e, later, other, s)
<1>1. CASE SectionOf(other) = SectionOf(row)
  BY <1>1 DEF SectionAgrees
<1>2. CASE SectionOf(other) # SectionOf(row)
  <2>1. Outside(d, e, SectionOf(row))
    BY OneChangedOutside
  <2> QED
    BY <1>2, <2>1, OthersAgree
<1> QED
  BY <1>1, <1>2

\* The inductive invariant: while only rows have changed the document, it keeps
\* what the rows' addresses are taken from, and every row agrees with it.
SectionsInv ==
  /\ Shape
  /\ fresh /\ doc # Unparsed =>
       /\ Kept(doc)
       /\ \A row \in Rows(built) : Agrees(doc, recorded, row, shown[row])

LEMMA AllAgree == SectionsInv => WidgetsAgree
<1>1. \A row \in Rows(built) : Addressed(row) => Addresses(doc, recorded, row, shown[row])
  BY DEF Addressed, Addresses
<1> QED
  BY <1>1 DEF SectionsInv, Shape, WidgetsAgree, Agrees

LEMMA SectionsInvInit == Init => SectionsInv
<1> SUFFICES ASSUME Init
             PROVE  SectionsInv
  OBVIOUS
<1>1. Shape
  BY ShapeInit
<1>2. ASSUME fresh, doc # Unparsed
      PROVE  /\ Kept(doc)
             /\ \A row \in Rows(built) : Agrees(doc, recorded, row, shown[row])
  <2>1. doc = built
    BY <1>2 DEF Init
  <2>2. Kept(doc)
    BY <2>1 DEF Kept, SameNames
  <2>3. \A row \in Rows(built) : shown[row] = Display(doc, row)
    BY <2>1 DEF Init
  <2> QED
    BY <2>2, <2>3 DEF Agrees
<1> QED
  BY <1>1, <1>2 DEF SectionsInv

\* The invariant after a step that does not build the rows anew.
LEMMA SectionsInvAfter ==
  ASSUME built' = built, Shape',
         fresh' /\ doc' # Unparsed =>
           /\ Kept(doc')
           /\ \A row \in Rows(built) : Agrees(doc', recorded', row, shown'[row])
  PROVE  SectionsInv'
<1>1. Kept(doc') => Kept(doc)'
  BY DEF Kept
<1>2. ASSUME NEW row
      PROVE  Agrees(doc', recorded', row, shown'[row]) => Agrees(doc, recorded, row, shown[row])'
  BY DEF Agrees, Addresses
<1> QED
  BY <1>1, <1>2 DEF SectionsInv

LEMMA SectionsInvNext == SectionsInv /\ [Next]_vars => SectionsInv'
<1> SUFFICES ASSUME SectionsInv, [Next]_vars
             PROVE  SectionsInv'
  OBVIOUS
<1>1. Shape'
  BY ShapeNext DEF SectionsInv
<1>2. built' = built
  BY DEF Next, EditRow, Record, Replaced, vars
<1>3. IsDocument(built)
  BY DocumentsAre DEF SectionsInv, Shape
<1>4. ASSUME fresh', doc' # Unparsed
      PROVE  /\ Kept(doc')
             /\ \A row \in Rows(built) : Agrees(doc', recorded', row, shown'[row])
  <2>1. fresh
    BY <1>4 DEF Next, EditRow, Record, Replaced, vars
  <2>2. /\ doc # Unparsed /\ Kept(doc) /\ IsDocument(doc) /\ DOMAIN shown = Rows(built)
        /\ \A row \in Rows(built) : Agrees(doc, recorded, row, shown[row])
    <3>1. doc # Unparsed
      BY <1>4 DEF Next, EditRow, Record, Replaced, vars
    <3> QED
      BY <2>1, <3>1 DEF SectionsInv, Shape
  <2>3. ASSUME NEW row \in DOMAIN shown, NEW v \in Input(row), NEW bare \in BOOLEAN,
               EditRow(row, v, bare)
        PROVE  /\ Kept(doc')
               /\ \A other \in Rows(built) : Agrees(doc', recorded', other, shown'[other])
    <3>1. /\ doc' = Edited(doc, row, v, bare) /\ recorded' = recorded \ {row}
          /\ shown' = [shown EXCEPT ![row] = v]
      BY <1>4, <2>2, <2>3 DEF EditRow, Written
    <3>2. OneChanged(doc, doc', SectionOf(row))
      BY <1>3, <2>2, <3>1, EditedChanges
    <3>3. SectionAgrees(doc, doc', row, v)
      BY <1>3, <2>2, <3>1, EditedSectionAgrees
    <3>4. Agrees(doc', recorded', row, shown'[row])
      BY <2>2, <3>1, <3>3 DEF SectionAgrees
    <3>5. ASSUME NEW other \in Rows(built), other # row
          PROVE  Agrees(doc', recorded', other, shown'[other])
      <4>1. shown'[other] = shown[other] /\ (other \in recorded <=> other \in recorded')
        BY <2>2, <3>1, <3>5
      <4>2. Agrees(doc, recorded, other, shown[other])
        BY <2>2
      <4>3. Agrees(doc', recorded', other, shown[other])
        BY <1>3, <2>2, <3>2, <3>3, <3>5, <4>1, <4>2, SectionsApart
      <4> QED
        BY <4>1, <4>3
    <3> QED
      BY <3>3, <3>4, <3>5 DEF SectionAgrees
  <2>4. ASSUME NEW row \in DOMAIN shown, NEW chord \in Typed, Record(row, chord)
        PROVE  /\ Kept(doc')
               /\ \A other \in Rows(built) : Agrees(doc', recorded', other, shown'[other])
    <3>1. /\ doc' = SetChord(doc, row[2][2], chord) /\ recorded' = recorded \cup {row}
          /\ shown' = shown /\ row[1] = "chord"
      BY <1>4, <2>2, <2>4 DEF Record, Written
    <3>2. BindRow(row)
      BY <2>2, <3>1 DEF BindRow
    <3>3. OneChanged(doc, doc', SectionOf(row))
      BY <1>4, <2>1, <2>2, <2>4, EditsChangeOne DEF SectionsInv
    <3>4. SectionAgrees(doc, doc', row, chord)
      BY <1>3, <2>2, <3>1, <3>2, ChordAgrees
    <3>5. Agrees(doc', recorded', row, shown'[row])
      BY <3>1 DEF Agrees, Addresses
    <3>6. ASSUME NEW other \in Rows(built), other # row
          PROVE  Agrees(doc', recorded', other, shown'[other])
      <4>1. shown'[other] = shown[other] /\ (other \in recorded <=> other \in recorded')
        BY <3>1, <3>6
      <4>2. Agrees(doc, recorded, other, shown[other])
        BY <2>2
      <4>3. Agrees(doc', recorded', other, shown[other])
        BY <1>3, <2>2, <3>3, <3>4, <3>6, <4>1, <4>2, SectionsApart
      <4> QED
        BY <4>1, <4>3
    <3> QED
      BY <3>4, <3>5, <3>6 DEF SectionAgrees
  <2>5. ASSUME NEW d, Replaced(d)
        PROVE  FALSE
    BY <1>4, <2>5 DEF Replaced
  <2>6. CASE UNCHANGED vars
    BY <2>2, <2>6 DEF vars
  <2> QED
    BY <2>3, <2>4, <2>5, <2>6, <2>2 DEF Next
<1> QED
  BY <1>1, <1>2, <1>4, SectionsInvAfter

\* As long as only rows have changed the document, a row whose handler writes
\* where the row was read shows what the document says: for every document,
\* every choice of settings, and every order in which the rows of shared nodes
\* were edited and binds were recorded.
THEOREM WidgetsShowDocument == Spec => []WidgetsAgree
<1>1. Spec => []SectionsInv
  BY SectionsInvInit, SectionsInvNext, PTL DEF Spec
<1> QED
  BY <1>1, AllAgree, PTL
==============================================================================
