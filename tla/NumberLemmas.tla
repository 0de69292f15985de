---------------------------- MODULE NumberLemmas ----------------------------
(***************************************************************************)
(* Induction over the natural numbers, stated with sets in place of        *)
(* predicates: what holds of a number is the set of the numbers it holds   *)
(* of.  What is defined by recursion over them is defined, and with it the *)
(* concatenation of a sequence of sequences.                               *)
(***************************************************************************)
EXTENDS Integers, SequencesExt, SequenceTheorems, WellFoundedInduction, TLAPS

\* A set of natural numbers that is not empty has a least element.
LEMMA LeastNumber ==
  ASSUME NEW T \in SUBSET Nat, T # {}
  PROVE  \E x \in T : \A y \in T : x <= y
<1> DEFINE Below == OpToRel(<, Nat)
<1>1. IsWellFoundedOn(Below, Nat)
  BY NatLessThanWellFounded
<1>2. PICK x \in T : \A y \in T : ~(<<y, x>> \in Below)
  <2> HIDE DEF Below
  <2> QED
    BY <1>1, WFMin, Zenon
<1>3. \A y \in T : ~(y < x)
  BY <1>2 DEF OpToRel
<1> QED
  BY <1>3

\* What holds of 0, and of n + 1 when it holds of n, holds of every number.
LEMMA NumberInduction ==
  ASSUME NEW T \in SUBSET Nat, 0 \in T, \A n \in T : n + 1 \in T
  PROVE  T = Nat
<1> SUFFICES ASSUME Nat \ T # {}
             PROVE  FALSE
  OBVIOUS
<1>1. PICK x \in Nat \ T : \A y \in Nat \ T : x <= y
  BY LeastNumber
<1>2. x - 1 \in T
  BY <1>1
<1>3. (x - 1) + 1 \in T
  BY <1>2
<1> QED
  BY <1>1, <1>3

\* f begins with base and goes from value to value by the steps.
Follows(f, V, base, N, step) ==
  /\ f \in [0..N -> V]
  /\ f[0] = base
  /\ \A n \in 1..N : f[n] = step[n][f[n - 1]]

\* What is defined from a first value by a step from each to the next is defined.
LEMMA Recursion ==
  ASSUME NEW V, NEW base \in V, NEW N \in Nat, NEW step \in [1..N -> [V -> V]]
  PROVE  \E f : Follows(f, V, base, N, step)
<1> DEFINE T == {n \in Nat : \E f \in [0..N -> V] :
                   f[0] = base /\ \A k \in 1..N : k <= n => f[k] = step[k][f[k - 1]]}
<1>1. 0 \in T
  <2> DEFINE f == [k \in 0..N |-> base]
  <2>1. f \in [0..N -> V]
    OBVIOUS
  <2>2. f[0] = base /\ \A k \in 1..N : ~(k <= 0)
    OBVIOUS
  <2> HIDE DEF f
  <2> QED
    BY <2>1, <2>2
<1>2. ASSUME NEW n \in T
      PROVE  n + 1 \in T
  <2>1. /\ n \in Nat
        /\ \E f \in [0..N -> V] :
             f[0] = base /\ \A k \in 1..N : k <= n => f[k] = step[k][f[k - 1]]
    OBVIOUS
  <2>2. PICK f \in [0..N -> V] :
          f[0] = base /\ \A k \in 1..N : k <= n => f[k] = step[k][f[k - 1]]
    BY <2>1
  <2> DEFINE g == [k \in 0..N |-> IF k = n + 1 THEN step[k][f[k - 1]] ELSE f[k]]
  <2>3. g \in [0..N -> V]
    <3>1. ASSUME NEW k \in 0..N, k = n + 1
          PROVE  step[k][f[k - 1]] \in V
      <4>1. k \in 1..N /\ k - 1 \in 0..N
        BY <2>1, <3>1
      <4> QED
        BY <4>1
    <3> QED
      BY <3>1
  <2>4. g[0] = base
    BY <2>1, <2>2
  <2>5. ASSUME NEW k \in 1..N, k <= n + 1
        PROVE  g[k] = step[k][g[k - 1]]
    <3>1. g[k - 1] = f[k - 1]
      BY <2>1, <2>5
    <3>2. CASE k = n + 1
      BY <3>1, <3>2
    <3>3. CASE k <= n
      BY <2>1, <2>2, <3>1, <3>3
    <3> QED
      BY <2>1, <2>5, <3>2, <3>3
  <2> HIDE DEF g
  <2> QED
    BY <2>1, <2>3, <2>4, <2>5
<1>3. T \in SUBSET Nat
  OBVIOUS
<1>4. N \in T
  <2> HIDE DEF T
  <2> QED
    BY <1>1, <1>2, <1>3, NumberInduction
<1>5. PICK f \in [0..N -> V] :
        f[0] = base /\ \A k \in 1..N : k <= N => f[k] = step[k][f[k - 1]]
  BY <1>4
<1>6. \A k \in 1..N : f[k] = step[k][f[k - 1]]
  BY <1>5
<1>7. Follows(f, V, base, N, step)
  BY <1>5, <1>6 DEF Follows
<1> QED
  BY <1>7

------------------------------------------------------------------------------
(* Sequences of sequences, put end to end *)

FlatIs(parts, f) ==
  f = [i \in 1..Len(parts) |-> IF i = 1 THEN parts[i] ELSE f[i - 1] \o parts[i]]

LEMMA Flattened ==
  ASSUME NEW V, NEW parts \in Seq(Seq(V)), Len(parts) # 0
  PROVE  \E f : /\ FlatIs(parts, f)
                /\ f \in [1..Len(parts) -> Seq(V)]
                /\ FlattenSeq(parts) = f[Len(parts)]
<1> DEFINE N == Len(parts)
           W == Seq(V)
           step == [n \in 1..N |-> [s \in W |-> s \o parts[n]]]
           chosen == CHOOSE f : FlatIs(parts, f)
<1>1. N \in Nat /\ \A n \in 1..N : parts[n] \in W
  OBVIOUS
<1>2. step \in [1..N -> [W -> W]]
  BY <1>1
<1>3. <<>> \in W
  OBVIOUS
<1>4. PICK f : Follows(f, W, <<>>, N, step)
  <2> HIDE DEF step, N, W
  <2> QED
    BY <1>1, <1>2, <1>3, Recursion, Zenon
<1>5. f \in [0..N -> W] /\ f[0] = <<>>
  BY <1>4 DEF Follows
<1>6. ASSUME NEW n \in 1..N
      PROVE  f[n] = f[n - 1] \o parts[n] /\ f[n - 1] \in W
  <2>1. f[n - 1] \in W
    <3>1. n - 1 \in 0..N
      BY <1>1
    <3> QED
      BY <1>5, <3>1
  <2>2. f[n] = step[n][f[n - 1]]
    <3> HIDE DEF step, N, W
    <3> QED
      BY <1>4 DEF Follows
  <2> QED
    BY <2>1, <2>2
<1> DEFINE g == [i \in 1..N |-> f[i]]
<1>7. g = [i \in 1..N |-> IF i = 1 THEN parts[i] ELSE g[i - 1] \o parts[i]]
  <2>1. ASSUME NEW i \in 1..N
        PROVE  f[i] = IF i = 1 THEN parts[i] ELSE g[i - 1] \o parts[i]
    <3>1. CASE i = 1
      <4>1. f[i] = <<>> \o parts[i] /\ parts[i] \in Seq(V)
        <5>1. f[i] = f[i - 1] \o parts[i]
          BY <1>6
        <5>2. i - 1 = 0
          BY <3>1
        <5>3. f[i] = <<>> \o parts[i]
          BY <1>5, <5>1, <5>2, Zenon
        <5> QED
          BY <1>1, <5>3
      <4>2. <<>> \o parts[i] = parts[i]
        BY <4>1, ConcatEmptySeq
      <4> QED
        BY <3>1, <4>1, <4>2
    <3>2. CASE i # 1
      <4>1. i - 1 \in 1..N
        BY <1>1, <3>2
      <4>2. g[i - 1] = f[i - 1]
        BY <4>1
      <4> QED
        BY <1>6, <3>2, <4>2
    <3> QED
      BY <3>1, <3>2
  <2> QED
    BY <2>1
<1> HIDE DEF g
<1>8. FlatIs(parts, g)
  BY <1>7 DEF FlatIs
<1>9. FlatIs(parts, chosen)
  BY <1>8, Zenon
<1>10. FlattenSeq(parts) = chosen[N]
  BY SMT DEF FlattenSeq, FlatIs
<1> HIDE DEF chosen
<1>11. \A i \in 1..N : chosen[i] \in W
  <2> DEFINE T == {n \in Nat : n + 1 \in 1..N => chosen[n + 1] \in W}
  <2>1. chosen = [i \in 1..N |-> IF i = 1 THEN parts[i] ELSE chosen[i - 1] \o parts[i]]
    BY <1>9 DEF FlatIs
  <2>2. 0 \in T
    BY <1>1, <2>1
  <2>3. ASSUME NEW n \in T
        PROVE  n + 1 \in T
    <3> SUFFICES ASSUME (n + 1) + 1 \in 1..N
                 PROVE  chosen[(n + 1) + 1] \in W
      OBVIOUS
    <3>1. n + 1 \in 1..N /\ (n + 1) + 1 # 1 /\ ((n + 1) + 1) - 1 = n + 1
      BY <1>1
    <3>2. chosen[(n + 1) + 1] = chosen[n + 1] \o parts[(n + 1) + 1]
      BY <2>1, <3>1
    <3>3. chosen[n + 1] \in W /\ parts[(n + 1) + 1] \in W
      BY <1>1, <3>1
    <3> QED
      BY <3>2, <3>3
  <2>4. T = Nat
    <3>1. T \in SUBSET Nat
      OBVIOUS
    <3> HIDE DEF T
    <3> QED
      BY <2>2, <2>3, <3>1, NumberInduction
  <2> TAKE i \in 1..N
  <2>5. i - 1 \in Nat /\ (i - 1) + 1 = i
    BY <1>1
  <2>6. i - 1 \in T
    BY <2>4, <2>5
  <2> QED
    BY <2>5, <2>6
<1>12. chosen = [i \in 1..N |-> chosen[i]]
  BY <1>9 DEF FlatIs
<1>13. chosen \in [1..N -> W]
  BY <1>11, <1>12
<1> QED
  BY <1>9, <1>10, <1>13, Zenon

LEMMA FlatEmpty == FlattenSeq(<<>>) = <<>>
BY DEF FlattenSeq

LEMMA FlatIsSeq ==
  ASSUME NEW V, NEW parts \in Seq(Seq(V))
  PROVE  FlattenSeq(parts) \in Seq(V)
<1>1. CASE Len(parts) = 0
  <2>1. parts = <<>>
    BY <1>1
  <2> QED
    BY <2>1, FlatEmpty, EmptySeq
<1>2. CASE Len(parts) # 0
  <2>1. Len(parts) \in 1..Len(parts)
    BY <1>2
  <2>2. PICK f : f \in [1..Len(parts) -> Seq(V)] /\ FlattenSeq(parts) = f[Len(parts)]
    BY <1>2, Flattened
  <2> QED
    BY <2>1, <2>2
<1> QED
  BY <1>1, <1>2

\* One more part comes at the end.
LEMMA FlatAppend ==
  ASSUME NEW V, NEW parts \in Seq(Seq(V)), NEW x \in Seq(V)
  PROVE  FlattenSeq(Append(parts, x)) = FlattenSeq(parts) \o x
<1> DEFINE N == Len(parts)
           more == Append(parts, x)
<1>1. /\ N \in Nat /\ more \in Seq(Seq(V)) /\ Len(more) = N + 1 /\ more[N + 1] = x
      /\ \A i \in 1..N : more[i] = parts[i]
  OBVIOUS
<1> HIDE DEF more
<1>2. PICK g : /\ FlatIs(more, g)
               /\ g \in [1 .. N + 1 -> Seq(V)]
               /\ FlattenSeq(more) = g[N + 1]
  BY <1>1, Flattened
<1>3. g = [i \in 1 .. N + 1 |-> IF i = 1 THEN more[i] ELSE g[i - 1] \o more[i]]
  BY <1>1, <1>2 DEF FlatIs
<1>4. CASE N = 0
  <2>1. parts = <<>> /\ g[1] = x
    BY <1>1, <1>3, <1>4
  <2>2. <<>> \o x = x
    BY ConcatEmptySeq
  <2> QED
    BY <1>2, <1>4, <2>1, <2>2, FlatEmpty DEF more
<1>5. CASE N # 0
  <2>1. PICK f : /\ FlatIs(parts, f)
                 /\ f \in [1..N -> Seq(V)]
                 /\ FlattenSeq(parts) = f[N]
    BY <1>5, Flattened
  <2>2. f = [i \in 1..N |-> IF i = 1 THEN parts[i] ELSE f[i - 1] \o parts[i]]
    BY <2>1 DEF FlatIs
  <2> DEFINE T == {n \in Nat : n + 1 \in 1..N => g[n + 1] = f[n + 1]}
  <2>3. 0 \in T
    BY <1>1, <1>3, <2>2
  <2>4. ASSUME NEW n \in T
        PROVE  n + 1 \in T
    <3> SUFFICES ASSUME (n + 1) + 1 \in 1..N
                 PROVE  g[(n + 1) + 1] = f[(n + 1) + 1]
      OBVIOUS
    <3>1. /\ n + 1 \in 1..N /\ (n + 1) + 1 # 1 /\ ((n + 1) + 1) - 1 = n + 1
          /\ (n + 1) + 1 \in 1 .. N + 1
      BY <1>1
    <3>2. g[(n + 1) + 1] = g[n + 1] \o more[(n + 1) + 1]
      BY <1>3, <3>1
    <3>3. f[(n + 1) + 1] = f[n + 1] \o parts[(n + 1) + 1]
      BY <2>2, <3>1
    <3> QED
      BY <1>1, <3>1, <3>2, <3>3
  <2>5. T = Nat
    <3>1. T \in SUBSET Nat
      OBVIOUS
    <3> HIDE DEF T
    <3> QED
      BY <2>3, <2>4, <3>1, NumberInduction
  <2>6. N - 1 \in Nat /\ (N - 1) + 1 = N /\ N \in 1..N
    BY <1>1, <1>5
  <2>7. N - 1 \in T
    BY <2>5, <2>6
  <2>8. g[N] = f[N]
    BY <2>6, <2>7
  <2>9. N + 1 \in 1 .. N + 1 /\ N + 1 # 1 /\ (N + 1) - 1 = N
    BY <1>1, <1>5
  <2>10. g[N + 1] = g[N] \o x
    BY <1>1, <1>3, <2>9
  <2> QED
    BY <1>2, <2>1, <2>8, <2>10 DEF more
<1> QED
  BY <1>4, <1>5

Associates(a, b, c) == (a \o b) \o c = a \o (b \o c)

LEMMA EndToEnd ==
  ASSUME NEW V, NEW a \in Seq(V), NEW b \in Seq(V), NEW c \in Seq(V)
  PROVE  Associates(a, b, c)
BY ConcatAssociative DEF Associates

\* The first part comes first.
LEMMA FlatHead ==
  ASSUME NEW V, NEW parts \in Seq(Seq(V)), parts # <<>>
  PROVE  FlattenSeq(parts) = Head(parts) \o FlattenSeq(Tail(parts))
<1> DEFINE rest == Tail(parts)
           M == Len(rest)
           h == Head(parts)
<1>1. /\ M \in Nat /\ rest \in Seq(Seq(V)) /\ h \in Seq(V) /\ parts[1] = h
      /\ Len(parts) = M + 1 /\ \A i \in 1..M : parts[i + 1] = rest[i] /\ rest[i] \in Seq(V)
  OBVIOUS
<1> HIDE DEF rest, h
<1>2. PICK g : /\ FlatIs(parts, g)
               /\ g \in [1 .. M + 1 -> Seq(V)]
               /\ FlattenSeq(parts) = g[M + 1]
  BY <1>1, Flattened
<1>3. g = [i \in 1 .. M + 1 |-> IF i = 1 THEN parts[i] ELSE g[i - 1] \o parts[i]]
  BY <1>1, <1>2 DEF FlatIs
<1>4. g[1] = h
  BY <1>1, <1>3
<1>5. CASE M = 0
  <2>1. rest = <<>>
    BY <1>1, <1>5
  <2>2. h \o <<>> = h
    BY <1>1, ConcatEmptySeq
  <2>3. FlattenSeq(parts) = h
    BY <1>2, <1>4, <1>5
  <2>4. FlattenSeq(rest) = <<>>
    BY <2>1, FlatEmpty
  <2> QED
    BY <2>2, <2>3, <2>4 DEF rest, h
<1>6. CASE M # 0
  <2>1. PICK f : /\ FlatIs(rest, f)
                 /\ f \in [1..M -> Seq(V)]
                 /\ FlattenSeq(rest) = f[M]
    BY <1>1, <1>6, Flattened
  <2>2. f = [i \in 1..M |-> IF i = 1 THEN rest[i] ELSE f[i - 1] \o rest[i]]
    BY <2>1 DEF FlatIs
  <2> DEFINE T == {n \in Nat : n + 1 \in 1..M => g[(n + 1) + 1] = h \o f[n + 1]}
  <2>3. 0 \in T
    <3> SUFFICES ASSUME 0 + 1 \in 1..M
                 PROVE  g[(0 + 1) + 1] = h \o f[0 + 1]
      OBVIOUS
    <3>1. 1 \in 1..M /\ 2 \in 1 .. M + 1 /\ 2 - 1 = 1 /\ 2 # 1 /\ 1 + 1 = 2
      BY <1>1
    <3>2. g[2] = g[1] \o parts[2]
      BY <1>3, <3>1
    <3>3. f[1] = rest[1] /\ parts[2] = rest[1]
      BY <1>1, <2>2, <3>1
    <3>4. 0 + 1 = 1 /\ (0 + 1) + 1 = 2
      OBVIOUS
    <3> QED
      BY <1>4, <3>2, <3>3, <3>4
  <2>4. ASSUME NEW n \in T
        PROVE  n + 1 \in T
    <3> SUFFICES ASSUME (n + 1) + 1 \in 1..M
                 PROVE  g[((n + 1) + 1) + 1] = h \o f[(n + 1) + 1]
      OBVIOUS
    <3> DEFINE k == (n + 1) + 1
    <3>1. /\ n + 1 \in 1..M /\ k # 1 /\ k - 1 = n + 1 /\ k \in 1..M
          /\ k + 1 \in 1 .. M + 1 /\ k + 1 # 1 /\ (k + 1) - 1 = k
      <4>1. n \in Nat /\ M \in Nat
        BY <1>1
      <4>2. k \in 1..M
        OBVIOUS
      <4> QED
        BY <4>1, <4>2
    <3>2. g[(n + 1) + 1] = h \o f[n + 1]
      BY <3>1
    <3> HIDE DEF k
    <3>3. g[k + 1] = g[k] \o parts[k + 1]
      BY <1>3, <3>1
    <3>4. f[k] = f[n + 1] \o rest[k]
      BY <2>2, <3>1
    <3>5. g[k] = h \o f[n + 1]
      BY <3>2 DEF k
    <3>6. /\ parts[k + 1] = rest[k] /\ rest[k] \in Seq(V)
          /\ f[n + 1] \in Seq(V) /\ h \in Seq(V)
      BY <1>1, <2>1, <3>1
    <3>7. (h \o f[n + 1]) \o rest[k] = h \o (f[n + 1] \o rest[k])
      <4>1. Associates(h, f[n + 1], rest[k])
        BY <3>6, EndToEnd
      <4> QED
        BY <4>1 DEF Associates
    <3>8. g[k + 1] = h \o f[k]
      BY <3>3, <3>4, <3>5, <3>6, <3>7
    <3> QED
      BY <3>8 DEF k
  <2>5. T = Nat
    <3>1. T \in SUBSET Nat
      OBVIOUS
    <3> HIDE DEF T
    <3> QED
      BY <2>3, <2>4, <3>1, NumberInduction
  <2>6. M - 1 \in Nat /\ (M - 1) + 1 = M /\ M \in 1..M
    BY <1>1, <1>6
  <2>7. M - 1 \in T
    BY <2>5, <2>6
  <2>8. g[M + 1] = h \o f[M]
    BY <2>6, <2>7
  <2> QED
    BY <1>2, <2>1, <2>8 DEF rest, h
<1> QED
  BY <1>5, <1>6
==============================================================================
