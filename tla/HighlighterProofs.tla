-------------------------- MODULE HighlighterProofs --------------------------
(***************************************************************************)
(* For every text of every length: the scan stays inside the text and      *)
(* gets further with each round, its tokens do not overlap and are what    *)
(* they should be, nothing is missed, and between handlers the tags are    *)
(* those of the text on display.                                           *)
(*                                                                         *)
(* ScanInv says what the loop has so far: the tokens in order and none     *)
(* behind the position it is at, or behind the start of the string it is   *)
(* in.  TagsInv says which handler has brought the tags how far, ReadInv   *)
(* what the part of the text before the scan has been read as.             *)
(***************************************************************************)
EXTENDS Highlighter, NumberLemmas, SequenceTheorems, TLAPS

Place == 1..(Len(buffer) + 1)

\* The last token ends before the string that is being scanned.
Upto == IF phase = "string" THEN start ELSE i

ScanInv ==
  phase \in {"scan", "string", "tab"} =>
    \A n \in DOMAIN tokens :
      /\ tokens[n].start < tokens[n].end
      /\ tokens[n].end <= Upto
      /\ \A m \in DOMAIN tokens : m < n => tokens[m].end <= tokens[n].start

TagsInv ==
  /\ phase \in {"scan", "string"} => \A k \in 1..Len(buffer) : tags[k] = {}
  /\ phase = "tab" => \A k \in 1..Len(buffer) : tags[k] = KindsAt(k)
  /\ ColoursAreCurrent

HighlightInv == TypeOK /\ ScanInv /\ TagsInv

USE CharAssumption

LEMMA LengthIsNat == TypeOK => Len(buffer) \in Nat
BY DEF TypeOK

LEMMA TokenPlaces ==
  ASSUME tokens \in Seq(Token), NEW n \in DOMAIN tokens
  PROVE  tokens[n].start \in Place /\ tokens[n].end \in Place /\ tokens[n].kind \in Kinds
<1>1. tokens[n] \in Token
  BY ElementOfSeq
<1> QED
  BY <1>1 DEF Token, Place

LEMMA InvGivesOrder == HighlightInv => TokensInOrder
<1> SUFFICES ASSUME HighlightInv, phase \in {"scan", "string", "tab"}
             PROVE  /\ \A n \in DOMAIN tokens : tokens[n].start < tokens[n].end /\ tokens[n].end <= i
                    /\ \A m, n \in DOMAIN tokens : m < n => tokens[m].end <= tokens[n].start
  BY DEF TokensInOrder
<1>1. tokens \in Seq(Token) /\ i \in Place
  BY DEF HighlightInv, TypeOK, Place
<1>2. \A n \in DOMAIN tokens : tokens[n].start \in Place /\ tokens[n].end \in Place
  BY <1>1, TokenPlaces
<1>3. Upto <= i /\ Upto \in Int
  BY <1>1, LengthIsNat DEF HighlightInv, TypeOK, Upto, Place
<1>4. Len(buffer) \in Nat
  BY LengthIsNat DEF HighlightInv
<1> QED
  BY <1>1, <1>2, <1>3, <1>4 DEF HighlightInv, ScanInv, Place

------------------------------------------------------------------------------
(* Sequences *)

LEMMA InsertKeepsType ==
  ASSUME NEW S, NEW s \in Seq(S), NEW k \in 1..(Len(s) + 1), NEW e \in S
  PROVE  /\ InsertAt(s, k, e) \in Seq(S)
         /\ Len(InsertAt(s, k, e)) = Len(s) + 1
<1> DEFINE low == SubSeq(s, 1, k - 1)
           mid == <<e>>
           high == SubSeq(s, k, Len(s))
<1>1. low \in Seq(S) /\ Len(low) = k - 1
  OBVIOUS
<1>2. high \in Seq(S) /\ Len(high) = Len(s) - k + 1
  OBVIOUS
<1>3. mid \in Seq(S) /\ Len(mid) = 1
  OBVIOUS
<1>4. InsertAt(s, k, e) = (low \o mid) \o high
  BY Zenon DEF InsertAt
<1> HIDE DEF low, mid, high
<1>5. low \o mid \in Seq(S) /\ Len(low \o mid) = Len(low) + Len(mid)
  BY <1>1, <1>3, ConcatProperties
<1>6. /\ (low \o mid) \o high \in Seq(S)
      /\ Len((low \o mid) \o high) = Len(low \o mid) + Len(high)
  BY <1>2, <1>5, ConcatProperties
<1>7. Len(s) \in Nat
  BY LenProperties
<1> QED
  BY <1>1, <1>2, <1>3, <1>4, <1>5, <1>6, <1>7

LEMMA RemoveKeepsType ==
  ASSUME NEW S, NEW s \in Seq(S), NEW k \in 1..Len(s)
  PROVE  /\ RemoveAt(s, k) \in Seq(S)
         /\ Len(RemoveAt(s, k)) = Len(s) - 1
<1> DEFINE low == SubSeq(s, 1, k - 1)
           high == SubSeq(s, k + 1, Len(s))
<1>1. low \in Seq(S) /\ Len(low) = k - 1
  OBVIOUS
<1>2. high \in Seq(S) /\ Len(high) = Len(s) - k
  OBVIOUS
<1>3. RemoveAt(s, k) = low \o high
  BY Zenon DEF RemoveAt
<1> HIDE DEF low, high
<1>4. low \o high \in Seq(S) /\ Len(low \o high) = Len(low) + Len(high)
  BY <1>1, <1>2, ConcatProperties
<1>5. Len(s) \in Nat
  BY LenProperties
<1> QED
  BY <1>1, <1>2, <1>3, <1>4, <1>5

LEMMA SequenceIsFunction ==
  ASSUME NEW S, NEW s \in Seq(S)
  PROVE  s \in [1..Len(s) -> S]
OBVIOUS

LEMMA FunctionIsSequence ==
  ASSUME NEW S, NEW n \in Nat, NEW f \in [1..n -> S]
  PROVE  f \in Seq(S) /\ Len(f) = n
OBVIOUS

------------------------------------------------------------------------------
(* The scan *)

\* What holds of the position while the loop runs.
LEMMA InTheLoop ==
  ASSUME HighlightInv, phase \in {"scan", "string"}
  PROVE  /\ Len(buffer) \in Nat
         /\ i \in Place /\ i \in Int
         /\ Upto \in Place /\ Upto \in Int /\ Upto <= i
         /\ tokens \in Seq(Token)
BY LengthIsNat DEF HighlightInv, TypeOK, Upto, Place

LEMMA FoundKeepsInv ==
  ASSUME HighlightInv, phase \in {"scan", "string"}, phase' = "scan",
         NEW kind \in Kinds, NEW from, from = Upto,
         NEW end \in Place, from < end,
         Found(from, kind, end)
  PROVE  HighlightInv'
<1> DEFINE token == [start |-> from, end |-> end, kind |-> kind]
<1>1. /\ Len(buffer) \in Nat
      /\ i \in Place /\ i \in Int
      /\ from \in Place
      /\ tokens \in Seq(Token)
  BY InTheLoop
<1>2. token \in Token
  BY <1>1 DEF Token, Place
<1>3. /\ tokens' = Append(tokens, token)
      /\ i' = end
      /\ UNCHANGED <<buffer, tags, page>>
  BY DEF Found
<1> HIDE DEF token
<1>4. /\ tokens' \in Seq(Token)
      /\ DOMAIN tokens' = 1..(Len(tokens) + 1)
      /\ DOMAIN tokens = 1..Len(tokens)
      /\ Len(tokens) \in Nat
      /\ \A n \in 1..Len(tokens) : tokens'[n] = tokens[n]
      /\ tokens'[Len(tokens) + 1] = token
  BY <1>1, <1>2, <1>3, AppendProperties, LenProperties
<1>5. Token' = Token
  BY <1>3 DEF Token
<1>6. TypeOK'
  BY <1>3, <1>4, <1>5 DEF HighlightInv, TypeOK, Place
<1>7. ScanInv'
  <2> SUFFICES ASSUME NEW n \in 1..(Len(tokens) + 1)
               PROVE  /\ tokens'[n].start < tokens'[n].end
                      /\ tokens'[n].end <= end
                      /\ \A m \in 1..(Len(tokens) + 1) : m < n => tokens'[m].end <= tokens'[n].start
    BY <1>3, <1>4 DEF ScanInv, Upto
  <2>1. from \in Int /\ end \in Int
    BY <1>1 DEF Place
  <2>2. token.start = from /\ token.end = end
    BY DEF token
  <2>3. \A m \in 1..Len(tokens) :
          /\ tokens[m].start \in Int /\ tokens[m].end \in Int
          /\ tokens[m].start < tokens[m].end
          /\ tokens[m].end <= from
          /\ \A l \in 1..Len(tokens) : l < m => tokens[l].end <= tokens[m].start
    <3>1. \A m \in DOMAIN tokens : tokens[m].start \in Place /\ tokens[m].end \in Place
      BY <1>1, TokenPlaces
    <3>2. \A m \in DOMAIN tokens :
            /\ tokens[m].start < tokens[m].end
            /\ tokens[m].end <= from
            /\ \A l \in DOMAIN tokens : l < m => tokens[l].end <= tokens[m].start
      BY DEF HighlightInv, ScanInv
    <3>3. Place \subseteq Int
      BY <1>1 DEF Place
    <3> QED
      BY <1>4, <3>1, <3>2, <3>3
  <2>4. CASE n = Len(tokens) + 1
    <3>1. tokens'[n] = token
      BY <1>4, <2>4
    <3>2. ASSUME NEW m \in 1..(Len(tokens) + 1), m < n
          PROVE  tokens'[m].end <= tokens'[n].start
      <4>1. m \in 1..Len(tokens)
        BY <1>4, <2>4, <3>2
      <4>2. tokens'[m] = tokens[m]
        BY <1>4, <4>1
      <4> QED
        BY <2>2, <2>3, <3>1, <4>1, <4>2
    <3> QED
      BY <2>1, <2>2, <3>1, <3>2
  <2>5. CASE n \in 1..Len(tokens)
    <3>1. tokens'[n] = tokens[n]
      BY <1>4, <2>5
    <3>2. ASSUME NEW m \in 1..(Len(tokens) + 1), m < n
          PROVE  tokens'[m].end <= tokens'[n].start
      <4>1. m \in 1..Len(tokens)
        BY <1>4, <2>5, <3>2
      <4>2. tokens'[m] = tokens[m]
        BY <1>4, <4>1
      <4> QED
        BY <2>3, <2>5, <3>1, <3>2, <4>1, <4>2
    <3>3. tokens[n].end <= end
      BY <2>1, <2>3, <2>5
    <3> QED
      BY <2>3, <2>5, <3>1, <3>2, <3>3
  <2> QED
    BY <1>4, <2>4, <2>5
<1>8. TagsInv'
  BY <1>3 DEF HighlightInv, TagsInv, ColoursAreCurrent
<1> QED
  BY <1>6, <1>7, <1>8 DEF HighlightInv

LEMMA MovingKeepsInv ==
  ASSUME HighlightInv, phase \in {"scan", "string"}, phase' \in {"scan", "string"},
         UNCHANGED <<buffer, tags, page, tokens>>,
         i' \in Place, i <= i',
         phase = "string" => phase' = "string" /\ start' = start,
         phase' = "string" => start' \in 1..(i' - 1) /\ Upto <= start'
  PROVE  HighlightInv'
<1>1. /\ Len(buffer) \in Nat
      /\ i \in Place /\ i \in Int
      /\ Upto \in Place /\ Upto \in Int /\ Upto <= i
      /\ tokens \in Seq(Token)
  BY InTheLoop
<1>2. Token' = Token
  BY DEF Token
<1>3. TypeOK'
  BY <1>1, <1>2 DEF HighlightInv, TypeOK, Place
<1>4. Upto <= Upto' /\ Upto' \in Int
  BY <1>1 DEF Upto, Place
<1>5. \A n \in DOMAIN tokens : tokens[n].end \in Int
  BY <1>1, TokenPlaces DEF Place
<1>6. ScanInv'
  BY <1>1, <1>4, <1>5 DEF HighlightInv, ScanInv
<1>7. TagsInv'
  BY DEF HighlightInv, TagsInv, ColoursAreCurrent
<1> QED
  BY <1>3, <1>6, <1>7 DEF HighlightInv

LEMMA ScanKeepsInv ==
  ASSUME HighlightInv, Scan
  PROVE  HighlightInv'
<1>1. phase \in {"scan", "string"}
  BY DEF Scan, Scanning, LineComment, BlockComment, StringOpens, StringGoesOn, StringEnds, Number,
         Punctuation, Word, Skip
<1>2. /\ Len(buffer) \in Nat
      /\ i \in Place /\ i \in Int
      /\ Upto \in Place /\ Upto \in Int /\ Upto <= i
      /\ tokens \in Seq(Token)
  BY <1>1, InTheLoop
<1>3. Scanning => Upto = i /\ phase = "scan"
  BY DEF Scanning, Upto
<1>4. CASE LineComment
  <2> PICK j \in (i + 2)..(Len(buffer) + 1) : Found(i, "comment", j)
    BY <1>4 DEF LineComment
  <2> QED
    BY <1>2, <1>3, <1>4, FoundKeepsInv DEF LineComment, Kinds, Place, Scanning
<1>5. CASE BlockComment
  <2> PICK j \in (i + 2)..(Len(buffer) + 1) : Found(i, "comment", CommentEnd(j)) /\ (j >= Len(buffer) \/ Closes(j))
    BY <1>5 DEF BlockComment
  <2>1. CommentEnd(j) \in Place /\ i < CommentEnd(j)
    BY <1>2 DEF CommentEnd, Place
  <2> QED
    BY <1>2, <1>3, <1>5, <2>1, FoundKeepsInv DEF BlockComment, Kinds, Scanning
<1>6. CASE StringOpens
  <2>1. /\ phase = "scan" /\ phase' = "string" /\ Upto = i
        /\ start' = i /\ i' = i + 1 /\ i <= Len(buffer)
        /\ UNCHANGED <<buffer, tags, page, tokens>>
    BY <1>3, <1>6 DEF StringOpens, Scanning
  <2>2. i' \in Place /\ i <= i' /\ start' \in 1..(i' - 1) /\ Upto <= start'
    BY <1>2, <2>1 DEF Place
  <2> QED
    BY <2>1, <2>2, MovingKeepsInv
<1>7. CASE StringGoesOn
  <2>1. start \in 1..(i - 1) /\ Upto = start
    BY <1>7 DEF StringGoesOn, HighlightInv, TypeOK, Upto
  <2>2. /\ phase = "string" /\ phase' = "string" /\ start' = start
        /\ i' = i + Advance /\ i <= Len(buffer)
        /\ UNCHANGED <<buffer, tags, page, tokens>>
    BY <1>7 DEF StringGoesOn
  <2>3. Advance = 1 \/ (Advance = 2 /\ i < Len(buffer))
    BY DEF Advance, At
  <2>4. i' \in Place /\ i <= i' /\ start' \in 1..(i' - 1) /\ Upto <= start'
    BY <1>2, <2>1, <2>2, <2>3 DEF Place
  <2> QED
    BY <2>2, <2>4, MovingKeepsInv
<1>8. CASE StringEnds
  <2>1. start \in 1..(i - 1) /\ Upto = start
    BY <1>8 DEF StringEnds, HighlightInv, TypeOK, Upto
  <2>2. CASE i > Len(buffer) /\ Found(start, "string", i)
    <3>1. i \in Place /\ start < i
      BY <1>2, <2>1 DEF Place
    <3> QED
      BY <1>1, <1>8, <2>1, <2>2, <3>1, FoundKeepsInv DEF StringEnds, Kinds
  <2>3. CASE At(i, Quote) /\ Found(start, "string", i + 1)
    <3>1. i <= Len(buffer)
      BY <2>3 DEF At
    <3>2. i + 1 \in Place /\ start < i + 1
      BY <1>2, <2>1, <3>1 DEF Place
    <3> QED
      BY <1>1, <1>8, <2>1, <2>3, <3>2, FoundKeepsInv DEF StringEnds, Kinds
  <2> QED
    BY <1>8, <2>2, <2>3 DEF StringEnds
<1>9. CASE Number
  <2>1. PICK e \in (i + 1)..(Len(buffer) + 1) : Found(i, "number", e)
    <3> PICK j \in (i + 1)..(Len(buffer) + 1) :
          IF At(j, ".") /\ In(j + 1, Digits)
          THEN \E e \in (j + 1)..(Len(buffer) + 1) :
                 RunEnds(Digits, j + 1, e) /\ Found(i, "number", e)
          ELSE Found(i, "number", j)
      BY <1>9 DEF Number
    <3> QED
      BY <1>2
  <2> QED
    BY <1>2, <1>3, <1>9, <2>1, FoundKeepsInv DEF Number, Kinds, Place, Scanning
<1>10. CASE Punctuation
  <2>1. i + 1 \in Place /\ Found(i, "punctuation", i + 1)
    BY <1>2, <1>10 DEF Punctuation, Place, Scanning
  <2> QED
    BY <1>2, <1>3, <1>10, <2>1, FoundKeepsInv DEF Punctuation, Kinds, Scanning
<1>11. CASE Word
  <2>1. PICK j \in (i + 1)..(Len(buffer) + 1) :
          \/ Found(i, "keyword", j)
          \/ i' = j /\ UNCHANGED <<buffer, tags, page, tokens, start>>
    BY <1>11 DEF Word
  <2>2. CASE Found(i, "keyword", j)
    BY <1>2, <1>3, <1>11, <2>2, FoundKeepsInv DEF Word, Kinds, Place, Scanning
  <2>3. CASE i' = j /\ UNCHANGED <<buffer, tags, page, tokens, start>>
    <3>1. i' \in Place /\ i <= i'
      BY <1>2, <2>3 DEF Place
    <3>2. phase = "scan" /\ phase' = "scan"
      BY <1>11 DEF Word, Scanning
    <3> QED
      BY <2>3, <3>1, <3>2, MovingKeepsInv
  <2> QED
    BY <2>1, <2>2, <2>3
<1>12. CASE Skip
  <2>1. /\ i <= Len(buffer) /\ i' = i + 1
        /\ phase = "scan" /\ phase' = "scan"
        /\ UNCHANGED <<buffer, tags, page, tokens>>
    BY <1>12 DEF Skip, Onward, Scanning
  <2>2. i' \in Place /\ i <= i'
    BY <1>2, <2>1 DEF Place
  <2> QED
    BY <2>1, <2>2, MovingKeepsInv
<1> QED
  BY <1>4, <1>5, <1>6, <1>7, <1>8, <1>9, <1>10, <1>11, <1>12 DEF Scan


------------------------------------------------------------------------------
(* The other steps *)

TagSets == SUBSET (Kinds \cup {"parse_error"})

LEMMA EditKeepsInv ==
  ASSUME HighlightInv,
         NEW text \in Seq(Char), NEW marks \in Seq(TagSets), Len(marks) = Len(text),
         Edited(text, marks)
  PROVE  HighlightInv'
<1>1. /\ buffer' = text /\ tags' = marks
      /\ phase' = "changed" /\ UNCHANGED page
  BY DEF Edited
<1>2. marks \in [1..Len(text) -> TagSets]
  BY SequenceIsFunction
<1>3. TypeOK'
  BY <1>1, <1>2 DEF HighlightInv, TypeOK, TagSets
<1>4. ScanInv' /\ TagsInv'
  BY <1>1 DEF ScanInv, TagsInv, ColoursAreCurrent
<1> QED
  BY <1>3, <1>4 DEF HighlightInv

LEMMA KindsAreKinds ==
  ASSUME tokens \in Seq(Token), NEW k
  PROVE  KindsAt(k) \subseteq Kinds
<1>1. \A n \in DOMAIN tokens : tokens[n].kind \in Kinds
  BY TokenPlaces
<1> QED
  BY <1>1 DEF KindsAt, ToSet

\* The bytes before a character, counted from the one before it.
LEMMA BytesAddUp ==
  ASSUME buffer \in Seq(Char)
  PROVE  /\ BytesBefore[0] = 0
         /\ \A n \in 1..Len(buffer) : BytesBefore[n] = BytesBefore[n - 1] + Bytes(buffer[n])
<1> DEFINE N == Len(buffer)
           step == [n \in 1..N |-> [v \in Nat |-> v + Bytes(buffer[n])]]
           Sums(f) == f = [n \in 0..N |-> IF n = 0 THEN 0 ELSE f[n - 1] + Bytes(buffer[n])]
<1>1. N \in Nat /\ \A n \in 1..N : buffer[n] \in Char /\ Bytes(buffer[n]) \in Nat
  OBVIOUS
<1>2. step \in [1..N -> [Nat -> Nat]]
  BY <1>1
<1>3. \A n \in 1..N, v \in Nat : step[n][v] = v + Bytes(buffer[n])
  OBVIOUS
<1> HIDE DEF N, step
<1>4. PICK f : Follows(f, Nat, 0, N, step)
  BY <1>1, <1>2, Recursion
<1>5. /\ f \in [0..N -> Nat]
      /\ f[0] = 0
      /\ \A n \in 1..N : f[n] = f[n - 1] + Bytes(buffer[n])
  <2>1. f \in [0..N -> Nat] /\ f[0] = 0 /\ \A n \in 1..N : f[n] = step[n][f[n - 1]]
    BY <1>4 DEF Follows
  <2>2. \A n \in 1..N : f[n - 1] \in Nat
    BY <1>1, <2>1
  <2> QED
    BY <1>3, <2>1, <2>2
<1>6. Sums(f)
  <2>1. \A n \in 0..N : f[n] = IF n = 0 THEN 0 ELSE f[n - 1] + Bytes(buffer[n])
    BY <1>1, <1>5
  <2> QED
    BY <1>5, <2>1
<1>7. BytesBefore = CHOOSE g : Sums(g)
  BY DEF BytesBefore, N
<1>8. Sums(BytesBefore)
  BY <1>6, <1>7, Zenon
<1> QED
  <2>1. \A n \in 0..N :
          BytesBefore[n] = IF n = 0 THEN 0 ELSE BytesBefore[n - 1] + Bytes(buffer[n])
    BY <1>8
  <2> QED
    BY <1>1, <2>1 DEF N

\* As many bytes as characters, when each is one byte.
LEMMA OneByteEach ==
  ASSUME buffer \in Seq(Char), NEW k \in 1..Len(buffer), OneByteUpTo(k)
  PROVE  BytesBefore[k - 1] = k - 1 /\ BytesBefore[k] = k
<1> DEFINE T == {n \in Nat : n <= k => BytesBefore[n] = n}
<1>1. Len(buffer) \in Nat /\ k \in Nat
  OBVIOUS
<1>2. 0 \in T
  BY BytesAddUp
<1>3. ASSUME NEW n \in T
      PROVE  n + 1 \in T
  <2>1. CASE n + 1 <= k
    <3>1. n + 1 \in 1..k /\ n + 1 \in 1..Len(buffer) /\ (n + 1) - 1 = n
      BY <1>1, <2>1
    <3>2. BytesBefore[n + 1] = BytesBefore[n] + Bytes(buffer[n + 1])
      BY <3>1, BytesAddUp
    <3>3. Bytes(buffer[n + 1]) = 1
      BY <3>1 DEF OneByteUpTo
    <3>4. BytesBefore[n] = n
      BY <1>1, <2>1
    <3> QED
      BY <3>2, <3>3, <3>4
  <2> QED
    BY <1>1, <2>1
<1>4. T = Nat
  <2>1. T \in SUBSET Nat
    OBVIOUS
  <2> HIDE DEF T
  <2> QED
    BY <1>2, <1>3, <2>1, NumberInduction
<1>5. k \in T /\ k - 1 \in T
  BY <1>1, <1>4
<1> QED
  BY <1>1, <1>5

\* A mark with no longer character before it is on the error.
LEMMA MarkOnError ==
  ASSUME buffer \in Seq(Char), NEW k \in 1..Len(buffer),
         SpanOf(buffer).offset < k, k - 1 < SpanEnd
  PROVE  OneByteUpTo(k) => ErrorAt(k)
BY OneByteEach DEF ErrorAt

\* What is said of a mark is said of the text.
LEMMA SameTextSameMark ==
  ASSUME UNCHANGED buffer, NEW k
  PROVE  MarkIsRight(k)' = MarkIsRight(k)
BY DEF MarkIsRight, OneByteUpTo, ErrorAt, BytesBefore, SpanEnd, AtLeastOne

\* Handlers that are done, and have left no other tags than they should.
LEMMA SettledKeepsInv ==
  ASSUME HighlightInv, phase' = "rest",
         page' \in {"opening", "editing", "fallback", "diff"},
         UNCHANGED <<buffer, scanVars>>,
         tags' \in [1..Len(buffer) -> TagSets],
         \A k \in 1..Len(buffer) :
           /\ tags'[k] \ {"parse_error"} = KindsAt(k)
           /\ "parse_error" \in tags'[k] => MarkIsRight(k)
  PROVE  HighlightInv'
<1>1. \A k \in 1..Len(buffer) : KindsAt(k)' = KindsAt(k) /\ MarkIsRight(k)' = MarkIsRight(k)
  BY SameTextSameMark DEF KindsAt, scanVars
<1>2. TypeOK'
  BY DEF HighlightInv, TypeOK, TagSets
<1>3. ScanInv'
  BY DEF ScanInv
<1>4. TagsInv'
  BY <1>1 DEF TagsInv, ColoursAreCurrent
<1> QED
  BY <1>2, <1>3, <1>4 DEF HighlightInv

\* Both ways to bring the mark up to date.
LEMMA MarkedKeepsInv ==
  ASSUME HighlightInv, phase' = "rest",
         page' \in {"opening", "editing", "fallback", "diff"},
         UNCHANGED <<buffer, scanVars>>,
         tags \in [1..Len(buffer) -> TagSets],
         \A k \in 1..Len(buffer) : tags[k] \ {"parse_error"} = KindsAt(k),
         tags' = Cleared \/ (Fails(buffer) /\ tags' = Marked(Cleared))
  PROVE  HighlightInv'
<1>1. /\ Cleared \in [1..Len(buffer) -> TagSets]
      /\ \A k \in 1..Len(buffer) :
           Cleared[k] = KindsAt(k) /\ "parse_error" \notin Cleared[k]
  BY DEF Cleared, TagSets
<1> HIDE DEF Cleared
<1>2. CASE tags' = Cleared
  <2>1. \A k \in 1..Len(buffer) :
          tags'[k] \ {"parse_error"} = KindsAt(k) /\ "parse_error" \notin tags'[k]
    BY <1>1, <1>2
  <2> QED
    BY <1>1, <1>2, <2>1, SettledKeepsInv
<1>3. CASE Fails(buffer) /\ tags' = Marked(Cleared)
  <2>1. tags' \in [1..Len(buffer) -> TagSets]
    BY <1>1, <1>3 DEF Marked, TagSets
  <2>2. \A k \in 1..Len(buffer) :
          /\ tags'[k] \ {"parse_error"} = KindsAt(k)
          /\ "parse_error" \in tags'[k] => SpanOf(buffer).offset < k /\ k - 1 < SpanEnd
    BY <1>1, <1>3 DEF Marked
  <2>3. \A k \in 1..Len(buffer) : "parse_error" \in tags'[k] => MarkIsRight(k)
    BY <1>3, <2>2, MarkOnError DEF HighlightInv, TypeOK, MarkIsRight
  <2> QED
    BY <2>1, <2>2, <2>3, SettledKeepsInv
<1> QED
  BY <1>2, <1>3

LEMMA UserKeepsInv ==
  ASSUME HighlightInv, User
  PROVE  HighlightInv'
<1>1. /\ buffer \in Seq(Char) /\ Len(buffer) \in Nat
      /\ tags \in [1..Len(buffer) -> TagSets]
  BY LengthIsNat DEF HighlightInv, TypeOK, TagSets
<1>2. tags \in Seq(TagSets) /\ Len(tags) = Len(buffer)
  BY <1>1, FunctionIsSequence
<1>3. ASSUME NEW k \in 1..(Len(buffer) + 1), NEW c \in Char, Insert(k, c)
      PROVE  HighlightInv'
  <2> DEFINE around == IF k \in 2..Len(buffer) THEN tags[k - 1] \cap tags[k] ELSE {}
  <2>1. around \in TagSets
    BY <1>1 DEF TagSets
  <2> HIDE DEF around
  <2>2. Edited(InsertAt(buffer, k, c), InsertAt(tags, k, around))
    BY <1>3 DEF Insert, around
  <2>3. InsertAt(buffer, k, c) \in Seq(Char) /\ Len(InsertAt(buffer, k, c)) = Len(buffer) + 1
    BY <1>1, InsertKeepsType
  <2>4. InsertAt(tags, k, around) \in Seq(TagSets) /\ Len(InsertAt(tags, k, around)) = Len(buffer) + 1
    <3>1. tags \in Seq(TagSets) /\ k \in 1..(Len(tags) + 1)
      BY <1>2
    <3>2. /\ InsertAt(tags, k, around) \in Seq(TagSets)
          /\ Len(InsertAt(tags, k, around)) = Len(tags) + 1
      BY <2>1, <3>1, InsertKeepsType
    <3> QED
      BY <1>2, <3>2
  <2> QED
    BY <2>2, <2>3, <2>4, EditKeepsInv
<1>4. ASSUME NEW k \in 1..Len(buffer), Delete(k)
      PROVE  HighlightInv'
  <2>1. RemoveAt(buffer, k) \in Seq(Char) /\ Len(RemoveAt(buffer, k)) = Len(buffer) - 1
    BY <1>1, RemoveKeepsType
  <2>2. RemoveAt(tags, k) \in Seq(TagSets) /\ Len(RemoveAt(tags, k)) = Len(buffer) - 1
    BY <1>2, RemoveKeepsType
  <2> QED
    BY <1>4, <2>1, <2>2, EditKeepsInv DEF Delete
<1>5. CASE CompareOn
  <2>1. /\ phase = "rest" /\ phase' = "rest"
        /\ page' = "diff"
        /\ UNCHANGED <<buffer, tags, scanVars>>
    BY <1>5 DEF CompareOn
  <2>2. \A k \in 1..Len(buffer) :
          /\ tags[k] \ {"parse_error"} = KindsAt(k)
          /\ "parse_error" \in tags[k] => MarkIsRight(k)
    BY <2>1 DEF HighlightInv, TagsInv, ColoursAreCurrent
  <2> QED
    BY <1>1, <2>1, <2>2, SettledKeepsInv
<1>6. CASE RestoreClicked
  <2>1. /\ phase = "rest" /\ phase' = "rest"
        /\ page' \in {"fallback", "editing"}
        /\ UNCHANGED <<buffer, scanVars>>
    BY <1>6 DEF RestoreClicked
  <2>2. \A k \in 1..Len(buffer) : tags[k] \ {"parse_error"} = KindsAt(k)
    BY <2>1 DEF HighlightInv, TagsInv, ColoursAreCurrent
  <2>3. \/ tags' = Cleared
        \/ Fails(buffer) /\ tags' = Marked(Cleared)
    BY <1>6 DEF RestoreClicked
  <2> QED
    BY <1>1, <2>1, <2>2, <2>3, MarkedKeepsInv
<1> QED
  BY <1>3, <1>4, <1>5, <1>6 DEF User

LEMMA TabHandlesKeepsInv ==
  ASSUME HighlightInv, TabHandles
  PROVE  HighlightInv'
<1>1. tags \in [1..Len(buffer) -> TagSets]
  BY DEF HighlightInv, TypeOK, TagSets
<1>2. /\ phase = "tab" /\ phase' = "rest"
      /\ page' \in {"opening", "editing", "fallback", "diff"}
      /\ UNCHANGED <<buffer, scanVars>>
  BY DEF TabHandles, HighlightInv, TypeOK
<1>3. tokens \in Seq(Token)
  BY <1>2 DEF HighlightInv, TypeOK
<1>4. \A k \in 1..Len(buffer) : tags[k] = KindsAt(k) /\ KindsAt(k) \subseteq Kinds
  BY <1>2, <1>3, KindsAreKinds DEF HighlightInv, TagsInv
<1>5. "parse_error" \notin Kinds
  BY DEF Kinds
<1>6. \A k \in 1..Len(buffer) :
        tags[k] \ {"parse_error"} = KindsAt(k) /\ "parse_error" \notin tags[k]
  BY <1>4, <1>5
<1>7. \/ tags' = Cleared
      \/ Fails(buffer) /\ tags' = Marked(tags)
      \/ tags' = tags
  BY DEF TabHandles
<1>8. tags = Cleared
  BY <1>1, <1>6, Zenon DEF Cleared
<1> QED
  BY <1>1, <1>2, <1>6, <1>7, <1>8, MarkedKeepsInv

LEMMA ApplyKeepsInv ==
  ASSUME HighlightInv, Apply
  PROVE  HighlightInv'
<1>1. /\ phase' = "scan" /\ tokens' = <<>> /\ i' = 1
      /\ tags' = [k \in 1..Len(buffer) |-> {}]
      /\ UNCHANGED <<buffer, page>>
  BY DEF Apply, RemoveAllTags, Untagged
<1>2. TypeOK'
  BY <1>1, LengthIsNat, EmptySeq DEF HighlightInv, TypeOK
<1>3. ScanInv'
  BY <1>1 DEF ScanInv
<1>4. TagsInv'
  BY <1>1 DEF TagsInv, ColoursAreCurrent
<1> QED
  BY <1>2, <1>3, <1>4 DEF HighlightInv

LEMMA ApplyTagsKeepsInv ==
  ASSUME HighlightInv, ApplyTags
  PROVE  HighlightInv'
<1>1. /\ phase = "scan" /\ phase' \in {"rest", "tab"}
      /\ page' \in {"opening", "editing", "fallback", "diff"}
      /\ tags' = [k \in 1..Len(buffer) |-> tags[k] \cup KindsAt(k)]
      /\ UNCHANGED <<buffer, scanVars>>
  BY DEF ApplyTags, HighlightInv, TypeOK
<1>2. tokens \in Seq(Token)
  BY <1>1 DEF HighlightInv, TypeOK
<1>3. \A k \in 1..Len(buffer) : tags[k] = {} /\ KindsAt(k) \subseteq Kinds
  BY <1>1, <1>2, KindsAreKinds DEF HighlightInv, TagsInv
<1>4. \A k \in 1..Len(buffer) : tags'[k] = KindsAt(k)
  BY <1>1, <1>3
<1>5. \A k \in 1..Len(buffer) : KindsAt(k)' = KindsAt(k)
  BY <1>1 DEF KindsAt, scanVars
<1>6. tags' \in [1..Len(buffer) -> TagSets]
  BY <1>1, <1>3 DEF TagSets
<1>7. TypeOK'
  <2>1. Token' = Token
    BY <1>1 DEF Token
  <2> QED
    BY <1>1, <1>6, <2>1 DEF HighlightInv, TypeOK, TagSets, scanVars
<1>8. ScanInv'
  BY <1>1 DEF HighlightInv, ScanInv, Upto, scanVars
<1>9. TagsInv'
  <2>1. "parse_error" \notin Kinds
    BY DEF Kinds
  <2>2. \A k \in 1..Len(buffer) :
          tags'[k] \ {"parse_error"} = KindsAt(k)' /\ "parse_error" \notin tags'[k]
    BY <1>3, <1>4, <1>5, <2>1
  <2> QED
    BY <1>1, <1>4, <1>5, <2>2 DEF TagsInv, ColoursAreCurrent
<1> QED
  BY <1>7, <1>8, <1>9 DEF HighlightInv

------------------------------------------------------------------------------
(* What the tokens are *)

\* Of the string that is being scanned: none of its quotes so far ends it, and a
\* character that is still to be looked at is not escaped.
StringInv ==
  phase = "string" =>
    /\ At(start, Quote)
    /\ \A n \in (start + 1)..(i - 1) : At(n, Quote) => Escaped(start, n)
    /\ i <= Len(buffer) => ~Escaped(start, i)

Scanned == IF phase \in {"scan", "string"} THEN Upto ELSE Len(buffer) + 1

\* Of the text before the scan: its tokens are what they should be, and nothing
\* of it was missed.
ReadInv ==
  phase # "changed" =>
    /\ tokens \in Seq(Token)
    /\ \A t \in ToSet(tokens) : Reads(t)
    /\ \A k \in 1..(Scanned - 1) : Plain(k) => BeginsNothing(k)
    /\ StringInv

LEMMA LineCommentReads ==
  ASSUME HighlightInv, Scanning, At(i, "/"), At(i + 1, "/"),
         NEW j \in (i + 2)..(Len(buffer) + 1), RunEnds(Char \ {"\n"}, i + 2, j)
  PROVE  Reads([start |-> i, end |-> j, kind |-> "comment"])
<1> DEFINE token == [start |-> i, end |-> j, kind |-> "comment"]
<1>1. /\ buffer \in Seq(Char) /\ Len(buffer) \in Nat
      /\ i \in Int /\ j \in Int
  BY InTheLoop DEF HighlightInv, TypeOK, Scanning
<1>2. \A n \in (i + 2)..(j - 1) : ~At(n, "\n")
  BY DEF RunEnds, In, At
<1>3. j > Len(buffer) \/ At(j, "\n")
  <2>1. j \in 1..Len(buffer) => buffer[j] \in Char
    BY <1>1, ElementOfSeq
  <2>2. j >= 1
    BY InTheLoop DEF Scanning, Place
  <2>3. ~(j <= Len(buffer) /\ buffer[j] \in Char \ {"\n"})
    BY DEF RunEnds, In
  <2> QED
    BY <1>1, <2>1, <2>2, <2>3 DEF At
<1>4. token.start = i /\ token.end = j /\ token.kind = "comment"
  OBVIOUS
<1> SUFFICES Reads(token)
  OBVIOUS
<1> HIDE DEF token
<1> QED
  BY <1>2, <1>3, <1>4 DEF Reads

LEMMA BlockCommentReads ==
  ASSUME HighlightInv, Scanning, At(i, "/"), At(i + 1, "*"),
         NEW j \in (i + 2)..(Len(buffer) + 1),
         \A n \in (i + 2)..(j - 1) : n < Len(buffer) /\ ~Closes(n),
         j >= Len(buffer) \/ Closes(j)
  PROVE  Reads([start |-> i, end |-> CommentEnd(j), kind |-> "comment"])
<1> DEFINE end == CommentEnd(j)
           token == [start |-> i, end |-> end, kind |-> "comment"]
           inside == (i + 2)..(end - 1)
<1>1. Len(buffer) \in Nat /\ i \in Int /\ j \in Int
  BY InTheLoop DEF Scanning
<1>2. token.start = i /\ token.end = end /\ token.kind = "comment"
  OBVIOUS
<1> SUFFICES Reads(token)
  OBVIOUS
<1> HIDE DEF token
<1>3. CASE j < Len(buffer)
  <2>1. end = j + 2 /\ Closes(j)
    BY <1>1, <1>3 DEF CommentEnd
  <2>2. ~Closes(j + 1)
    BY <2>1 DEF Closes, At
  <2>3. \A n \in inside : Closes(n) => n = j
    BY <1>1, <2>1, <2>2
  <2>4. end - 2 = j /\ j \in inside
    BY <1>1, <2>1
  <2> HIDE DEF end
  <2> QED
    BY <1>2, <2>1, <2>3, <2>4 DEF Reads
<1>4. CASE j >= Len(buffer)
  <2>1. end = j /\ end >= Len(buffer)
    BY <1>1, <1>4 DEF CommentEnd
  <2>2. \A n \in inside : ~Closes(n)
    BY <2>1
  <2> HIDE DEF end
  <2> QED
    BY <1>2, <2>1, <2>2 DEF Reads
<1> QED
  BY <1>1, <1>3, <1>4

LEMMA PunctuationReads ==
  ASSUME In(i, Brackets)
  PROVE  Reads([start |-> i, end |-> i + 1, kind |-> "punctuation"])
BY DEF Reads

LEMMA KeywordReads ==
  ASSUME NEW j, RunEnds(WordChars, i, j), SubSeq(buffer, i, j - 1) \in Keywords
  PROVE  Reads([start |-> i, end |-> j, kind |-> "keyword"])
BY DEF Reads, RunEnds

\* Where the digits of a number begin, and where they stop.
LEMMA NumberFrom ==
  ASSUME HighlightInv, Scanning, NumberAt(i),
         NEW e \in (i + 1)..(Len(buffer) + 1)
  PROVE  LET first == IF At(i, "-") THEN i + 1 ELSE i
         IN  IsNumber(i, e) <=>
               \/ DigitsIn(first, e)
               \/ \E d \in first..(e - 1) : DigitsIn(first, d) /\ At(d, ".") /\ DigitsIn(d + 1, e)
<1> DEFINE first == IF At(i, "-") THEN i + 1 ELSE i
           From(f) == \/ DigitsIn(f, e)
                      \/ \E d \in f..(e - 1) : DigitsIn(f, d) /\ At(d, ".") /\ DigitsIn(d + 1, e)
<1>1. Len(buffer) \in Nat /\ i \in Int /\ e \in Int
  BY InTheLoop DEF Scanning
<1>2. IsNumber(i, e) <=> From(i) \/ (At(i, "-") /\ From(i + 1))
  BY <1>1 DEF IsNumber
<1>3. From(i) => In(i, Digits)
  BY <1>1 DEF DigitsIn
<1>4. In(i, Digits) => ~At(i, "-")
  BY DEF In, At, Special
<1> QED
  BY <1>2, <1>3, <1>4

\* A number ends where its digits do, or where the digits behind its point do.
LEMMA NumberReads ==
  ASSUME HighlightInv, Scanning, NumberAt(i),
         NEW j \in (i + 1)..(Len(buffer) + 1),
         RunEnds(Digits, IF At(i, "-") THEN i + 1 ELSE i, j),
         NEW end \in j..(Len(buffer) + 1),
         IF At(j, ".") /\ In(j + 1, Digits)
         THEN end > j /\ RunEnds(Digits, j + 1, end)
         ELSE end = j
  PROVE  Reads([start |-> i, end |-> end, kind |-> "number"])
<1> DEFINE first == IF At(i, "-") THEN i + 1 ELSE i
           token == [start |-> i, end |-> end, kind |-> "number"]
           From(e) == \/ DigitsIn(first, e)
                      \/ \E d \in first..(e - 1) : DigitsIn(first, d) /\ At(d, ".") /\ DigitsIn(d + 1, e)
<1>1. /\ Len(buffer) \in Nat /\ i \in Int /\ j \in Int /\ end \in Int
      /\ first \in Int /\ i <= first /\ first <= j
  BY InTheLoop DEF Scanning
<1>2. \A e \in (i + 1)..(Len(buffer) + 1) : IsNumber(i, e) <=> From(e)
  BY NumberFrom
<1>3. /\ \A n \in first..(j - 1) : In(n, Digits)
      /\ ~In(j, Digits)
  BY DEF RunEnds
<1>4. In(first, Digits)
  <2>1. CASE At(i, "-")
    <3>1. ~In(i, Digits)
      BY <2>1 DEF At, In, Special
    <3> QED
      BY <2>1, <3>1 DEF NumberAt
  <2>2. CASE ~At(i, "-")
    BY <2>2 DEF NumberAt
  <2> QED
    BY <2>1, <2>2
<1> HIDE DEF first
<1>5. DigitsIn(first, j)
  BY <1>1, <1>3, <1>4 DEF DigitsIn
<1>6. \A d \in Int : DigitsIn(first, d) => d <= j
  BY <1>1, <1>3 DEF DigitsIn
<1>7. \A n : At(n, ".") => ~In(n, Digits)
  BY DEF At, In, Special
<1>8. \A d \in Int : DigitsIn(first, d) /\ At(d, ".") => d = j
  <2> TAKE d \in Int
  <2> HAVE DigitsIn(first, d) /\ At(d, ".")
  <2>1. first < d /\ d <= j
    BY <1>6 DEF DigitsIn
  <2>2. ~In(d, Digits)
    BY <1>7
  <2> QED
    BY <1>1, <1>3, <2>1, <2>2
<1>9. From(end)
  <2>1. CASE At(j, ".") /\ In(j + 1, Digits)
    <3>1. DigitsIn(j + 1, end)
      BY <1>1, <2>1 DEF DigitsIn, RunEnds
    <3>2. j \in first..(end - 1)
      BY <1>1, <2>1
    <3> QED
      BY <1>5, <2>1, <3>1, <3>2
  <2>2. CASE ~(At(j, ".") /\ In(j + 1, Digits))
    BY <1>5, <2>2
  <2> QED
    BY <2>1, <2>2
<1>10. ASSUME NEW e \in (end + 1)..(Len(buffer) + 1), From(e)
       PROVE  FALSE
  <2>1. e \in Int /\ j < e
    BY <1>1
  <2>2. ~DigitsIn(first, e)
    BY <1>1, <1>6, <2>1
  <2>3. PICK d \in first..(e - 1) : DigitsIn(first, d) /\ At(d, ".") /\ DigitsIn(d + 1, e)
    BY <1>10, <2>2
  <2>4. d = j /\ At(j, ".") /\ DigitsIn(j + 1, e)
    BY <1>1, <1>8, <2>3
  <2>5. \A n \in (j + 1)..(e - 1) : In(n, Digits)
    BY <2>4 DEF DigitsIn
  <2>6. In(j + 1, Digits)
    BY <1>1, <2>1, <2>4 DEF DigitsIn
  <2>7. end > j /\ ~In(end, Digits)
    BY <2>4, <2>6 DEF RunEnds
  <2> QED
    BY <1>1, <2>1, <2>5, <2>7
<1>11. token.start = i /\ token.end = end /\ token.kind = "number"
  OBVIOUS
<1>12. IsNumber(i, end) /\ \A e \in (end + 1)..(Len(buffer) + 1) : ~IsNumber(i, e)
  <2> HIDE DEF From
  <2> QED
    BY <1>1, <1>2, <1>9, <1>10
<1> SUFFICES Reads(token)
  OBVIOUS
<1> HIDE DEF token
<1> QED
  BY <1>11, <1>12 DEF Reads

\* Where the run of backslashes that ends before k begins.
LEMMA Backslashes ==
  ASSUME NEW s \in Nat, NEW k \in Nat, s < k
  PROVE  \E m \in (s + 1)..k :
           /\ \A n \in m..(k - 1) : At(n, "\\")
           /\ m = s + 1 \/ ~At(m - 1, "\\")
           /\ \A l \in (s + 1)..k :
                /\ \A n \in l..(k - 1) : At(n, "\\")
                /\ l = s + 1 \/ ~At(l - 1, "\\")
                => l = m
<1> DEFINE T == {m \in (s + 1)..k : \A n \in m..(k - 1) : At(n, "\\")}
<1>1. T \in SUBSET Nat /\ k \in T
  OBVIOUS
<1>2. PICK m \in T : \A l \in T : m <= l
  <2> HIDE DEF T
  <2> QED
    BY <1>1, LeastNumber
<1>3. m \in (s + 1)..k /\ \A n \in m..(k - 1) : At(n, "\\")
  OBVIOUS
<1>4. m = s + 1 \/ ~At(m - 1, "\\")
  <2> SUFFICES ASSUME m # s + 1, At(m - 1, "\\")
               PROVE  FALSE
    OBVIOUS
  <2>1. m - 1 \in (s + 1)..k
    BY <1>3
  <2>2. \A n \in (m - 1)..(k - 1) : At(n, "\\")
    BY <1>3
  <2> QED
    BY <1>2, <1>3, <2>1, <2>2
<1>5. ASSUME NEW l \in (s + 1)..k, \A n \in l..(k - 1) : At(n, "\\"),
             l = s + 1 \/ ~At(l - 1, "\\")
      PROVE  l = m
  <2>1. m <= l
    BY <1>2, <1>5
  <2>2. m < l => At(l - 1, "\\")
    BY <1>3, <1>5
  <2> QED
    BY <1>3, <1>5, <2>1, <2>2
<1> QED
  BY <1>3, <1>4, <1>5

\* A backslash that is not escaped escapes the character behind it, and that
\* character escapes nothing.
LEMMA BackslashEscapes ==
  ASSUME NEW s \in Nat, NEW k \in Nat, s < k, ~Escaped(s, k), At(k, "\\")
  PROVE  Escaped(s, k + 1) /\ ~Escaped(s, k + 2)
<1>1. PICK m \in (s + 1)..k :
        /\ \A n \in m..(k - 1) : At(n, "\\")
        /\ m = s + 1 \/ ~At(m - 1, "\\")
        /\ \A l \in (s + 1)..k :
             /\ \A n \in l..(k - 1) : At(n, "\\")
             /\ l = s + 1 \/ ~At(l - 1, "\\")
             => l = m
  BY Backslashes
<1>2. (k - m) % 2 = 0
  <2>1. (k - m) % 2 # 1
    BY <1>1 DEF Escaped
  <2> QED
    BY <2>1
<1>3. Escaped(s, k + 1)
  <2>1. (k + 1 - m) % 2 = 1
    BY <1>2
  <2>2. \A n \in m..(k + 1 - 1) : At(n, "\\")
    BY <1>1
  <2>3. m \in (s + 1)..(k + 1)
    BY <1>1
  <2> QED
    BY <1>1, <2>1, <2>2, <2>3 DEF Escaped
<1>4. ASSUME NEW l \in (s + 1)..(k + 2),
             \A n \in l..(k + 2 - 1) : At(n, "\\"),
             l = s + 1 \/ ~At(l - 1, "\\"),
             (k + 2 - l) % 2 = 1
      PROVE  FALSE
  <2>1. l # k + 2
    BY <1>4
  <2>2. l # k + 1
    BY <1>4
  <2>3. l \in (s + 1)..k
    BY <2>1, <2>2
  <2>4. l = m
    BY <1>1, <1>4, <2>3
  <2>5. (k + 2 - m) % 2 = 0
    BY <1>2
  <2> QED
    BY <1>4, <2>4, <2>5
<1>5. ~Escaped(s, k + 2)
  BY <1>4 DEF Escaped
<1> QED
  BY <1>3, <1>5

LEMMA OthersEscapeNothing ==
  ASSUME NEW s \in Nat, NEW k \in Nat, s < k, ~At(k, "\\")
  PROVE  ~Escaped(s, k + 1)
<1> SUFFICES ASSUME NEW m \in (s + 1)..(k + 1),
                    \A n \in m..(k + 1 - 1) : At(n, "\\"),
                    (k + 1 - m) % 2 = 1
             PROVE  FALSE
  BY DEF Escaped
<1>1. m = k + 1
  OBVIOUS
<1> QED
  BY <1>1

LEMMA StringReads ==
  ASSUME HighlightInv, StringInv, StringEnds,
         NEW end, end = (IF i > Len(buffer) THEN i ELSE i + 1)
  PROVE  Reads([start |-> start, end |-> end, kind |-> "string"])
<1> DEFINE token == [start |-> start, end |-> end, kind |-> "string"]
<1>1. phase = "string"
  BY DEF StringEnds
<1>2. Len(buffer) \in Nat /\ i \in Int /\ start \in Int /\ start < i /\ i <= Len(buffer) + 1
  BY <1>1, InTheLoop DEF HighlightInv, TypeOK, Place
<1>3. /\ At(start, Quote)
      /\ \A n \in (start + 1)..(i - 1) : At(n, Quote) => Escaped(start, n)
      /\ i <= Len(buffer) => ~Escaped(start, i)
  BY <1>1 DEF StringInv
<1>4. \A n \in (start + 1)..(end - 2) : ~(At(n, Quote) /\ ~Escaped(start, n))
  BY <1>2, <1>3
<1>5. end > Len(buffer) \/ (At(end - 1, Quote) /\ ~Escaped(start, end - 1))
  <2>1. CASE i > Len(buffer)
    BY <2>1
  <2>2. CASE ~(i > Len(buffer))
    <3>1. At(i, Quote) /\ end - 1 = i /\ i <= Len(buffer)
      BY <1>2, <2>2 DEF StringEnds
    <3> QED
      BY <1>3, <3>1
  <2> QED
    BY <2>1, <2>2
<1>6. token.start = start /\ token.end = end /\ token.kind = "string"
  OBVIOUS
<1> SUFFICES Reads(token)
  OBVIOUS
<1> HIDE DEF token
<1> QED
  BY <1>3, <1>4, <1>5, <1>6 DEF Reads

------------------------------------------------------------------------------
(* What was read stays read *)

LEMMA QuoteIsNoWord == Quote \notin WordChars /\ "/" \notin WordChars \cup Brackets
<1>1. Quote \notin Digits \cup Letters \cup Brackets /\ "/" \notin Digits \cup Letters \cup Brackets
  BY DEF Special
<1>2. Quote # "-" /\ Quote # "." /\ "/" # "-" /\ "/" # "."
  BY Zenon DEF Quote
<1> QED
  BY <1>1, <1>2 DEF WordChars

\* A round of the loop that finds a token.
LEMMA FoundKeepsRead ==
  ASSUME HighlightInv, ReadInv, phase \in {"scan", "string"}, phase' = "scan",
         NEW kind \in Kinds, NEW from, from = Upto,
         NEW end \in Place, from < end,
         Found(from, kind, end),
         Reads([start |-> from, end |-> end, kind |-> kind])
  PROVE  ReadInv'
<1> DEFINE token == [start |-> from, end |-> end, kind |-> kind]
<1>1. /\ Len(buffer) \in Nat
      /\ from \in Place /\ from \in Int /\ end \in Int
      /\ tokens \in Seq(Token)
  BY InTheLoop DEF Place
<1>2. token \in Token /\ token.start = from /\ token.end = end
  BY <1>1 DEF Token, Place
<1>3. /\ tokens' = Append(tokens, token)
      /\ i' = end
      /\ UNCHANGED buffer
  BY DEF Found
<1>4. Reads(token)
  OBVIOUS
<1> HIDE DEF token
<1>5. /\ tokens' \in Seq(Token)
      /\ ToSet(tokens') = ToSet(tokens) \cup {token}
  <2>1. /\ tokens' \in Seq(Token)
        /\ DOMAIN tokens' = 1..(Len(tokens) + 1)
        /\ DOMAIN tokens = 1..Len(tokens)
        /\ Len(tokens) \in Nat
        /\ \A n \in 1..Len(tokens) : tokens'[n] = tokens[n]
        /\ tokens'[Len(tokens) + 1] = token
    BY <1>1, <1>2, <1>3, AppendProperties, LenProperties
  <2> QED
    BY <2>1 DEF ToSet
<1>6. tokens' \in Seq(Token')
  BY <1>3, <1>5 DEF Token
<1>7. \A t \in ToSet(tokens') : Reads(t)'
  <2>1. \A t : Reads(t)' = Reads(t)
    BY <1>3 DEF Reads, At, In, Closes, Escaped, IsNumber, DigitsIn
  <2>2. \A t \in ToSet(tokens) : Reads(t)
    BY DEF ReadInv
  <2> QED
    BY <1>4, <1>5, <2>1, <2>2
<1>8. ASSUME NEW k \in 1..(end - 1), Plain(k)'
      PROVE  BeginsNothing(k)'
  <2>1. k \in 1..Len(buffer) /\ k \in Int
    BY <1>3, <1>8 DEF Plain
  <2>2. Plain(k)
    BY <1>3, <1>5, <1>8 DEF Plain
  <2>3. ~(from <= k /\ k < end)
    BY <1>2, <1>5, <1>8 DEF Plain, Covers
  <2>4. k < from
    BY <1>1, <2>1, <2>3
  <2>5. BeginsNothing(k)
    BY <1>1, <2>1, <2>2, <2>4 DEF ReadInv, Scanned
  <2>6. Plain(k - 1) => Plain(k - 1)'
    <3>1. ~Covers(token, k - 1)
      BY <1>1, <1>2, <2>1, <2>4 DEF Covers
    <3> QED
      BY <1>3, <1>5, <3>1 DEF Plain, Covers
  <2> QED
    BY <1>3, <2>5, <2>6 DEF BeginsNothing, In, At
<1>9. Scanned' = end
  BY <1>3 DEF Scanned, Upto
<1>10. StringInv'
  BY DEF StringInv
<1> QED
  BY <1>6, <1>7, <1>8, <1>9, <1>10 DEF ReadInv

\* A round that finds none.
LEMMA PassedKeepsRead ==
  ASSUME HighlightInv, ReadInv, phase \in {"scan", "string"}, phase' \in {"scan", "string"},
         UNCHANGED <<buffer, tokens>>,
         NEW next \in Int, Scanned' = next,
         \A k \in Scanned..(next - 1) : Plain(k) => BeginsNothing(k),
         StringInv'
  PROVE  ReadInv'
<1>1. /\ tokens \in Seq(Token)
      /\ Scanned \in Int
  BY InTheLoop DEF Scanned
<1>2. tokens' \in Seq(Token')
  BY <1>1 DEF Token
<1>3. \A t : Reads(t)' = Reads(t)
  BY DEF Reads, At, In, Closes, Escaped, IsNumber, DigitsIn
<1>4. \A k : Plain(k)' = Plain(k) /\ BeginsNothing(k)' = BeginsNothing(k)
  BY DEF Plain, BeginsNothing, Covers, At, In
<1>5. ASSUME NEW k \in 1..(next - 1), Plain(k)
      PROVE  BeginsNothing(k)
  <2>1. CASE k < Scanned
    <3>1. \A l \in 1..(Scanned - 1) : Plain(l) => BeginsNothing(l)
      BY DEF ReadInv
    <3>2. k \in 1..(Scanned - 1)
      BY <1>1, <2>1
    <3> QED
      BY <1>5, <3>1, <3>2
  <2>2. CASE k >= Scanned
    <3>1. k \in Scanned..(next - 1)
      BY <1>1, <2>2
    <3> QED
      BY <1>5, <3>1
  <2>3. k \in Int
    OBVIOUS
  <2> QED
    BY <1>1, <2>1, <2>2, <2>3
<1> QED
  BY <1>2, <1>3, <1>4, <1>5 DEF ReadInv

\* A step that is none of the scan's.
LEMMA UntouchedKeepsRead ==
  ASSUME ReadInv, phase # "changed",
         UNCHANGED <<buffer, tokens>>, Scanned' = Scanned, StringInv'
  PROVE  ReadInv'
<1>1. \A t : Reads(t)' = Reads(t)
  BY DEF Reads, At, In, Closes, Escaped, IsNumber, DigitsIn
<1>2. \A k : Plain(k)' = Plain(k) /\ BeginsNothing(k)' = BeginsNothing(k)
  BY DEF Plain, BeginsNothing, Covers, At, In
<1>3. (tokens \in Seq(Token))' = (tokens \in Seq(Token))
  BY DEF Token
<1> QED
  BY <1>1, <1>2, <1>3 DEF ReadInv

LEMMA ScanKeepsRead ==
  ASSUME HighlightInv, ReadInv, Scan
  PROVE  ReadInv'
<1>1. phase \in {"scan", "string"}
  BY DEF Scan, Scanning, LineComment, BlockComment, StringOpens, StringGoesOn, StringEnds, Number,
         Punctuation, Word, Skip
<1>2. /\ Len(buffer) \in Nat
      /\ i \in Place /\ i \in Nat
      /\ Upto \in Place /\ Upto \in Int /\ Upto <= i
  BY <1>1, InTheLoop DEF Place
<1>3. Scanning => Upto = i /\ Scanned = i /\ phase = "scan"
  BY DEF Scanning, Upto, Scanned
<1>4. CASE LineComment
  <2>1. /\ Scanning /\ At(i, "/") /\ At(i + 1, "/")
        /\ phase' = phase
    BY <1>4 DEF LineComment
  <2>2. PICK j \in (i + 2)..(Len(buffer) + 1) :
          RunEnds(Char \ {"\n"}, i + 2, j) /\ Found(i, "comment", j)
    BY <1>4 DEF LineComment
  <2>3. Reads([start |-> i, end |-> j, kind |-> "comment"])
    BY <2>1, <2>2, LineCommentReads
  <2>4. j \in Place /\ i < j
    BY <1>2 DEF Place
  <2> QED
    BY <1>1, <1>3, <2>1, <2>2, <2>3, <2>4, FoundKeepsRead DEF Kinds
<1>5. CASE BlockComment
  <2>1. /\ Scanning /\ At(i, "/") /\ At(i + 1, "*")
        /\ phase' = phase
    BY <1>5 DEF BlockComment
  <2>2. PICK j \in (i + 2)..(Len(buffer) + 1) :
          /\ \A n \in (i + 2)..(j - 1) : n < Len(buffer) /\ ~Closes(n)
          /\ j >= Len(buffer) \/ Closes(j)
          /\ Found(i, "comment", CommentEnd(j))
    BY <1>5 DEF BlockComment
  <2>3. Reads([start |-> i, end |-> CommentEnd(j), kind |-> "comment"])
    BY <2>1, <2>2, BlockCommentReads
  <2>4. CommentEnd(j) \in Place /\ i < CommentEnd(j)
    BY <1>2 DEF CommentEnd, Place
  <2> QED
    BY <1>1, <1>3, <2>1, <2>2, <2>3, <2>4, FoundKeepsRead DEF Kinds
<1>6. CASE StringOpens
  <2>1. /\ phase = "scan" /\ phase' = "string" /\ At(i, Quote)
        /\ start' = i /\ i' = i + 1
        /\ UNCHANGED <<buffer, tokens>>
    BY <1>3, <1>6 DEF StringOpens
  <2>2. Scanned' = Scanned /\ Scanned \in Int
    BY <1>2, <2>1 DEF Scanned, Upto
  <2>3. ~Escaped(i, i + 1)
    BY <1>2 DEF Escaped
  <2>4. StringInv'
    <3>1. At(start, Quote)' /\ (start + 1)' = i + 1
      BY <2>1 DEF At
    <3>2. ~Escaped(start, i)'
      BY <2>1, <2>3 DEF Escaped, At
    <3>3. (start + 1)'..(i - 1)' = {}
      BY <1>2, <2>1
    <3> QED
      BY <3>1, <3>2, <3>3 DEF StringInv
  <2> QED
    BY <1>2, <2>1, <2>2, <2>4, PassedKeepsRead
<1>7. CASE StringGoesOn
  <2>1. /\ phase = "string" /\ phase' = "string" /\ ~At(i, Quote)
        /\ start' = start /\ i' = i + Advance /\ i <= Len(buffer)
        /\ UNCHANGED <<buffer, tokens>>
    BY <1>7 DEF StringGoesOn
  <2>2. start \in Nat /\ start < i /\ Scanned' = Scanned /\ Scanned \in Int
    BY <1>2, <2>1 DEF HighlightInv, TypeOK, Scanned, Upto
  <2>3. /\ At(start, Quote)
        /\ \A n \in (start + 1)..(i - 1) : At(n, Quote) => Escaped(start, n)
        /\ ~Escaped(start, i)
    BY <2>1 DEF ReadInv, StringInv
  <2>4. /\ \A n \in (start + 1)..(i' - 1) : At(n, Quote) => Escaped(start, n)
        /\ i' <= Len(buffer) => ~Escaped(start, i')
    <3>1. CASE ~At(i, "\\")
      <4>1. i' = i + 1
        BY <2>1, <3>1 DEF Advance
      <4>2. ~Escaped(start, i + 1)
        BY <1>2, <2>2, <3>1, OthersEscapeNothing
      <4> QED
        BY <1>2, <2>1, <2>2, <2>3, <4>1, <4>2
    <3>2. CASE At(i, "\\") /\ i < Len(buffer)
      <4>1. i' = i + 2
        BY <2>1, <3>2 DEF Advance
      <4>2. Escaped(start, i + 1) /\ ~Escaped(start, i + 2)
        BY <1>2, <2>2, <2>3, <3>2, BackslashEscapes
      <4> QED
        BY <1>2, <2>1, <2>2, <2>3, <4>1, <4>2
    <3>3. CASE At(i, "\\") /\ ~(i < Len(buffer))
      <4>1. i' = i + 1
        BY <2>1, <3>3 DEF Advance
      <4> QED
        BY <1>2, <2>1, <2>2, <2>3, <3>3, <4>1
    <3> QED
      BY <3>1, <3>2, <3>3
  <2>5. StringInv'
    <3>1. \A k, c : At(k, c)' = At(k, c)
      BY <2>1 DEF At
    <3>2. \A k : Escaped(start, k)' = Escaped(start, k)
      BY <2>1 DEF Escaped, At
    <3> QED
      BY <2>1, <2>3, <2>4, <3>1, <3>2 DEF StringInv, At, Escaped
  <2> QED
    BY <1>2, <2>1, <2>2, <2>5, PassedKeepsRead
<1>8. CASE StringEnds
  <2> DEFINE end == IF i > Len(buffer) THEN i ELSE i + 1
  <2>1. phase = "string" /\ phase' = "scan" /\ Upto = start /\ StringInv
    BY <1>1, <1>8 DEF StringEnds, Upto, ReadInv
  <2>2. Found(start, "string", end)
    BY <1>2, <1>8 DEF StringEnds, At
  <2>3. end \in Place /\ start < end
    BY <1>2, <2>1 DEF HighlightInv, TypeOK, Place
  <2>4. Reads([start |-> start, end |-> end, kind |-> "string"])
    BY <1>8, <2>1, StringReads
  <2> HIDE DEF end
  <2> QED
    BY <1>1, <2>1, <2>2, <2>3, <2>4, FoundKeepsRead DEF Kinds
<1>9. CASE Number
  <2>1. Scanning /\ NumberAt(i) /\ phase' = phase
    BY <1>9 DEF Number
  <2>2. PICK j \in (i + 1)..(Len(buffer) + 1) :
          /\ RunEnds(Digits, IF At(i, "-") THEN i + 1 ELSE i, j)
          /\ IF At(j, ".") /\ In(j + 1, Digits)
             THEN \E e \in (j + 1)..(Len(buffer) + 1) :
                    RunEnds(Digits, j + 1, e) /\ Found(i, "number", e)
             ELSE Found(i, "number", j)
    BY <1>9 DEF Number
  <2>3. PICK end \in j..(Len(buffer) + 1) :
          /\ IF At(j, ".") /\ In(j + 1, Digits)
             THEN end > j /\ RunEnds(Digits, j + 1, end)
             ELSE end = j
          /\ Found(i, "number", end)
    <3>1. CASE At(j, ".") /\ In(j + 1, Digits)
      <4> PICK e \in (j + 1)..(Len(buffer) + 1) :
            RunEnds(Digits, j + 1, e) /\ Found(i, "number", e)
        BY <2>2, <3>1
      <4>1. e \in j..(Len(buffer) + 1) /\ e > j
        BY <1>2
      <4> QED
        BY <3>1, <4>1
    <3>2. CASE ~(At(j, ".") /\ In(j + 1, Digits))
      BY <1>2, <2>2, <3>2
    <3> QED
      BY <3>1, <3>2
  <2>4. Reads([start |-> i, end |-> end, kind |-> "number"])
    BY <2>1, <2>2, <2>3, NumberReads
  <2>5. end \in Place /\ i < end
    BY <1>2 DEF Place
  <2> QED
    BY <1>1, <1>3, <2>1, <2>3, <2>4, <2>5, FoundKeepsRead DEF Kinds
<1>10. CASE Punctuation
  <2>1. Scanning /\ In(i, Brackets) /\ phase' = phase /\ Found(i, "punctuation", i + 1)
    BY <1>10 DEF Punctuation
  <2>2. i + 1 \in Place /\ i < i + 1
    BY <1>2, <2>1 DEF Place, Scanning
  <2> QED
    BY <1>1, <1>3, <2>1, <2>2, PunctuationReads, FoundKeepsRead DEF Kinds
<1>11. CASE Word
  <2>1. Scanning /\ phase' = phase /\ In(i, WordChars) /\ ~NumberAt(i)
    BY <1>11 DEF Word
  <2>2. PICK j \in (i + 1)..(Len(buffer) + 1) :
          /\ RunEnds(WordChars, i, j)
          /\ IF SubSeq(buffer, i, j - 1) \in Keywords
             THEN Found(i, "keyword", j)
             ELSE i' = j /\ UNCHANGED <<buffer, tags, page, tokens, start>>
    BY <1>11 DEF Word
  <2>3. j \in Place /\ i < j /\ j \in Int
    BY <1>2 DEF Place
  <2>4. CASE SubSeq(buffer, i, j - 1) \in Keywords
    BY <1>1, <1>3, <2>1, <2>2, <2>3, <2>4, KeywordReads, FoundKeepsRead DEF Kinds
  <2>5. CASE SubSeq(buffer, i, j - 1) \notin Keywords
    <3>1. i' = j /\ UNCHANGED <<buffer, tokens>>
      BY <2>2, <2>5
    <3>2. Scanned' = j /\ Scanned = i
      BY <1>3, <2>1, <3>1 DEF Scanned, Upto
    <3>3. ASSUME NEW k \in i..(j - 1), Plain(k)
          PROVE  BeginsNothing(k)
      <4>1. In(k, WordChars)
        BY <2>2 DEF RunEnds
      <4>2. ~In(k, Brackets \cup {Quote}) /\ ~At(k, "/")
        <5>1. WordChars \cap Brackets = {}
          BY DEF WordChars, Special
        <5> QED
          BY <4>1, <5>1, QuoteIsNoWord DEF In, At
      <4>3. ASSUME In(k, Digits)
            PROVE  Plain(k - 1) /\ In(k - 1, WordChars)
        <5>1. k # i
          BY <2>1, <4>3 DEF NumberAt
        <5>2. k - 1 \in i..(j - 1) /\ k - 1 \in 1..Len(buffer)
          BY <1>2, <2>3, <5>1 DEF Place
        <5>3. In(k - 1, WordChars)
          BY <2>2, <5>2 DEF RunEnds
        <5>4. \A t \in ToSet(tokens) : ~Covers(t, k - 1)
          <6>1. tokens \in Seq(Token) /\ i = Upto
            BY <1>1, <1>3, <2>1, InTheLoop
          <6>2. \A n \in DOMAIN tokens : tokens[n].end <= i /\ tokens[n].end \in Int
            BY <1>1, <1>2, <6>1, TokenPlaces DEF HighlightInv, ScanInv, Place
          <6> QED
            BY <1>2, <5>2, <6>2 DEF ToSet, Covers
        <5> QED
          BY <5>2, <5>3, <5>4 DEF Plain
      <4> QED
        BY <4>2, <4>3 DEF BeginsNothing
    <3>4. StringInv' /\ phase' = "scan"
      BY <1>3, <2>1 DEF StringInv
    <3> QED
      BY <1>1, <2>3, <3>1, <3>2, <3>3, <3>4, PassedKeepsRead
  <2> QED
    BY <2>4, <2>5
<1>12. CASE Skip
  <2>1. /\ phase = "scan" /\ phase' = "scan" /\ i' = i + 1
        /\ ~In(i, WordChars \cup Brackets \cup {Quote})
        /\ ~(At(i, "/") /\ In(i + 1, {"/", "*"}))
        /\ UNCHANGED <<buffer, tokens>>
    BY <1>3, <1>12 DEF Skip, Onward
  <2>2. Scanned' = i + 1 /\ Scanned = i
    BY <2>1 DEF Scanned, Upto
  <2>3. BeginsNothing(i)
    BY <2>1 DEF BeginsNothing, In, WordChars
  <2>4. StringInv'
    BY <2>1 DEF StringInv
  <2>5. Scanned..(Scanned' - 1) = {i}
    BY <1>2, <2>2
  <2> QED
    BY <1>2, <2>1, <2>2, <2>3, <2>4, <2>5, PassedKeepsRead
<1> QED
  BY <1>4, <1>5, <1>6, <1>7, <1>8, <1>9, <1>10, <1>11, <1>12 DEF Scan

LEMMA NextRead == HighlightInv /\ ReadInv /\ [Next]_vars => ReadInv'
<1> SUFFICES ASSUME HighlightInv, ReadInv, [Next]_vars PROVE ReadInv'
  OBVIOUS
<1>1. CASE Scan
  BY <1>1, ScanKeepsRead
<1>2. CASE phase' = "changed"
  BY <1>2 DEF ReadInv
<1>3. CASE Apply
  <2>1. phase' = "scan" /\ tokens' = <<>> /\ i' = 1
    BY <1>3 DEF Apply
  <2>2. tokens' \in Seq(Token')
    BY <2>1
  <2>3. ToSet(tokens') = {} /\ Scanned' = 1
    BY <2>1 DEF ToSet, Scanned, Upto
  <2>4. StringInv'
    BY <2>1 DEF StringInv
  <2> QED
    BY <2>2, <2>3, <2>4 DEF ReadInv
\* The handlers that follow, and the steps that leave the text alone.
<1>4. CASE /\ UNCHANGED <<buffer, tokens, i, start>>
           /\ phase \in {"rest", "tab", "scan"} /\ phase' \in {"rest", "tab"}
           /\ phase = "scan" => i > Len(buffer)
  <2>1. Len(buffer) \in Nat /\ phase # "changed"
    BY <1>4, LengthIsNat DEF HighlightInv
  <2>2. Scanned' = Scanned
    <3>1. phase = "scan" => i = Len(buffer) + 1
      BY <1>4, <2>1, InTheLoop DEF Place
    <3> QED
      BY <1>4, <2>1, <3>1 DEF Scanned, Upto
  <2>3. StringInv'
    BY <1>4 DEF StringInv
  <2> QED
    BY <1>4, <2>1, <2>2, <2>3, UntouchedKeepsRead
<1>5. CASE UNCHANGED vars
  <2>1. UNCHANGED <<buffer, phase, tokens, i, start>>
    BY <1>5 DEF vars, scanVars
  <2>2. CASE phase = "changed"
    BY <1>2, <2>1, <2>2
  <2>3. CASE phase # "changed"
    <3>1. Scanned' = Scanned
      BY <2>1 DEF Scanned, Upto
    <3>2. StringInv => StringInv'
      BY <2>1 DEF StringInv, At, Escaped
    <3>3. StringInv
      BY <2>3 DEF ReadInv
    <3> QED
      BY <2>1, <2>3, <3>1, <3>2, <3>3, UntouchedKeepsRead
  <2> QED
    BY <2>2, <2>3
<1>6. CASE User
  <2>1. phase = "rest"
    BY <1>6 DEF User, Insert, Delete, Edited, CompareOn, RestoreClicked
  <2>2. phase' = "changed" \/ (phase' = "rest" /\ UNCHANGED <<buffer, tokens, i, start>>)
    BY <1>6 DEF User, Insert, Delete, Edited, CompareOn, RestoreClicked, scanVars
  <2> QED
    BY <1>2, <1>4, <2>1, <2>2
<1>7. CASE ApplyTags
  <2>1. /\ phase = "scan" /\ i > Len(buffer) /\ phase' \in {"rest", "tab"}
        /\ UNCHANGED <<buffer, tokens, i, start>>
    BY <1>7 DEF ApplyTags, scanVars
  <2> QED
    BY <1>4, <2>1
<1>8. CASE TabHandles
  <2>1. phase = "tab" /\ phase' = "rest" /\ UNCHANGED <<buffer, tokens, i, start>>
    BY <1>8 DEF TabHandles, scanVars
  <2> QED
    BY <1>4, <2>1
<1> QED
  BY <1>1, <1>3, <1>5, <1>6, <1>7, <1>8 DEF Next, Handlers


------------------------------------------------------------------------------
(* The theorems *)

LEMMA InitInv == Init => HighlightInv
<1> SUFFICES ASSUME Init PROVE HighlightInv
  OBVIOUS
<1>1. buffer \in Seq(Char) /\ phase = "changed" /\ page = "opening"
  BY DEF Init
<1>2. tags = [k \in 1..Len(buffer) |-> {}]
  BY DEF Init, Untagged
<1>3. TypeOK
  BY <1>1, <1>2 DEF TypeOK
<1>4. ScanInv /\ TagsInv
  BY <1>1 DEF ScanInv, TagsInv, ColoursAreCurrent
<1> QED
  BY <1>3, <1>4 DEF HighlightInv

LEMMA NextInv == HighlightInv /\ [Next]_vars => HighlightInv'
<1> SUFFICES ASSUME HighlightInv, [Next]_vars PROVE HighlightInv'
  OBVIOUS
<1>1. CASE User
  BY <1>1, UserKeepsInv
<1>2. CASE Apply
  BY <1>2, ApplyKeepsInv
<1>3. CASE Scan
  BY <1>3, ScanKeepsInv
<1>4. CASE ApplyTags
  BY <1>4, ApplyTagsKeepsInv
<1>5. CASE TabHandles
  BY <1>5, TabHandlesKeepsInv
<1>6. CASE UNCHANGED vars
  <2>1. UNCHANGED <<buffer, tags, page, phase, tokens, i, start>>
    BY <1>6 DEF vars, scanVars
  <2>2. \A k : MarkIsRight(k)' = MarkIsRight(k)
    BY <2>1, SameTextSameMark
  <2> QED
    BY <2>1, <2>2 DEF HighlightInv, TypeOK, Token, ScanInv, Upto, TagsInv, ColoursAreCurrent, KindsAt
<1> QED
  BY <1>1, <1>2, <1>3, <1>4, <1>5, <1>6 DEF Next, Handlers

LEMMA SpecInv == Spec => []HighlightInv
BY InitInv, NextInv, PTL DEF Spec

LEMMA SpecRead == Spec => []ReadInv
<1>1. Init => ReadInv
  BY DEF Init, ReadInv
<1> QED
  BY <1>1, SpecInv, NextRead, PTL DEF Spec

\* The scanner never leaves the text, whatever the text: no index is out of range.
THEOREM ScanStaysInText == Spec => []TypeOK
<1>1. HighlightInv => TypeOK
  BY DEF HighlightInv
<1> QED
  BY <1>1, SpecInv, PTL

\* In every text the tokens are in order and no two share a character.
THEOREM TokensDoNotOverlap == Spec => []TokensInOrder
BY SpecInv, InvGivesOrder, PTL

\* Between handlers no tag is left from an earlier text or an earlier error, and a
\* mark behind one-byte characters only is on the error of the text on display.
THEOREM TagsFollowText == Spec => []ColoursAreCurrent
<1>1. HighlightInv => ColoursAreCurrent
  BY DEF HighlightInv, TagsInv
<1> QED
  BY <1>1, SpecInv, PTL

\* Every token of every text is what its kind says, and goes on for as long as it
\* can: an escaped quote ends no string, a number takes its sign and its fraction.
THEOREM TokensAreWhole == Spec => []TokensReadRight
<1>1. ReadInv => TokensReadRight
  BY DEF ReadInv, TokensReadRight, Tokenized
<1> QED
  BY <1>1, SpecRead, PTL

\* No text has a quote, a bracket, a comment or a number that stays without a colour.
THEOREM NothingStaysPlain == Spec => []NothingMissed
<1>1. ReadInv => NothingMissed
  <2> SUFFICES ASSUME ReadInv, phase = "rest", NEW k \in 1..Len(buffer), Plain(k)
               PROVE  BeginsNothing(k)
    BY DEF NothingMissed, Tokenized
  <2>1. k \in 1..(Scanned - 1)
    BY DEF Scanned
  <2> QED
    BY <2>1 DEF ReadInv
<1> QED
  BY <1>1, SpecRead, PTL

\* What the scan has before it: two rounds for each character, as a string that
\* ends with the text takes a round of its own.
Ahead == 2 * (Len(buffer) + 1 - i) + (IF phase = "string" THEN 1 ELSE 0)

LEMMA RoundsMove ==
  ASSUME HighlightInv, Scan
  PROVE  /\ phase \in {"scan", "string"} /\ phase' \in {"scan", "string"}
         /\ buffer' = buffer
         /\ i' \in Int
         /\ i < i' \/ (i = i' /\ phase = "string" /\ phase' = "scan")
<1>1. phase \in {"scan", "string"}
  BY DEF Scan, LineComment, BlockComment, StringOpens, StringGoesOn, StringEnds, Number,
         Punctuation, Word, Skip, Scanning
<1>2. Len(buffer) \in Nat /\ i \in 1..(Len(buffer) + 1)
  BY <1>1, InTheLoop DEF Place
<1>3. CASE LineComment
  BY <1>2, <1>3 DEF LineComment, Scanning, Found
<1>4. CASE BlockComment
  BY <1>2, <1>4 DEF BlockComment, Scanning, Found, CommentEnd
<1>5. CASE StringOpens
  BY <1>2, <1>5 DEF StringOpens, Scanning
<1>6. CASE StringGoesOn
  BY <1>2, <1>6 DEF StringGoesOn, Advance
<1>7. CASE StringEnds
  BY <1>2, <1>7 DEF StringEnds, Found
<1>8. CASE Number
  <2>1. PICK j \in (i + 1)..(Len(buffer) + 1) :
          IF At(j, ".") /\ In(j + 1, Digits)
          THEN \E e \in (j + 1)..(Len(buffer) + 1) : Found(i, "number", e)
          ELSE Found(i, "number", j)
    BY <1>8 DEF Number
  <2>2. \E e \in (i + 1)..(Len(buffer) + 1) : Found(i, "number", e)
    <3>1. CASE At(j, ".") /\ In(j + 1, Digits)
      BY <1>2, <2>1, <3>1
    <3>2. CASE ~(At(j, ".") /\ In(j + 1, Digits))
      BY <2>1, <3>2
    <3> QED
      BY <3>1, <3>2
  <2> QED
    BY <1>2, <1>8, <2>2 DEF Number, Scanning, Found
<1>9. CASE Punctuation
  BY <1>2, <1>9 DEF Punctuation, Scanning, Found
<1>10. CASE Word
  BY <1>2, <1>10 DEF Word, Scanning, Found
<1>11. CASE Skip
  BY <1>2, <1>11 DEF Skip, Scanning, Onward
<1> QED
  BY <1>3, <1>4, <1>5, <1>6, <1>7, <1>8, <1>9, <1>10, <1>11 DEF Scan

\* The scan cannot go on for ever, whatever the text: each round of its loop
\* brings its end nearer, so a text of n characters takes at most 2 * n rounds.
THEOREM ScanGetsFurther == Spec => [][Scan => Ahead' \in Nat /\ Ahead' < Ahead]_vars
<1>1. HighlightInv /\ [Next]_vars => [Scan => Ahead' \in Nat /\ Ahead' < Ahead]_vars
  <2> SUFFICES ASSUME HighlightInv, [Next]_vars, Scan
               PROVE  Ahead' \in Nat /\ Ahead' < Ahead
    OBVIOUS
  <2>1. /\ phase \in {"scan", "string"} /\ phase' \in {"scan", "string"} /\ buffer' = buffer
        /\ i' \in Int
        /\ i < i' \/ (i = i' /\ phase = "string" /\ phase' = "scan")
    BY RoundsMove
  <2>2. Len(buffer) \in Nat /\ i \in Int
    BY <2>1, InTheLoop
  <2>3. i' <= Len(buffer) + 1
    <3>1. HighlightInv'
      BY NextInv
    <3>2. i' \in 1..(Len(buffer') + 1)
      BY <2>1, <3>1 DEF HighlightInv, TypeOK
    <3> QED
      BY <2>1, <2>2, <3>2
  <2>4. Ahead' = 2 * (Len(buffer) + 1 - i') + (IF phase' = "string" THEN 1 ELSE 0)
    BY <2>1 DEF Ahead
  <2> QED
    BY <2>1, <2>2, <2>3, <2>4 DEF Ahead
<1> QED
  BY <1>1, SpecInv, PTL DEF Spec

==============================================================================
