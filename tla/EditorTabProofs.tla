---------------------------- MODULE EditorTabProofs ----------------------------
(***************************************************************************)
(* Proofs about EditorTab for every set of texts and every cap: the type   *)
(* invariant, the undo chain and its bound, the dirty flag, the fallback   *)
(* view, and that the tab implements DocHistory.                           *)
(***************************************************************************)
EXTENDS EditorTab, SequenceTheorems, TLAPS

------------------------------------------------------------------------------
(* The undo stack *)

\* Dropping commands from the front leaves a sequence of commands, shorter
\* than the cap, that is a tail of the one before.
LEMMA MakeRoomTail ==
  ASSUME NEW S, NEW buf \in Seq(S), Cap # 0
  PROVE  /\ MakeRoom(buf) \in Seq(S)
         /\ Len(MakeRoom(buf)) < Cap
         /\ Len(MakeRoom(buf)) <= Len(buf)
         /\ \A i \in 1..Len(MakeRoom(buf)) :
              MakeRoom(buf)[i] = buf[i + Len(buf) - Len(MakeRoom(buf))]
<1> USE CapAssumption
<1>1. CASE Len(buf) < Cap
  BY <1>1 DEF MakeRoom
<1>2. CASE Len(buf) >= Cap
  <2>1. \A i \in (Len(buf) - Cap + 2)..Len(buf) : buf[i] \in S
    BY <1>2
  <2> DEFINE t == SubSeq(buf, Len(buf) - Cap + 2, Len(buf))
  <2>2. /\ t \in Seq(S)
        /\ Len(t) = Cap - 1
        /\ \A i \in 1..(Cap - 1) : t[i] = buf[Len(buf) - Cap + 2 + i - 1]
    BY <1>2, <2>1, SubSeqProperties
  <2>3. MakeRoom(buf) = t
    BY <1>2 DEF MakeRoom
  <2> HIDE DEF t
  <2>4. QED
    BY <1>2, <2>2, <2>3
<1>3. QED
  BY <1>1, <1>2

\* Popping keeps all but the last element.
LEMMA PopFront ==
  ASSUME NEW S, NEW buf \in Seq(S), buf # <<>>
  PROVE  /\ Pop(buf) \in Seq(S)
         /\ Len(Pop(buf)) = Len(buf) - 1
         /\ \A i \in 1..(Len(buf) - 1) : Pop(buf)[i] = buf[i]
         /\ Top(buf) \in S
<1>1. Len(buf) \in Nat \ {0} /\ \A i \in 1..Len(buf) : buf[i] \in S
  BY EmptySeq, LenProperties
<1>2. /\ Pop(buf) \in Seq(S)
      /\ Len(Pop(buf)) = Len(buf) - 1
      /\ \A i \in 1..(Len(buf) - 1) : Pop(buf)[i] = buf[i]
  <2> DEFINE n == Len(buf) - 1
             t == SubSeq(buf, 1, n)
  <2>1. n \in Nat /\ \A i \in 1..n : buf[i] \in S
    BY <1>1
  <2>2. Pop(buf) = t
    BY DEF Pop
  <2> HIDE DEF n
  <2>3. /\ t \in Seq(S)
        /\ Len(t) = IF 1 <= n THEN n - 1 + 1 ELSE 0
        /\ \A i \in 1..(n - 1 + 1) : t[i] = buf[1 + i - 1]
    BY <2>1, SubSeqProperties
  <2> HIDE DEF t
  <2>4. Len(t) = n
    BY <2>1, <2>3
  <2>5. ASSUME NEW i \in 1..n PROVE t[i] = buf[i]
    <3>1. i \in 1..(n - 1 + 1) /\ 1 + i - 1 = i
      BY <2>1
    <3>2. QED
      BY <2>3, <3>1
  <2>6. QED
    BY <2>2, <2>3, <2>4, <2>5 DEF n
<1>3. Top(buf) \in S
  BY <1>1 DEF Top
<1>4. QED
  BY <1>2, <1>3

\* Appending adds one element behind the others.
LEMMA AppendLast ==
  ASSUME NEW S, NEW buf \in Seq(S), NEW e \in S
  PROVE  /\ Append(buf, e) \in Seq(S)
         /\ Append(buf, e) # <<>>
         /\ Len(Append(buf, e)) = Len(buf) + 1
         /\ Append(buf, e)[Len(buf) + 1] = e
         /\ \A i \in 1..Len(buf) : Append(buf, e)[i] = buf[i]
BY AppendProperties

\* What Push leaves in undo_buf.
Pushed(u, cmd) == IF Cap = 0 THEN u ELSE Append(MakeRoom(u), cmd)

\* Recording an edit from d to d2 continues the line through d2, within the cap.
LEMMA PushLine ==
  ASSUME NEW u \in Seq(Command), NEW r \in Seq(Command),
         NEW d \in Text, NEW d2 \in Text,
         LineThrough(u, r, d), Len(u) <= Cap
  PROVE  LET p == Pushed(u, [old_text |-> d, new_text |-> d2])
         IN  p \in Seq(Command) /\ LineThrough(p, <<>>, d2) /\ Len(p) <= Cap
<1> USE CapAssumption
<1> DEFINE cmd == [old_text |-> d, new_text |-> d2]
           m   == MakeRoom(u)
           a   == Append(m, cmd)
<1>1. cmd \in Command /\ cmd.old_text = d /\ cmd.new_text = d2
  BY DEF Command
<1>2. Len(<<>>) = 0 /\ 1..(Len(<<>>) - 1) = {}
  OBVIOUS
<1> HIDE DEF cmd
<1>3. CASE Cap = 0
  <2>1. u = <<>>
    BY <1>3, EmptySeq, LenProperties
  <2>2. Pushed(u, cmd) = <<>>
    BY <1>3, <2>1 DEF Pushed
  <2>3. QED
    BY <1>2, <2>1, <2>2 DEF LineThrough, cmd
<1>4. CASE Cap # 0
  <2>1. /\ m \in Seq(Command) /\ Len(m) < Cap /\ Len(m) <= Len(u)
        /\ Len(m) \in Nat /\ Len(u) \in Nat
        /\ \A i \in 1..Len(m) : m[i] = u[i + Len(u) - Len(m)]
    BY <1>4, MakeRoomTail, LenProperties
  <2> HIDE DEF m
  <2>2. /\ a \in Seq(Command) /\ a # <<>> /\ Len(a) = Len(m) + 1
        /\ a[Len(m) + 1] = cmd
        /\ \A i \in 1..Len(m) : a[i] = m[i]
    BY <1>1, <2>1, AppendLast
  <2> HIDE DEF a
  <2>3. \A i \in 1..(Len(a) - 1) : a[i].new_text = a[i + 1].old_text
    <3> SUFFICES ASSUME NEW i \in 1..Len(m)
                 PROVE  a[i].new_text = a[i + 1].old_text
      BY <2>1, <2>2
    <3>1. CASE i = Len(m)
      <4>1. a[i] = u[Len(u)] /\ Len(u) > 0
        BY <2>1, <2>2, <3>1
      <4>2. u # <<>>
        BY <1>2, <4>1
      <4>3. u[Len(u)].new_text = d
        BY <4>2 DEF LineThrough, Top
      <4>4. QED
        BY <1>1, <2>2, <3>1, <4>1, <4>3
    <3>2. CASE i # Len(m)
      <4> DEFINE k == i + Len(u) - Len(m)
      <4>1. k \in 1..(Len(u) - 1) /\ i + 1 \in 1..Len(m) /\ k + 1 = (i + 1) + Len(u) - Len(m)
        BY <2>1, <3>2
      <4>2. a[i] = u[k] /\ a[i + 1] = u[k + 1]
        BY <2>1, <2>2, <4>1
      <4>3. u[k].new_text = u[k + 1].old_text
        BY <4>1 DEF LineThrough
      <4>4. QED
        BY <4>2, <4>3
    <3>3. QED
      BY <3>1, <3>2
  <2>4. a[Len(a)].new_text = d2
    BY <1>1, <2>2
  <2>5. LineThrough(a, <<>>, d2)
    BY <1>2, <2>2, <2>3, <2>4 DEF LineThrough, Top
  <2>6. Pushed(u, cmd) = a
    BY <1>4 DEF Pushed, a, m
  <2>7. Len(a) <= Cap
    BY <2>1, <2>2
  <2>8. QED
    BY <2>2, <2>5, <2>6, <2>7 DEF cmd
<1>5. QED
  BY <1>3, <1>4

\* Undo moves back along the line, keeping the number of commands.
LEMMA UndoLine ==
  ASSUME NEW u \in Seq(Command), NEW r \in Seq(Command), NEW d \in Text,
         LineThrough(u, r, d), u # <<>>
  PROVE  /\ Pop(u) \in Seq(Command) /\ Append(r, Top(u)) \in Seq(Command)
         /\ LineThrough(Pop(u), Append(r, Top(u)), Top(u).old_text)
         /\ Len(Pop(u)) + Len(Append(r, Top(u))) = Len(u) + Len(r)
         /\ Top(u) \in Command
<1> DEFINE p == Pop(u)
           a == Append(r, Top(u))
<1>1. Len(u) \in Nat \ {0} /\ Len(r) \in Nat
  BY EmptySeq, LenProperties
<1>2. /\ p \in Seq(Command) /\ Len(p) = Len(u) - 1
      /\ \A i \in 1..(Len(u) - 1) : p[i] = u[i]
      /\ Top(u) \in Command
  BY PopFront
<1>3. /\ a \in Seq(Command) /\ a # <<>> /\ Len(a) = Len(r) + 1
      /\ a[Len(r) + 1] = Top(u)
      /\ \A i \in 1..Len(r) : a[i] = r[i]
  BY <1>2, AppendLast
<1>4. Top(u) = u[Len(u)] /\ Top(u).new_text = d
  BY DEF LineThrough, Top
<1> HIDE DEF p, a
<1>5. p # <<>> => Top(p).new_text = Top(u).old_text
  <2> SUFFICES ASSUME p # <<>> PROVE Top(p).new_text = Top(u).old_text
    OBVIOUS
  <2>1. Len(p) \in Nat \ {0}
    BY <1>2, EmptySeq
  <2>2. Len(p) \in 1..(Len(u) - 1) /\ Len(p) + 1 = Len(u)
    BY <1>1, <1>2, <2>1
  <2>3. u[Len(p)].new_text = u[Len(p) + 1].old_text
    BY <2>2 DEF LineThrough
  <2>4. QED
    BY <1>2, <1>4, <2>2, <2>3 DEF Top
<1>6. \A i \in 1..(Len(p) - 1) : p[i].new_text = p[i + 1].old_text
  <2> SUFFICES ASSUME NEW i \in 1..(Len(p) - 1) PROVE p[i].new_text = p[i + 1].old_text
    OBVIOUS
  <2>1. i \in 1..(Len(u) - 1) /\ i + 1 \in 1..(Len(u) - 1)
    BY <1>1, <1>2
  <2>2. u[i].new_text = u[i + 1].old_text
    BY <2>1 DEF LineThrough
  <2>3. QED
    BY <1>2, <2>1, <2>2
<1>7. \A i \in 1..(Len(a) - 1) : a[i].old_text = a[i + 1].new_text
  <2> SUFFICES ASSUME NEW i \in 1..Len(r) PROVE a[i].old_text = a[i + 1].new_text
    BY <1>1, <1>3
  <2>1. CASE i = Len(r)
    <3>1. r # <<>>
      BY <1>1, <2>1, EmptySeq
    <3>2. r[Len(r)].old_text = d
      BY <3>1 DEF LineThrough, Top
    <3>3. QED
      BY <1>3, <1>4, <2>1, <3>2
  <2>2. CASE i # Len(r)
    <3>1. i \in 1..(Len(r) - 1) /\ i + 1 \in 1..Len(r)
      BY <1>1, <2>2
    <3>2. r[i].old_text = r[i + 1].new_text
      BY <3>1 DEF LineThrough
    <3>3. QED
      BY <1>3, <3>1, <3>2
  <2>3. QED
    BY <2>1, <2>2
<1>8. Top(a).old_text = Top(u).old_text
  BY <1>3 DEF Top
<1>9. LineThrough(p, a, Top(u).old_text)
  BY <1>5, <1>6, <1>7, <1>8 DEF LineThrough
<1>10. Len(p) + Len(a) = Len(u) + Len(r)
  BY <1>1, <1>2, <1>3
<1>11. QED
  BY <1>2, <1>3, <1>9, <1>10 DEF p, a

\* Redo moves forward along it.
LEMMA RedoLine ==
  ASSUME NEW u \in Seq(Command), NEW r \in Seq(Command), NEW d \in Text,
         LineThrough(u, r, d), r # <<>>
  PROVE  /\ Pop(r) \in Seq(Command) /\ Append(u, Top(r)) \in Seq(Command)
         /\ LineThrough(Append(u, Top(r)), Pop(r), Top(r).new_text)
         /\ Len(Pop(r)) + Len(Append(u, Top(r))) = Len(u) + Len(r)
         /\ Top(r) \in Command
<1> DEFINE p == Pop(r)
           a == Append(u, Top(r))
<1>1. Len(r) \in Nat \ {0} /\ Len(u) \in Nat
  BY EmptySeq, LenProperties
<1>2. /\ p \in Seq(Command) /\ Len(p) = Len(r) - 1
      /\ \A i \in 1..(Len(r) - 1) : p[i] = r[i]
      /\ Top(r) \in Command
  BY PopFront
<1>3. /\ a \in Seq(Command) /\ a # <<>> /\ Len(a) = Len(u) + 1
      /\ a[Len(u) + 1] = Top(r)
      /\ \A i \in 1..Len(u) : a[i] = u[i]
  BY <1>2, AppendLast
<1>4. Top(r) = r[Len(r)] /\ Top(r).old_text = d
  BY DEF LineThrough, Top
<1> HIDE DEF p, a
<1>5. p # <<>> => Top(p).old_text = Top(r).new_text
  <2> SUFFICES ASSUME p # <<>> PROVE Top(p).old_text = Top(r).new_text
    OBVIOUS
  <2>1. Len(p) \in Nat \ {0}
    BY <1>2, EmptySeq
  <2>2. Len(p) \in 1..(Len(r) - 1) /\ Len(p) + 1 = Len(r)
    BY <1>1, <1>2, <2>1
  <2>3. r[Len(p)].old_text = r[Len(p) + 1].new_text
    BY <2>2 DEF LineThrough
  <2>4. QED
    BY <1>2, <1>4, <2>2, <2>3 DEF Top
<1>6. \A i \in 1..(Len(p) - 1) : p[i].old_text = p[i + 1].new_text
  <2> SUFFICES ASSUME NEW i \in 1..(Len(p) - 1) PROVE p[i].old_text = p[i + 1].new_text
    OBVIOUS
  <2>1. i \in 1..(Len(r) - 1) /\ i + 1 \in 1..(Len(r) - 1)
    BY <1>1, <1>2
  <2>2. r[i].old_text = r[i + 1].new_text
    BY <2>1 DEF LineThrough
  <2>3. QED
    BY <1>2, <2>1, <2>2
<1>7. \A i \in 1..(Len(a) - 1) : a[i].new_text = a[i + 1].old_text
  <2> SUFFICES ASSUME NEW i \in 1..Len(u) PROVE a[i].new_text = a[i + 1].old_text
    BY <1>1, <1>3
  <2>1. CASE i = Len(u)
    <3>1. u # <<>>
      BY <1>1, <2>1, EmptySeq
    <3>2. u[Len(u)].new_text = d
      BY <3>1 DEF LineThrough, Top
    <3>3. QED
      BY <1>3, <1>4, <2>1, <3>2
  <2>2. CASE i # Len(u)
    <3>1. i \in 1..(Len(u) - 1) /\ i + 1 \in 1..Len(u)
      BY <1>1, <2>2
    <3>2. u[i].new_text = u[i + 1].old_text
      BY <3>1 DEF LineThrough
    <3>3. QED
      BY <1>3, <3>1, <3>2
  <2>3. QED
    BY <2>1, <2>2
<1>8. Top(a).new_text = Top(r).new_text
  BY <1>3 DEF Top
<1>9. LineThrough(a, p, Top(r).new_text)
  BY <1>5, <1>6, <1>7, <1>8 DEF LineThrough
<1>10. Len(p) + Len(a) = Len(u) + Len(r)
  BY <1>1, <1>2, <1>3
<1>11. QED
  BY <1>2, <1>3, <1>9, <1>10 DEF p, a

------------------------------------------------------------------------------
(* Types *)

\* The emissions of set_text end with the text it was given.
LEMMA EmissionsEnd ==
  ASSUME NEW old \in Text, NEW new \in Text
  PROVE  /\ Emissions(old, new) \in Seq(Text)
         /\ Emissions(old, new) = <<>> => old = new
         /\ Emissions(old, new) # <<>> =>
              Emissions(old, new)[Len(Emissions(old, new))] = new
<1>1. Empty \in Text
  BY TextAssumption
<1>2. CASE old = Empty /\ new = Empty
  <2>1. Emissions(old, new) = <<>>
    BY <1>2 DEF Emissions
  <2>2. QED
    BY <1>2, <2>1
<1>3. CASE old = Empty /\ new # Empty
  <2>1. Emissions(old, new) = <<new>>
    BY <1>3 DEF Emissions
  <2>2. QED
    BY <2>1
<1>4. CASE old # Empty /\ new = Empty
  <2>1. Emissions(old, new) = <<Empty>>
    BY <1>1, <1>4 DEF Emissions
  <2>2. QED
    BY <1>1, <1>4, <2>1
<1>5. CASE old # Empty /\ new # Empty
  <2> DEFINE e == <<Empty>> \o <<new>>
  <2>1. Emissions(old, new) = e
    BY <1>5 DEF Emissions
  <2>2. /\ <<Empty>> \in Seq(Text) /\ <<new>> \in Seq(Text)
        /\ Len(<<Empty>>) = 1 /\ Len(<<new>>) = 1 /\ <<new>>[1] = new
    BY <1>1
  <2>3. e \in Seq(Text) /\ Len(e) = 2 /\ e[2] = new
    BY <2>2, ConcatProperties
  <2>4. QED
    BY <2>1, <2>3, EmptySeq
<1>6. QED
  BY <1>2, <1>3, <1>4, <1>5

\* Removing an element leaves a sequence over the same set.
LEMMA WithoutType ==
  ASSUME NEW S, NEW s \in Seq(S), NEW i \in DOMAIN s
  PROVE  Without(s, i) \in Seq(S)
<1>1. Len(s) \in Nat /\ i \in 1..Len(s) /\ \A j \in 1..Len(s) : s[j] \in S
  BY LenProperties
<1>2. SubSeq(s, 1, i - 1) \in Seq(S)
  <2>1. i - 1 \in Int /\ \A j \in 1..(i - 1) : s[j] \in S
    BY <1>1
  <2>2. QED
    BY <2>1, SubSeqProperties
<1>3. SubSeq(s, i + 1, Len(s)) \in Seq(S)
  <2>1. i + 1 \in Int /\ Len(s) \in Int /\ \A j \in (i + 1)..Len(s) : s[j] \in S
    BY <1>1
  <2>2. QED
    BY <2>1, SubSeqProperties
<1>4. QED
  BY <1>2, <1>3, ConcatProperties DEF Without

\* The texts a command carries are texts.
LEMMA CommandTexts ==
  ASSUME NEW buf \in Seq(Command), buf # <<>>
  PROVE  Top(buf).old_text \in Text /\ Top(buf).new_text \in Text
<1>1. Top(buf) \in Command
  BY PopFront
<1>2. QED
  BY <1>1 DEF Command

\* Push, Undo and Redo keep sequences of commands.
LEMMA StackTypes ==
  ASSUME undo_buf \in Seq(Command), redo_buf \in Seq(Command)
  PROVE  /\ \A cmd \in Command : Push(cmd) =>
              undo_buf' \in Seq(Command) /\ redo_buf' \in Seq(Command) /\ stack_dirty' = TRUE
         /\ Undo => undo_buf' \in Seq(Command) /\ redo_buf' \in Seq(Command) /\ stack_dirty' = TRUE
         /\ Redo => undo_buf' \in Seq(Command) /\ redo_buf' \in Seq(Command) /\ stack_dirty' = TRUE
<1>1. ASSUME NEW cmd \in Command, Push(cmd)
      PROVE  undo_buf' \in Seq(Command) /\ redo_buf' \in Seq(Command) /\ stack_dirty' = TRUE
  <2>1. Cap # 0 => Append(MakeRoom(undo_buf), cmd) \in Seq(Command)
    BY MakeRoomTail, AppendLast
  <2>2. QED
    BY <1>1, <2>1 DEF Push
<1>2. ASSUME Undo
      PROVE  undo_buf' \in Seq(Command) /\ redo_buf' \in Seq(Command) /\ stack_dirty' = TRUE
  BY <1>2, PopFront, AppendLast DEF Undo
<1>3. ASSUME Redo
      PROVE  undo_buf' \in Seq(Command) /\ redo_buf' \in Seq(Command) /\ stack_dirty' = TRUE
  BY <1>3, PopFront, AppendLast DEF Redo
<1>4. QED
  BY <1>1, <1>2, <1>3

\* TypeOK holds initially.
LEMMA TypeInit == Init => TypeOK
<1> SUFFICES ASSUME NEW text \in Text, TabInit(text)
             PROVE  TypeOK
  BY DEF Init
<1> USE DEF TabInit, StackInit
<1>1. Structured \in Views
  BY DEF Structured, Views
<1>2. QED
  BY <1>1, EmptySeq DEF TypeOK

\* TypeOK is inductive.
LEMMA TypeNext == TypeOK /\ [Next]_tabVars => TypeOK'
<1> SUFFICES ASSUME TypeOK, [Next]_tabVars
             PROVE  TypeOK'
  OBVIOUS
<1> USE DEF TypeOK, docVars, viewVars, validationVars, callVars, stackVars
<1>1. ASSUME NEW text \in Text, TypeText(text)
      PROVE  TypeOK'
  BY <1>1 DEF TypeText
<1>2. ASSUME NEW text \in Text, WidgetEdit(text)
      PROVE  TypeOK'
  BY <1>2, EmissionsEnd DEF WidgetEdit, SetText
<1>3. ASSUME NEW text \in Text, Reload(text)
      PROVE  TypeOK'
  BY <1>3, EmissionsEnd DEF Reload, SetText
<1>4. ASSUME UndoClicked
      PROVE  TypeOK'
  <2>1. Top(undo_buf).old_text \in Text
    BY <1>4, CommandTexts DEF UndoClicked, Undo
  <2>2. undo_buf' \in Seq(Command) /\ redo_buf' \in Seq(Command) /\ stack_dirty' = TRUE
    BY <1>4, StackTypes DEF UndoClicked
  <2>3. QED
    BY <1>4, <2>1, <2>2, EmissionsEnd DEF UndoClicked, SetText
<1>5. ASSUME RedoClicked
      PROVE  TypeOK'
  <2>1. Top(redo_buf).new_text \in Text
    BY <1>5, CommandTexts DEF RedoClicked, Redo
  <2>2. undo_buf' \in Seq(Command) /\ redo_buf' \in Seq(Command) /\ stack_dirty' = TRUE
    BY <1>5, StackTypes DEF RedoClicked
  <2>3. QED
    BY <1>5, <2>1, <2>2, EmissionsEnd DEF RedoClicked, SetText
<1>6. ASSUME Changed
      PROVE  TypeOK'
  <2> DEFINE text == Head(pending)
  <2>1. text \in Text /\ Tail(pending) \in Seq(Text)
    BY <1>6, HeadTailProperties DEF Changed
  <2>2. undo_buf' \in Seq(Command) /\ redo_buf' \in Seq(Command) /\ stack_dirty' \in BOOLEAN
    <3>1. [old_text |-> previous_text, new_text |-> text] \in Command
      BY <2>1 DEF Command
    <3>2. Record(text)
      BY <1>6 DEF Changed
    <3>3. QED
      BY <3>1, <3>2, StackTypes DEF Record
  <2>3. /\ view' \in Views /\ error_text' \in Text \cup {NoText}
        /\ banner_revealed' \in BOOLEAN
    BY <1>6, <2>1 DEF Changed, LeaveFallback, EnterFallback, KeepView, Structured, Views
  <2>4. QED
    BY <1>6, <2>1, <2>2, <2>3 DEF Changed
<1>7. ASSUME ChangedAborts
      PROVE  TypeOK'
  BY <1>7 DEF ChangedAborts
<1>8. ASSUME SetTextReturns
      PROVE  TypeOK'
  BY <1>8 DEF SetTextReturns, ReloadSettles
<1>9. ASSUME DebounceFires
      PROVE  TypeOK'
  <2>1. Append(in_flight, timer_text) \in Seq(Text)
    BY <1>9, AppendLast DEF DebounceFires
  <2>2. QED
    BY <1>9, <2>1 DEF DebounceFires, Spawned
<1>10. ASSUME NEW i \in DOMAIN in_flight, NEW complaints \in BOOLEAN,
              ValidationDone(i, complaints)
       PROVE  TypeOK'
  <2>1. in_flight[i] \in Text /\ Without(in_flight, i) \in Seq(Text)
    BY WithoutType, ElementOfSeq, LenProperties
  <2>2. QED
    BY <1>10, <2>1 DEF ValidationDone
<1>11. ASSUME RestoreClicked
       PROVE  TypeOK'
  BY <1>11 DEF RestoreClicked, Structured, Views
<1>12. ASSUME CompareOn
       PROVE  TypeOK'
  BY <1>12 DEF CompareOn, Views
<1>13. ASSUME CompareOff
       PROVE  TypeOK'
  BY <1>13 DEF CompareOff
<1>14. ASSUME ProcessEnds
       PROVE  TypeOK'
  BY <1>14 DEF ProcessEnds
<1>15. ASSUME UNCHANGED tabVars
       PROVE  TypeOK'
  BY <1>15 DEF tabVars
<1>16. QED
  BY <1>1, <1>2, <1>3, <1>4, <1>5, <1>6, <1>7, <1>8, <1>9, <1>10, <1>11, <1>12,
     <1>13, <1>14, <1>15 DEF Next, Rewrite, Validate

\* Every state of the tab is well-typed.
THEOREM TabTyped == Spec => []TypeOK
<1>1. Init => TypeOK
  BY TypeInit
<1>2. TypeOK /\ [Next]_tabVars => TypeOK'
  BY TypeNext
<1>3. QED
  BY <1>1, <1>2, PTL DEF Spec

------------------------------------------------------------------------------
(* The inductive invariant *)

\* What holds while a handler is rewriting the buffer: previous_text has caught
\* up, only Undo and Redo suppress the recording, and the emissions still to
\* come end with the text the handler is writing.
CallInv ==
  /\ previous_text = buffer
  /\ suppressing_undo <=> call \in {"undo", "redo"}
  /\ call = "none" => pending = <<>>
  /\ call # "none" =>
       IF pending = <<>> THEN buffer = target ELSE pending[Len(pending)] = target

\* Until the first timer fires nothing has been validated, and from then on the
\* snapshot is the buffer.
ValidationInv ==
  /\ debounce_source # "fired" => in_flight = <<>> /\ last_validation = <<>>
  /\ debounce_source # "none" => timer_text = buffer
  /\ in_flight \in Seq({buffer})
  /\ last_validation # <<>> => last_validation[1] = buffer

IInv ==
  /\ TypeOK
  /\ CallInv
  /\ UndoChain
  /\ HistoryBounded
  /\ DirtyExact
  /\ FallbackHoldsInvalid
  /\ ValidationInv

\* It holds initially.
LEMMA InvInit == Init => IInv
<1> SUFFICES ASSUME NEW text \in Text, TabInit(text), Init
             PROVE  IInv
  BY DEF Init
<1>1. TypeOK
  BY TypeInit
<1>2. UndoChain /\ HistoryBounded
  <2>1. undo_buf = <<>> /\ redo_buf = <<>> /\ Len(<<>>) = 0
    BY DEF TabInit, StackInit
  <2>2. QED
    BY <2>1, CapAssumption DEF UndoChain, HistoryBounded, LineThrough
<1>3. CallInv
  BY DEF TabInit, CallInv
<1>4. DirtyExact
  BY DEF TabInit, DirtyExact
<1>5. FallbackHoldsInvalid
  BY DEF TabInit, FallbackHoldsInvalid, Structured
<1>6. ValidationInv
  BY EmptySeq DEF TabInit, ValidationInv
<1>7. QED
  BY <1>1, <1>2, <1>3, <1>4, <1>5, <1>6 DEF IInv

\* Starting to rewrite the buffer sets up the emissions; the text the user is
\* to see does not change unless Undo or Redo does it.
LEMMA RewriteStarts ==
  ASSUME IInv, NEW text \in Text, NEW by \in {"edit", "reload", "undo", "redo"},
         Idle, SetText(text, by), UNCHANGED <<buffer, previous_text>>,
         suppressing_undo' <=> by \in {"undo", "redo"}
  PROVE  CallInv' /\ CurrentDoc = buffer /\ CurrentDoc' = IF by \in {"undo", "redo"} THEN text ELSE buffer
<1>1. buffer \in Text
  BY DEF IInv, TypeOK
<1>2. pending' = Emissions(buffer, text) /\ target' = text /\ call' = by
  BY DEF SetText
<1>3. CallInv'
  BY <1>1, <1>2, EmissionsEnd DEF IInv, CallInv
<1>4. QED
  BY <1>2, <1>3 DEF CurrentDoc, Idle

\* A changed emission records the edit, if it is one, on the line.
LEMMA ChangedRecords ==
  ASSUME IInv, Changed
  PROVE  UndoChain' /\ HistoryBounded'
<1> DEFINE text == Head(pending)
<1>1. text \in Text /\ previous_text \in Text /\ buffer = previous_text
  BY HeadTailProperties DEF Changed, IInv, TypeOK, CallInv
<1>2. buffer' = text /\ call' = call /\ target' = target
  BY DEF Changed
<1>3. undo_buf \in Seq(Command) /\ redo_buf \in Seq(Command)
  BY DEF IInv, TypeOK
<1>4. CASE suppressing_undo
  <2>1. UNCHANGED <<undo_buf, redo_buf>>
    BY <1>4 DEF Changed, Record, stackVars
  <2>2. CurrentDoc' = CurrentDoc
    BY <1>2, <1>4 DEF CurrentDoc, IInv, CallInv
  <2>3. QED
    BY <2>1, <2>2 DEF IInv, UndoChain, HistoryBounded
<1>5. CASE ~suppressing_undo /\ previous_text = text
  <2>1. UNCHANGED <<undo_buf, redo_buf>>
    BY <1>5 DEF Changed, Record, stackVars
  <2>2. CurrentDoc' = CurrentDoc
    BY <1>1, <1>2, <1>5 DEF CurrentDoc, IInv, CallInv
  <2>3. QED
    BY <2>1, <2>2 DEF IInv, UndoChain, HistoryBounded
<1>6. CASE ~suppressing_undo /\ previous_text # text
  <2> DEFINE cmd == [old_text |-> previous_text, new_text |-> text]
  <2>1. CurrentDoc = previous_text /\ CurrentDoc' = text
    BY <1>1, <1>2, <1>6 DEF CurrentDoc, IInv, CallInv
  <2>2. LineThrough(undo_buf, redo_buf, previous_text)
    BY <2>1 DEF IInv, UndoChain
  <2>3. Len(undo_buf) <= Cap
    <3>1. Len(undo_buf) \in Nat /\ Len(redo_buf) \in Nat
      BY <1>3, LenProperties
    <3>2. Len(undo_buf) + Len(redo_buf) <= Cap
      BY DEF IInv, HistoryBounded
    <3>3. QED
      BY <3>1, <3>2, CapAssumption
  <2>4. undo_buf' = Pushed(undo_buf, cmd) /\ redo_buf' = <<>>
    BY <1>6 DEF Changed, Record, Push, Pushed
  <2>5. /\ Pushed(undo_buf, cmd) \in Seq(Command)
        /\ LineThrough(Pushed(undo_buf, cmd), <<>>, text)
        /\ Len(Pushed(undo_buf, cmd)) <= Cap
    BY <1>1, <1>3, <2>2, <2>3, PushLine
  <2>6. UndoChain'
    BY <2>1, <2>4, <2>5 DEF UndoChain
  <2>7. HistoryBounded'
    <3> HIDE DEF cmd
    <3>1. Len(undo_buf') \in Nat /\ Len(undo_buf') <= Cap /\ Len(redo_buf') = 0
      BY <2>4, <2>5, LenProperties
    <3>2. QED
      BY <3>1, CapAssumption DEF HistoryBounded
  <2>8. QED
    BY <2>6, <2>7
<1>7. QED
  BY <1>4, <1>5, <1>6

\* The rest of what a changed emission does.
LEMMA ChangedKeeps ==
  ASSUME IInv, Changed
  PROVE  CallInv' /\ DirtyExact' /\ FallbackHoldsInvalid' /\ ValidationInv'
<1> DEFINE text == Head(pending)
<1>1. /\ text \in Text /\ Tail(pending) \in Seq(Text)
      /\ Len(pending) \in Nat \ {0}
      /\ Len(Tail(pending)) = Len(pending) - 1
      /\ \A i \in 1..Len(Tail(pending)) : Tail(pending)[i] = pending[i + 1]
      /\ pending[1] = text
  BY HeadTailProperties, EmptySeq DEF Changed, IInv, TypeOK
<1>2. /\ buffer' = text /\ previous_text' = text /\ pending' = Tail(pending)
      /\ UNCHANGED <<call, target, suppressing_undo, original_text>>
      /\ pending # <<>>
  BY DEF Changed
<1>3. CallInv'
  <2>1. call # "none" /\ pending[Len(pending)] = target
    BY <1>2 DEF IInv, CallInv
  <2>2. suppressing_undo' <=> call' \in {"undo", "redo"}
    BY <1>2 DEF IInv, CallInv
  <2>3. CASE Len(pending) = 1
    <3>1. Tail(pending) = <<>>
      <4>1. Len(Tail(pending)) = 0
        BY <1>1, <2>3
      <4>2. QED
        BY <1>1, <4>1, EmptySeq
    <3>2. text = target
      BY <1>1, <2>1, <2>3
    <3>3. pending' = <<>> /\ buffer' = target' /\ call' # "none"
      BY <1>2, <2>1, <3>1, <3>2
    <3>4. QED
      BY <1>2, <2>2, <3>3 DEF CallInv
  <2>4. CASE Len(pending) # 1
    <3>1. Len(Tail(pending)) \in 1..Len(Tail(pending)) /\ Len(Tail(pending)) + 1 = Len(pending)
      BY <1>1, <2>4
    <3>2. Tail(pending)[Len(Tail(pending))] = target
      BY <1>1, <2>1, <3>1
    <3>3. Tail(pending) # <<>>
      <4>1. Len(Tail(pending)) # 0
        BY <1>1, <2>4
      <4>2. QED
        BY <4>1, EmptySeq
    <3>4. pending'[Len(pending')] = target' /\ pending' # <<>> /\ call' # "none"
      BY <1>2, <2>1, <3>2, <3>3
    <3>5. QED
      BY <1>2, <2>2, <3>4 DEF CallInv
  <2>5. QED
    BY <2>3, <2>4
<1>4. DirtyExact'
  BY DEF Changed, DirtyExact
<1>5. FallbackHoldsInvalid'
  BY <1>2 DEF Changed, LeaveFallback, EnterFallback, KeepView, Structured,
       FallbackHoldsInvalid
<1>6. ValidationInv'
  <2>1. debounce_source # "fired" /\ debounce_source' = "armed" /\ timer_text' = text
    BY DEF Changed, RemoveFails
  <2>2. in_flight' = <<>> /\ last_validation' = <<>>
    BY <2>1 DEF Changed, IInv, ValidationInv
  <2>3. QED
    BY <1>2, <2>1, <2>2, EmptySeq DEF ValidationInv
<1>7. QED
  BY <1>3, <1>4, <1>5, <1>6

Rest == CallInv /\ UndoChain /\ HistoryBounded /\ DirtyExact /\ FallbackHoldsInvalid /\ ValidationInv

\* Starting an edit or a reload.
LEMMA EditStarts ==
  ASSUME IInv, NEW text \in Text, NEW by \in {"edit", "reload"},
         Idle, SetText(text, by), UNCHANGED <<docVars, viewVars, validationVars>>
  PROVE  Rest'
<1> USE DEF docVars, stackVars, viewVars, validationVars
<1>1. suppressing_undo' <=> by \in {"undo", "redo"}
  BY DEF IInv, CallInv, Idle
<1>2. CallInv' /\ CurrentDoc' = CurrentDoc
  BY <1>1, RewriteStarts
<1>3. UndoChain' /\ HistoryBounded'
  BY <1>2 DEF IInv, UndoChain, HistoryBounded
<1>4. DirtyExact' /\ FallbackHoldsInvalid'
  BY DEF IInv, DirtyExact, FallbackHoldsInvalid
<1>5. ValidationInv'
  BY DEF IInv, ValidationInv
<1>6. QED
  BY <1>2, <1>3, <1>4, <1>5 DEF Rest

\* A click on Undo or on Redo: the stack moves along the line.
LEMMA UndoStarts ==
  ASSUME IInv, UndoClicked
  PROVE  Rest'
<1> USE DEF viewVars, validationVars
<1> DEFINE text == Top(undo_buf).old_text
<1>1. /\ undo_buf \in Seq(Command) /\ redo_buf \in Seq(Command) /\ undo_buf # <<>>
      /\ undo_buf' = Pop(undo_buf) /\ redo_buf' = Append(redo_buf, Top(undo_buf))
  BY DEF UndoClicked, Undo, IInv, TypeOK
<1>2. text \in Text /\ CurrentDoc \in Text
  <2>1. text \in Text
    BY <1>1, CommandTexts
  <2>2. CurrentDoc \in Text
    BY DEF CurrentDoc, UndoClicked, Idle, IInv, TypeOK
  <2>3. QED
    BY <2>1, <2>2
<1>3. CallInv' /\ CurrentDoc' = text
  <2>1. suppressing_undo' <=> "undo" \in {"undo", "redo"}
    BY DEF UndoClicked
  <2>2. Idle /\ SetText(text, "undo") /\ UNCHANGED <<buffer, previous_text>>
    BY DEF UndoClicked
  <2>3. QED
    BY <1>2, <2>1, <2>2, RewriteStarts
<1>4. UndoChain' /\ HistoryBounded'
  <2>1. /\ LineThrough(Pop(undo_buf), Append(redo_buf, Top(undo_buf)), text)
        /\ Len(Pop(undo_buf)) + Len(Append(redo_buf, Top(undo_buf)))
             = Len(undo_buf) + Len(redo_buf)
    BY <1>1, <1>2, UndoLine DEF IInv, UndoChain
  <2>2. QED
    BY <1>1, <1>3, <2>1 DEF IInv, UndoChain, HistoryBounded
<1>5. DirtyExact' /\ FallbackHoldsInvalid'
  BY DEF UndoClicked, IInv, DirtyExact, FallbackHoldsInvalid
<1>6. ValidationInv'
  BY DEF UndoClicked, IInv, ValidationInv
<1>7. QED
  BY <1>3, <1>4, <1>5, <1>6 DEF Rest

LEMMA RedoStarts ==
  ASSUME IInv, RedoClicked
  PROVE  Rest'
<1> USE DEF viewVars, validationVars
<1> DEFINE text == Top(redo_buf).new_text
<1>1. /\ undo_buf \in Seq(Command) /\ redo_buf \in Seq(Command) /\ redo_buf # <<>>
      /\ redo_buf' = Pop(redo_buf) /\ undo_buf' = Append(undo_buf, Top(redo_buf))
  BY DEF RedoClicked, Redo, IInv, TypeOK
<1>2. text \in Text /\ CurrentDoc \in Text
  <2>1. text \in Text
    BY <1>1, CommandTexts
  <2>2. CurrentDoc \in Text
    BY DEF CurrentDoc, RedoClicked, Idle, IInv, TypeOK
  <2>3. QED
    BY <2>1, <2>2
<1>3. CallInv' /\ CurrentDoc' = text
  <2>1. suppressing_undo' <=> "redo" \in {"undo", "redo"}
    BY DEF RedoClicked
  <2>2. Idle /\ SetText(text, "redo") /\ UNCHANGED <<buffer, previous_text>>
    BY DEF RedoClicked
  <2>3. QED
    BY <1>2, <2>1, <2>2, RewriteStarts
<1>4. UndoChain' /\ HistoryBounded'
  <2>1. /\ LineThrough(Append(undo_buf, Top(redo_buf)), Pop(redo_buf), text)
        /\ Len(Pop(redo_buf)) + Len(Append(undo_buf, Top(redo_buf)))
             = Len(undo_buf) + Len(redo_buf)
    BY <1>1, <1>2, RedoLine DEF IInv, UndoChain
  <2>2. Len(Pop(redo_buf)) \in Nat /\ Len(Append(undo_buf, Top(redo_buf))) \in Nat
    BY <1>1, RedoLine, <1>2, LenProperties DEF IInv, UndoChain
  <2>3. QED
    BY <1>1, <1>3, <2>1, <2>2 DEF IInv, UndoChain, HistoryBounded
<1>5. DirtyExact' /\ FallbackHoldsInvalid'
  BY DEF RedoClicked, IInv, DirtyExact, FallbackHoldsInvalid
<1>6. ValidationInv'
  BY DEF RedoClicked, IInv, ValidationInv
<1>7. QED
  BY <1>3, <1>4, <1>5, <1>6 DEF Rest

\* A step that leaves the document and the handler alone keeps what is about them.
LEMMA DocumentKept ==
  ASSUME IInv, UNCHANGED <<docVars, callVars>>
  PROVE  CallInv' /\ UndoChain' /\ HistoryBounded' /\ DirtyExact'
<1> USE DEF IInv, docVars, stackVars, callVars
<1>1. CallInv'
  BY DEF CallInv
<1>2. UndoChain'
  BY DEF UndoChain, CurrentDoc
<1>3. HistoryBounded' /\ DirtyExact'
  BY DEF HistoryBounded, DirtyExact
<1>4. QED
  BY <1>1, <1>2, <1>3

\* Every step keeps the inductive invariant.
LEMMA InvNext == IInv /\ [Next]_tabVars => IInv'
<1> SUFFICES ASSUME IInv, [Next]_tabVars
             PROVE  IInv'
  OBVIOUS
<1>1. TypeOK'
  BY TypeNext DEF IInv
<1> USE DEF docVars, viewVars, validationVars, callVars
<1>2. ASSUME NEW text \in Text, TypeText(text)
      PROVE  Rest'
  <2>1. CallInv'
    BY <1>2 DEF TypeText, IInv, CallInv, Idle
  <2>2. CurrentDoc' = CurrentDoc
    BY <1>2 DEF TypeText, CurrentDoc, Idle
  <2>3. UndoChain' /\ HistoryBounded'
    BY <1>2, <2>2 DEF TypeText, IInv, UndoChain, HistoryBounded, stackVars
  <2>4. DirtyExact' /\ FallbackHoldsInvalid'
    BY <1>2 DEF TypeText, IInv, DirtyExact, FallbackHoldsInvalid
  <2>5. ValidationInv'
    BY <1>2 DEF TypeText, IInv, ValidationInv
  <2>6. QED
    BY <2>1, <2>3, <2>4, <2>5 DEF Rest
<1>3. ASSUME NEW text \in Text, WidgetEdit(text)
      PROVE  Rest'
  BY <1>3, EditStarts DEF WidgetEdit
<1>4. ASSUME NEW text \in Text, Reload(text)
      PROVE  Rest'
  BY <1>4, EditStarts DEF Reload
<1>5. ASSUME Changed
      PROVE  Rest'
  BY <1>5, ChangedRecords, ChangedKeeps DEF Rest
<1>6. ASSUME SetTextReturns
      PROVE  Rest'
  <2>1. /\ call' = "none" /\ call # "none" /\ pending = <<>> /\ pending' = <<>>
        /\ UNCHANGED <<buffer, previous_text, undo_buf, redo_buf>>
        /\ suppressing_undo' = FALSE
        /\ buffer = target
    BY <1>6 DEF SetTextReturns, stackVars, IInv, CallInv
  <2>2. CallInv'
    BY <2>1 DEF IInv, CallInv
  <2>3. CurrentDoc' = CurrentDoc
    BY <2>1 DEF CurrentDoc
  <2>4. UndoChain' /\ HistoryBounded'
    BY <2>1, <2>3 DEF IInv, UndoChain, HistoryBounded
  <2>5. DirtyExact'
    BY <1>6, <2>1 DEF SetTextReturns, ReloadSettles, IInv, DirtyExact
  <2>6. FallbackHoldsInvalid' /\ ValidationInv'
    BY <1>6 DEF SetTextReturns, IInv, FallbackHoldsInvalid, ValidationInv
  <2>7. QED
    BY <2>2, <2>4, <2>5, <2>6 DEF Rest
<1>7. ASSUME DebounceFires
      PROVE  Rest'
  <2>1. ValidationInv'
    <3>1. in_flight' = Append(<<>>, timer_text) /\ timer_text = buffer
      BY <1>7 DEF DebounceFires, Spawned, IInv, ValidationInv
    <3>2. in_flight' \in Seq({buffer})
      BY <3>1, EmptySeq, AppendLast
    <3>3. QED
      BY <1>7, <3>1, <3>2 DEF DebounceFires, IInv, ValidationInv
  <2>2. FallbackHoldsInvalid'
    BY <1>7 DEF DebounceFires, IInv, FallbackHoldsInvalid
  <2>3. QED
    BY <1>7, <2>1, <2>2, DocumentKept DEF DebounceFires, Rest
<1>8. ASSUME NEW i \in DOMAIN in_flight, NEW complaints \in BOOLEAN,
             ValidationDone(i, complaints)
      PROVE  Rest'
  <2>1. in_flight \in Seq({buffer}) /\ in_flight # <<>>
    BY EmptySeq, LenProperties DEF IInv, ValidationInv
  <2>2. in_flight[i] = buffer /\ Without(in_flight, i) \in Seq({buffer})
    BY <2>1, WithoutType, ElementOfSeq, LenProperties
  <2>3. debounce_source = "fired"
    BY <2>1 DEF IInv, ValidationInv
  <2>4. ValidationInv'
    BY <1>8, <2>2, <2>3 DEF ValidationDone, IInv, ValidationInv
  <2>5. FallbackHoldsInvalid'
    BY <1>8 DEF ValidationDone, IInv, FallbackHoldsInvalid
  <2>6. QED
    BY <1>8, <2>4, <2>5, DocumentKept DEF ValidationDone, Rest
<1>9. ASSUME UNCHANGED <<docVars, callVars, validationVars>>, FallbackHoldsInvalid'
      PROVE  Rest'
  <2>1. ValidationInv'
    BY <1>9 DEF IInv, ValidationInv
  <2>2. QED
    BY <1>9, <2>1, DocumentKept DEF Rest
<1>10. ASSUME RestoreClicked
       PROVE  Rest'
  <2>1. FallbackHoldsInvalid'
    BY <1>10 DEF RestoreClicked, Structured, IInv, FallbackHoldsInvalid
  <2>2. QED
    BY <1>9, <1>10, <2>1 DEF RestoreClicked
<1>11. ASSUME CompareOn
       PROVE  Rest'
  <2>1. FallbackHoldsInvalid'
    BY <1>11 DEF CompareOn, IInv, FallbackHoldsInvalid
  <2>2. QED
    BY <1>9, <1>11, <2>1 DEF CompareOn
<1>12. ASSUME CompareOff
       PROVE  Rest'
  <2>1. FallbackHoldsInvalid'
    BY <1>12 DEF CompareOff, IInv, FallbackHoldsInvalid
  <2>2. QED
    BY <1>9, <1>12, <2>1 DEF CompareOff
<1>13. ASSUME ChangedAborts \/ ProcessEnds \/ UNCHANGED tabVars
       PROVE  Rest'
  <2>1. UNCHANGED <<docVars, viewVars, validationVars, callVars>>
    BY <1>13 DEF ChangedAborts, ProcessEnds, tabVars
  <2>2. FallbackHoldsInvalid'
    BY <2>1 DEF IInv, FallbackHoldsInvalid
  <2>3. QED
    BY <1>9, <2>1, <2>2
<1>14. Rest'
  BY <1>2, <1>3, <1>4, <1>5, <1>6, <1>7, <1>8, <1>10, <1>11, <1>12, <1>13,
     UndoStarts, RedoStarts DEF Next, Rewrite, Validate
<1>15. QED
  BY <1>1, <1>14 DEF IInv, Rest

LEMMA Invariance == Spec => []IInv
<1>1. QED
  BY InvInit, InvNext, PTL DEF Spec

------------------------------------------------------------------------------
(* The safety properties *)

\* The recorded commands always form one line through the current text: Undo
\* and Redo never restore a text that the edit next to it did not start from
\* or end at.
THEOREM UndoStaysOnLine == Spec => []UndoChain
<1>1. IInv => UndoChain
  BY DEF IInv
<1>2. QED
  BY <1>1, Invariance, PTL

\* redo() cannot take the history past the cap.
THEOREM HistoryIsBounded == Spec => []HistoryBounded
<1>1. IInv => HistoryBounded
  BY DEF IInv
<1>2. QED
  BY <1>1, Invariance, PTL

\* The dirty property, and with it the Save button, is exact.
THEOREM DirtyIsExact == Spec => []DirtyExact
<1>1. IInv => DirtyExact
  BY DEF IInv
<1>2. QED
  BY <1>1, Invariance, PTL

\* The fallback view never holds a text that parses.
THEOREM FallbackIsForInvalid == Spec => []FallbackHoldsInvalid
<1>1. IInv => FallbackHoldsInvalid
  BY DEF IInv
<1>2. QED
  BY <1>1, Invariance, PTL

\* A running validation and the last verdict are about the text in the buffer.
THEOREM VerdictsAreCurrent == Spec => []VerdictAboutBuffer
<1>1. IInv => VerdictAboutBuffer
  <2> SUFFICES ASSUME IInv PROVE VerdictAboutBuffer
    OBVIOUS
  <2>1. \A i \in DOMAIN in_flight : in_flight[i] = buffer
    BY ElementOfSeq, LenProperties DEF IInv, ValidationInv
  <2>2. QED
    BY <2>1 DEF IInv, ValidationInv, VerdictAboutBuffer
<1>2. QED
  BY <1>1, Invariance, PTL

------------------------------------------------------------------------------
(* The tab implements DocHistory *)

\* The texts carried by a sequence of commands form a sequence of that length.
LEMMA TextsOf ==
  ASSUME NEW s \in Seq(Command)
  PROVE  /\ OldTexts(s) \in Seq(Text) /\ NewTexts(s) \in Seq(Text)
         /\ Len(OldTexts(s)) = Len(s) /\ Len(NewTexts(s)) = Len(s)
         /\ \A i \in 1..Len(s) : OldTexts(s)[i] = s[i].old_text /\ NewTexts(s)[i] = s[i].new_text
<1> DEFINE n == Len(s)
<1>1. n \in Nat /\ DOMAIN s = 1..n /\ \A i \in 1..n : s[i].old_text \in Text /\ s[i].new_text \in Text
  <2>1. n \in Nat /\ DOMAIN s = 1..n
    BY LenProperties
  <2>2. ASSUME NEW i \in 1..n PROVE s[i] \in Command
    BY <2>2, ElementOfSeq
  <2>3. QED
    BY <2>1, <2>2 DEF Command
<1> HIDE DEF n
<1>2. OldTexts(s) = [i \in 1..n |-> s[i].old_text] /\ NewTexts(s) = [i \in 1..n |-> s[i].new_text]
  BY <1>1 DEF OldTexts, NewTexts
<1>3. OldTexts(s) \in Seq(Text) /\ NewTexts(s) \in Seq(Text)
  BY <1>1, <1>2
<1>4. QED
  BY <1>1, <1>2, <1>3 DEF n

\* Popping a command forgets the newest text.
LEMMA TextsOfPop ==
  ASSUME NEW s \in Seq(Command), s # <<>>
  PROVE  /\ OldTexts(Pop(s)) = History!Older(OldTexts(s))
         /\ NewTexts(Pop(s)) = History!Older(NewTexts(s))
         /\ Top(s).old_text = History!Newest(OldTexts(s))
         /\ Top(s).new_text = History!Newest(NewTexts(s))
         /\ OldTexts(s) # <<>> /\ NewTexts(s) # <<>>
<1>1. Len(s) \in Nat \ {0}
  BY EmptySeq, LenProperties
<1>2. Pop(s) \in Seq(Command) /\ Len(Pop(s)) = Len(s) - 1 /\ \A i \in 1..(Len(s) - 1) : Pop(s)[i] = s[i]
  BY PopFront
<1>3. /\ OldTexts(s) \in Seq(Text) /\ NewTexts(s) \in Seq(Text)
      /\ Len(OldTexts(s)) = Len(s) /\ Len(NewTexts(s)) = Len(s)
      /\ \A i \in 1..Len(s) : OldTexts(s)[i] = s[i].old_text /\ NewTexts(s)[i] = s[i].new_text
  BY TextsOf
<1>4. /\ OldTexts(Pop(s)) \in Seq(Text) /\ NewTexts(Pop(s)) \in Seq(Text)
      /\ Len(OldTexts(Pop(s))) = Len(s) - 1 /\ Len(NewTexts(Pop(s))) = Len(s) - 1
      /\ \A i \in 1..(Len(s) - 1) : OldTexts(Pop(s))[i] = s[i].old_text
                                 /\ NewTexts(Pop(s))[i] = s[i].new_text
  <2> DEFINE p == Pop(s)
  <2> HIDE DEF p
  <2>1. p \in Seq(Command) /\ Len(p) = Len(s) - 1 /\ \A i \in 1..(Len(s) - 1) : p[i] = s[i]
    BY <1>2 DEF p
  <2>2. /\ OldTexts(p) \in Seq(Text) /\ NewTexts(p) \in Seq(Text)
        /\ Len(OldTexts(p)) = Len(p) /\ Len(NewTexts(p)) = Len(p)
        /\ \A i \in 1..Len(p) : OldTexts(p)[i] = p[i].old_text /\ NewTexts(p)[i] = p[i].new_text
    BY <2>1, TextsOf
  <2>3. /\ OldTexts(p) \in Seq(Text) /\ NewTexts(p) \in Seq(Text)
        /\ Len(OldTexts(p)) = Len(s) - 1 /\ Len(NewTexts(p)) = Len(s) - 1
    BY <2>1, <2>2
  <2>4. ASSUME NEW i \in 1..(Len(s) - 1)
        PROVE  OldTexts(p)[i] = s[i].old_text /\ NewTexts(p)[i] = s[i].new_text
    <3>1. i \in 1..Len(p) /\ p[i] = s[i]
      BY <2>1
    <3>2. QED
      BY <2>2, <3>1
  <2>5. QED
    BY <2>3, <2>4 DEF p
<1>5. ASSUME NEW t \in Seq(Text), Len(t) = Len(s)
      PROVE  /\ History!Older(t) \in Seq(Text) /\ Len(History!Older(t)) = Len(s) - 1
             /\ \A i \in 1..(Len(s) - 1) : History!Older(t)[i] = t[i]
  <2>1. Pop(t) = History!Older(t)
    BY DEF Pop, History!Older
  <2>2. t # <<>>
    BY <1>1, <1>5, EmptySeq
  <2>3. QED
    BY <1>5, <2>1, <2>2, PopFront
<1>6. OldTexts(Pop(s)) = History!Older(OldTexts(s))
  <2>1. \A i \in 1..(Len(s) - 1) : OldTexts(Pop(s))[i] = History!Older(OldTexts(s))[i]
    BY <1>1, <1>3, <1>4, <1>5
  <2>2. QED
    BY <1>3, <1>4, <1>5, <2>1, SeqEqual
<1>7. NewTexts(Pop(s)) = History!Older(NewTexts(s))
  <2>1. \A i \in 1..(Len(s) - 1) : NewTexts(Pop(s))[i] = History!Older(NewTexts(s))[i]
    BY <1>1, <1>3, <1>4, <1>5
  <2>2. QED
    BY <1>3, <1>4, <1>5, <2>1, SeqEqual
<1>8. OldTexts(s) # <<>> /\ NewTexts(s) # <<>>
  BY <1>1, <1>3, EmptySeq
<1>9. QED
  BY <1>1, <1>3, <1>6, <1>7, <1>8 DEF Top, History!Newest

\* Appending a command appends its texts.
LEMMA TextsOfAppend ==
  ASSUME NEW s \in Seq(Command), NEW c \in Command
  PROVE  /\ OldTexts(Append(s, c)) = Append(OldTexts(s), c.old_text)
         /\ NewTexts(Append(s, c)) = Append(NewTexts(s), c.new_text)
<1> DEFINE a == Append(s, c)
<1>1. Len(s) \in Nat /\ c.old_text \in Text /\ c.new_text \in Text
  BY LenProperties DEF Command
<1>2. /\ a \in Seq(Command) /\ Len(a) = Len(s) + 1 /\ a[Len(s) + 1] = c
      /\ \A i \in 1..Len(s) : a[i] = s[i]
  BY AppendLast
<1> HIDE DEF a
<1>3. /\ OldTexts(s) \in Seq(Text) /\ NewTexts(s) \in Seq(Text)
      /\ Len(OldTexts(s)) = Len(s) /\ Len(NewTexts(s)) = Len(s)
      /\ \A i \in 1..Len(s) : OldTexts(s)[i] = s[i].old_text /\ NewTexts(s)[i] = s[i].new_text
  BY TextsOf
<1>4. /\ OldTexts(a) \in Seq(Text) /\ NewTexts(a) \in Seq(Text)
      /\ Len(OldTexts(a)) = Len(s) + 1 /\ Len(NewTexts(a)) = Len(s) + 1
      /\ \A i \in 1..(Len(s) + 1) : OldTexts(a)[i] = a[i].old_text /\ NewTexts(a)[i] = a[i].new_text
  BY <1>2, TextsOf
<1>5. OldTexts(a) = Append(OldTexts(s), c.old_text)
  <2> DEFINE b == Append(OldTexts(s), c.old_text)
  <2>1. /\ b \in Seq(Text) /\ Len(b) = Len(s) + 1 /\ b[Len(s) + 1] = c.old_text
        /\ \A i \in 1..Len(s) : b[i] = OldTexts(s)[i]
    BY <1>1, <1>3, AppendLast
  <2> HIDE DEF b
  <2>2. ASSUME NEW i \in 1..(Len(s) + 1) PROVE OldTexts(a)[i] = b[i]
    <3>1. OldTexts(a)[i] = a[i].old_text
      BY <1>4
    <3>2. CASE i = Len(s) + 1
      BY <1>2, <2>1, <3>1, <3>2
    <3>3. CASE i # Len(s) + 1
      <4>1. i \in 1..Len(s)
        BY <1>1, <3>3
      <4>2. QED
        BY <1>2, <1>3, <2>1, <3>1, <4>1
    <3>4. QED
      BY <3>2, <3>3
  <2>3. OldTexts(a) = b
    BY <1>4, <2>1, <2>2, SeqEqual
  <2>4. QED
    BY <2>3 DEF b
<1>6. NewTexts(a) = Append(NewTexts(s), c.new_text)
  <2> DEFINE b == Append(NewTexts(s), c.new_text)
  <2>1. /\ b \in Seq(Text) /\ Len(b) = Len(s) + 1 /\ b[Len(s) + 1] = c.new_text
        /\ \A i \in 1..Len(s) : b[i] = NewTexts(s)[i]
    BY <1>1, <1>3, AppendLast
  <2> HIDE DEF b
  <2>2. ASSUME NEW i \in 1..(Len(s) + 1) PROVE NewTexts(a)[i] = b[i]
    <3>1. NewTexts(a)[i] = a[i].new_text
      BY <1>4
    <3>2. CASE i = Len(s) + 1
      BY <1>2, <2>1, <3>1, <3>2
    <3>3. CASE i # Len(s) + 1
      <4>1. i \in 1..Len(s)
        BY <1>1, <3>3
      <4>2. QED
        BY <1>2, <1>3, <2>1, <3>1, <4>1
    <3>4. QED
      BY <3>2, <3>3
  <2>3. NewTexts(a) = b
    BY <1>4, <2>1, <2>2, SeqEqual
  <2>4. QED
    BY <2>3 DEF b
<1>7. QED
  BY <1>5, <1>6 DEF a

\* Recording a command is DocHistory's edit: its text joins the past, whose
\* oldest text goes when there are already Cap.
LEMMA TextsOfPush ==
  ASSUME NEW u \in Seq(Command), NEW cmd \in Command, Len(u) <= Cap
  PROVE  OldTexts(Pushed(u, cmd)) = History!KeepNewest(Append(OldTexts(u), cmd.old_text))
<1> USE CapAssumption
<1> DEFINE x == cmd.old_text
           b == Append(OldTexts(u), x)
<1>1. x \in Text /\ Len(u) \in Nat
  BY LenProperties DEF Command
<1>2. /\ OldTexts(u) \in Seq(Text) /\ Len(OldTexts(u)) = Len(u)
      /\ \A i \in 1..Len(u) : OldTexts(u)[i] = u[i].old_text
  BY TextsOf
<1> HIDE DEF x
<1>3. /\ b \in Seq(Text) /\ Len(b) = Len(u) + 1 /\ b[Len(u) + 1] = x
      /\ \A i \in 1..Len(u) : b[i] = u[i].old_text
  <2>1. /\ b \in Seq(Text) /\ Len(b) = Len(OldTexts(u)) + 1 /\ b[Len(OldTexts(u)) + 1] = x
        /\ \A i \in 1..Len(OldTexts(u)) : b[i] = OldTexts(u)[i]
    BY <1>1, <1>2, AppendLast
  <2> HIDE DEF b
  <2>2. QED
    BY <1>2, <2>1
<1>4. CASE Len(u) < Cap
  <2>1. Pushed(u, cmd) = Append(u, cmd)
    BY <1>1, <1>4 DEF Pushed, MakeRoom
  <2>2. OldTexts(Pushed(u, cmd)) = b
    BY <2>1, TextsOfAppend DEF x
  <2>3. Len(b) <= Cap
    BY <1>1, <1>3, <1>4
  <2>4. QED
    BY <2>2, <2>3 DEF History!KeepNewest, x
<1>5. CASE Len(u) = Cap
  <2> DEFINE k == History!KeepNewest(b)
             p == Pushed(u, cmd)
  <2>1. k = SubSeq(b, 2, Cap + 1)
    <3>1. Len(b) - Cap + 1 = 2 /\ Len(b) = Cap + 1 /\ ~(Len(b) <= Cap)
      BY <1>1, <1>3, <1>5
    <3>2. k = SubSeq(b, Len(b) - Cap + 1, Len(b))
      BY <3>1 DEF History!KeepNewest
    <3>3. QED
      BY <3>1, <3>2
  <2>2. \A i \in 2..(Cap + 1) : b[i] \in Text
    <3>1. \A i \in 1..Len(b) : b[i] \in Text
      BY <1>3, ElementOfSeq
    <3> HIDE DEF b
    <3>2. QED
      BY <1>3, <1>5, <3>1
  <2> HIDE DEF b, k
  <2>3. k \in Seq(Text) /\ Len(k) = Cap /\ \A i \in 1..Cap : k[i] = b[i + 1]
    <3> DEFINE t == SubSeq(b, 2, Cap + 1)
    <3>1. /\ t \in Seq(Text)
          /\ Len(t) = IF 2 <= Cap + 1 THEN Cap + 1 - 2 + 1 ELSE 0
          /\ \A i \in 1..(Cap + 1 - 2 + 1) : t[i] = b[2 + i - 1]
      <4>1. 2 \in Int /\ Cap + 1 \in Int
        OBVIOUS
      <4>2. QED
        BY <2>2, <4>1, SubSeqProperties
    <3> HIDE DEF t
    <3>2. Len(t) = Cap
      BY <3>1
    <3>3. ASSUME NEW i \in 1..Cap PROVE t[i] = b[i + 1]
      <4>1. i \in 1..(Cap + 1 - 2 + 1) /\ 2 + i - 1 = i + 1
        OBVIOUS
      <4>2. QED
        BY <3>1, <4>1
    <3>4. QED
      BY <2>1, <3>1, <3>2, <3>3 DEF t
  <2>4. p \in Seq(Command) /\ Len(p) = Cap /\ \A i \in 1..Cap : p[i].old_text = b[i + 1]
    <3>1. CASE Cap = 0
      <4>1. p = u
        BY <3>1 DEF Pushed
      <4>2. QED
        BY <1>5, <3>1, <4>1
    <3>2. CASE Cap # 0
      <4> DEFINE m == SubSeq(u, 2, Cap)
      <4>1. MakeRoom(u) = m
        <5>1. Len(u) - Cap + 2 = 2 /\ ~(Len(u) < Cap)
          BY <1>1, <1>5
        <5>2. QED
          BY <1>5, <5>1 DEF MakeRoom
      <4>2. \A i \in 2..Cap : u[i] \in Command
        BY <1>5, ElementOfSeq
      <4>3. /\ m \in Seq(Command)
            /\ Len(m) = IF 2 <= Cap THEN Cap - 2 + 1 ELSE 0
            /\ \A i \in 1..(Cap - 2 + 1) : m[i] = u[2 + i - 1]
        <5>1. 2 \in Int /\ Cap \in Int
          OBVIOUS
        <5>2. QED
          BY <4>2, <5>1, SubSeqProperties
      <4> HIDE DEF m
      <4>4. Len(m) = Cap - 1
        BY <3>2, <4>3
      <4>5. p = Append(m, cmd)
        BY <3>2, <4>1 DEF Pushed
      <4>6. /\ p \in Seq(Command) /\ Len(p) = Len(m) + 1 /\ p[Len(m) + 1] = cmd
            /\ \A i \in 1..Len(m) : p[i] = m[i]
        BY <4>3, <4>5, AppendLast
      <4> HIDE DEF p
      <4>7. ASSUME NEW i \in 1..Cap PROVE p[i].old_text = b[i + 1]
        <5>1. CASE i = Cap
          <6>1. p[i] = cmd
            BY <4>4, <4>6, <5>1
          <6>2. b[i + 1] = x
            BY <1>3, <1>5, <5>1
          <6>3. QED
            BY <6>1, <6>2 DEF x
        <5>2. CASE i # Cap
          <6>1. i \in 1..Len(m) /\ i \in 1..(Cap - 2 + 1) /\ 2 + i - 1 = i + 1
            BY <4>4, <5>2
          <6>2. p[i] = u[i + 1]
            BY <4>3, <4>6, <6>1
          <6>3. i + 1 \in 1..Len(u)
            BY <1>5, <5>2
          <6>4. QED
            BY <1>3, <6>2, <6>3
        <5>3. QED
          BY <5>1, <5>2
      <4>8. QED
        BY <3>2, <4>4, <4>6, <4>7
    <3>3. QED
      BY <3>1, <3>2
  <2> HIDE DEF p
  <2>5. /\ OldTexts(p) \in Seq(Text) /\ Len(OldTexts(p)) = Cap
        /\ \A i \in 1..Cap : OldTexts(p)[i] = b[i + 1]
    <3>1. /\ OldTexts(p) \in Seq(Text) /\ Len(OldTexts(p)) = Len(p)
          /\ \A i \in 1..Len(p) : OldTexts(p)[i] = p[i].old_text
      BY <2>4, TextsOf
    <3>2. QED
      BY <2>4, <3>1
  <2>6. OldTexts(p) = k
    <3>1. \A i \in 1..Cap : OldTexts(p)[i] = k[i]
      BY <2>3, <2>5
    <3>2. QED
      BY <2>3, <2>5, <3>1, SeqEqual
  <2>7. QED
    BY <2>6 DEF p, k, b, x
<1>6. QED
  BY <1>1, <1>4, <1>5

\* A tab that has just been built has no history.
LEMMA HistoryInit == Init => History!Init
<1> SUFFICES ASSUME NEW text \in Text, TabInit(text)
             PROVE  History!Init
  BY DEF Init
<1>1. undo_buf = <<>> /\ redo_buf = <<>> /\ CurrentDoc = text
  BY DEF TabInit, StackInit, CurrentDoc
<1>2. OldTexts(<<>>) = <<>> /\ NewTexts(<<>>) = <<>>
  <2>1. <<>> \in Seq(Command)
    BY EmptySeq
  <2>2. /\ OldTexts(<<>>) \in Seq(Text) /\ Len(OldTexts(<<>>)) = 0
        /\ NewTexts(<<>>) \in Seq(Text) /\ Len(NewTexts(<<>>)) = 0
    BY <2>1, TextsOf, EmptySeq
  <2>3. QED
    BY <2>2, EmptySeq
<1>3. QED
  BY <1>1, <1>2 DEF History!Init

\* A changed emission is an edit, or invisible.
LEMMA ChangedIsEdit ==
  ASSUME IInv, Changed
  PROVE  [History!Next]_(History!vars)
<1> DEFINE text == Head(pending)
<1>1. text \in Text /\ previous_text \in Text /\ buffer = previous_text
  BY HeadTailProperties DEF Changed, IInv, TypeOK, CallInv
<1>2. buffer' = text /\ call' = call /\ target' = target
  BY DEF Changed
<1>3. undo_buf \in Seq(Command) /\ redo_buf \in Seq(Command)
  BY DEF IInv, TypeOK
<1>4. CASE suppressing_undo \/ previous_text = text
  <2>1. UNCHANGED <<undo_buf, redo_buf>>
    BY <1>4 DEF Changed, Record, stackVars
  <2>2. CurrentDoc' = CurrentDoc
    BY <1>1, <1>2, <1>4 DEF CurrentDoc, IInv, CallInv
  <2>3. QED
    BY <2>1, <2>2 DEF History!vars, OldTexts, NewTexts
<1>5. CASE ~suppressing_undo /\ previous_text # text
  <2> DEFINE cmd == [old_text |-> previous_text, new_text |-> text]
  <2>1. CurrentDoc = previous_text /\ CurrentDoc' = text
    BY <1>1, <1>2, <1>5 DEF CurrentDoc, IInv, CallInv
  <2>2. Len(undo_buf) <= Cap
    <3>1. Len(undo_buf) \in Nat /\ Len(redo_buf) \in Nat
      BY <1>3, LenProperties
    <3>2. Len(undo_buf) + Len(redo_buf) <= Cap
      BY DEF IInv, HistoryBounded
    <3>3. QED
      BY <3>1, <3>2, CapAssumption
  <2>3. undo_buf' = Pushed(undo_buf, cmd) /\ redo_buf' = <<>>
    BY <1>5 DEF Changed, Record, Push, Pushed
  <2>4. cmd \in Command /\ cmd.old_text = previous_text
    BY <1>1 DEF Command
  <2> HIDE DEF cmd
  <2>5. OldTexts(undo_buf)' = History!KeepNewest(Append(OldTexts(undo_buf), previous_text))
    <3>1. OldTexts(undo_buf)' = OldTexts(Pushed(undo_buf, cmd))
      BY <2>3 DEF OldTexts
    <3>2. QED
      BY <1>3, <2>2, <2>4, <3>1, TextsOfPush
  <2>6. NewTexts(redo_buf)' = <<>>
    <3>1. <<>> \in Seq(Command) /\ NewTexts(<<>>) \in Seq(Text) /\ Len(NewTexts(<<>>)) = 0
      BY TextsOf, EmptySeq
    <3>2. NewTexts(<<>>) = <<>>
      BY <3>1, EmptySeq
    <3>3. NewTexts(redo_buf)' = NewTexts(<<>>)
      BY <2>3 DEF NewTexts
    <3>4. QED
      BY <3>2, <3>3
  <2>7. History!Edit(text)
    BY <2>1, <2>5, <2>6 DEF History!Edit
  <2>8. QED
    BY <1>1, <2>7 DEF History!Next
<1>6. QED
  BY <1>4, <1>5

\* A step that leaves the stack and the text the user sees alone is invisible.
LEMMA Invisible ==
  ASSUME UNCHANGED <<undo_buf, redo_buf, CurrentDoc>>
  PROVE  UNCHANGED History!vars
BY DEF History!vars, OldTexts, NewTexts

\* A click on Undo is DocHistory's undo, whatever the emissions it causes.
LEMMA UndoIsUndo == IInv /\ UndoClicked => History!Undo
<1> SUFFICES ASSUME IInv, UndoClicked
             PROVE  History!Undo
  OBVIOUS
<1>1. /\ undo_buf \in Seq(Command) /\ redo_buf \in Seq(Command) /\ undo_buf # <<>>
      /\ undo_buf' = Pop(undo_buf) /\ redo_buf' = Append(redo_buf, Top(undo_buf))
      /\ target' = Top(undo_buf).old_text /\ call' = "undo"
  BY DEF UndoClicked, Undo, SetText, IInv, TypeOK
<1>2. CurrentDoc' = Top(undo_buf).old_text
  BY <1>1 DEF CurrentDoc
<1>3. Top(undo_buf) \in Command /\ Top(undo_buf).new_text = CurrentDoc
  BY <1>1, PopFront DEF IInv, UndoChain, LineThrough
<1>4. /\ OldTexts(undo_buf)' = History!Older(OldTexts(undo_buf))
      /\ Top(undo_buf).old_text = History!Newest(OldTexts(undo_buf))
      /\ OldTexts(undo_buf) # <<>>
  <2>1. OldTexts(undo_buf)' = OldTexts(Pop(undo_buf))
    BY <1>1 DEF OldTexts
  <2>2. QED
    BY <1>1, <2>1, TextsOfPop
<1>5. NewTexts(redo_buf)' = Append(NewTexts(redo_buf), CurrentDoc)
  <2>1. NewTexts(redo_buf)' = NewTexts(Append(redo_buf, Top(undo_buf)))
    BY <1>1 DEF NewTexts
  <2>2. QED
    BY <1>1, <1>3, <2>1, TextsOfAppend
<1>6. QED
  BY <1>2, <1>4, <1>5 DEF History!Undo

\* A click on Redo is DocHistory's redo.
LEMMA RedoIsRedo == IInv /\ RedoClicked => History!Redo
<1> SUFFICES ASSUME IInv, RedoClicked
             PROVE  History!Redo
  OBVIOUS
<1>1. /\ undo_buf \in Seq(Command) /\ redo_buf \in Seq(Command) /\ redo_buf # <<>>
      /\ redo_buf' = Pop(redo_buf) /\ undo_buf' = Append(undo_buf, Top(redo_buf))
      /\ target' = Top(redo_buf).new_text /\ call' = "redo"
  BY DEF RedoClicked, Redo, SetText, IInv, TypeOK
<1>2. CurrentDoc' = Top(redo_buf).new_text
  BY <1>1 DEF CurrentDoc
<1>3. Top(redo_buf) \in Command /\ Top(redo_buf).old_text = CurrentDoc
  BY <1>1, PopFront DEF IInv, UndoChain, LineThrough
<1>4. /\ NewTexts(redo_buf)' = History!Older(NewTexts(redo_buf))
      /\ Top(redo_buf).new_text = History!Newest(NewTexts(redo_buf))
      /\ NewTexts(redo_buf) # <<>>
  <2>1. NewTexts(redo_buf)' = NewTexts(Pop(redo_buf))
    BY <1>1 DEF NewTexts
  <2>2. QED
    BY <1>1, <2>1, TextsOfPop
<1>5. OldTexts(undo_buf)' = Append(OldTexts(undo_buf), CurrentDoc)
  <2>1. OldTexts(undo_buf)' = OldTexts(Append(undo_buf, Top(redo_buf)))
    BY <1>1 DEF OldTexts
  <2>2. QED
    BY <1>1, <1>3, <2>1, TextsOfAppend
<1>6. QED
  BY <1>2, <1>4, <1>5 DEF History!Redo

\* Every step of the tab is a step of the history or invisible.
LEMMA HistoryNext == IInv /\ [Next]_tabVars => [History!Next]_(History!vars)
<1> SUFFICES ASSUME IInv, [Next]_tabVars
             PROVE  [History!Next]_(History!vars)
  OBVIOUS
<1> USE DEF docVars, stackVars, viewVars, validationVars, callVars
<1>1. ASSUME NEW text \in Text, TypeText(text) \/ WidgetEdit(text) \/ Reload(text)
      PROVE  UNCHANGED History!vars
  <2>1. UNCHANGED <<undo_buf, redo_buf, CurrentDoc>>
    BY <1>1 DEF TypeText, WidgetEdit, Reload, SetText, CurrentDoc, Idle
  <2>2. QED
    BY <2>1, Invisible
<1>2. CASE SetTextReturns
  <2>1. UNCHANGED <<undo_buf, redo_buf, CurrentDoc>>
    BY <1>2 DEF SetTextReturns, CurrentDoc, IInv, CallInv
  <2>2. QED
    BY <2>1, Invisible
<1>3. CASE ChangedAborts \/ RestoreClicked \/ CompareOn \/ CompareOff \/ ProcessEnds
  <2>1. UNCHANGED <<undo_buf, redo_buf, CurrentDoc>>
    BY <1>3 DEF ChangedAborts, RestoreClicked, CompareOn, CompareOff, ProcessEnds, CurrentDoc
  <2>2. QED
    BY <2>1, Invisible
<1>4. CASE Validate
  <2>1. UNCHANGED <<undo_buf, redo_buf, CurrentDoc>>
    BY <1>4 DEF Validate, DebounceFires, ValidationDone, CurrentDoc
  <2>2. QED
    BY <2>1, Invisible
<1>5. CASE UNCHANGED tabVars
  <2>1. UNCHANGED <<undo_buf, redo_buf, CurrentDoc>>
    BY <1>5 DEF tabVars, CurrentDoc
  <2>2. QED
    BY <2>1, Invisible
<1>6. CASE UndoClicked
  BY <1>6, UndoIsUndo DEF History!Next
<1>7. CASE RedoClicked
  BY <1>7, RedoIsRedo DEF History!Next
<1>8. CASE Changed
  BY <1>8, ChangedIsEdit
<1>9. QED
  BY <1>1, <1>2, <1>3, <1>4, <1>5, <1>6, <1>7, <1>8 DEF Next, Rewrite

\* The tab implements the undoable document DocHistory specifies: handlers that
\* rewrite the buffer under a recording signal handler amount to edits, undos
\* and redos of one document.
THEOREM TabImplementsHistory == Spec => ImplementsHistory
<1>1. Init => History!Init
  BY HistoryInit
<1>2. IInv /\ [Next]_tabVars => [History!Next]_(History!vars)
  BY HistoryNext
<1>3. QED
  BY <1>1, <1>2, Invariance, PTL DEF Spec, ImplementsHistory, History!Spec
================================================================================
