----------------------------- MODULE Highlighter -----------------------------
(***************************************************************************)
(* The colours of the editor's buffer (core/kdl_highlighter.rs) and the    *)
(* red span of a parse error (build_editor_page, shell.rs).  Both are tags *)
(* on the same buffer and both follow the `changed` signal: the            *)
(* highlighter was connected first, so it removes all tags, scans the text *)
(* and tags its tokens before the tab's handler parses the text.  Positions*)
(* start at 1; a token ends before its `end`.                              *)
(***************************************************************************)
EXTENDS Integers, Sequences, SequencesExt

CONSTANTS
  Char,         \* the characters, strings of length one
  Digits, Letters, Brackets,
  Keywords,     \* KDL_KEYWORDS
  Opened,       \* the texts the tab may be built with
  Fails(_),     \* whether KdlDocument::from_str rejects a text
  SpanOf(_),    \* the first diagnostic's span: its first byte, from 0, and its bytes
  Bytes(_),     \* the bytes of a character in UTF-8
  MaxLen        \* bound: the length of a text that still grows

Quote == "\""

Special == {"/", "*", Quote, "\\", "\n", "-", "."}

ASSUME CharAssumption ==
  /\ Special \subseteq Char
  /\ Digits \cup Letters \cup Brackets \subseteq Char \ Special
  /\ Brackets \cap (Digits \cup Letters) = {}
  /\ \A c \in Char : Bytes(c) \in 1..4
  /\ Opened \subseteq Seq(Char)
  /\ MaxLen \in Nat

\* Mutant: a word goes on through a bracket.
WordCharsBroad == Digits \cup Letters \cup Brackets \cup {"-", "."}

WordChars == Digits \cup Letters \cup {"-", "."}

Kinds == {"comment", "keyword", "string", "number", "punctuation"}

VARIABLES
  buffer,   \* the characters
  tags,     \* the tags of each character
  page,     \* the visible page; "opening" until the tab's handler is connected
  phase,    \* where the handlers of `changed` are; "rest" outside them
  tokens, i, start   \* tokenize's variables

scanVars == <<tokens, i, start>>
vars == <<buffer, tags, page, phase, scanVars>>

Untagged(text) == [k \in 1..Len(text) |-> {}]

Init ==
  /\ buffer \in Opened
  /\ tags = Untagged(buffer)
  /\ page = "opening"
  /\ phase = "changed"
  /\ tokens = <<>>
  /\ i = 1
  /\ start = 1

------------------------------------------------------------------------------
(* The user and the other pages *)

Edited(text, marks) ==
  /\ phase = "rest"
  /\ buffer' = text
  /\ tags' = marks
  /\ phase' = "changed"
  /\ UNCHANGED <<page, scanVars>>

\* A character typed inside a tagged range gets the tags of the range.
Insert(k, c) ==
  LET around == IF k \in 2..Len(buffer) THEN tags[k - 1] \cap tags[k] ELSE {}
  IN  /\ Len(buffer) < MaxLen
      /\ Edited(InsertAt(buffer, k, c), InsertAt(tags, k, around))

Delete(k) == Edited(RemoveAt(buffer, k), RemoveAt(tags, k))

CompareOn ==
  /\ phase = "rest"
  /\ page' = "diff"
  /\ UNCHANGED <<buffer, tags, phase, scanVars>>

------------------------------------------------------------------------------
(* tokenize: one step of its loop, which the first condition that holds takes *)

At(k, c) == k <= Len(buffer) /\ buffer[k] = c

In(k, chars) == k <= Len(buffer) /\ buffer[k] \in chars

\* An inner loop over `chars` that begins at k stops at j.
RunEnds(chars, k, j) ==
  /\ \A n \in k..(j - 1) : In(n, chars)
  /\ ~In(j, chars)

Scanning == phase = "scan" /\ i <= Len(buffer)

\* Mutant: the scan goes on behind the first character of the token.
FoundRescanning(from, kind, end) ==
  /\ tokens' = Append(tokens, [start |-> from, end |-> end, kind |-> kind])
  /\ i' = from + 1
  /\ UNCHANGED <<buffer, tags, page, start>>

Found(from, kind, end) ==
  /\ tokens' = Append(tokens, [start |-> from, end |-> end, kind |-> kind])
  /\ i' = end
  /\ UNCHANGED <<buffer, tags, page, start>>

\* Mutant: tags of the text before the edit stay.
KeepTags == UNCHANGED tags

RemoveAllTags == tags' = Untagged(buffer)

Apply ==
  /\ phase = "changed"
  /\ RemoveAllTags
  /\ phase' = "scan"
  /\ tokens' = <<>>
  /\ i' = 1
  /\ UNCHANGED <<buffer, page, start>>

LineComment ==
  /\ Scanning
  /\ At(i, "/")
  /\ At(i + 1, "/")
  /\ \E j \in (i + 2)..(Len(buffer) + 1) :
       /\ RunEnds(Char \ {"\n"}, i + 2, j)
       /\ Found(i, "comment", j)
  /\ UNCHANGED phase

Closes(k) == At(k, "*") /\ At(k + 1, "/")

\* Mutant: the position after the star.
CommentEndShort(j) == IF j < Len(buffer) THEN j + 1 ELSE j

\* The loop looks at two characters, so without a `*/` it stops at the last one,
\* which is left to the next token.
CommentEnd(j) == IF j < Len(buffer) THEN j + 2 ELSE j

BlockComment ==
  /\ Scanning
  /\ At(i, "/")
  /\ At(i + 1, "*")
  /\ \E j \in (i + 2)..(Len(buffer) + 1) :
       /\ \A n \in (i + 2)..(j - 1) : n < Len(buffer) /\ ~Closes(n)
       /\ j >= Len(buffer) \/ Closes(j)
       /\ Found(i, "comment", CommentEnd(j))
  /\ UNCHANGED phase

StringOpens ==
  /\ Scanning
  /\ At(i, Quote)
  /\ start' = i
  /\ i' = i + 1
  /\ phase' = "string"
  /\ UNCHANGED <<buffer, tags, page, tokens>>

\* Mutant: a backslash is not checked to have a character behind it.
AdvanceUnchecked == IF At(i, "\\") THEN 2 ELSE 1

\* The number of characters the string goes on for.
Advance == IF At(i, "\\") /\ i < Len(buffer) THEN 2 ELSE 1

StringGoesOn ==
  /\ phase = "string"
  /\ i <= Len(buffer)
  /\ ~At(i, Quote)
  /\ i' = i + Advance
  /\ UNCHANGED <<buffer, tags, page, phase, tokens, start>>

StringEnds ==
  /\ phase = "string"
  /\ \/ i > Len(buffer) /\ Found(start, "string", i)
     \/ At(i, Quote) /\ Found(start, "string", i + 1)
  /\ phase' = "scan"

NumberAt(k) == In(k, Digits) \/ (At(k, "-") /\ In(k + 1, Digits))

Number ==
  /\ Scanning
  /\ NumberAt(i)
  /\ \E j \in (i + 1)..(Len(buffer) + 1) :
       /\ RunEnds(Digits, IF At(i, "-") THEN i + 1 ELSE i, j)
       /\ IF At(j, ".") /\ In(j + 1, Digits)
          THEN \E e \in (j + 1)..(Len(buffer) + 1) :
                 RunEnds(Digits, j + 1, e) /\ Found(i, "number", e)
          ELSE Found(i, "number", j)
  /\ UNCHANGED phase

Punctuation ==
  /\ Scanning
  /\ In(i, Brackets)
  /\ Found(i, "punctuation", i + 1)
  /\ UNCHANGED phase

Word ==
  /\ Scanning
  /\ In(i, WordChars)
  /\ ~NumberAt(i)
  /\ \E j \in (i + 1)..(Len(buffer) + 1) :
       /\ RunEnds(WordChars, i, j)
       /\ IF SubSeq(buffer, i, j - 1) \in Keywords
          THEN Found(i, "keyword", j)
          ELSE i' = j /\ UNCHANGED <<buffer, tags, page, tokens, start>>
  /\ UNCHANGED phase

\* Mutant: a character that begins nothing is looked at again.
Stay == i

Onward == i + 1

Skip ==
  /\ Scanning
  /\ ~In(i, WordChars \cup Brackets \cup {Quote})
  /\ ~(At(i, "/") /\ In(i + 1, {"/", "*"}))
  /\ i' = Onward
  /\ UNCHANGED <<buffer, tags, page, phase, tokens, start>>

Scan ==
  \/ LineComment
  \/ BlockComment
  \/ StringOpens
  \/ StringGoesOn
  \/ StringEnds
  \/ Number
  \/ Punctuation
  \/ Word
  \/ Skip

------------------------------------------------------------------------------
(* The tags *)

Covers(t, k) == t.start <= k /\ k < t.end

KindsAt(k) == {t.kind : t \in {u \in ToSet(tokens) : Covers(u, k)}}

ApplyTags ==
  /\ phase = "scan"
  /\ i > Len(buffer)
  /\ tags' = [k \in 1..Len(buffer) |-> tags[k] \cup KindsAt(k)]
  /\ IF page = "opening" THEN phase' = "rest" /\ page' = "editing"
                         ELSE phase' = "tab" /\ UNCHANGED page
  /\ UNCHANGED <<buffer, scanVars>>

------------------------------------------------------------------------------
(* The parse error *)

Cleared == [k \in 1..Len(buffer) |-> tags[k] \ {"parse_error"}]

AtLeastOne(len) == IF len = 0 THEN 1 ELSE len

SpanEnd == SpanOf(buffer).offset + AtLeastOne(SpanOf(buffer).len)

\* iter_at_offset counts characters, and the span is in bytes: the mark is where
\* the span would be if every character were one byte, as far as there is text.
Marked(marks) ==
  [k \in 1..Len(buffer) |->
     IF SpanOf(buffer).offset < k /\ k - 1 < SpanEnd
     THEN marks[k] \cup {"parse_error"}
     ELSE marks[k]]

\* The tab's part of the handler: the error is marked on entering the fallback
\* page only.
TabHandles ==
  /\ phase = "tab"
  /\ \/ /\ ~Fails(buffer)
        /\ page = "fallback"
        /\ tags' = Cleared
        /\ page' = "editing"
     \/ /\ Fails(buffer)
        /\ page = "editing"
        /\ tags' = Marked(tags)
        /\ page' = "fallback"
     \/ /\ page = "diff" \/ Fails(buffer) = (page = "fallback")
        /\ UNCHANGED <<tags, page>>
  /\ phase' = "rest"
  /\ UNCHANGED <<buffer, scanVars>>

\* The text is the one that was rejected: nothing edits it without the handler.
RestoreClicked ==
  /\ phase = "rest"
  /\ page = "fallback"
  /\ IF Fails(buffer) THEN tags' = Marked(Cleared) /\ UNCHANGED page
                      ELSE tags' = Cleared /\ page' = "editing"
  /\ UNCHANGED <<buffer, phase, scanVars>>

User ==
  \/ \E k \in 1..(Len(buffer) + 1), c \in Char : Insert(k, c)
  \/ \E k \in 1..Len(buffer) : Delete(k)
  \/ CompareOn
  \/ RestoreClicked

Handlers == Apply \/ Scan \/ ApplyTags \/ TabHandles

Next == User \/ Handlers

Spec == Init /\ [][Next]_vars

\* The handlers run to their end on the main loop, which nothing preempts.
FairSpec == Spec /\ WF_vars(Handlers)

------------------------------------------------------------------------------
(* Properties *)

Token == [start : 1..(Len(buffer) + 1), end : 1..(Len(buffer) + 1), kind : Kinds]

\* The shape of the state: the scan never leaves the text.
TypeOK ==
  /\ buffer \in Seq(Char)
  /\ tags \in [1..Len(buffer) -> SUBSET (Kinds \cup {"parse_error"})]
  /\ page \in {"opening", "editing", "fallback", "diff"}
  /\ phase \in {"rest", "changed", "scan", "string", "tab"}
  /\ phase \in {"scan", "string", "tab"} =>
       /\ tokens \in Seq(Token)
       /\ i \in 1..(Len(buffer) + 1)
  /\ phase = "string" => start \in 1..(i - 1)

Tokenized == phase = "rest"

\* The tokens are pieces of the text, in the order of the text, none empty, and
\* no two share a character: a character gets one colour.
TokensInOrder ==
  phase \in {"scan", "string", "tab"} =>
    /\ \A n \in DOMAIN tokens : tokens[n].start < tokens[n].end /\ tokens[n].end <= i
    /\ \A m, n \in DOMAIN tokens : m < n => tokens[m].end <= tokens[n].start

\* A quote at k, in a string that begins at s, does not end it.
Escaped(s, k) ==
  \E m \in (s + 1)..k :
    /\ \A n \in m..(k - 1) : At(n, "\\")
    /\ m = s + 1 \/ ~At(m - 1, "\\")
    /\ (k - m) % 2 = 1

DigitsIn(a, b) == a < b /\ \A n \in a..(b - 1) : In(n, Digits)

IsNumber(a, b) ==
  \E first \in {a, a + 1} :
    /\ first > a => At(a, "-")
    /\ \/ DigitsIn(first, b)
       \/ \E d \in first..(b - 1) : DigitsIn(first, d) /\ At(d, ".") /\ DigitsIn(d + 1, b)

\* What a token of each kind is.
Reads(t) ==
  LET inside == (t.start + 2)..(t.end - 1)
  IN  CASE t.kind = "comment" ->
             /\ At(t.start, "/")
             /\ \/ /\ At(t.start + 1, "/")
                   /\ \A n \in inside : ~At(n, "\n")
                   /\ t.end > Len(buffer) \/ At(t.end, "\n")
                \/ /\ At(t.start + 1, "*")
                   /\ \A n \in inside : Closes(n) => n = t.end - 2
                   /\ t.end >= Len(buffer) \/ (t.end - 2 \in inside /\ Closes(t.end - 2))
        [] t.kind = "string" ->
             LET EndsIt(n) == At(n, Quote) /\ ~Escaped(t.start, n)
             IN  /\ At(t.start, Quote)
                 /\ \A n \in (t.start + 1)..(t.end - 2) : ~EndsIt(n)
                 /\ t.end > Len(buffer) \/ EndsIt(t.end - 1)
        [] t.kind = "number" ->
             /\ IsNumber(t.start, t.end)
             /\ \A e \in (t.end + 1)..(Len(buffer) + 1) : ~IsNumber(t.start, e)
        [] t.kind = "punctuation" -> In(t.start, Brackets) /\ t.end = t.start + 1
        [] t.kind = "keyword" ->
             /\ SubSeq(buffer, t.start, t.end - 1) \in Keywords
             /\ ~In(t.end, WordChars)

\* Every token is what its kind says and goes on for as long as it can, escapes,
\* signs, fractions and missing ends included.  A block comment without its end
\* may leave out the last character of the text.
TokensReadRight == Tokenized => \A t \in ToSet(tokens) : Reads(t)

Plain(k) == k \in 1..Len(buffer) /\ \A t \in ToSet(tokens) : ~Covers(t, k)

BeginsNothing(k) ==
  /\ ~In(k, Brackets \cup {Quote})
  /\ ~(At(k, "/") /\ In(k + 1, {"/", "*"}))
  /\ In(k, Digits) => Plain(k - 1) /\ In(k - 1, WordChars)

\* What is left without a colour is no token: no quote, no bracket, no comment,
\* and a digit only inside a word that is not a keyword.
NothingMissed ==
  Tokenized => \A k \in 1..Len(buffer) : Plain(k) => BeginsNothing(k)

\* The bytes of the first n characters.
BytesBefore[n \in 0..Len(buffer)] ==
  IF n = 0 THEN 0 ELSE BytesBefore[n - 1] + Bytes(buffer[n])

\* A byte of character k is in the span of the error.
ErrorAt(k) == SpanOf(buffer).offset < BytesBefore[k] /\ BytesBefore[k - 1] < SpanEnd

OneByteUpTo(k) == \A n \in 1..k : Bytes(buffer[n]) = 1

\* The text is rejected, and a mark with no longer character before it is on the
\* error.  Behind a character of several bytes the code marks what comes later.
MarkIsRight(k) == Fails(buffer) /\ (OneByteUpTo(k) => ErrorAt(k))

\* Between handlers the tags are those of the text on display: the kinds of its
\* tokens, and no mark but that of its own error, none left from an earlier one.
ColoursAreCurrent ==
  phase = "rest" => \A k \in 1..Len(buffer) :
    /\ tags[k] \ {"parse_error"} = KindsAt(k)
    /\ "parse_error" \in tags[k] => MarkIsRight(k)

\* The scan of every text ends: each round of the loop gets further.
HighlightingEnds == []<>(phase = "rest")
==============================================================================
