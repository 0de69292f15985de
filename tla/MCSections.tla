------------------------------ MODULE MCSections ------------------------------
(* Sections over documents a niri user writes, cut down to a node or two of  *)
(* each section.  The strings are "a" and "a b", one word and two, "scale",  *)
(* which is the name of a child as well, and "true", a reserved word.        *)
EXTENDS Sections

CONSTANTS n1, n2   \* the numbers

Leaf(name, values) ==
  [name |-> name, args |-> [i \in DOMAIN values |-> Arg(values[i])], block |-> FALSE, kids |-> <<>>, ends |-> "line"]

Block(name, values, kids, ends) ==
  [name |-> name, args |-> [i \in DOMAIN values |-> Arg(values[i])], block |-> TRUE, kids |-> kids, ends |-> ends]

Match(props) ==
  [name |-> "match", args |-> [i \in DOMAIN props |-> [prop |-> props[i], val |-> "a b"]],
   block |-> FALSE, kids |-> <<>>, ends |-> "line"]

Gap == Leaf("gap", <<n1>>)
Ring == Block("focus-ring", <<>>, <<Leaf("width", <<n1>>)>>, "line")

\* A startup command, a nested setting, a bind, and an entry and a switch at the top.
Plain ==
  <<Leaf("spawn-at-startup", <<"a">>),
    Block("layout", <<>>, <<Gap, Ring>>, "line"),
    Block("binds", <<>>, <<Leaf("a b", <<"a", n1>>)>>, "line"),
    Leaf("slow", <<"a">>), Leaf("fast", <<"a">>)>>

\* The same monitor twice, once in a block on one line; the startup command is
\* not the first node; a setting occurs twice and one has a value no row reads.
Doubled ==
  <<Block("output", <<"a">>, <<Leaf("mode", <<"a">>)>>, "space"),
    Block("output", <<"a">>, <<Leaf("scale", <<n1>>)>>, "line"),
    Leaf("spawn-at-startup", <<"a">>),
    Leaf("slow", <<Flag>>), Leaf("slow", <<"a">>)>>

\* Monitors with an empty block and with none, and one with a block on one line.
Monitors ==
  <<Block("output", <<"a">>, <<>>, "space"),
    Block("output", <<"a b">>, <<Leaf("mode", <<"a">>)>>, "space"),
    Leaf("output", <<n1>>),
    Leaf("preferred-workspace-for-output", <<"a">>),
    Leaf("preferred-workspace-for-output", <<"a b", n1>>)>>

\* A layer rule after another child, and binds in two blocks.
Rules ==
  <<Block("layer-rules", <<>>, <<Leaf("other", <<>>), Match(<<"app-id">>), Match(<<>>)>>, "line"),
    Block("binds", <<>>, <<Leaf("a b", <<"a">>), Leaf("a b", <<"a b", Flag>>)>>, "line"),
    Block("binds", <<>>, <<Leaf("a", <<"a b">>)>>, "line")>>

\* Blocks on one line: with a mode without a value, which is given the child
\* printed behind it; with a mode that has a block; with no space before the brace.
Packed ==
  <<Block("output", <<"a">>, <<Leaf("mode", <<>>)>>, "space"),
    Block("output", <<"scale">>, <<Block("mode", <<"a">>, <<>>, "line")>>, "space")>>

Packed2 ==
  <<Block("output", <<"a">>, <<Leaf("mode", <<>>)>>, "brace"),
    Block("output", <<"a b">>, <<Leaf("mode", <<"a">>)>>, "brace"),
    Block("output", <<"scale">>, <<Leaf("scale", <<n1>>)>>, "brace")>>

\* No document: a block that ends in no way.
MCUnparsed == <<Block("a", <<>>, <<>>, "")>>

MCDoc == {Plain, Doubled, Monitors, Rules, Packed, Packed2}
MCSettings == {<<"fast">>, <<"slow">>, <<"layout", "gap">>, <<"layout", "focus-ring", "width">>}
MCSpins == {<<"layout", "gap">>, <<"layout", "focus-ring", "width">>}
MCHalves == <<"a", "a">>
MCSwitches == {<<"fast">>}
==============================================================================
