---------------------------- MODULE SemanticIndex ----------------------------
(***************************************************************************)
(* The index of a document's nodes by their paths (build_index and         *)
(* walk_node in core/semantic_path.rs).  A document is the sequence of its *)
(* nodes in the order of the text, each with its name and its depth; a     *)
(* node's position in it stands for its span.                              *)
(***************************************************************************)
EXTENDS Naturals, Sequences

\* Children follow their node: the first node of a document is at the top and
\* each is at most one level below the node before it.
Nested(doc) ==
  /\ Len(doc) \in Nat
  /\ DOMAIN doc = 1 .. Len(doc)
  /\ \A i \in DOMAIN doc :
       /\ doc[i].depth \in Nat \ {0}
       /\ doc[i].depth <= IF i = 1 THEN 1 ELSE doc[i - 1].depth + 1

\* Mutant: the name is pushed and the names of finished siblings never popped.
PushOnly(prefix, node) == Append(prefix, node.name)

\* The names on the way to a node: those of nodes that are finished have been
\* popped when its own is pushed.
PrefixAt(prefix, node) == Append(SubSeq(prefix, 1, node.depth - 1), node.name)

\* A later node of the same path replaces the entry of the one before it.
WalkNode(walk, doc, i) ==
  LET path == PrefixAt(walk.prefix, doc[i])
  IN  [prefix |-> path,
       entries |-> [p \in DOMAIN walk.entries \cup {path} |->
                      IF p = path THEN i ELSE walk.entries[p]]]

BuildIndex(doc) ==
  LET walk[i \in 0 .. Len(doc)] ==
        IF i = 0 THEN [prefix |-> <<>>, entries |-> [p \in {} |-> 0]]
        ELSE WalkNode(walk[i - 1], doc, i)
  IN  walk[Len(doc)].entries

------------------------------------------------------------------------------
(* The index defined by what it should answer *)

\* The nodes above node i: for every smaller depth, the last one before i.
Above(doc, i) ==
  {j \in 1 .. i : /\ doc[j].depth <= doc[i].depth
                  /\ \A k \in j + 1 .. i : doc[k].depth > doc[j].depth}

PathOf(doc, i) ==
  [d \in 1 .. doc[i].depth |->
     doc[CHOOSE j \in Above(doc, i) : doc[j].depth = d].name]

\* Every path of the document and no other is in the index, and it leads to a
\* node that has it.
Answers(entries, doc) ==
  /\ DOMAIN entries = {PathOf(doc, i) : i \in DOMAIN doc}
  /\ \A path \in DOMAIN entries :
       entries[path] \in DOMAIN doc /\ PathOf(doc, entries[path]) = path
==============================================================================
