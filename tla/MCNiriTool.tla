----------------------------- MODULE MCNiriTool -----------------------------
(* NiriTool with documents that nest, repeat a path and share names. *)
EXTENDS NiriTool, TLC

CONSTANTS empty, layout, binds, broken, own, other

Node(name, depth) == [name |-> name, depth |-> depth]

MCText == {empty, layout, binds, broken}

MCTextsOf == own :> {layout, broken} @@ other :> {binds}

MCDocument ==
  empty :> <<>>
  @@ layout :> <<Node("layout", 1), Node("border", 2), Node("width", 3), Node("width", 2),
                 Node("cursor", 1)>>
  @@ binds :> <<Node("binds", 1), Node("Mod+Q", 2), Node("spawn", 3), Node("Mod+Q", 2),
                Node("Mod+T", 2), Node("binds", 1)>>
==============================================================================
