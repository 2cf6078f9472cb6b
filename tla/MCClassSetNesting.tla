-------------------------- MODULE MCClassSetNesting --------------------------
(* Model-checking instance of ClassSetNesting: literals and ranges of one  *)
(* or two bytes, two binary operators, brackets nested two deep, in a      *)
(* pattern of eight bytes (room for [a[b]&&c] and [^a--b] and the like).   *)
EXTENDS ClassSetTrees

CONSTANTS Literal, Range, Intersection, Difference

MCLeafKinds == {Literal, Range}

MCOpKinds == {Intersection, Difference}

=============================================================================
