----------------------------- MODULE AstBuilder -----------------------------
(***************************************************************************)
(* The trees of AstBuilderCore, walked as trees and printed: the node      *)
(* invariants over every node of the tree, and the printer's injectivity  *)
(* over every tree the parser builds in MaxSteps constructs.               *)
(***************************************************************************)
EXTENDS AstBuilderCore, Printer

(* The trees the parser can build with at most n constructs.               *)
Reach[n \in 0 .. MaxSteps] ==
  IF n = 0 THEN Atoms ELSE Reach[n - 1] \cup UNION {Successors(a) : a \in Reach[n - 1]}

Universe == Reach[MaxSteps]

(* The text of every tree of the universe, computed once.                  *)
PrintOf == [a \in Universe |-> PrintAst(a)]

-----------------------------------------------------------------------------

RECURSIVE Nodes(_)
(* Every node of a tree, itself included.                                  *)
Nodes(a) ==
  {a} \cup CASE a.t \in {"Concat", "Alternation"} ->
                  UNION {Nodes(a.asts[i]) : i \in 1 .. Len(a.asts)}
             [] a.t \in {"Repetition", "Group"} -> Nodes(a.ast)
             [] OTHER -> {}

(* The canonicalisation invariant of into_ast (spec 3): every Concat and   *)
(* Alternation node of the tree has at least two children, and none has a *)
(* child of its own variant, however the constructs are interleaved.       *)
Canonical ==
  \A x \in Nodes(ast) :
    x.t \in {"Concat", "Alternation"} =>
      /\ Len(x.asts) >= 2
      /\ \A i \in 1 .. Len(x.asts) : x.asts[i].t # x.t

(* The printer loses nothing (the round-trip law, spec 4.4): no other      *)
(* tree the parser can build in as many constructs prints as this one      *)
(* does, so the text determines the tree.                                  *)
PrintInjective ==
  \A b \in Universe : PrintOf[b] = PrintOf[ast] => b = ast

=============================================================================
