----------------------------- MODULE AstBuilderCore -----------------------------
(***************************************************************************)
(* The bottom-up construction of a syntax tree by the external parser,    *)
(* through the node constructors and the canonicalising builders           *)
(* AstAlternation::into_ast and AstConcat::into_ast of                     *)
(* src/regex-syntax-2/src/ast.rs, and the printer applied to the result.   *)
(*                                                                         *)
(* The tree starts as an atom the parser has read (a literal, ., an        *)
(* assertion, a class, a flag group, or nothing at all) and each step      *)
(* applies one construct the pattern grammar allows to the tree built so  *)
(* far: a repetition operator after it, a group around it, one more atom  *)
(* concatenated to it, or one more branch after it.  Which constructs the  *)
(* parser applies to which trees is its grammar and comes from the         *)
(* specification; the node shapes and the builders come from ast.rs.       *)
(* The printer applied to the trees is in AstBuilder.                      *)
(***************************************************************************)
EXTENDS Naturals, Sequences

CONSTANTS
  Atoms,          \* the atoms the parser may read
  Partners,       \* the atoms it may concatenate or alternate with the tree
  RepeatOps,      \* AstRepetitionKind values offered
  GroupKinds,     \* AstGroupKind values offered
  MaxSteps        \* bound on the constructs applied

(* The node variants of Ast, and those without children: what the parser   *)
(* reads as one atom.                                                      *)
AstVariants ==
  {"Empty", "Flags", "Literal", "Dot", "Assertion", "Perl", "Unicode", "Set",
   "Repetition", "Group", "Alternation", "Concat"}

LeafVariants == AstVariants \ {"Repetition", "Group", "Alternation", "Concat"}

(* An atom is read as a single node; compound nodes are built by the       *)
(* constructs below.                                                       *)
ASSUME AtomsAssumption == \A a \in Atoms \cup Partners : a.t \in LeafVariants

ASSUME MaxStepsAssumption == MaxSteps \in Nat

EmptyAst == [t |-> "Empty"]

(* Mutant of IntoAst: a single child keeps its wrapping node.             *)
IntoAstKeepOne(t, asts) ==
  IF Len(asts) = 0 THEN EmptyAst ELSE [t |-> t, asts |-> asts]

(* AstAlternation::into_ast and AstConcat::into_ast: no child is Empty,    *)
(* one child is that child, more keep the node.                            *)
IntoAst(t, asts) ==
  CASE Len(asts) = 0 -> EmptyAst
    [] Len(asts) = 1 -> asts[1]
    [] OTHER         -> [t |-> t, asts |-> asts]

(* The last branch of a tree, and the last atom of that branch: where    *)
(* the next atom or repetition operator of the pattern goes.               *)
LastBranch(a) == IF a.t = "Alternation" THEN a.asts[Len(a.asts)] ELSE a

LastAtom(a) ==
  LET br == LastBranch(a) IN IF br.t = "Concat" THEN br.asts[Len(br.asts)] ELSE br

(* Mutant of CanRepeat: ? is accepted after a greedy repetition.          *)
CanRepeatAnyOperand(a, op) ==
  LastAtom(a).t \notin {"Empty", "Flags"}

(* The grammar: a repetition operator applies to the atom, group or        *)
(* repetition before it, never to nothing or to a flag group; and a ? that *)
(* follows a greedy repetition operator makes it lazy, so a ZeroOrOne      *)
(* repetition never has a greedy repetition as its operand.                *)
CanRepeat(a, op) ==
  LET x == LastAtom(a) IN
  /\ x.t \notin {"Empty", "Flags"}
  /\ ~(op.k = "ZeroOrOne" /\ x.t = "Repetition" /\ x.greedy)

(* A group may not be empty (ErrorKind::GroupEmpty).                       *)
CanGroup(a) == a.t # "Empty"

(* The node constructors: Ast::Repetition(AstRepetition { op, greedy, ast   *)
(* }) and Ast::Group(AstGroup { kind, ast }).                               *)
Repetition(a, op, greedy) == [t |-> "Repetition", op |-> op, greedy |-> greedy, ast |-> a]

Group(a, k) == [t |-> "Group", kind |-> k, ast |-> a]

(* The children a concatenation collects: those of the branch read so     *)
(* far (none for an empty one), then the new atom; into_ast canonicalises. *)
ConcatChildren(br) ==
  CASE br.t = "Concat" -> br.asts [] br.t = "Empty" -> <<>> [] OTHER -> <<br>>

ConcatOnto(br, b) == IntoAst("Concat", ConcatChildren(br) \o <<b>>)

(* The parser's step for a repetition operator: the last atom of the last *)
(* branch becomes its operand.                                             *)
RepeatLast(a, op, g) ==
  LET rep(br) == IF br.t = "Concat"
                 THEN [br EXCEPT !.asts[Len(br.asts)] = Repetition(@, op, g)]
                 ELSE Repetition(br, op, g)
  IN  IF a.t = "Alternation" THEN [a EXCEPT !.asts[Len(a.asts)] = rep(@)] ELSE rep(a)

(* The parser's step for an atom: it joins the last branch.                *)
ConcatLast(a, b) ==
  IF a.t = "Alternation"
  THEN [a EXCEPT !.asts[Len(a.asts)] = ConcatOnto(@, b)]
  ELSE ConcatOnto(a, b)

(* A | closes the last branch and opens an empty one.                      *)
AlternationChildren(a) == IF a.t = "Alternation" THEN a.asts ELSE <<a>>

AlternateWith(a) == IntoAst("Alternation", AlternationChildren(a) \o <<EmptyAst>>)

(* The trees one construct turns a into.                                   *)
Successors(a) ==
  {RepeatLast(a, p[1], p[2]) : p \in {q \in RepeatOps \X BOOLEAN : CanRepeat(a, q[1])}}
  \cup {Group(a, k) : k \in {x \in GroupKinds : CanGroup(a)}}
  \cup {ConcatLast(a, b) : b \in Partners}
  \cup {AlternateWith(a)}

VARIABLES
  ast,    \* the tree built so far
  steps   \* the constructs applied to it

vars == <<ast, steps>>

Init ==
  /\ ast \in Atoms
  /\ steps = 0

(* The parser reads a repetition operator after the last atom.             *)
Repeat(op, g) ==
  /\ steps < MaxSteps
  /\ CanRepeat(ast, op)
  /\ ast' = RepeatLast(ast, op, g)
  /\ steps' = steps + 1

(* The parser closes a group around everything read so far.                *)
Wrap(k) ==
  /\ steps < MaxSteps
  /\ CanGroup(ast)
  /\ ast' = Group(ast, k)
  /\ steps' = steps + 1

(* The parser reads one more atom of the last branch.                      *)
Concat(b) ==
  /\ steps < MaxSteps
  /\ ast' = ConcatLast(ast, b)
  /\ steps' = steps + 1

(* The parser reads a |.                                                   *)
Alternate ==
  /\ steps < MaxSteps
  /\ ast' = AlternateWith(ast)
  /\ steps' = steps + 1

Next ==
  \/ \E op \in RepeatOps, g \in BOOLEAN : Repeat(op, g)
  \/ \E k \in GroupKinds : Wrap(k)
  \/ \E b \in Partners : Concat(b)
  \/ Alternate

Spec == Init /\ [][Next]_vars

-----------------------------------------------------------------------------

(* The children of a node.                                                 *)
Kids(x) ==
  CASE x.t \in {"Concat", "Alternation"} -> {x.asts[i] : i \in 1 .. Len(x.asts)}
    [] x.t \in {"Repetition", "Group"}   -> {x.ast}
    [] OTHER                             -> {}

(* x is a node of the tree: it lies in every set that holds the tree and  *)
(* the children of each of its members.                                    *)
IsNode(x) == \A S : ast \in S /\ (\A y \in S : Kids(y) \subseteq S) => x \in S

(* What TypeOK and Canonical of AstBuilder say of one node.                *)
NodeOK(x) ==
  /\ x.t \in AstVariants
  /\ x.t = "Repetition" => x.op \in RepeatOps /\ x.greedy \in BOOLEAN
  /\ x.t = "Group" => x.kind \in GroupKinds
  /\ x.t \in {"Concat", "Alternation"} =>
       /\ Len(x.asts) >= 2
       /\ \A i \in 1 .. Len(x.asts) : x.asts[i].t # x.t

(* However the parser interleaves repetitions, groups, concatenations and  *)
(* alternations, every node of the tree it builds is a well-typed Ast      *)
(* variant, and every Concat and Alternation that into_ast leaves has two  *)
(* or more children, none of its own variant: TypeOK and Canonical of     *)
(* AstBuilder, over the nodes defined without recursion.                   *)
NodesWellFormed ==
  /\ steps \in 0 .. MaxSteps
  /\ \A x : IsNode(x) => NodeOK(x)

=============================================================================
