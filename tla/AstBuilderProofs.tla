--------------------------- MODULE AstBuilderProofs ---------------------------
(***************************************************************************)
(* Proofs about the trees AstBuilderCore builds, for every set of atoms,   *)
(* operators, group kinds and number of constructs: every node of the     *)
(* tree is a well-typed Ast variant and into_ast leaves every Concat and   *)
(* Alternation with two or more children, none of its own variant.         *)
(*                                                                         *)
(* The nodes of the tree are the least set closed under Kids.  The         *)
(* invariant keeps a witness: a set S holding the tree, every member of    *)
(* which is typed with its children in S.  Such a set is closed under     *)
(* Kids, so every node lies in it.                                         *)
(***************************************************************************)
EXTENDS AstBuilderCore, SequenceTheorems, TLAPS

USE MaxStepsAssumption

(* x is a node whose children lie in S, of one of the shapes the node      *)
(* constructors and into_ast produce.                                      *)
Typed(x, S) ==
  \/ x.t \in LeafVariants
  \/ x \in [t : {"Repetition"}, op : RepeatOps, greedy : BOOLEAN, ast : S]
  \/ x \in [t : {"Group"}, kind : GroupKinds, ast : S]
  \/ /\ x \in [t : {"Concat", "Alternation"}, asts : Seq(S)]
     /\ Len(x.asts) >= 2
     /\ \A i \in 1 .. Len(x.asts) : x.asts[i].t # x.t

(* S holds a and is typed over itself.                                     *)
Closed(a, S) == a \in S /\ \A x \in S : Typed(x, S)

Inv == steps \in 0 .. MaxSteps /\ \E S : Closed(ast, S)

(* The last child of a Concat or Alternation, and the node with it        *)
(* replaced: where the parser's next atom or operator goes.                *)
Last(x) == x.asts[Len(x.asts)]

SetLast(x, v) == [x EXCEPT !.asts[Len(x.asts)] = v]

(* r can be added to S with new nodes N typed over S and N.                *)
Grown(r, S) == \E N : r \in S \cup N /\ \A x \in N : Typed(x, S \cup N)

(* The parser's repetition of the last atom of a branch.                   *)
RepOf(br, op, g) ==
  IF br.t = "Concat" THEN SetLast(br, Repetition(Last(br), op, g)) ELSE Repetition(br, op, g)

-----------------------------------------------------------------------------

LEMMA TypedMonotone ==
  ASSUME NEW S, NEW T, S \subseteq T, NEW x, Typed(x, S)
  PROVE  Typed(x, T)
<1>1. CASE x \in [t : {"Concat", "Alternation"}, asts : Seq(S)]
  <2>1. x.asts \in Seq(T)
    BY <1>1, SeqMonotonic
  <2>. QED
    BY <1>1, <2>1 DEF Typed
<1>. QED
  BY <1>1 DEF Typed

(* A compound node is of its record shape.                                 *)
LEMMA TypedCompound ==
  ASSUME NEW S, NEW x, Typed(x, S)
  PROVE  /\ x.t = "Repetition" =>
              x \in [t : {"Repetition"}, op : RepeatOps, greedy : BOOLEAN, ast : S]
         /\ x.t = "Group" => x \in [t : {"Group"}, kind : GroupKinds, ast : S]
         /\ x.t \in {"Concat", "Alternation"} =>
              /\ x \in [t : {"Concat", "Alternation"}, asts : Seq(S)]
              /\ Len(x.asts) >= 2
              /\ \A i \in 1 .. Len(x.asts) : x.asts[i].t # x.t
  BY DEF Typed, LeafVariants, AstVariants

LEMMA KidsIn ==
  ASSUME NEW S, NEW x, Typed(x, S)
  PROVE  Kids(x) \subseteq S
<1>1. CASE x.t \in {"Concat", "Alternation"}
  <2>1. x.asts \in Seq(S)
    BY <1>1, TypedCompound
  <2>2. \A i \in 1 .. Len(x.asts) : x.asts[i] \in S
    BY <2>1, ElementOfSeq
  <2>. QED
    BY <1>1, <2>2 DEF Kids
<1>2. CASE x.t \in {"Repetition", "Group"}
  BY <1>2, TypedCompound DEF Kids
<1>3. CASE x.t \notin {"Concat", "Alternation", "Repetition", "Group"}
  BY <1>3 DEF Kids
<1>. QED
  BY <1>1, <1>2, <1>3

LEMMA TypedOK ==
  ASSUME NEW S, NEW x, Typed(x, S)
  PROVE  NodeOK(x)
  BY DEF Typed, NodeOK, LeafVariants, AstVariants

LEMMA InvNodes == Inv => NodesWellFormed
<1> SUFFICES ASSUME Inv, NEW x, IsNode(x) PROVE NodeOK(x)
  BY DEF Inv, NodesWellFormed
<1>1. PICK S : Closed(ast, S)
  BY DEF Inv
<1>2. \A y \in S : Kids(y) \subseteq S
  BY <1>1, KidsIn DEF Closed
<1>3. x \in S
  BY <1>1, <1>2 DEF IsNode, Closed
<1>. QED
  BY <1>1, <1>3, TypedOK DEF Closed

LEMMA InitInv == Init => Inv
<1> SUFFICES ASSUME Init PROVE Inv
  OBVIOUS
<1>1. Typed(ast, {ast})
  BY AtomsAssumption DEF Init, Typed
<1>. QED
  BY <1>1 DEF Init, Inv, Closed

(* Adding new nodes typed over the enlarged set keeps it closed.           *)
LEMMA Extend ==
  ASSUME NEW a, NEW S, Closed(a, S), NEW N, \A x \in N : Typed(x, S \cup N),
         NEW b \in S \cup N
  PROVE  Closed(b, S \cup N)
<1>1. \A x \in S : Typed(x, S \cup N)
  BY TypedMonotone DEF Closed
<1>. QED
  BY <1>1 DEF Closed

(* The node constructors build typed nodes.                                *)
LEMMA RepTyped ==
  ASSUME NEW S, NEW a \in S, NEW op \in RepeatOps, NEW g \in BOOLEAN
  PROVE  Typed(Repetition(a, op, g), S) /\ Repetition(a, op, g).t = "Repetition"
  BY DEF Typed, Repetition

LEMMA GroupTyped ==
  ASSUME NEW S, NEW a \in S, NEW k \in GroupKinds
  PROVE  Typed(Group(a, k), S)
  BY DEF Typed, Group

LEMMA SeqNodeTyped ==
  ASSUME NEW S, NEW v \in {"Concat", "Alternation"}, NEW s \in Seq(S),
         Len(s) >= 2, \A i \in 1 .. Len(s) : s[i].t # v
  PROVE  Typed([t |-> v, asts |-> s], S)
  BY DEF Typed

(* Replacing the last child of a Concat or Alternation by a node of       *)
(* another variant keeps it typed.                                         *)
LEMMA SetLastTyped ==
  ASSUME NEW S, NEW x, Typed(x, S), x.t \in {"Concat", "Alternation"},
         NEW v, v.t # x.t
  PROVE  Typed(SetLast(x, v), S \cup {v}) /\ SetLast(x, v).t = x.t
<1> DEFINE L == Len(x.asts)
           e == [x.asts EXCEPT ![L] = v]
<1>1. /\ x \in [t : {"Concat", "Alternation"}, asts : Seq(S)]
      /\ L >= 2
      /\ \A i \in 1 .. L : x.asts[i].t # x.t
  BY TypedCompound
<1>2. x.asts \in Seq(S \cup {v})
  BY <1>1, SeqMonotonic
<1>3. L \in 1 .. L
  BY <1>1, <1>2, LenProperties
<1>4. /\ e \in Seq(S \cup {v})
      /\ Len(e) = L
      /\ \A j \in 1 .. L : e[j] = IF j = L THEN v ELSE x.asts[j]
  BY <1>2, <1>3, ExceptSeq
<1>5. SetLast(x, v) = [t |-> x.t, asts |-> e]
  BY <1>1 DEF SetLast
<1>6. \A j \in 1 .. Len(e) : e[j].t # x.t
  BY <1>1, <1>4
<1>7. Len(e) >= 2
  BY <1>1, <1>4
<1>8. Typed([t |-> x.t, asts |-> e], S \cup {v})
  BY <1>1, <1>4, <1>6, <1>7, SeqNodeTyped
<1>. QED
  BY <1>5, <1>8

(* into_ast of one or more children.                                       *)
LEMMA IntoAstCases ==
  ASSUME NEW v, NEW S, NEW s \in Seq(S), Len(s) >= 1
  PROVE  \/ Len(s) = 1 /\ IntoAst(v, s) = s[1]
         \/ Len(s) >= 2 /\ IntoAst(v, s) = [t |-> v, asts |-> s]
<1>1. PICK n \in Nat : n = Len(s)
  BY LenProperties
<1>2. CASE n = 1
  BY <1>1, <1>2 DEF IntoAst
<1>3. CASE n # 1
  <2>1. n # 0 /\ n >= 2
    BY <1>1, <1>3
  <2>. QED
    BY <1>1, <2>1 DEF IntoAst
<1>. QED
  BY <1>2, <1>3

(* One more atom joins a branch: the branch becomes the atom or a Concat.  *)
LEMMA ConcatOntoTyped ==
  ASSUME NEW S, NEW br, Typed(br, S), br \in S, br.t # "Alternation",
         NEW b, b.t \in LeafVariants
  PROVE  /\ Typed(ConcatOnto(br, b), S \cup {b})
         /\ ConcatOnto(br, b).t # "Alternation"
<1> DEFINE s == ConcatChildren(br) \o <<b>>
<1>1. b.t # "Concat" /\ b.t # "Alternation" /\ Typed(b, S \cup {b})
  BY DEF LeafVariants, AstVariants, Typed
<1>2. ConcatChildren(br) \in Seq(S)
      /\ \A i \in 1 .. Len(ConcatChildren(br)) : ConcatChildren(br)[i].t # "Concat"
  <2>1. CASE br.t = "Concat"
    BY <2>1, TypedCompound DEF ConcatChildren
  <2>2. CASE br.t = "Empty"
    BY <2>2 DEF ConcatChildren
  <2>3. CASE br.t \notin {"Concat", "Empty"}
    BY <2>3 DEF ConcatChildren
  <2>. QED
    BY <2>1, <2>2, <2>3
<1>3. <<b>> \in Seq(S \cup {b}) /\ ConcatChildren(br) \in Seq(S \cup {b})
  BY <1>2, SeqMonotonic
<1>4. /\ s \in Seq(S \cup {b})
      /\ Len(s) = Len(ConcatChildren(br)) + 1
      /\ \A i \in 1 .. Len(s) : s[i].t # "Concat"
  <2>1. Len(ConcatChildren(br)) \in Nat
    BY <1>2, LenProperties
  <2>. QED
    BY <1>1, <1>2, <1>3, <2>1, ConcatProperties
<1>5. Len(s) >= 1
  BY <1>2, <1>4, LenProperties
<1>6. CASE Len(s) = 1 /\ ConcatOnto(br, b) = s[1]
  <2>1. Len(ConcatChildren(br)) = 0
    BY <1>2, <1>4, <1>6, LenProperties
  <2>2. s[1] = b
    BY <1>2, <1>3, <2>1, ConcatProperties
  <2>. QED
    BY <1>1, <1>6, <2>2
<1>7. CASE Len(s) >= 2 /\ ConcatOnto(br, b) = [t |-> "Concat", asts |-> s]
  <2>1. Typed([t |-> "Concat", asts |-> s], S \cup {b})
    BY <1>4, <1>7, SeqNodeTyped
  <2>. QED
    BY <1>7, <2>1
<1>. QED
  BY <1>4, <1>5, <1>6, <1>7, IntoAstCases DEF ConcatOnto

(* A | turns the tree into an Alternation ending in an empty branch.       *)
LEMMA AlternateTyped ==
  ASSUME NEW S, NEW a, Typed(a, S), a \in S
  PROVE  Typed(AlternateWith(a), S \cup {EmptyAst})
<1> DEFINE ch == AlternationChildren(a)
           s == ch \o <<EmptyAst>>
<1>1. ch \in Seq(S) /\ Len(ch) >= 1 /\ \A i \in 1 .. Len(ch) : ch[i].t # "Alternation"
  <2>1. CASE a.t = "Alternation"
    BY <2>1, TypedCompound DEF AlternationChildren
  <2>2. CASE a.t # "Alternation"
    BY <2>2 DEF AlternationChildren
  <2>. QED
    BY <2>1, <2>2
<1>2. ch \in Seq(S \cup {EmptyAst}) /\ <<EmptyAst>> \in Seq(S \cup {EmptyAst})
  BY <1>1, SeqMonotonic
<1>3. /\ s \in Seq(S \cup {EmptyAst})
      /\ Len(s) = Len(ch) + 1
      /\ \A i \in 1 .. Len(s) : s[i].t # "Alternation"
  <2>1. Len(ch) \in Nat
    BY <1>1, LenProperties
  <2>2. EmptyAst.t # "Alternation"
    BY DEF EmptyAst
  <2>. QED
    BY <1>1, <1>2, <2>1, <2>2, ConcatProperties
<1>4. Len(s) >= 2
  BY <1>1, <1>3
<1>5. AlternateWith(a) = [t |-> "Alternation", asts |-> s]
  <2>1. \/ Len(s) = 1 /\ IntoAst("Alternation", s) = s[1]
        \/ Len(s) >= 2 /\ IntoAst("Alternation", s) = [t |-> "Alternation", asts |-> s]
    <3>1. Len(s) >= 1
      BY <1>4
    <3>. QED
      BY <1>3, <3>1, IntoAstCases
  <2>2. Len(s) # 1
    BY <1>4
  <2>. QED
    BY <2>1, <2>2 DEF AlternateWith
<1>. QED
  BY <1>3, <1>4, <1>5, SeqNodeTyped

(* A member of S whose children are typed, grown by typed nodes, is the   *)
(* root of a closed set.                                                   *)
LEMMA GrownClosed ==
  ASSUME NEW a, NEW S, Closed(a, S), NEW r, Grown(r, S)
  PROVE  \E T : Closed(r, T)
<1>1. PICK N : r \in S \cup N /\ \A x \in N : Typed(x, S \cup N)
  BY DEF Grown
<1>. QED
  BY <1>1, Extend

(* Replacing the last branch of an Alternation by a grown node of another *)
(* variant grows the Alternation.                                          *)
LEMMA GrowLast ==
  ASSUME NEW S, \A x \in S : Typed(x, S), NEW a \in S, a.t = "Alternation",
         NEW r, Grown(r, S), r.t # "Alternation"
  PROVE  Grown(SetLast(a, r), S)
<1>1. PICK N : r \in S \cup N /\ \A x \in N : Typed(x, S \cup N)
  BY DEF Grown
<1>2. Typed(a, S \cup N)
  BY TypedMonotone
<1>3. Typed(SetLast(a, r), (S \cup N) \cup {r})
  BY <1>2, SetLastTyped
<1>4. (S \cup N) \cup {r} = S \cup N
  BY <1>1
<1>5. \A x \in N \cup {SetLast(a, r)} : Typed(x, S \cup (N \cup {SetLast(a, r)}))
  BY <1>1, <1>3, <1>4, TypedMonotone
<1>. QED
  BY <1>5 DEF Grown

(* The repetition step grows a branch that is not an Alternation.          *)
LEMMA RepOfGrown ==
  ASSUME NEW S, \A x \in S : Typed(x, S), NEW br \in S, br.t # "Alternation",
         NEW op \in RepeatOps, NEW g \in BOOLEAN
  PROVE  Grown(RepOf(br, op, g), S) /\ RepOf(br, op, g).t # "Alternation"
<1>1. CASE br.t = "Concat"
  <2> DEFINE y == Last(br)
             R == Repetition(y, op, g)
  <2>1. br.asts \in Seq(S) /\ Len(br.asts) >= 2
    BY <1>1, TypedCompound
  <2>2. y \in S
    <3>1. Len(br.asts) \in 1 .. Len(br.asts)
      BY <2>1, LenProperties
    <3>. QED
      BY <2>1, <3>1, ElementOfSeq DEF Last
  <2>3. Typed(R, S) /\ R.t = "Repetition"
    BY <2>2, RepTyped
  <2>4. Typed(SetLast(br, R), S \cup {R}) /\ SetLast(br, R).t = "Concat"
    BY <1>1, <2>3, SetLastTyped
  <2>5. \A x \in {R, SetLast(br, R)} : Typed(x, S \cup {R, SetLast(br, R)})
    BY <2>3, <2>4, TypedMonotone
  <2>6. RepOf(br, op, g) = SetLast(br, R)
    BY <1>1 DEF RepOf
  <2>. QED
    BY <2>4, <2>5, <2>6 DEF Grown
<1>2. CASE br.t # "Concat"
  <2> DEFINE R == Repetition(br, op, g)
  <2>1. Typed(R, S) /\ R.t = "Repetition"
    BY RepTyped
  <2>2. \A x \in {R} : Typed(x, S \cup {R})
    BY <2>1, TypedMonotone
  <2>3. RepOf(br, op, g) = R
    BY <1>2 DEF RepOf
  <2>. QED
    BY <2>1, <2>2, <2>3 DEF Grown
<1>. QED
  BY <1>1, <1>2

LEMMA RepeatLastIs ==
  ASSUME NEW a, NEW op, NEW g
  PROVE  RepeatLast(a, op, g) =
           IF a.t = "Alternation" THEN SetLast(a, RepOf(Last(a), op, g)) ELSE RepOf(a, op, g)
  BY DEF RepeatLast, SetLast, RepOf, Last

LEMMA ConcatLastIs ==
  ASSUME NEW a, NEW b
  PROVE  ConcatLast(a, b) =
           IF a.t = "Alternation" THEN SetLast(a, ConcatOnto(Last(a), b)) ELSE ConcatOnto(a, b)
  BY DEF ConcatLast, SetLast, Last

(* The last branch of an Alternation is a member of S of another variant. *)
LEMMA LastBranchIn ==
  ASSUME NEW S, NEW a, Typed(a, S), a.t = "Alternation"
  PROVE  Last(a) \in S /\ Last(a).t # "Alternation"
<1>1. a.asts \in Seq(S) /\ Len(a.asts) >= 2 /\ \A i \in 1 .. Len(a.asts) : a.asts[i].t # a.t
  BY TypedCompound
<1>2. Len(a.asts) \in 1 .. Len(a.asts)
  BY <1>1, LenProperties
<1>. QED
  BY <1>1, <1>2, ElementOfSeq DEF Last

(* Each construct of the parser turns a closed tree into a closed tree.    *)
LEMMA RepeatClosed ==
  ASSUME NEW S, Closed(ast, S), NEW op \in RepeatOps, NEW g \in BOOLEAN
  PROVE  \E T : Closed(RepeatLast(ast, op, g), T)
<1>1. (\A x \in S : Typed(x, S)) /\ ast \in S /\ Typed(ast, S)
  BY DEF Closed
<1>2. Grown(RepeatLast(ast, op, g), S)
  <2>1. CASE ast.t = "Alternation"
    <3>1. Last(ast) \in S /\ Last(ast).t # "Alternation"
      BY <1>1, <2>1, LastBranchIn
    <3>2. Grown(RepOf(Last(ast), op, g), S) /\ RepOf(Last(ast), op, g).t # "Alternation"
      BY <1>1, <3>1, RepOfGrown
    <3>3. Grown(SetLast(ast, RepOf(Last(ast), op, g)), S)
      BY <1>1, <2>1, <3>2, GrowLast
    <3>. QED
      BY <2>1, <3>3, RepeatLastIs
  <2>2. CASE ast.t # "Alternation"
    BY <1>1, <2>2, RepOfGrown, RepeatLastIs
  <2>. QED
    BY <2>1, <2>2
<1>. QED
  BY <1>2, GrownClosed

LEMMA ConcatOntoGrown ==
  ASSUME NEW S, \A x \in S : Typed(x, S), NEW br \in S, br.t # "Alternation",
         NEW b, b.t \in LeafVariants
  PROVE  Grown(ConcatOnto(br, b), S) /\ ConcatOnto(br, b).t # "Alternation"
<1> DEFINE c == ConcatOnto(br, b)
<1>1. Typed(c, S \cup {b}) /\ c.t # "Alternation"
  BY ConcatOntoTyped
<1>2. \A x \in {b, c} : Typed(x, S \cup {b, c})
  <2>1. Typed(b, S \cup {b, c})
    BY DEF Typed
  <2>. QED
    BY <1>1, <2>1, TypedMonotone
<1>. QED
  BY <1>1, <1>2 DEF Grown

LEMMA ConcatClosed ==
  ASSUME NEW S, Closed(ast, S), NEW b \in Partners
  PROVE  \E T : Closed(ConcatLast(ast, b), T)
<1>1. (\A x \in S : Typed(x, S)) /\ ast \in S /\ Typed(ast, S)
  BY DEF Closed
<1>2. b.t \in LeafVariants
  BY AtomsAssumption
<1>3. Grown(ConcatLast(ast, b), S)
  <2>1. CASE ast.t = "Alternation"
    <3>1. Last(ast) \in S /\ Last(ast).t # "Alternation"
      BY <1>1, <2>1, LastBranchIn
    <3>2. Grown(ConcatOnto(Last(ast), b), S) /\ ConcatOnto(Last(ast), b).t # "Alternation"
      BY <1>1, <1>2, <3>1, ConcatOntoGrown
    <3>3. Grown(SetLast(ast, ConcatOnto(Last(ast), b)), S)
      BY <1>1, <2>1, <3>2, GrowLast
    <3>. QED
      BY <2>1, <3>3, ConcatLastIs
  <2>2. CASE ast.t # "Alternation"
    BY <1>1, <1>2, <2>2, ConcatOntoGrown, ConcatLastIs
  <2>. QED
    BY <2>1, <2>2
<1>. QED
  BY <1>3, GrownClosed

LEMMA AlternateClosed ==
  ASSUME NEW S, Closed(ast, S)
  PROVE  \E T : Closed(AlternateWith(ast), T)
<1> DEFINE c == AlternateWith(ast)
<1>1. ast \in S /\ Typed(ast, S)
  BY DEF Closed
<1>2. Typed(c, S \cup {EmptyAst})
  BY <1>1, AlternateTyped
<1>3. \A x \in {EmptyAst, c} : Typed(x, S \cup {EmptyAst, c})
  <2>1. Typed(EmptyAst, S \cup {EmptyAst, c})
    BY DEF Typed, EmptyAst, LeafVariants, AstVariants
  <2>. QED
    BY <1>2, <2>1, TypedMonotone
<1>4. Grown(c, S)
  BY <1>3 DEF Grown
<1>. QED
  BY <1>4, GrownClosed

LEMMA WrapClosed ==
  ASSUME NEW S, Closed(ast, S), NEW k \in GroupKinds
  PROVE  \E T : Closed(Group(ast, k), T)
<1>1. Typed(Group(ast, k), S)
  BY GroupTyped DEF Closed
<1>2. \A x \in {Group(ast, k)} : Typed(x, S \cup {Group(ast, k)})
  BY <1>1, TypedMonotone
<1>3. Grown(Group(ast, k), S)
  BY <1>2 DEF Grown
<1>. QED
  BY <1>3, GrownClosed

LEMMA StepInv == Inv /\ [Next]_vars => Inv'
<1> SUFFICES ASSUME Inv, [Next]_vars PROVE Inv'
  OBVIOUS
<1>1. PICK S : Closed(ast, S)
  BY DEF Inv
<1>2. steps \in 0 .. MaxSteps
  BY DEF Inv
<1>3. CASE \E op \in RepeatOps, g \in BOOLEAN : Repeat(op, g)
  <2>1. PICK op \in RepeatOps, g \in BOOLEAN : Repeat(op, g)
    BY <1>3
  <2>2. \E T : Closed(RepeatLast(ast, op, g), T)
    BY <1>1, RepeatClosed
  <2>. QED
    BY <1>2, <2>1, <2>2 DEF Repeat, Inv
<1>4. CASE \E k \in GroupKinds : Wrap(k)
  <2>1. PICK k \in GroupKinds : Wrap(k)
    BY <1>4
  <2>2. \E T : Closed(Group(ast, k), T)
    BY <1>1, WrapClosed
  <2>. QED
    BY <1>2, <2>1, <2>2 DEF Wrap, Inv
<1>5. CASE \E b \in Partners : Concat(b)
  <2>1. PICK b \in Partners : Concat(b)
    BY <1>5
  <2>2. \E T : Closed(ConcatLast(ast, b), T)
    BY <1>1, ConcatClosed
  <2>. QED
    BY <1>2, <2>1, <2>2 DEF Concat, Inv
<1>6. CASE Alternate
  <2>1. \E T : Closed(AlternateWith(ast), T)
    BY <1>1, AlternateClosed
  <2>. QED
    BY <1>2, <1>6, <2>1 DEF Alternate, Inv
<1>7. CASE UNCHANGED vars
  BY <1>1, <1>2, <1>7 DEF Inv, vars
<1>. QED
  BY <1>3, <1>4, <1>5, <1>6, <1>7 DEF Next

(* However the parser interleaves repetition operators, groups, atoms and *)
(* bars, every node of the tree it builds through the node constructors   *)
(* and into_ast is a well-typed Ast variant, and every Concat and          *)
(* Alternation has at least two children, none of its own variant: the    *)
(* TypeOK and Canonical invariants of the ast_print run, for every set of  *)
(* atoms, operators, group kinds and number of constructs.                 *)
THEOREM TreesWellFormed == Spec => []NodesWellFormed
<1>1. Init => Inv
  BY InitInv
<1>2. Inv /\ [Next]_vars => Inv'
  BY StepInv
<1>3. Inv => NodesWellFormed
  BY InvNodes
<1>. QED
  BY <1>1, <1>2, <1>3, PTL DEF Spec

=============================================================================
