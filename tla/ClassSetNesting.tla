--------------------------- MODULE ClassSetNesting ---------------------------
(***************************************************************************)
(* Bracketed classes with nested classes and binary operations, such as    *)
(* [a-z[^0-9]&&b], as the external parser builds them from the node types *)
(* of src/regex-syntax-2/src/ast.rs: AstClassSet, AstClassSetOp,           *)
(* AstClassSetUnion, AstClassSetItem and AstClassSetBinaryOp, with the     *)
(* span accessors and AstClassSetUnion::push of module AstSpan.            *)
(*                                                                         *)
(* The parser keeps one frame per open bracket: where it opened, whether   *)
(* it is negated, the pending left operand and operator of a binary        *)
(* operation, and the union being read.  Reading a leaf pushes it on the   *)
(* union; an operator turns the frame's op into a left operand and opens   *)
(* a new union after it; ] closes the class, which becomes the whole       *)
(* result or an item pushed on the enclosing union.  How the parser forms  *)
(* frames and binary spans comes from the specification.                   *)
(***************************************************************************)
EXTENDS AstSpan

CONSTANTS
  LeafKinds,   \* leaf AstClassSetItem variants: Literal, Range, Ascii
  OpKinds,     \* AstClassSetBinaryOpKind values
  MaxItemLen,  \* bound on the bytes one leaf item spans
  MaxDepth     \* bound on the brackets open at once

ASSUME NestingAssumption ==
  /\ MaxItemLen \in Nat \ {0}
  /\ MaxDepth \in Nat \ {0}
  /\ "Class" \notin LeafKinds

(* An empty union opened at offset o.                                      *)
EmptyUnion(o) == [span |-> Splat(Pos(o)), items |-> <<>>]

(* AstClassSetOp::Union(u).                                                *)
UnionOp(u) == [t |-> "Union", u |-> u]

(* AstClassSetOp::BinaryOp: the parser spans it from the start of its lhs *)
(* to the end of its rhs.                                                  *)
BinaryOp(lhs, k, rhs) ==
  [t |-> "BinaryOp",
   x |-> [span |-> SpanNew(OpSpan(lhs).start, OpSpan(rhs).end),
          kind |-> k, lhs |-> lhs, rhs |-> rhs]]

(* The op a frame has read so far: its union, or the pending binary        *)
(* operation with that union as its rhs.                                   *)
FrameOp(fr) ==
  IF fr.lhs = <<>> THEN UnionOp(fr.union)
  ELSE BinaryOp(fr.lhs[1].op, fr.lhs[1].kind, UnionOp(fr.union))

(* AstClass::Set(AstClassSet { span, negated, op }) closed by a ] that     *)
(* ends at offset close.                                                   *)
ClassSet(fr, close) ==
  [t |-> "Set",
   x |-> [span |-> SpanNew(Pos(fr.open), Pos(close)), negated |-> fr.negated,
          op |-> FrameOp(fr)]]

VARIABLES
  frames,  \* the parser's stack of open brackets
  cursor,  \* the parser's offset
  result   \* <<class>> once the outermost ] is read

vars == <<frames, cursor, result>>

Init ==
  /\ frames = <<>>
  /\ cursor = 0
  /\ result = <<>>

Top == frames[Len(frames)]

SetTop(fr) == [frames EXCEPT ![Len(frames)] = fr]

Width(neg) == IF neg THEN 2 ELSE 1

(* [ or [^: a class opens, outermost or nested in the union being read.    *)
Open(neg) ==
  /\ result = <<>>
  /\ Len(frames) < MaxDepth
  /\ cursor + Width(neg) <= MaxPos
  /\ frames' = Append(frames, [open |-> cursor, negated |-> neg, lhs |-> <<>>,
                               union |-> EmptyUnion(cursor + Width(neg))])
  /\ cursor' = cursor + Width(neg)
  /\ UNCHANGED result

(* A literal, range or ASCII class of n bytes is read and pushed.          *)
Leaf(k, n) ==
  /\ frames # <<>>
  /\ cursor + n <= MaxPos
  /\ frames' = SetTop([Top EXCEPT !.union =
                         UnionPush(@, [kind |-> k, span |-> SpanNew(Pos(cursor), Pos(cursor + n))])])
  /\ cursor' = cursor + n
  /\ UNCHANGED result

(* &&, -- or ~~ after a non-empty operand.                                 *)
Operator(k) ==
  /\ frames # <<>>
  /\ Top.union.items # <<>>
  /\ cursor + 2 <= MaxPos
  /\ frames' = SetTop([Top EXCEPT !.lhs = <<[kind |-> k, op |-> FrameOp(Top)]>>,
                                  !.union = EmptyUnion(cursor + 2)])
  /\ cursor' = cursor + 2
  /\ UNCHANGED result

(* ] after a non-empty operand closes the innermost class.                 *)
Close ==
  /\ frames # <<>>
  /\ Top.union.items # <<>>
  /\ cursor + 1 <= MaxPos
  /\ LET cls == ClassSet(Top, cursor + 1)
         rest == SubSeq(frames, 1, Len(frames) - 1)
     IN  IF rest = <<>>
         THEN frames' = <<>> /\ result' = <<cls>>
         ELSE /\ frames' = [rest EXCEPT ![Len(rest)].union =
                              UnionPush(@, [kind |-> "Class", cls |-> cls])]
              /\ UNCHANGED result
  /\ cursor' = cursor + 1

Next ==
  \/ \E neg \in BOOLEAN : Open(neg)
  \/ \E k \in LeafKinds, n \in 1 .. MaxItemLen : Leaf(k, n)
  \/ \E k \in OpKinds : Operator(k)
  \/ Close

Spec == Init /\ [][Next]_vars

-----------------------------------------------------------------------------

(* The spans the nodes hold, read from their fields.                       *)
OwnItemSpan(it) == IF it.kind = "Class" THEN it.cls.x.span ELSE it.span

OwnOpSpan(op) == IF op.t = "Union" THEN op.u.span ELSE op.x.span

ClassItems(u) == {u.items[i] : i \in {j \in 1 .. Len(u.items) : u.items[j].kind = "Class"}}

(* The classes nested as items of a union op.                              *)
ClassesOf(op) == IF op.t = "Union" THEN {it.cls : it \in ClassItems(op.u)} ELSE {}

(* The ops one level down: the operands of a binary operation, the ops of  *)
(* the classes nested in a union.                                          *)
Children(op) ==
  IF op.t = "BinaryOp" THEN {op.x.lhs, op.x.rhs} ELSE {c.x.op : c \in ClassesOf(op)}

(* The ops the parser holds at the top: those of the open frames and of    *)
(* the result.                                                             *)
RootOps ==
  {FrameOp(frames[i]) : i \in 1 .. Len(frames)} \cup {result[i].x.op : i \in 1 .. Len(result)}

(* op lies in every set of ops that holds the roots and the children of    *)
(* its members: it is a node of one of the trees the parser holds.         *)
Reachable(op) ==
  \A S : RootOps \subseteq S /\ (\A o \in S : Children(o) \subseteq S) => op \in S

Within(a, b) == b.start.offset <= a.start.offset /\ a.end.offset <= b.end.offset

Before(a, b) == a.end.offset <= b.start.offset

(* A union contains its items, in source order and without overlap; a      *)
(* binary operation contains its lhs and rhs, lhs first.                   *)
OpNested(op) ==
  IF op.t = "Union"
  THEN LET its == op.u.items IN
       /\ \A i \in 1 .. Len(its) : Within(OwnItemSpan(its[i]), op.u.span)
       /\ \A i \in 1 .. Len(its) - 1 :
            Before(OwnItemSpan(its[i]), OwnItemSpan(its[i + 1]))
  ELSE /\ Within(OwnOpSpan(op.x.lhs), op.x.span)
       /\ Within(OwnOpSpan(op.x.rhs), op.x.span)
       /\ Before(OwnOpSpan(op.x.lhs), OwnOpSpan(op.x.rhs))

(* A class contains its op strictly: the brackets lie outside it.          *)
ClassNested(c) ==
  /\ c.x.span.start.offset < OwnOpSpan(c.x.op).start.offset
  /\ OwnOpSpan(c.x.op).end.offset < c.x.span.end.offset

(* Spans nest (spec 3), stated over the nodes reachable from the parser's  *)
(* roots: every node holds a well-formed span, contains its children in    *)
(* source order, and every class (the result and each nested one)         *)
(* contains its op strictly, however deeply classes and operations are     *)
(* nested.  Module ClassSetTrees states the same over the nodes a walk of  *)
(* the trees collects, which is the form TLC evaluates.                    *)
NestedClosure ==
  /\ \A op : Reachable(op) =>
       /\ OwnOpSpan(op) \in Span
       /\ OpNested(op)
       /\ \A c \in ClassesOf(op) : ClassNested(c)
  /\ \A i \in 1 .. Len(result) : ClassNested(result[i])

=============================================================================
