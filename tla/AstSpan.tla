-------------------------------- MODULE AstSpan --------------------------------
(***************************************************************************)
(* Span and Position of src/regex-syntax-2/src/ast.rs, the span accessors *)
(* of the class-set nodes, and the one builder method that grows a span,  *)
(* AstClassSetUnion::push.  Positions are those of a one-line pattern of   *)
(* MaxPos bytes.                                                           *)
(***************************************************************************)
EXTENDS Naturals, Sequences

CONSTANT MaxPos   \* the length of the pattern

ASSUME MaxPosAssumption == MaxPos \in Nat /\ MaxPos >= 2

(* Position { offset, line, column }, line and column counted from 1.     *)
Position == [offset : 0 .. MaxPos, line : Nat \ {0}, column : Nat \ {0}]

(* Span { start, end }, with start.offset <= end.offset.                   *)
Span == {s \in [start : Position, end : Position] :
           s.start.offset <= s.end.offset}

PositionNew(offset, line, column) ==
  [offset |-> offset, line |-> line, column |-> column]

(* Mutant of SpanNew: the two positions are swapped.                      *)
SpanNewSwapped(start, end) == [start |-> end, end |-> start]

SpanNew(start, end) == [start |-> start, end |-> end]

Splat(p) == SpanNew(p, p)

WithStart(span, p) == [span EXCEPT !.start = p]

WithEnd(span, p) == [span EXCEPT !.end = p]

(* The parser's position at byte offset o of a one-line pattern.           *)
Pos(o) == PositionNew(o, 1, o + 1)

(* The class nodes.  An AstClass is [t |-> variant, x |-> payload] and    *)
(* every payload carries its span; an AstClassSetOp is a Union [t, u] or a *)
(* BinaryOp [t, x]; a nested class item is [kind |-> "Class", cls].        *)

(* Mutant of OpSpan: a binary operation reports the span of its rhs.       *)
OpSpanRhs(op) == IF op.t = "Union" THEN op.u.span ELSE op.x.rhs.u.span

(* AstClassSetOp::span.                                                    *)
OpSpan(op) == IF op.t = "Union" THEN op.u.span ELSE op.x.span

(* Mutant of ClassSpan: a bracketed class reports the span of its op,     *)
(* without the brackets.                                                   *)
ClassSpanOfOp(c) == IF c.t = "Set" THEN OpSpan(c.x.op) ELSE c.x.span

(* AstClass::span.                                                         *)
ClassSpan(c) == c.x.span

(* AstClassSetItem::span: a literal, range or ASCII class carries its span, *)
(* a nested class reports its own.                                         *)
ItemSpan(item) == IF item.kind = "Class" THEN ClassSpan(item.cls) ELSE item.span

(* Mutant of UnionPush: the start is moved on every push.                  *)
UnionPushAlwaysStart(u, item) ==
  [span |-> WithEnd(WithStart(u.span, ItemSpan(item).start),
                    ItemSpan(item).end),
   items |-> Append(u.items, item)]

(* Mutant of UnionPush: the end is only set by the first push.             *)
UnionPushEndOnce(u, item) ==
  IF u.items = <<>>
  THEN [span |-> WithEnd(WithStart(u.span, ItemSpan(item).start),
                         ItemSpan(item).end),
        items |-> Append(u.items, item)]
  ELSE [u EXCEPT !.items = Append(u.items, item)]

(* AstClassSetUnion::push: an empty union takes the item's start, every    *)
(* push takes the item's end, and the item is appended.                    *)
UnionPush(u, item) ==
  LET s == IF u.items = <<>> THEN WithStart(u.span, ItemSpan(item).start)
           ELSE u.span
  IN  [span |-> WithEnd(s, ItemSpan(item).end),
       items |-> Append(u.items, item)]

=============================================================================
