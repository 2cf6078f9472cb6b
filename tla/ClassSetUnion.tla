---------------------------- MODULE ClassSetUnion ----------------------------
(***************************************************************************)
(* AstClassSetUnion::push of src/regex-syntax-2/src/ast.rs (in AstSpan),  *)
(* driven by a parser that reads the items of a bracketed class such as   *)
(* [a-z0-9] left to right.                                                 *)
(*                                                                         *)
(* The parser opens a union with Span::splat at its current position and  *)
(* pushes each item once it has read it; an item is abstracted to its      *)
(* variant and its span.  In verbose mode (x flag) whitespace and comments *)
(* may separate two items, so an item may start after the previous end.    *)
(***************************************************************************)
EXTENDS AstSpan

CONSTANTS
  ItemKinds,   \* AstClassSetItem leaf variants: Literal, Range, Ascii
  MaxItemLen,  \* bound on the bytes one item spans
  MaxGap       \* bound on the whitespace skipped between two items

ASSUME MaxItemLenAssumption == MaxItemLen \in Nat \ {0}
ASSUME MaxGapAssumption == MaxGap \in Nat

(* The items here are leaves; nested classes are the business of module   *)
(* ClassSetNesting.                                                        *)
ASSUME LeafKindsAssumption == "Class" \notin ItemKinds

VARIABLES
  union,   \* the AstClassSetUnion being built
  opened,  \* history: the offset at which the parser opened it
  cursor   \* the parser's offset: the end of the last item read

vars == <<union, opened, cursor>>

(* The parser opens the union just inside [ or [^.                         *)
Init ==
  /\ opened \in 1 .. 2
  /\ cursor = opened
  /\ union = [span |-> Splat(Pos(opened)), items |-> <<>>]

(* The parser has read an item of kind k spanning bytes [s, e) and pushes  *)
(* it.                                                                     *)
Push(k, s, e) ==
  /\ s \in cursor .. cursor + MaxGap
  /\ e \in s + 1 .. s + MaxItemLen
  /\ e <= MaxPos
  /\ union' = UnionPush(union, [kind |-> k, span |-> SpanNew(Pos(s), Pos(e))])
  /\ cursor' = e
  /\ UNCHANGED opened

Next == \E k \in ItemKinds, s, e \in 0 .. MaxPos : Push(k, s, e)

Spec == Init /\ [][Next]_vars

-----------------------------------------------------------------------------

(* Type invariant: the union and its items carry well-formed spans.        *)
TypeOK ==
  /\ union.span \in Span
  /\ union.items \in Seq([kind : ItemKinds, span : Span])
  /\ opened \in 1 .. 2
  /\ cursor \in 0 .. MaxPos

(* The span of a union is exactly that of its items, however many pushes  *)
(* and skipped bytes came before: it starts where the first item starts   *)
(* and ends where the last item ends, and an empty union keeps the zero-   *)
(* width span it was opened with.                                          *)
UnionSpanFitsItems ==
  LET its == union.items
      n == Len(its)
  IN  IF n = 0
      THEN union.span = Splat(Pos(opened))
      ELSE /\ union.span.start = its[1].span.start
           /\ union.span.end = its[n].span.end

(* A push never rewrites what earlier pushes built (the doc comment of    *)
(* AstClassSetUnion::push: a union built only by push never needs its span *)
(* adjusted): the items already pushed stay in place, a non-empty union    *)
(* keeps its start, and the end moves forward to the new item's end.      *)
OnlyExtends ==
  /\ SubSeq(union'.items, 1, Len(union.items)) = union.items
  /\ union.items # <<>> => union'.span.start = union.span.start
  /\ union.span.end.offset < union'.span.end.offset

PushOnlyExtends == [][OnlyExtends]_vars

=============================================================================
