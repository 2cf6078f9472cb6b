------------------------- MODULE ClassSetUnionProofs -------------------------
(***************************************************************************)
(* Proofs about ClassSetUnion, for every pattern length and every bound on *)
(* item length and skipped whitespace.  UnionSpanFitsItems is inductive   *)
(* together with TypeOK: push only reads the first item's start when the   *)
(* union is empty, and Append leaves the first item in place.              *)
(***************************************************************************)
EXTENDS ClassSetUnion, TLAPS

USE MaxPosAssumption, MaxItemLenAssumption, MaxGapAssumption

(* The union ends where the parser stands: the cursor is the end of the   *)
(* last item, or the opening offset while the union is empty.              *)
EndAtCursor == union.span.end = Pos(cursor)

Inv == TypeOK /\ UnionSpanFitsItems /\ EndAtCursor

(* The item a push appends has a well-formed span.                         *)
LEMMA PushedItem ==
  ASSUME TypeOK, NEW k \in ItemKinds, NEW s \in 0 .. MaxPos,
         NEW e \in 0 .. MaxPos, Push(k, s, e)
  PROVE  /\ [kind |-> k, span |-> SpanNew(Pos(s), Pos(e))]
              \in [kind : ItemKinds, span : Span]
         /\ s <= e
<1>1. s \in 0 .. MaxPos /\ e \in 0 .. MaxPos /\ s <= e
  BY DEF Push, TypeOK
<1>2. Pos(s) \in Position /\ Pos(e) \in Position
  BY <1>1 DEF Pos, PositionNew, Position
<1>3. SpanNew(Pos(s), Pos(e)) \in Span
  BY <1>1, <1>2 DEF SpanNew, Span, Pos, PositionNew
<1>. QED
  BY <1>1, <1>3

(* After a push, TypeOK holds as soon as the new span is well formed.      *)
LEMMA PushType ==
  ASSUME TypeOK, NEW k \in ItemKinds, NEW s \in 0 .. MaxPos,
         NEW e \in 0 .. MaxPos, Push(k, s, e),
         union'.span \in Span,
         union'.items = Append(union.items,
                               [kind |-> k, span |-> SpanNew(Pos(s), Pos(e))])
  PROVE  TypeOK'
<1>1. [kind |-> k, span |-> SpanNew(Pos(s), Pos(e))]
        \in [kind : ItemKinds, span : Span]
  BY PushedItem
<1>2. union.items \in Seq([kind : ItemKinds, span : Span])
  BY DEF TypeOK
<1>3. union'.items \in Seq([kind : ItemKinds, span : Span])
  BY <1>1, <1>2
<1>4. opened' \in 1 .. 2 /\ cursor' \in 0 .. MaxPos
  BY DEF TypeOK, Push
<1>. QED
  BY <1>3, <1>4 DEF TypeOK

LEMMA InitInv == Init => Inv
<1> SUFFICES ASSUME Init PROVE Inv
  OBVIOUS
<1>1. Pos(opened) \in Position
  BY DEF Init, Pos, PositionNew, Position
<1>2. Splat(Pos(opened)) \in Span
  BY <1>1 DEF Splat, SpanNew, Span, Position
<1>3. TypeOK
  BY <1>2 DEF Init, TypeOK
<1>4. UnionSpanFitsItems /\ EndAtCursor
  BY DEF Init, UnionSpanFitsItems, EndAtCursor, Splat, SpanNew
<1>. QED
  BY <1>3, <1>4 DEF Inv

LEMMA StepInv == Inv /\ [Next]_vars => Inv'
<1> SUFFICES ASSUME Inv, [Next]_vars PROVE Inv'
  OBVIOUS
<1>1. CASE UNCHANGED vars
  BY <1>1 DEF Inv, TypeOK, UnionSpanFitsItems, EndAtCursor, vars
<1>2. ASSUME NEW k \in ItemKinds, NEW s \in 0 .. MaxPos,
             NEW e \in 0 .. MaxPos, Push(k, s, e)
      PROVE  Inv'
  <2> DEFINE item == [kind |-> k, span |-> SpanNew(Pos(s), Pos(e))]
  <2>1. item \in [kind : ItemKinds, span : Span] /\ s <= e
    BY <1>2, PushedItem DEF Inv
  <2>7. ItemSpan(item) = SpanNew(Pos(s), Pos(e))
    BY LeafKindsAssumption DEF ItemSpan
  <2>2. union' = UnionPush(union, item)
    BY <1>2 DEF Push
  <2>3. union.items \in Seq([kind : ItemKinds, span : Span])
    BY DEF Inv, TypeOK
  <2>4. union'.items = Append(union.items, item)
    BY <2>2 DEF UnionPush
  <2>5. CASE union.items = <<>>
    <3>0. union.span \in Span
      BY DEF Inv, TypeOK
    <3>1. union'.span = [start |-> Pos(s), end |-> Pos(e)]
      BY <2>2, <2>5, <2>7, <3>0 DEF UnionPush, WithStart, WithEnd, SpanNew, Span
    <3>2. union'.span \in Span
      BY <2>1, <3>1 DEF SpanNew
    <3>3. union'.items = <<item>>
      BY <2>4, <2>5
    <3>4. UnionSpanFitsItems' /\ EndAtCursor'
      BY <1>2, <3>1, <3>3 DEF UnionSpanFitsItems, EndAtCursor, SpanNew, Push
    <3>5. TypeOK'
      BY <1>2, <2>4, <3>2, PushType DEF Inv
    <3>. QED
      BY <3>4, <3>5 DEF Inv
  <2>6. CASE union.items # <<>>
    <3> DEFINE n == Len(union.items)
    <3>1. n \in Nat \ {0}
      BY <2>3, <2>6
    <3>2. union.span \in Span
      BY DEF Inv, TypeOK
    <3>3. union'.span = [start |-> union.span.start, end |-> Pos(e)]
      BY <2>2, <2>6, <2>7, <3>2 DEF UnionPush, WithEnd, SpanNew, Span
    <3>4. union.span.start.offset <= cursor
      BY <3>2 DEF Inv, EndAtCursor, Span, Pos, PositionNew
    <3>5. cursor <= s
      BY <1>2 DEF Push
    <3>6. Pos(e) \in Position
      BY DEF Pos, PositionNew, Position
    <3>7. union'.span \in Span
      <4>1. union.span.start \in Position
        BY <3>2 DEF Span
      <4>2. union.span.start.offset <= Pos(e).offset
        BY <2>1, <3>4, <3>5, <4>1 DEF Pos, PositionNew, Position, Inv, TypeOK
      <4>. QED
        BY <3>3, <3>6, <4>1, <4>2 DEF Span
    <3>8. union'.items[1] = union.items[1] /\ Len(union'.items) = n + 1
          /\ union'.items[n + 1] = item
      BY <2>3, <2>4, <3>1
    <3>9. UnionSpanFitsItems' /\ EndAtCursor'
      BY <1>2, <3>1, <3>3, <3>8 DEF Inv, UnionSpanFitsItems, EndAtCursor, SpanNew, Push
    <3>10. TypeOK'
      BY <1>2, <2>4, <3>7, PushType DEF Inv
    <3>. QED
      BY <3>9, <3>10 DEF Inv
  <2>. QED
    BY <2>5, <2>6
<1>. QED
  BY <1>1, <1>2 DEF Next

(* For every pattern and bounds, push keeps the span of a union exactly    *)
(* that of its items.                                                      *)
THEOREM UnionSpan == Spec => [](TypeOK /\ UnionSpanFitsItems)
<1>1. Init => Inv
  BY InitInv
<1>2. Inv /\ [Next]_vars => Inv'
  BY StepInv
<1>3. Inv => TypeOK /\ UnionSpanFitsItems
  BY DEF Inv
<1>. QED
  BY <1>1, <1>2, <1>3, PTL DEF Spec

(* What one push does to the union it is given.                          *)
LEMMA PushExtends ==
  ASSUME Inv, NEW k \in ItemKinds, NEW s \in 0 .. MaxPos,
         NEW e \in 0 .. MaxPos, Push(k, s, e)
  PROVE  OnlyExtends
<1> DEFINE item == [kind |-> k, span |-> SpanNew(Pos(s), Pos(e))]
<1>1. union' = UnionPush(union, item)
  BY DEF Push
<1>2. ItemSpan(item) = SpanNew(Pos(s), Pos(e))
  BY LeafKindsAssumption DEF ItemSpan
<1>3. union.items \in Seq([kind : ItemKinds, span : Span]) /\ union.span \in Span
  BY DEF Inv, TypeOK
<1>4. union'.items = Append(union.items, item)
  BY <1>1 DEF UnionPush
<1>5. SubSeq(union'.items, 1, Len(union.items)) = union.items
  BY <1>3, <1>4
<1>6. union.items # <<>> => union'.span.start = union.span.start
  BY <1>1, <1>3 DEF UnionPush, WithStart, WithEnd, Span
<1>7. union'.span.end = Pos(e)
  BY <1>1, <1>2, <1>3 DEF UnionPush, WithStart, WithEnd, SpanNew, Span
<1>8. union.span.end = Pos(cursor) /\ cursor \in 0 .. MaxPos
  BY DEF Inv, EndAtCursor, TypeOK
<1>9. cursor < e
  BY <1>8 DEF Push
<1>10. union.span.end.offset < union'.span.end.offset
  BY <1>7, <1>8, <1>9 DEF Pos, PositionNew
<1>. QED
  BY <1>5, <1>6, <1>10 DEF OnlyExtends

(* For every pattern and bounds, a push never moves the start of a        *)
(* non-empty union nor touches the items pushed before, and always moves  *)
(* the end forward.                                                        *)
THEOREM PushMonotone == Spec => PushOnlyExtends
<1>1. Inv /\ [Next]_vars => [OnlyExtends]_vars
  BY PushExtends DEF Next
<1>. QED
  BY <1>1, InitInv, StepInv, PTL DEF Spec, PushOnlyExtends

(* Type correctness of the union builder: every span the union and its     *)
(* items carry is well formed, start before end.                           *)
THEOREM UnionTypeCorrect == Spec => []TypeOK
BY UnionSpan, PTL

=============================================================================
