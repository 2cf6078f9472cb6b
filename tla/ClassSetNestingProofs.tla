------------------------ MODULE ClassSetNestingProofs ------------------------
(***************************************************************************)
(* Proof that the parser of ClassSetNesting keeps spans nested, for every *)
(* pattern length, leaf length and nesting depth.                          *)
(*                                                                         *)
(* The nodes form trees of unbounded depth, and what a walk of them        *)
(* collects cannot be reasoned about without induction over the trees.     *)
(* The invariant instead names a set S of ops that holds every op of the  *)
(* parser's trees: each member of S is typed with its operands and nested  *)
(* classes in S again (S \subseteq OpIn(S)), so S is closed under          *)
(* Children, and each member is nested.  Every step adds to S the few ops *)
(* it builds; the frame facts below are what makes those new ops nested.   *)
(***************************************************************************)
EXTENDS ClassSetNesting, SequenceTheorems, TLAPS

USE MaxPosAssumption, NestingAssumption

(* The node types, with the ops below a node drawn from S.                 *)
LeafItem == [kind : LeafKinds, span : Span]

ClassIn(S) == [t : {"Set"}, x : [span : Span, negated : BOOLEAN, op : S]]

ItemIn(S) == LeafItem \cup [kind : {"Class"}, cls : ClassIn(S)]

UnionIn(S) == [span : Span, items : Seq(ItemIn(S))]

OpIn(S) ==
  [t : {"Union"}, u : UnionIn(S)]
  \cup [t : {"BinaryOp"}, x : [span : Span, kind : OpKinds, lhs : S, rhs : S]]

LhsIn(S) == {<<>>} \cup {<<l>> : l \in [kind : OpKinds, op : S]}

FrameIn(S) ==
  [open : 0 .. MaxPos, negated : BOOLEAN, lhs : LhsIn(S), union : UnionIn(S)]

(* An op is nested, and so is every class nested in it.                    *)
Good(op) == OpNested(op) /\ \A c \in ClassesOf(op) : ClassNested(c)

(* The offset where a frame's union must end: where the parser stands for *)
(* the innermost frame, where the next frame opened for the others.        *)
Limit(i) == IF i = Len(frames) THEN cursor ELSE frames[i + 1].open

(* What the parser keeps of a frame that lets it close the frame nested:   *)
(* the bracket lies before the op, the lhs before the union, and the       *)
(* union ends before whatever was read after it.                           *)
FrameFacts(i) ==
  LET fr == frames[i] IN
  /\ fr.open < fr.union.span.start.offset
  /\ fr.lhs # <<>> =>
       /\ fr.open < OwnOpSpan(fr.lhs[1].op).start.offset
       /\ OwnOpSpan(fr.lhs[1].op).end.offset <= fr.union.span.start.offset
  /\ fr.union.span.end.offset <= Limit(i)

Witness(S) ==
  /\ S \subseteq OpIn(S)
  /\ \A op \in S : Good(op)
  /\ frames \in Seq(FrameIn(S))
  /\ \A i \in 1 .. Len(frames) : FrameOp(frames[i]) \in S
  /\ result \in Seq(ClassIn(S))

(* The witness after a step that rebuilt the op of frame fr.             *)
Grow(S, fr) == S \cup {UnionOp(fr.union), FrameOp(fr)}

Inv ==
  /\ cursor \in 0 .. MaxPos
  /\ \A i \in 1 .. Len(frames) : FrameFacts(i)
  /\ result # <<>> => frames = <<>> /\ Len(result) = 1 /\ ClassNested(result[1])
  /\ \E S : Witness(S)

-----------------------------------------------------------------------------

(* The typing sets grow with S.                                            *)
LEMMA InMonotone ==
  ASSUME NEW S, NEW T, S \subseteq T
  PROVE  /\ ClassIn(S) \subseteq ClassIn(T)
         /\ ItemIn(S) \subseteq ItemIn(T)
         /\ UnionIn(S) \subseteq UnionIn(T)
         /\ OpIn(S) \subseteq OpIn(T)
         /\ LhsIn(S) \subseteq LhsIn(T)
         /\ FrameIn(S) \subseteq FrameIn(T)
<1>1. ClassIn(S) \subseteq ClassIn(T)
  BY DEF ClassIn
<1>2. ItemIn(S) \subseteq ItemIn(T)
  BY <1>1 DEF ItemIn
<1>3. Seq(ItemIn(S)) \subseteq Seq(ItemIn(T))
  BY <1>2
<1>4. UnionIn(S) \subseteq UnionIn(T)
  BY <1>3 DEF UnionIn
<1>5. OpIn(S) \subseteq OpIn(T)
  BY <1>4 DEF OpIn
<1>6. LhsIn(S) \subseteq LhsIn(T)
  BY DEF LhsIn
<1>7. FrameIn(S) \subseteq FrameIn(T)
  BY <1>4, <1>6 DEF FrameIn
<1>. QED
  BY <1>1, <1>2, <1>4, <1>5, <1>6, <1>7

(* The offsets of a well-formed span.                                      *)
LEMMA SpanOffsets ==
  ASSUME NEW sp \in Span
  PROVE  /\ sp.start.offset \in 0 .. MaxPos
         /\ sp.end.offset \in 0 .. MaxPos
         /\ sp.start.offset <= sp.end.offset
  BY DEF Span, Position

(* An item carries a well-formed span, which push reads by ItemSpan.      *)
LEMMA ItemSpanType ==
  ASSUME NEW S, NEW it \in ItemIn(S)
  PROVE  /\ OwnItemSpan(it) \in Span
         /\ ItemSpan(it) = OwnItemSpan(it)
<1>1. CASE it \in LeafItem
  BY <1>1 DEF LeafItem, OwnItemSpan, ItemSpan
<1>2. CASE it \in [kind : {"Class"}, cls : ClassIn(S)]
  BY <1>2 DEF ClassIn, OwnItemSpan, ItemSpan, ClassSpan
<1>. QED
  BY <1>1, <1>2 DEF ItemIn

(* An op carries a well-formed span.                                       *)
LEMMA OpSpanType ==
  ASSUME NEW S, NEW op \in OpIn(S)
  PROVE  /\ OwnOpSpan(op) \in Span
         /\ OpSpan(op) = OwnOpSpan(op)
  BY DEF OpIn, UnionIn, OwnOpSpan, OpSpan

(* AstClassSetUnion::push of an item that starts where the union ends, or *)
(* later: the union stays nested, takes the item's end (and its start if  *)
(* it was empty), and gains the item's class if it is one.                *)
LEMMA PushNested ==
  ASSUME NEW S, NEW u \in UnionIn(S), NEW item \in ItemIn(S),
         OpNested(UnionOp(u)),
         u.span.end.offset <= OwnItemSpan(item).start.offset
  PROVE  /\ UnionPush(u, item) \in UnionIn(S)
         /\ OpNested(UnionOp(UnionPush(u, item)))
         /\ UnionPush(u, item).span.start =
              IF u.items = <<>> THEN OwnItemSpan(item).start ELSE u.span.start
         /\ UnionPush(u, item).span.end = OwnItemSpan(item).end
         /\ ClassesOf(UnionOp(UnionPush(u, item))) =
              ClassesOf(UnionOp(u)) \cup (IF item.kind = "Class" THEN {item.cls} ELSE {})
<1> DEFINE v == UnionPush(u, item)
           its == u.items
           n == Len(its)
           sp == OwnItemSpan(item)
<1>1. sp \in Span /\ ItemSpan(item) = sp
  BY ItemSpanType
<1>2. its \in Seq(ItemIn(S)) /\ u.span \in Span
  BY DEF UnionIn
<1>3. v.items = Append(its, item)
  BY DEF UnionPush
<1>4. v.span = [start |-> IF its = <<>> THEN sp.start ELSE u.span.start, end |-> sp.end]
  BY <1>1, <1>2 DEF UnionPush, WithStart, WithEnd, Span
<1>5. \A i \in 1 .. n : OwnItemSpan(its[i]) \in Span
  BY <1>2, ItemSpanType
<1>6. /\ \A i \in 1 .. n : Within(OwnItemSpan(its[i]), u.span)
      /\ \A i \in 1 .. n - 1 : Before(OwnItemSpan(its[i]), OwnItemSpan(its[i + 1]))
  BY DEF OpNested, UnionOp
<1>7. v.items \in Seq(ItemIn(S)) /\ Len(v.items) = n + 1
      /\ v.items[n + 1] = item /\ \A i \in 1 .. n : v.items[i] = its[i]
  BY <1>2, <1>3
<1>8. v.span \in Span
  <2>1. CASE its = <<>>
    BY <1>1, <1>4, <2>1 DEF Span
  <2>2. CASE its # <<>>
    BY <1>1, <1>2, <1>4, <2>2 DEF Span, Position
  <2>. QED
    BY <2>1, <2>2
<1>9. v \in UnionIn(S)
  BY <1>7, <1>8 DEF UnionPush, UnionIn
<1>10. OpNested(UnionOp(v))
  <2>1. \A i \in 1 .. n + 1 : Within(OwnItemSpan(v.items[i]), v.span)
    <3>1. ASSUME NEW i \in 1 .. n PROVE Within(OwnItemSpan(v.items[i]), v.span)
      <4>1. its # <<>>
        BY <1>2
      <4>2. v.items[i] = its[i] /\ v.span.start = u.span.start /\ v.span.end = sp.end
        BY <1>4, <1>7, <4>1
      <4>3. Within(OwnItemSpan(its[i]), u.span)
        BY <1>6
      <4>4. OwnItemSpan(its[i]).end.offset <= sp.end.offset
        <5>1. OwnItemSpan(its[i]) \in Span
          BY <1>5
        <5>. QED
          BY <1>1, <1>2, <5>1, <4>3, SpanOffsets DEF Within
      <4>. QED
        BY <4>2, <4>3, <4>4 DEF Within
    <3>2. Within(OwnItemSpan(v.items[n + 1]), v.span)
      <4>1. CASE its = <<>>
        BY <1>1, <1>4, <1>7, <4>1 DEF Within, Span, Position
      <4>2. CASE its # <<>>
        BY <1>1, <1>2, <1>4, <1>7, <4>2 DEF Within, Span, Position
      <4>. QED
        BY <4>1, <4>2
    <3>. QED
      BY <3>1, <3>2, <1>2
  <2>2. \A i \in 1 .. n : Before(OwnItemSpan(v.items[i]), OwnItemSpan(v.items[i + 1]))
    <3>1. ASSUME NEW i \in 1 .. n - 1
          PROVE  Before(OwnItemSpan(v.items[i]), OwnItemSpan(v.items[i + 1]))
      BY <1>2, <1>6, <1>7
    <3>2. n # 0 => Before(OwnItemSpan(v.items[n]), OwnItemSpan(v.items[n + 1]))
      <4> SUFFICES ASSUME n # 0 PROVE Before(OwnItemSpan(v.items[n]), OwnItemSpan(v.items[n + 1]))
        OBVIOUS
      <4>1. n \in 1 .. n
        BY <1>2
      <4>2. v.items[n] = its[n] /\ v.items[n + 1] = item
        BY <1>7, <4>1
      <4>3. Within(OwnItemSpan(its[n]), u.span)
        BY <1>6, <4>1
      <4>4. OwnItemSpan(its[n]).end.offset <= sp.start.offset
        <5>1. OwnItemSpan(its[n]) \in Span
          BY <1>5, <4>1
        <5>. QED
          BY <1>1, <1>2, <5>1, <4>3, SpanOffsets DEF Within
      <4>. QED
        BY <4>2, <4>4 DEF Before
    <3>. QED
      BY <3>1, <3>2, <1>2
  <2>. QED
    BY <2>1, <2>2, <1>7 DEF OpNested, UnionOp
<1>11. ClassesOf(UnionOp(v)) =
         ClassesOf(UnionOp(u)) \cup (IF item.kind = "Class" THEN {item.cls} ELSE {})
  <2>1. {j \in 1 .. n + 1 : v.items[j].kind = "Class"} =
          {j \in 1 .. n : its[j].kind = "Class"}
          \cup (IF item.kind = "Class" THEN {n + 1} ELSE {})
    BY <1>2, <1>7
  <2>. QED
    BY <2>1, <1>7 DEF ClassesOf, ClassItems, UnionOp
<1>. QED
  BY <1>1, <1>4, <1>9, <1>10, <1>11

(* A class nested in an op of OpIn(S) has its op in S.                    *)
LEMMA ClassOfOp ==
  ASSUME NEW S, NEW op \in OpIn(S), NEW c \in ClassesOf(op)
  PROVE  c \in ClassIn(S)
<1>1. op.t = "Union" /\ op.u \in UnionIn(S)
  BY DEF ClassesOf, OpIn
<1>2. PICK j \in 1 .. Len(op.u.items) : op.u.items[j].kind = "Class" /\ c = op.u.items[j].cls
  BY <1>1 DEF ClassesOf, ClassItems
<1>3. op.u.items[j] \in ItemIn(S)
  BY <1>1 DEF UnionIn
<1>4. op.u.items[j] \notin LeafItem
  BY <1>2 DEF LeafItem
<1>. QED
  BY <1>2, <1>3, <1>4 DEF ItemIn

(* A set whose members are typed over it is closed under Children.        *)
LEMMA ChildrenIn ==
  ASSUME NEW S, S \subseteq OpIn(S), NEW o \in S
  PROVE  Children(o) \subseteq S
<1>1. CASE o.t = "BinaryOp"
  BY <1>1 DEF Children, OpIn
<1>2. CASE o.t # "BinaryOp"
  <2>1. ASSUME NEW c \in ClassesOf(o) PROVE c.x.op \in S
    BY ClassOfOp DEF ClassIn
  <2>. QED
    BY <1>2, <2>1 DEF Children
<1>. QED
  BY <1>1, <1>2

LEMMA InitInv == Init => Inv
<1> SUFFICES ASSUME Init PROVE Inv
  OBVIOUS
<1>1. Witness({})
  BY DEF Init, Witness
<1>. QED
  BY <1>1 DEF Init, Inv

(* The invariant gives the property: its witness holds the roots and is   *)
(* closed, so it holds every reachable op.                                 *)
LEMMA InvNested == Inv => NestedClosure
<1> SUFFICES ASSUME Inv PROVE NestedClosure
  OBVIOUS
<1>1. PICK S : Witness(S)
  BY DEF Inv
<1>2. RootOps \subseteq S
  <2>1. ASSUME NEW i \in 1 .. Len(result) PROVE result[i].x.op \in S
    <3>1. result[i] \in ClassIn(S)
      BY <1>1 DEF Witness
    <3>. QED
      BY <3>1 DEF ClassIn
  <2>. QED
    BY <1>1, <2>1 DEF RootOps, Witness
<1>3. \A o \in S : Children(o) \subseteq S
  BY <1>1, ChildrenIn DEF Witness
<1>4. ASSUME NEW op, Reachable(op)
      PROVE  /\ OwnOpSpan(op) \in Span
             /\ OpNested(op)
             /\ \A c \in ClassesOf(op) : ClassNested(c)
  <2>1. op \in S
    BY <1>2, <1>3, <1>4 DEF Reachable
  <2>2. op \in OpIn(S)
    BY <1>1, <2>1 DEF Witness
  <2>. QED
    BY <1>1, <2>1, <2>2, OpSpanType DEF Witness, Good
<1>5. \A i \in 1 .. Len(result) : ClassNested(result[i])
  BY DEF Inv
<1>. QED
  BY <1>4, <1>5 DEF NestedClosure

(* The span of a frame's op runs from its lhs, or its union if it has no  *)
(* lhs, to the end of its union.                                           *)
LEMMA FrameOpSpan ==
  ASSUME NEW S, S \subseteq OpIn(S), NEW fr \in FrameIn(S)
  PROVE  /\ OwnOpSpan(FrameOp(fr)).start =
              IF fr.lhs = <<>> THEN fr.union.span.start ELSE OwnOpSpan(fr.lhs[1].op).start
         /\ OwnOpSpan(FrameOp(fr)).end = fr.union.span.end
<1>1. CASE fr.lhs = <<>>
  BY <1>1 DEF FrameOp, UnionOp, OwnOpSpan
<1>2. CASE fr.lhs # <<>>
  <2>1. PICK l \in [kind : OpKinds, op : S] : fr.lhs = <<l>>
    BY <1>2 DEF FrameIn, LhsIn
  <2>2. OpSpan(l.op) = OwnOpSpan(l.op)
    BY <2>1, OpSpanType
  <2>. QED
    BY <1>2, <2>1, <2>2 DEF FrameOp, BinaryOp, UnionOp, OwnOpSpan, OpSpan, SpanNew
<1>. QED
  BY <1>1, <1>2

(* The operands of a frame's op are in every typed set that holds it.     *)
LEMMA FrameParts ==
  ASSUME NEW S, S \subseteq OpIn(S), NEW fr \in FrameIn(S), FrameOp(fr) \in S
  PROVE  /\ UnionOp(fr.union) \in S
         /\ fr.lhs # <<>> => fr.lhs[1].op \in S
<1>1. fr.lhs # <<>> => fr.lhs[1].op \in S
  BY DEF FrameIn, LhsIn
<1>2. CASE fr.lhs = <<>>
  BY <1>2 DEF FrameOp
<1>3. CASE fr.lhs # <<>>
  <2>1. FrameOp(fr).x.rhs = UnionOp(fr.union) /\ FrameOp(fr).t = "BinaryOp"
    BY <1>3 DEF FrameOp, BinaryOp
  <2>2. FrameOp(fr) \in OpIn(S)
    OBVIOUS
  <2>3. FrameOp(fr).x.rhs \in S
    BY <2>1, <2>2 DEF OpIn
  <2>. QED
    BY <1>1, <2>1, <2>3
<1>. QED
  BY <1>1, <1>2, <1>3

(* Adding a frame's union and op to the witness keeps it typed and nested, *)
(* when the union is nested and lies after the lhs.                        *)
LEMMA GrowWitness ==
  ASSUME NEW S, S \subseteq OpIn(S), \A op \in S : Good(op), NEW fr \in FrameIn(S),
         fr.lhs # <<>> =>
           OwnOpSpan(fr.lhs[1].op).end.offset <= fr.union.span.start.offset,
         Good(UnionOp(fr.union))
  PROVE  /\ Grow(S, fr) \subseteq OpIn(Grow(S, fr))
         /\ \A op \in Grow(S, fr) : Good(op)
<1> DEFINE T == Grow(S, fr)
           u == fr.union
<1>1. S \subseteq T
  BY DEF Grow
<1>2. OpIn(S) \subseteq OpIn(T) /\ UnionIn(S) \subseteq UnionIn(T)
  BY <1>1, InMonotone
<1>3. UnionOp(u) \in OpIn(T) /\ UnionOp(u) \in T
  BY <1>2 DEF FrameIn, UnionOp, OpIn, Grow
<1>4. u.span \in Span
  BY DEF FrameIn, UnionIn
<1>5. CASE fr.lhs = <<>>
  <2>1. FrameOp(fr) = UnionOp(u)
    BY <1>5 DEF FrameOp
  <2>. QED
    BY <1>1, <1>2, <1>3, <2>1 DEF Grow
<1>6. CASE fr.lhs # <<>>
  <2>1. PICK l \in [kind : OpKinds, op : S] : fr.lhs = <<l>>
    BY <1>6 DEF FrameIn, LhsIn
  <2> DEFINE a == OwnOpSpan(l.op)
             b == SpanNew(a.start, u.span.end)
  <2>2. a \in Span /\ OpSpan(l.op) = a /\ OpSpan(UnionOp(u)) = u.span
    BY <2>1, OpSpanType DEF OpSpan, UnionOp
  <2>3. FrameOp(fr) = [t |-> "BinaryOp",
                       x |-> [span |-> b, kind |-> l.kind, lhs |-> l.op, rhs |-> UnionOp(u)]]
    BY <2>1, <2>2 DEF FrameOp, BinaryOp
  <2>4. a.end.offset <= u.span.start.offset
    BY <1>6, <2>1
  <2>5. b \in Span
    BY <1>4, <2>2, <2>4, SpanOffsets DEF SpanNew, Span
  <2>6. FrameOp(fr) \in OpIn(T)
    BY <1>1, <1>3, <2>1, <2>3, <2>5 DEF OpIn
  <2>7. Good(FrameOp(fr))
    <3>1. OwnOpSpan(UnionOp(u)) = u.span
      BY DEF OwnOpSpan, UnionOp
    <3>2. OpNested(FrameOp(fr))
      BY <1>4, <2>2, <2>3, <2>4, <3>1, SpanOffsets DEF OpNested, Within, Before, SpanNew
    <3>3. ClassesOf(FrameOp(fr)) = {}
      BY <2>3 DEF ClassesOf
    <3>. QED
      BY <3>2, <3>3 DEF Good
  <2>. QED
    BY <1>1, <1>2, <1>3, <2>6, <2>7 DEF Grow
<1>. QED
  BY <1>5, <1>6

(* A fresh union opened at offset w: typed and, having no item, nested.   *)
LEMMA EmptyUnionGood ==
  ASSUME NEW S, NEW w \in 0 .. MaxPos
  PROVE  /\ EmptyUnion(w) \in UnionIn(S)
         /\ Good(UnionOp(EmptyUnion(w)))
         /\ EmptyUnion(w).span.start.offset = w /\ EmptyUnion(w).span.end.offset = w
<1>1. Splat(Pos(w)) \in Span
  BY DEF Splat, SpanNew, Pos, PositionNew, Span, Position
<1>2. EmptyUnion(w) \in UnionIn(S)
  BY <1>1 DEF EmptyUnion, UnionIn
<1>3. OpNested(UnionOp(EmptyUnion(w)))
  BY DEF OpNested, UnionOp, EmptyUnion
<1>4. ClassesOf(UnionOp(EmptyUnion(w))) = {}
  BY DEF ClassesOf, ClassItems, UnionOp, EmptyUnion
<1>. QED
  BY <1>2, <1>3, <1>4 DEF Good, EmptyUnion, Splat, SpanNew, Pos, PositionNew

(* A frame that a step leaves alone, below a frame whose open it leaves    *)
(* alone, keeps its facts.                                                 *)
LEMMA FactsKept ==
  ASSUME NEW i, FrameFacts(i), frames'[i] = frames[i], Limit(i)' = Limit(i)
  PROVE  FrameFacts(i)'
<1> DEFINE fr == frames[i]
<1>1. frames'[i].open = fr.open /\ frames'[i].lhs = fr.lhs /\ frames'[i].union = fr.union
  OBVIOUS
<1>. QED
  BY <1>1 DEF FrameFacts

(* The facts of a frame a step rebuilt, from those of its new value.       *)
LEMMA FactsNew ==
  ASSUME NEW i, NEW f, frames'[i] = f,
         f.open < f.union.span.start.offset,
         f.lhs # <<>> =>
           /\ f.open < OwnOpSpan(f.lhs[1].op).start.offset
           /\ OwnOpSpan(f.lhs[1].op).end.offset <= f.union.span.start.offset,
         f.union.span.end.offset <= Limit(i)'
  PROVE  FrameFacts(i)'
  BY DEF FrameFacts

(* [ or [^ opens a frame above the others.                                 *)
LEMMA OpenInv ==
  ASSUME Inv, NEW neg \in BOOLEAN, Open(neg)
  PROVE  Inv'
<1> DEFINE n == Len(frames)
           w == cursor + Width(neg)
           nf == [open |-> cursor, negated |-> neg, lhs |-> <<>>, union |-> EmptyUnion(w)]
<1>1. PICK S : Witness(S)
  BY DEF Inv
<1>2. /\ frames \in Seq(FrameIn(S))
      /\ cursor \in 0 .. MaxPos /\ w \in 0 .. MaxPos /\ cursor < w
      /\ frames' = Append(frames, nf) /\ cursor' = w /\ result' = result /\ result = <<>>
  BY <1>1 DEF Witness, Inv, Open, Width
<1>3. EmptyUnion(w) \in UnionIn(S) /\ Good(UnionOp(EmptyUnion(w)))
      /\ EmptyUnion(w).span.start.offset = w /\ EmptyUnion(w).span.end.offset = w
  BY <1>2, EmptyUnionGood
<1>4. nf \in FrameIn(S)
  BY <1>2, <1>3 DEF FrameIn, LhsIn
<1>5. PICK T : T = Grow(S, nf)
  OBVIOUS
<1>6. T \subseteq OpIn(T) /\ \A op \in T : Good(op)
  BY <1>1, <1>3, <1>4, <1>5, GrowWitness DEF Witness
<1>7. S \subseteq T /\ FrameOp(nf) \in T
  BY <1>5 DEF Grow
<1>8. FrameIn(S) \subseteq FrameIn(T) /\ ClassIn(S) \subseteq ClassIn(T)
  BY <1>7, InMonotone
<1>9. Witness(T)'
  <2>1. frames' \in Seq(FrameIn(T))
    BY <1>2, <1>4, <1>8
  <2>2. \A i \in 1 .. n + 1 : FrameOp(frames'[i]) \in T
    BY <1>1, <1>2, <1>7 DEF Witness
  <2>3. result' \in Seq(ClassIn(T))
    BY <1>1, <1>2, <1>8 DEF Witness
  <2>. QED
    BY <1>2, <1>6, <2>1, <2>2, <2>3 DEF Witness
<1>10. \A i \in 1 .. n + 1 : FrameFacts(i)'
  <2>1. ASSUME NEW i \in 1 .. n PROVE FrameFacts(i)'
    <3>1. frames'[i] = frames[i] /\ Limit(i)' = Limit(i)
      BY <1>2 DEF Limit
    <3>. QED
      BY <3>1 DEF Inv, FrameFacts
  <2>2. ASSUME NEW i, i = n + 1 PROVE FrameFacts(i)'
    <3>1. frames'[i] = nf /\ Len(frames') = i
      BY <1>2, <2>2
    <3>. QED
      BY <1>2, <1>3, <3>1 DEF FrameFacts, Limit
  <2>. QED
    BY <2>1, <2>2
<1>. QED
  BY <1>2, <1>9, <1>10 DEF Inv

(* A step that rebuilds only the innermost frame, and leaves the result    *)
(* alone, keeps the invariant when the rebuilt frame is typed, nested and *)
(* keeps its facts; the frames below keep theirs, the innermost one still  *)
(* opening where it did.                                                   *)
LEMMA ReplaceTop ==
  ASSUME Inv, NEW S, Witness(S), frames # <<>>, NEW fr2 \in FrameIn(S),
         Good(UnionOp(fr2.union)),
         fr2.open = frames[Len(frames)].open,
         fr2.open < fr2.union.span.start.offset,
         fr2.lhs # <<>> =>
           /\ fr2.open < OwnOpSpan(fr2.lhs[1].op).start.offset
           /\ OwnOpSpan(fr2.lhs[1].op).end.offset <= fr2.union.span.start.offset,
         frames' = [frames EXCEPT ![Len(frames)] = fr2],
         cursor' \in 0 .. MaxPos, fr2.union.span.end.offset <= cursor',
         result' = result
  PROVE  Inv'
<1> DEFINE n == Len(frames)
<1>1. frames \in Seq(FrameIn(S)) /\ n \in Nat \ {0} /\ result = <<>>
  BY DEF Witness, Inv
<1>2. PICK T : T = Grow(S, fr2)
  OBVIOUS
<1>3. T \subseteq OpIn(T) /\ \A op \in T : Good(op)
  BY <1>2, GrowWitness DEF Witness
<1>4. S \subseteq T /\ FrameOp(fr2) \in T
  BY <1>2 DEF Grow
<1>5. FrameIn(S) \subseteq FrameIn(T) /\ ClassIn(S) \subseteq ClassIn(T)
  BY <1>4, InMonotone
<1>6. Len(frames') = n /\ frames'[n] = fr2 /\ \A i \in 1 .. n - 1 : frames'[i] = frames[i]
  BY <1>1
<1>7. Witness(T)'
  <2>1. frames' \in Seq(FrameIn(T))
    BY <1>1, <1>5
  <2>2. \A i \in 1 .. n : FrameOp(frames'[i]) \in T
    <3>1. ASSUME NEW i \in 1 .. n - 1 PROVE FrameOp(frames'[i]) \in T
      <4>1. FrameOp(frames[i]) \in S
        BY <1>1 DEF Witness
      <4>. QED
        BY <1>4, <1>6, <4>1
    <3>2. FrameOp(frames'[n]) \in T
      BY <1>4, <1>6
    <3>3. n \in Nat \ {0}
      BY <1>1
    <3>. QED
      BY <3>1, <3>2, <3>3
  <2>3. result' \in Seq(ClassIn(T))
    BY <1>5 DEF Witness
  <2>. QED
    BY <1>3, <1>6, <2>1, <2>2, <2>3 DEF Witness
<1>8. \A i \in 1 .. n : FrameFacts(i)'
  <2>1. ASSUME NEW i \in 1 .. n - 1 PROVE FrameFacts(i)'
    <3>1. frames'[i] = frames[i]
      BY <1>6
    <3>2. frames'[i + 1].open = frames[i + 1].open
      <4>1. CASE i + 1 = n
        BY <1>6, <4>1
      <4>2. CASE i + 1 # n
        <5>1. i + 1 \in 1 .. n - 1
          BY <1>1, <4>2
        <5>. QED
          BY <1>6, <5>1
      <4>. QED
        BY <4>1, <4>2
    <3>3. Limit(i)' = Limit(i)
      <4>1. i # Len(frames') /\ i # Len(frames)
        <5>1. Len(frames') = n
          BY <1>6
        <5>2. n \in Nat
          BY <1>1
        <5>3. i < n
          BY <5>2
        <5>6. i # n
          BY <5>2, <5>3
        <5>4. i # Len(frames')
          BY <5>1, <5>6, Zenon
        <5>5. i # Len(frames)
          BY <5>3 DEF n
        <5>. QED
          BY <5>4, <5>5
      <4>2. Limit(i)' = frames'[i + 1].open
        BY <4>1 DEF Limit
      <4>3. Limit(i) = frames[i + 1].open
        BY <4>1 DEF Limit
      <4>. QED
        BY <3>2, <4>2, <4>3
    <3>4. FrameFacts(i)
      BY <1>1 DEF Inv
    <3>. QED
      BY <3>1, <3>3, <3>4, FactsKept
  <2>2. ASSUME NEW i, i = n PROVE FrameFacts(i)'
    <3>1. frames'[i] = fr2 /\ Limit(i)' = cursor'
      BY <1>6, <2>2 DEF Limit
    <3>. QED
      BY <3>1, FactsNew
  <2>. QED
    BY <2>1, <2>2
<1>. QED
  BY <1>1, <1>6, <1>7, <1>8 DEF Inv

(* A leaf is read and pushed on the innermost union.                       *)
LEMMA LeafInv ==
  ASSUME Inv, NEW k \in LeafKinds, NEW m \in 1 .. MaxItemLen, Leaf(k, m)
  PROVE  Inv'
<1> DEFINE n == Len(frames)
           fr == frames[n]
           u == fr.union
           item == [kind |-> k, span |-> SpanNew(Pos(cursor), Pos(cursor + m))]
           u2 == UnionPush(u, item)
           fr2 == [fr EXCEPT !.union = u2]
<1>1. PICK S : Witness(S)
  BY DEF Inv
<1>2. /\ frames \in Seq(FrameIn(S)) /\ n \in Nat \ {0} /\ fr \in FrameIn(S)
      /\ cursor \in 0 .. MaxPos /\ cursor + m \in 0 .. MaxPos
      /\ frames' = [frames EXCEPT ![n] = fr2] /\ cursor' = cursor + m
      /\ result' = result /\ result = <<>>
  BY <1>1 DEF Witness, Inv, Leaf, SetTop, Top
<1>3. item \in ItemIn(S) /\ item.kind # "Class"
      /\ OwnItemSpan(item).start.offset = cursor
      /\ OwnItemSpan(item).end.offset = cursor + m
  BY <1>2 DEF ItemIn, LeafItem, OwnItemSpan, SpanNew, Pos, PositionNew, Span, Position
<1>4. FrameOp(fr) \in S /\ S \subseteq OpIn(S)
  BY <1>1, <1>2 DEF Witness
<1>5. UnionOp(u) \in S
  BY <1>2, <1>4, FrameParts
<1>6. Good(UnionOp(u))
  BY <1>1, <1>5 DEF Witness
<1>7. /\ fr.open < u.span.start.offset
      /\ fr.lhs # <<>> =>
           /\ fr.open < OwnOpSpan(fr.lhs[1].op).start.offset
           /\ OwnOpSpan(fr.lhs[1].op).end.offset <= u.span.start.offset
      /\ u.span.end.offset <= cursor
  BY <1>2 DEF Inv, FrameFacts, Limit
<1>8. u \in UnionIn(S) /\ u.span \in Span
  BY <1>2 DEF FrameIn, UnionIn
<1>9. /\ u2 \in UnionIn(S)
      /\ OpNested(UnionOp(u2))
      /\ u2.span.start = IF u.items = <<>> THEN OwnItemSpan(item).start ELSE u.span.start
      /\ u2.span.end = OwnItemSpan(item).end
      /\ ClassesOf(UnionOp(u2)) = ClassesOf(UnionOp(u))
  <2>1. OpNested(UnionOp(u)) /\ u.span.end.offset <= OwnItemSpan(item).start.offset
    BY <1>3, <1>6, <1>7 DEF Good
  <2>2. ClassesOf(UnionOp(u2)) =
          ClassesOf(UnionOp(u)) \cup (IF item.kind = "Class" THEN {item.cls} ELSE {})
    BY <1>3, <1>8, <2>1, PushNested
  <2>. QED
    BY <1>3, <1>8, <2>1, <2>2, PushNested
<1>10. Good(UnionOp(u2))
  BY <1>6, <1>9 DEF Good
<1>11. u.span.start.offset <= u2.span.start.offset /\ u2.span.end.offset = cursor + m
  <2>1. /\ u.span.start.offset \in 0 .. MaxPos /\ u.span.end.offset \in 0 .. MaxPos
        /\ u.span.start.offset <= u.span.end.offset
    BY <1>8, SpanOffsets
  <2>2. u2.span.end.offset = cursor + m
    BY <1>3, <1>9
  <2>3. CASE u.items = <<>>
    <3>1. u2.span.start.offset = cursor
      BY <1>3, <1>9, <2>3
    <3>2. u.span.end.offset <= cursor
      BY <1>7
    <3>. QED
      BY <1>2, <2>1, <2>2, <3>1, <3>2
  <2>4. CASE u.items # <<>>
    <3>1. u2.span.start = u.span.start
      BY <1>9, <2>4
    <3>. QED
      BY <2>1, <2>2, <3>1
  <2>. QED
    BY <2>3, <2>4
<1>12. fr2 \in FrameIn(S) /\ fr2.lhs = fr.lhs /\ fr2.open = fr.open /\ fr2.union = u2
  BY <1>2, <1>9 DEF FrameIn
<1>13. fr2.lhs # <<>> => OwnOpSpan(fr2.lhs[1].op).end.offset <= fr2.union.span.start.offset
  <2> SUFFICES ASSUME fr.lhs # <<>>
               PROVE  OwnOpSpan(fr.lhs[1].op).end.offset <= u2.span.start.offset
    BY <1>12
  <2>1. fr.lhs[1].op \in OpIn(S)
    BY <1>2, <1>4, FrameParts
  <2>2. OwnOpSpan(fr.lhs[1].op) \in Span /\ u2.span \in Span
    BY <1>9, <2>1, OpSpanType DEF UnionIn
  <2>. QED
    BY <1>7, <1>8, <1>11, <2>2, SpanOffsets
<1>14. fr2.open < fr2.union.span.start.offset
  <2>1. u2.span \in Span /\ fr.open \in Nat /\ u.span.start.offset \in Nat
    <3>1. u2.span \in Span
      BY <1>9 DEF UnionIn
    <3>2. fr.open \in Nat
      BY <1>2 DEF FrameIn
    <3>3. u.span.start.offset \in Nat
      BY <1>8, SpanOffsets
    <3>. QED
      BY <3>1, <3>2, <3>3
  <2>2. u2.span.start.offset \in Nat
    BY <2>1, SpanOffsets
  <2>3. fr.open < u2.span.start.offset
    BY <1>7, <1>11, <2>1, <2>2
  <2>. QED
    BY <1>12, <2>3
<1>15. fr2.lhs # <<>> => fr2.open < OwnOpSpan(fr2.lhs[1].op).start.offset
  BY <1>7, <1>12
<1>16. fr2.union.span.end.offset <= cursor'
  BY <1>2, <1>11, <1>12
<1>17. frames # <<>> /\ Good(UnionOp(fr2.union)) /\ fr2.open = frames[Len(frames)].open
  BY <1>2, <1>10, <1>12
<1>18. fr2.lhs # <<>> =>
         /\ fr2.open < OwnOpSpan(fr2.lhs[1].op).start.offset
         /\ OwnOpSpan(fr2.lhs[1].op).end.offset <= fr2.union.span.start.offset
  BY <1>13, <1>15
<1>19. frames' = [frames EXCEPT ![Len(frames)] = fr2] /\ cursor' \in 0 .. MaxPos
       /\ result' = result
  BY <1>2
<1>. QED
  BY <1>1, <1>12, <1>14, <1>16, <1>17, <1>18, <1>19, ReplaceTop

(* &&, -- or ~~: the frame's op becomes the lhs of a binary operation and  *)
(* a fresh union opens after the operator.                                 *)
LEMMA OperatorInv ==
  ASSUME Inv, NEW k \in OpKinds, Operator(k)
  PROVE  Inv'
<1> DEFINE n == Len(frames)
           fr == frames[n]
           u == fr.union
           lop == FrameOp(fr)
           w == cursor + 2
           fr2 == [fr EXCEPT !.lhs = <<[kind |-> k, op |-> lop]>>, !.union = EmptyUnion(w)]
<1>1. PICK S : Witness(S)
  BY DEF Inv
<1>2. /\ frames \in Seq(FrameIn(S)) /\ n \in Nat \ {0} /\ fr \in FrameIn(S)
      /\ cursor \in 0 .. MaxPos /\ w \in 0 .. MaxPos
      /\ frames' = [frames EXCEPT ![n] = fr2] /\ cursor' = w /\ result' = result
  BY <1>1 DEF Witness, Inv, Operator, SetTop, Top
<1>3. lop \in S /\ S \subseteq OpIn(S)
  BY <1>1, <1>2 DEF Witness
<1>4. EmptyUnion(w) \in UnionIn(S) /\ Good(UnionOp(EmptyUnion(w)))
      /\ EmptyUnion(w).span.start.offset = w /\ EmptyUnion(w).span.end.offset = w
  BY <1>2, EmptyUnionGood
<1>5. /\ fr2 \in FrameIn(S) /\ fr2.open = fr.open /\ fr2.union = EmptyUnion(w)
      /\ fr2.lhs # <<>> /\ fr2.lhs[1].op = lop
  BY <1>2, <1>3, <1>4 DEF FrameIn, LhsIn
<1>6. /\ fr.open < u.span.start.offset
      /\ fr.lhs # <<>> => fr.open < OwnOpSpan(fr.lhs[1].op).start.offset
      /\ u.span.end.offset <= cursor
  BY <1>2 DEF Inv, FrameFacts, Limit
<1>7. u.span \in Span /\ fr.open \in Nat
  BY <1>2 DEF FrameIn, UnionIn
<1>8. fr.open < OwnOpSpan(lop).start.offset /\ OwnOpSpan(lop).end.offset <= cursor
  <2>1. /\ OwnOpSpan(lop).start =
             (IF fr.lhs = <<>> THEN u.span.start ELSE OwnOpSpan(fr.lhs[1].op).start)
        /\ OwnOpSpan(lop).end = u.span.end
    BY <1>2, <1>3, FrameOpSpan
  <2>. QED
    BY <1>6, <2>1
<1>9. fr2.open < fr2.union.span.start.offset
  BY <1>2, <1>4, <1>5, <1>6, <1>7, SpanOffsets
<1>10. fr2.union.span.end.offset <= cursor'
  BY <1>2, <1>4, <1>5
<1>11. OwnOpSpan(fr2.lhs[1].op).end.offset <= fr2.union.span.start.offset
  <2>1. OwnOpSpan(lop) \in Span
    BY <1>3, OpSpanType
  <2>. QED
    BY <1>2, <1>4, <1>5, <1>8, <2>1, SpanOffsets
<1>12. frames # <<>> /\ Good(UnionOp(fr2.union)) /\ fr2.open = frames[Len(frames)].open
  BY <1>2, <1>4, <1>5
<1>13. fr2.lhs # <<>> =>
         /\ fr2.open < OwnOpSpan(fr2.lhs[1].op).start.offset
         /\ OwnOpSpan(fr2.lhs[1].op).end.offset <= fr2.union.span.start.offset
  BY <1>5, <1>8, <1>11
<1>14. frames' = [frames EXCEPT ![Len(frames)] = fr2] /\ cursor' \in 0 .. MaxPos
       /\ result' = result
  BY <1>2
<1>. QED
  BY <1>1, <1>5, <1>9, <1>10, <1>12, <1>13, <1>14, ReplaceTop

(* ] closes the innermost frame: the class it makes is typed over the      *)
(* witness, its brackets lie strictly outside its op, and it spans from   *)
(* the [ to the ].                                                         *)
LEMMA ClosedClass ==
  ASSUME Inv, NEW S, Witness(S), frames # <<>>, cursor + 1 <= MaxPos
  PROVE  LET fr == frames[Len(frames)]
             cls == ClassSet(fr, cursor + 1)
         IN  /\ cls \in ClassIn(S)
             /\ ClassNested(cls)
             /\ cls.x.span.start.offset = fr.open
             /\ cls.x.span.end.offset = cursor + 1
<1> DEFINE n == Len(frames)
           fr == frames[n]
           u == fr.union
           cls == ClassSet(fr, cursor + 1)
<1>1. frames \in Seq(FrameIn(S)) /\ n \in Nat \ {0} /\ fr \in FrameIn(S)
      /\ S \subseteq OpIn(S) /\ FrameOp(fr) \in S /\ cursor \in 0 .. MaxPos
  BY DEF Witness, Inv
<1>2. /\ fr.open < u.span.start.offset
      /\ fr.lhs # <<>> => fr.open < OwnOpSpan(fr.lhs[1].op).start.offset
      /\ u.span.end.offset <= cursor
  BY <1>1 DEF Inv, FrameFacts, Limit
<1>3. u.span \in Span /\ fr.open \in 0 .. MaxPos /\ fr.negated \in BOOLEAN
  BY <1>1 DEF FrameIn, UnionIn
<1>4. /\ OwnOpSpan(FrameOp(fr)).start =
           (IF fr.lhs = <<>> THEN u.span.start ELSE OwnOpSpan(fr.lhs[1].op).start)
      /\ OwnOpSpan(FrameOp(fr)).end = u.span.end
  BY <1>1, FrameOpSpan
<1>5. fr.open < OwnOpSpan(FrameOp(fr)).start.offset
      /\ OwnOpSpan(FrameOp(fr)).end.offset <= cursor
  BY <1>2, <1>4
<1>6. SpanNew(Pos(fr.open), Pos(cursor + 1)) \in Span
  <2>1. /\ u.span.start.offset \in 0 .. MaxPos /\ u.span.end.offset \in 0 .. MaxPos
        /\ u.span.start.offset <= u.span.end.offset
    BY <1>3, SpanOffsets
  <2>2. fr.open <= cursor + 1 /\ cursor + 1 \in 0 .. MaxPos
    BY <1>1, <1>2, <1>3, <2>1
  <2>3. Pos(fr.open) \in Position /\ Pos(cursor + 1) \in Position
    BY <1>3, <2>2 DEF Pos, PositionNew, Position
  <2>4. Pos(fr.open).offset = fr.open /\ Pos(cursor + 1).offset = cursor + 1
    BY DEF Pos, PositionNew
  <2>. QED
    BY <2>2, <2>3, <2>4 DEF SpanNew, Span
<1>7. cls = [t |-> "Set",
             x |-> [span |-> SpanNew(Pos(fr.open), Pos(cursor + 1)),
                    negated |-> fr.negated, op |-> FrameOp(fr)]]
  BY DEF ClassSet
<1>8. cls \in ClassIn(S)
  BY <1>1, <1>3, <1>6, <1>7 DEF ClassIn
<1>9. cls.x.span.start.offset = fr.open /\ cls.x.span.end.offset = cursor + 1
  BY <1>7 DEF SpanNew, Pos, PositionNew
<1>10. ClassNested(cls)
  <2>1. OwnOpSpan(cls.x.op) = OwnOpSpan(FrameOp(fr))
    BY <1>7
  <2>2. OwnOpSpan(FrameOp(fr)) \in Span
    BY <1>1, OpSpanType
  <2>. QED
    BY <1>1, <1>5, <1>9, <2>1, <2>2, SpanOffsets DEF ClassNested
<1>. QED
  BY <1>8, <1>9, <1>10

(* ] closes the innermost class: the outermost one becomes the result, a  *)
(* nested one is pushed on the union of the frame below.                   *)
LEMMA CloseInv ==
  ASSUME Inv, Close
  PROVE  Inv'
<1>1. PICK S : Witness(S)
  BY DEF Inv
<1>0. PICK n \in Nat \ {0} : n = Len(frames)
  <2>1. frames \in Seq(FrameIn(S)) /\ frames # <<>>
    BY <1>1 DEF Witness, Close
  <2>. QED
    BY <2>1
<1> DEFINE fr == frames[n]
           cls == ClassSet(fr, cursor + 1)
           rest == SubSeq(frames, 1, n - 1)
<1>2. /\ frames \in Seq(FrameIn(S)) /\ n \in Nat \ {0} /\ n = Len(frames)
      /\ cursor \in 0 .. MaxPos /\ cursor + 1 <= MaxPos /\ cursor' = cursor + 1
      /\ result = <<>> /\ frames # <<>>
  BY <1>0, <1>1 DEF Witness, Inv, Close
<1>a. n \in Nat \ {0}
  BY <1>0
<1>b. fr \in FrameIn(S) /\ fr.open \in Nat
  <2>1. fr \in FrameIn(S)
    BY <1>2
  <2>. QED
    BY <2>1 DEF FrameIn
<1>3. /\ cls \in ClassIn(S)
      /\ ClassNested(cls)
      /\ cls.x.span.start.offset = fr.open
      /\ cls.x.span.end.offset = cursor + 1
  BY <1>1, <1>2, ClosedClass
<1>4. rest \in Seq(FrameIn(S)) /\ Len(rest) = n - 1 /\ \A i \in 1 .. n - 1 : rest[i] = frames[i]
  <2>1. \A i \in 1 .. n - 1 : frames[i] \in FrameIn(S)
    BY <1>2
  <2>2. rest \in Seq(FrameIn(S))
    BY <1>2, <2>1, SubSeqProperties
  <2>3. Len(rest) = IF 1 <= n - 1 THEN n - 1 - 1 + 1 ELSE 0
    BY <1>2, <2>1, SubSeqProperties
  <2>4. \A i \in 1 .. n - 1 - 1 + 1 : rest[i] = frames[1 + i - 1]
    BY <1>2, <2>1, SubSeqProperties
  <2>5. Len(rest) = n - 1
    <3>1. (IF 1 <= n - 1 THEN n - 1 - 1 + 1 ELSE 0) = n - 1
      BY <1>a
    <3>. QED
      BY <2>3, <3>1
  <2>6. \A i \in 1 .. n - 1 : rest[i] = frames[i]
    BY <1>a, <2>4
  <2>. QED
    BY <2>2, <2>5, <2>6
<1>5. CASE n = 1
  <2>1. rest = <<>>
    BY <1>2, <1>4, <1>5
  <2>2. frames' = <<>> /\ result' = <<cls>>
    BY <1>2, <2>1 DEF Close, Top
  <2>3. Witness(S)'
    BY <1>1, <1>3, <2>2 DEF Witness
  <2>. QED
    BY <1>2, <1>3, <2>2, <2>3 DEF Inv
<1>6. CASE n # 1
  <2> DEFINE p == frames[n - 1]
             item == [kind |-> "Class", cls |-> cls]
             u2 == UnionPush(p.union, item)
             p2 == [p EXCEPT !.union = u2]
  <2>1. rest # <<>> /\ n - 1 \in 1 .. n
    <3>1. Len(rest) = n - 1
      BY <1>4
    <3>2. Len(rest) # 0
      BY <1>a, <1>6, <3>1
    <3>3. rest # <<>>
      <4>1. Len(<<>>) = 0
        OBVIOUS
      <4>. QED
        BY <3>2, <4>1, Zenon
    <3>. QED
      BY <1>a, <1>6, <3>3
  <2>2. frames' = [rest EXCEPT ![n - 1] = p2] /\ result' = result
    BY <1>2, <1>4, <2>1 DEF Close, Top
  <2>3. Len(frames') = n - 1 /\ frames'[n - 1] = p2
        /\ \A i \in 1 .. n - 2 : frames'[i] = frames[i]
    <3>1. n - 1 \in 1 .. Len(rest) /\ rest[n - 1] = p
      BY <1>a, <1>4, <1>6
    <3>2. frames' = [rest EXCEPT ![n - 1] = p2]
      BY <2>2
    <3>3. Len(frames') = n - 1 /\ frames'[n - 1] = p2
      BY <1>4, <3>1, <3>2
    <3>4. \A i \in 1 .. n - 2 : frames'[i] = frames[i]
      <4>1. ASSUME NEW i \in 1 .. n - 2 PROVE frames'[i] = frames[i]
        <5>1. i \in 1 .. n - 1 /\ i # n - 1
          BY <1>a
        <5>2. rest[i] = frames[i] /\ DOMAIN rest = 1 .. n - 1
          BY <1>4, <5>1
        <5>. QED
          BY <3>2, <5>1, <5>2
      <4>. QED
        BY <4>1
    <3>. QED
      BY <3>3, <3>4
  <2>4. p \in FrameIn(S) /\ S \subseteq OpIn(S) /\ FrameOp(p) \in S
    BY <1>1, <1>2, <2>1 DEF Witness
  <2>5. /\ p.open < p.union.span.start.offset
        /\ p.lhs # <<>> =>
             /\ p.open < OwnOpSpan(p.lhs[1].op).start.offset
             /\ OwnOpSpan(p.lhs[1].op).end.offset <= p.union.span.start.offset
        /\ p.union.span.end.offset <= fr.open
    <3>1. Limit(n - 1) = fr.open
      BY <1>2, <1>6 DEF Limit
    <3>. QED
      BY <1>2, <2>1, <3>1 DEF Inv, FrameFacts
  <2>6. item \in ItemIn(S) /\ OwnItemSpan(item) = cls.x.span /\ item.kind = "Class"
    BY <1>3 DEF ItemIn, OwnItemSpan
  <2>7. p.union \in UnionIn(S) /\ p.union.span \in Span /\ p.open \in Nat
    BY <2>4 DEF FrameIn, UnionIn
  <2>8. Good(UnionOp(p.union))
    BY <1>1, <2>4, FrameParts DEF Witness
  <2>9. /\ u2 \in UnionIn(S)
        /\ OpNested(UnionOp(u2))
        /\ u2.span.start =
             IF p.union.items = <<>> THEN cls.x.span.start ELSE p.union.span.start
        /\ u2.span.end = cls.x.span.end
        /\ ClassesOf(UnionOp(u2)) = ClassesOf(UnionOp(p.union)) \cup {cls}
    <3>1. OpNested(UnionOp(p.union)) /\ p.union.span.end.offset <= OwnItemSpan(item).start.offset
      BY <1>3, <2>5, <2>6, <2>8 DEF Good
    <3>2. ClassesOf(UnionOp(u2)) =
            ClassesOf(UnionOp(p.union)) \cup (IF item.kind = "Class" THEN {item.cls} ELSE {})
      BY <2>6, <2>7, <3>1, PushNested
    <3>. QED
      BY <2>6, <2>7, <3>1, <3>2, PushNested
  <2>10. Good(UnionOp(u2))
    BY <1>3, <2>8, <2>9 DEF Good
  <2>11. p.union.span.start.offset <= u2.span.start.offset
         /\ u2.span.end.offset = cursor + 1
    <3>1. p.union.span.start.offset <= p.union.span.end.offset
          /\ p.union.span.end.offset \in Nat /\ p.union.span.start.offset \in Nat
      BY <2>7, SpanOffsets
    <3>2. fr.open \in Nat
      BY <1>b
    <3>3. u2.span.end.offset = cursor + 1
      <4>1. u2.span.end = cls.x.span.end
        BY <2>9
      <4>. QED
        BY <1>3, <4>1
    <3>4. CASE p.union.items = <<>>
      <4>1. u2.span.start = cls.x.span.start
        BY <2>9, <3>4
      <4>2. u2.span.start.offset = fr.open
        BY <1>3, <4>1
      <4>3. p.union.span.end.offset <= fr.open
        BY <2>5
      <4>. QED
        BY <3>1, <3>2, <3>3, <4>2, <4>3
    <3>5. CASE p.union.items # <<>>
      <4>1. u2.span.start = p.union.span.start
        BY <2>9, <3>5
      <4>. QED
        BY <3>1, <3>3, <4>1
    <3>. QED
      BY <3>4, <3>5
  <2>12. p2 \in FrameIn(S) /\ p2.lhs = p.lhs /\ p2.open = p.open /\ p2.union = u2
    BY <2>4, <2>9 DEF FrameIn
  <2>13. p2.lhs # <<>> => OwnOpSpan(p2.lhs[1].op).end.offset <= p2.union.span.start.offset
    <3> SUFFICES ASSUME p.lhs # <<>>
                 PROVE  OwnOpSpan(p.lhs[1].op).end.offset <= u2.span.start.offset
      BY <2>12
    <3>1. p.lhs[1].op \in OpIn(S)
      BY <2>4, FrameParts
    <3>2. OwnOpSpan(p.lhs[1].op) \in Span /\ u2.span \in Span
      BY <2>9, <3>1, OpSpanType DEF UnionIn
    <3>. QED
      BY <2>5, <2>7, <2>11, <3>2, SpanOffsets
  <2>14. PICK T : T = Grow(S, p2)
    OBVIOUS
  <2>15. T \subseteq OpIn(T) /\ \A op \in T : Good(op)
    BY <1>1, <2>10, <2>12, <2>13, <2>14, GrowWitness DEF Witness
  <2>16. S \subseteq T /\ FrameOp(p2) \in T
    BY <2>14 DEF Grow
  <2>17. FrameIn(S) \subseteq FrameIn(T) /\ ClassIn(S) \subseteq ClassIn(T)
    BY <2>16, InMonotone
  <2>18. Witness(T)'
    <3>1. frames' \in Seq(FrameIn(T))
      <4>1. rest \in Seq(FrameIn(S))
        BY <1>2
      <4>. QED
        BY <2>1, <2>2, <2>12, <2>17, <4>1
    <3>2. \A i \in 1 .. n - 1 : FrameOp(frames'[i]) \in T
      <4>1. ASSUME NEW i \in 1 .. n - 2 PROVE FrameOp(frames'[i]) \in T
        <5>1. FrameOp(frames[i]) \in S
          BY <1>1, <1>2 DEF Witness
        <5>. QED
          BY <2>3, <2>16, <5>1
      <4>2. FrameOp(frames'[n - 1]) \in T
        BY <2>3, <2>16
      <4>3. n - 1 \in Nat \ {0}
        BY <1>2, <1>6
      <4>. QED
        BY <4>1, <4>2, <4>3
    <3>3. result' \in Seq(ClassIn(T))
      BY <1>1, <2>2, <2>17 DEF Witness
    <3>. QED
      BY <2>3, <2>15, <3>1, <3>2, <3>3 DEF Witness
  <2>19. \A i \in 1 .. n - 1 : FrameFacts(i)'
    <3>1. ASSUME NEW i \in 1 .. n - 2 PROVE FrameFacts(i)'
      <4>1. frames'[i] = frames[i]
        BY <2>3
      <4>2. frames'[i + 1].open = frames[i + 1].open
        <5>1. CASE i + 1 = n - 1
          BY <2>3, <2>12, <5>1
        <5>2. CASE i + 1 # n - 1
          <6>1. i + 1 \in 1 .. n - 2
            BY <1>2, <5>2
          <6>. QED
            BY <2>3, <6>1
        <5>. QED
          BY <5>1, <5>2
      <4>3. Limit(i)' = Limit(i)
        <5>1. Len(frames') = n - 1
          BY <2>3
        <5>2. i < n - 1
          BY <1>2
        <5>3. i # Len(frames')
          BY <5>1, <5>2
        <5>4. i # Len(frames)
          BY <1>2, <5>2
        <5>5. Limit(i)' = frames'[i + 1].open /\ Limit(i) = frames[i + 1].open
          BY <5>3, <5>4 DEF Limit
        <5>. QED
          BY <4>2, <5>5
      <4>4. FrameFacts(i)
        BY <1>2 DEF Inv
      <4>. QED
        BY <4>1, <4>3, <4>4, FactsKept
    <3>2. ASSUME NEW i, i = n - 1 PROVE FrameFacts(i)'
      <4>1. frames'[i] = p2 /\ Limit(i)' = cursor'
        BY <2>3, <3>2 DEF Limit
      <4>2. u2.span \in Span
        BY <2>9 DEF UnionIn
      <4>3. p2.open < p2.union.span.start.offset
        BY <2>5, <2>7, <2>11, <2>12, <4>2, SpanOffsets
      <4>4. p2.union.span.end.offset <= Limit(i)'
        BY <1>2, <2>11, <2>12, <4>1
      <4>5. p2.lhs # <<>> => p2.open < OwnOpSpan(p2.lhs[1].op).start.offset
        BY <2>5, <2>12
      <4>. QED
        BY <2>13, <4>1, <4>3, <4>4, <4>5, FactsNew
    <3>. QED
      BY <3>1, <3>2
  <2>. QED
    BY <1>2, <2>2, <2>3, <2>18, <2>19 DEF Inv
<1>. QED
  BY <1>5, <1>6

(* Every step of the parser, or a stutter, keeps the inductive invariant.   *)
LEMMA StepInv ==
  ASSUME Inv, [Next]_vars
  PROVE  Inv'
<1>1. CASE UNCHANGED vars
  BY <1>1 DEF Inv, Witness, FrameFacts, Limit, Good, vars
<1>2. CASE \E neg \in BOOLEAN : Open(neg)
  BY <1>2, OpenInv
<1>3. CASE \E k \in LeafKinds, m \in 1 .. MaxItemLen : Leaf(k, m)
  BY <1>3, LeafInv
<1>4. CASE \E k \in OpKinds : Operator(k)
  BY <1>4, OperatorInv
<1>5. CASE Close
  BY <1>5, CloseInv
<1>. QED
  BY <1>1, <1>2, <1>3, <1>4, <1>5 DEF Next

(* In every state the class-set parser of Parser::parse_set_class reaches, *)
(* every node reachable from its stack or its result holds a span: a       *)
(* binary operation's operands lie within it in order, a union's items lie *)
(* within it in order, and a bracketed class's span strictly encloses the  *)
(* span of the operation it wraps.  This holds for every bound.            *)
THEOREM SpansNest == Spec => []NestedClosure
<1>1. Init => Inv
  BY InitInv
<1>2. Inv /\ [Next]_vars => Inv'
  BY StepInv
<1>3. Inv => NestedClosure
  BY InvNested
<1>. QED
  BY <1>1, <1>2, <1>3, PTL DEF Spec

=============================================================================
