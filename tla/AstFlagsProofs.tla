---------------------------- MODULE AstFlagsProofs ----------------------------
(***************************************************************************)
(* Proofs about AstFlags for every set of flags and every length of flag  *)
(* text: add_item never lets a kind into the items twice, and what it      *)
(* returns is None or the index of an item.  The two are proved together:  *)
(* without duplicates, an item of the offered kind is the first one, so    *)
(* the scan of add_item stops at it.                                       *)
(***************************************************************************)
EXTENDS AstFlags, TLAPS

USE NegationAssumption, NoneAssumption, MaxLenAssumption

(* Every item was offered before the current offset: the parser moves     *)
(* forward one byte per item.                                              *)
SpansBelow == \A i \in 1 .. Len(items) : items[i].span < pos

Inv == TypeOK /\ NoDuplicateKinds /\ SpansBelow /\ DuplicateNamesOriginal

(* The loop of flag_state in closed form.  After j items the loop has     *)
(* returned once it met the queried flag (Found), and negated records a    *)
(* negation met before any occurrence of the flag (NegSeen).               *)
ScanStart == [neg |-> FALSE, ret |-> None]

Found(seq, f, j) == \E i \in 1 .. j : seq[i].kind = f

NegSeen(seq, f, j) ==
  \E l \in 1 .. j : seq[l].kind = Negation /\ \A i \in 1 .. l - 1 : seq[i].kind # f

Expected(seq, f) ==
  [j \in 0 .. Len(seq) |->
     [neg |-> NegSeen(seq, f, j),
      ret |-> IF Found(seq, f, j) THEN ~NegSeen(seq, f, j) ELSE None]]

(* g satisfies the recursive definition of scan in FlagState.             *)
IsScan(g, seq, f) ==
  g = [j \in 0 .. Len(seq) |->
         IF j = 0 THEN ScanStart ELSE ScanStep(g[j - 1], seq[j].kind, f)]

(* The recursive definition of scan has exactly one solution for the       *)
(* current items: the closed form.                                         *)
ScanUnique == \A f \in Flags : \A g : IsScan(g, items, f) => g = Expected(items, f)

(* What the scan of add_item finds in a sequence without duplicate kinds.  *)
LEMMA ScanFinds ==
  ASSUME NEW seq \in Seq(Items), NEW k \in Kinds,
         \A i, j \in 1 .. Len(seq) : i # j => seq[i].kind # seq[j].kind
  PROVE  /\ (\A i \in 1 .. Len(seq) : seq[i].kind # k)
              => FirstWithKind(seq, k) = None
         /\ \A i \in 1 .. Len(seq) :
              seq[i].kind = k => FirstWithKind(seq, k) = i
<1>1. ASSUME \A i \in 1 .. Len(seq) : seq[i].kind # k
      PROVE  FirstWithKind(seq, k) = None
  BY <1>1 DEF FirstWithKind
<1>2. ASSUME NEW i \in 1 .. Len(seq), seq[i].kind = k
      PROVE  FirstWithKind(seq, k) = i
  <2>1. \A x \in 1 .. Len(seq) :
          (seq[x].kind = k /\ \A j \in 1 .. x - 1 : seq[j].kind # k) <=> x = i
    BY <1>2
  <2>2. \E x \in 1 .. Len(seq) : seq[x].kind = k
    BY <1>2
  <2>. QED
    BY <2>1, <2>2 DEF FirstWithKind
<1>. QED
  BY <1>1, <1>2

(* FlagState reads the solution of the recursive definition of scan, when *)
(* it has exactly one.                                                     *)
LEMMA FlagStateOfScan ==
  ASSUME NEW seq, NEW f, NEW g, IsScan(g, seq, f),
         \A h : IsScan(h, seq, f) => h = g
  PROVE  FlagState(seq, f) = g[Len(seq)].ret
BY DEF FlagState, IsScan, ScanStart

(* One item more: the closed form after j items is one loop iteration    *)
(* applied to the closed form after j - 1.                                 *)
LEMMA ExpectedStep ==
  ASSUME NEW seq \in Seq(Items), NEW f \in Flags, NEW j \in 1 .. Len(seq)
  PROVE  Expected(seq, f)[j] = ScanStep(Expected(seq, f)[j - 1], seq[j].kind, f)
<1> DEFINE x == seq[j].kind
           prev == Expected(seq, f)[j - 1]
           cur == Expected(seq, f)[j]
<1>1. x \in Kinds /\ f # Negation
  <2>1. seq[j] \in Items
    OBVIOUS
  <2>. QED
    BY <2>1 DEF Items, Kinds
<1>2. prev = [neg |-> NegSeen(seq, f, j - 1),
              ret |-> IF Found(seq, f, j - 1) THEN ~NegSeen(seq, f, j - 1) ELSE None]
  BY DEF Expected
<1>3. cur = [neg |-> NegSeen(seq, f, j),
             ret |-> IF Found(seq, f, j) THEN ~NegSeen(seq, f, j) ELSE None]
  BY DEF Expected
<1>4. Found(seq, f, j) <=> Found(seq, f, j - 1) \/ x = f
  BY DEF Found
<1>5. NegSeen(seq, f, j) <=>
        NegSeen(seq, f, j - 1) \/ (x = Negation /\ ~Found(seq, f, j - 1))
  BY DEF NegSeen, Found
<1>6. CASE Found(seq, f, j - 1)
  <2>1. prev = [neg |-> NegSeen(seq, f, j - 1), ret |-> ~NegSeen(seq, f, j - 1)]
    BY <1>2, <1>6
  <2>2. prev.ret # None
    <3>1. prev.ret \in BOOLEAN
      BY <2>1
    <3>. QED
      BY <3>1, NoneNotBooleanAssumption
  <2>3. ScanStep(prev, x, f) = prev
    BY <2>2 DEF ScanStep
  <2>4. NegSeen(seq, f, j) = NegSeen(seq, f, j - 1)
    BY <1>5, <1>6, Zenon DEF NegSeen
  <2>5. cur = [neg |-> NegSeen(seq, f, j), ret |-> ~NegSeen(seq, f, j)]
    BY <1>3, <1>4, <1>6
  <2>. QED
    BY <2>1, <2>3, <2>4, <2>5
<1>7. CASE ~Found(seq, f, j - 1)
  <2>1. prev = [neg |-> NegSeen(seq, f, j - 1), ret |-> None]
    BY <1>2, <1>7
  <2>2. CASE x = Negation
    <3>1. ScanStep(prev, x, f) = [neg |-> TRUE, ret |-> None]
      BY <2>1, <2>2 DEF ScanStep
    <3>2. NegSeen(seq, f, j) = TRUE /\ ~Found(seq, f, j)
      BY <1>1, <1>4, <1>5, <1>7, <2>2, Zenon
    <3>3. cur = [neg |-> NegSeen(seq, f, j), ret |-> None]
      BY <1>3, <3>2
    <3>. QED
      BY <3>1, <3>2, <3>3
  <2>3. CASE x = f
    <3>1. ScanStep(prev, x, f) =
            [neg |-> NegSeen(seq, f, j - 1), ret |-> ~NegSeen(seq, f, j - 1)]
      BY <1>1, <2>1, <2>3 DEF ScanStep
    <3>2. NegSeen(seq, f, j) = NegSeen(seq, f, j - 1) /\ Found(seq, f, j)
      BY <1>1, <1>4, <1>5, <2>3, Zenon DEF NegSeen
    <3>3. cur = [neg |-> NegSeen(seq, f, j), ret |-> ~NegSeen(seq, f, j)]
      BY <1>3, <3>2
    <3>. QED
      BY <3>1, <3>2, <3>3
  <2>4. CASE x # Negation /\ x # f
    <3>1. ScanStep(prev, x, f) = prev
      BY <2>1, <2>4 DEF ScanStep
    <3>2. NegSeen(seq, f, j) = NegSeen(seq, f, j - 1) /\ ~Found(seq, f, j)
      BY <1>4, <1>5, <1>7, <2>4, Zenon DEF NegSeen
    <3>3. cur = [neg |-> NegSeen(seq, f, j), ret |-> None]
      BY <1>3, <3>2
    <3>. QED
      BY <2>1, <3>1, <3>2, <3>3
  <2>. QED
    BY <2>2, <2>3, <2>4
<1>. QED
  BY <1>6, <1>7

(* The closed form solves the recursive definition of scan.               *)
LEMMA ExpectedIsScan ==
  ASSUME NEW seq \in Seq(Items), NEW f \in Flags
  PROVE  IsScan(Expected(seq, f), seq, f)
<1>1. Expected(seq, f)[0] = ScanStart
  <2>1. ~Found(seq, f, 0) /\ ~NegSeen(seq, f, 0)
    BY DEF Found, NegSeen
  <2>2. Expected(seq, f)[0] =
          [neg |-> NegSeen(seq, f, 0),
           ret |-> IF Found(seq, f, 0) THEN ~NegSeen(seq, f, 0) ELSE None]
    BY DEF Expected
  <2>. QED
    <3>1. NegSeen(seq, f, 0) = FALSE
      BY <2>1, Zenon DEF NegSeen
    <3>2. (IF Found(seq, f, 0) THEN ~NegSeen(seq, f, 0) ELSE None) = None
      BY <2>1
    <3>. QED
      BY <2>2, <3>1, <3>2 DEF ScanStart
<1>2. \A j \in 1 .. Len(seq) :
        Expected(seq, f)[j] = ScanStep(Expected(seq, f)[j - 1], seq[j].kind, f)
  BY ExpectedStep
<1>3. Expected(seq, f) = [j \in 0 .. Len(seq) |-> Expected(seq, f)[j]]
  BY DEF Expected
<1>4. \A j \in 0 .. Len(seq) :
        Expected(seq, f)[j] =
          IF j = 0 THEN ScanStart ELSE ScanStep(Expected(seq, f)[j - 1], seq[j].kind, f)
  BY <1>1, <1>2
<1>. QED
  BY <1>3, <1>4 DEF IsScan

(* Appending an item leaves the closed form of every prefix alone.       *)
LEMMA ExpectedPrefix ==
  ASSUME NEW seq \in Seq(Items), NEW x, NEW f, NEW j \in 0 .. Len(seq)
  PROVE  Expected(Append(seq, x), f)[j] = Expected(seq, f)[j]
<1> DEFINE s2 == Append(seq, x)
<1>1. \A i \in 1 .. j : s2[i] = seq[i]
  OBVIOUS
<1>2. Found(s2, f, j) <=> Found(seq, f, j)
  BY <1>1 DEF Found
<1>3. NegSeen(s2, f, j) <=> NegSeen(seq, f, j)
  BY <1>1 DEF NegSeen
<1>4. Found(s2, f, j) = Found(seq, f, j) /\ NegSeen(s2, f, j) = NegSeen(seq, f, j)
  BY <1>2, <1>3, Zenon DEF Found, NegSeen
<1>5. j \in 0 .. Len(s2)
  OBVIOUS
<1>. QED
  BY <1>4, <1>5 DEF Expected

(* A solution of scan for seq extended by one item is, on 0 .. Len(seq),  *)
(* a solution of scan for seq.                                             *)
LEMMA ScanRestrict ==
  ASSUME NEW seq \in Seq(Items), NEW x, NEW f, NEW g, IsScan(g, Append(seq, x), f)
  PROVE  IsScan([j \in 0 .. Len(seq) |-> g[j]], seq, f)
<1>1. \A j \in 0 .. Len(seq) :
        g[j] = IF j = 0 THEN ScanStart
               ELSE ScanStep(g[j - 1], Append(seq, x)[j].kind, f)
  BY DEF IsScan
<1>2. \A j \in 1 .. Len(seq) : Append(seq, x)[j] = seq[j]
  OBVIOUS
<1>. QED
  BY <1>1, <1>2 DEF IsScan

(* scan has one solution for the empty sequence.                           *)
LEMMA UniqueEmpty ==
  ASSUME NEW f \in Flags
  PROVE  \A g : IsScan(g, <<>>, f) => g = Expected(<<>>, f)
<1>1. IsScan(Expected(<<>>, f), <<>>, f)
  <2>1. <<>> \in Seq(Items)
    OBVIOUS
  <2>. QED
    BY <2>1, ExpectedIsScan
<1>2. \A g : IsScan(g, <<>>, f) => g = [j \in 0 .. 0 |-> ScanStart]
  BY DEF IsScan
<1>. QED
  BY <1>1, <1>2

(* If scan has one solution for seq, it has one for seq and one item more. *)
LEMMA UniqueAppend ==
  ASSUME NEW seq \in Seq(Items), NEW x \in Items, NEW f \in Flags,
         \A g : IsScan(g, seq, f) => g = Expected(seq, f)
  PROVE  \A g : IsScan(g, Append(seq, x), f) => g = Expected(Append(seq, x), f)
<1> SUFFICES ASSUME NEW g, IsScan(g, Append(seq, x), f)
             PROVE  g = Expected(Append(seq, x), f)
  OBVIOUS
<1> DEFINE s2 == Append(seq, x)
           n == Len(seq)
<1>1. s2 \in Seq(Items) /\ Len(s2) = n + 1 /\ s2[n + 1] = x
  OBVIOUS
<1>2. [j \in 0 .. n |-> g[j]] = Expected(seq, f)
  BY ScanRestrict
<1>3. \A j \in 0 .. n : g[j] = Expected(s2, f)[j]
  <2>1. \A j \in 0 .. n : g[j] = Expected(seq, f)[j]
    BY <1>2
  <2>2. \A j \in 0 .. n : Expected(s2, f)[j] = Expected(seq, f)[j]
    BY ExpectedPrefix
  <2>. QED
    BY <2>1, <2>2
<1>4. g[n + 1] = ScanStep(g[n], x.kind, f)
  BY <1>1 DEF IsScan
<1>5. Expected(s2, f)[n + 1] = ScanStep(Expected(s2, f)[n], x.kind, f)
  <2>1. n + 1 \in 1 .. Len(s2) /\ (n + 1) - 1 = n
    BY <1>1
  <2>2. Expected(s2, f)[n + 1] = ScanStep(Expected(s2, f)[(n + 1) - 1], s2[n + 1].kind, f)
    BY <1>1, <2>1, ExpectedStep
  <2>. QED
    BY <1>1, <2>1, <2>2
<1>6. g = [j \in 0 .. n + 1 |-> g[j]]
  BY <1>1 DEF IsScan
<1>7. Expected(s2, f) = [j \in 0 .. n + 1 |-> Expected(s2, f)[j]]
  BY <1>1 DEF Expected
<1>8. \A j \in 0 .. n + 1 : j \in 0 .. n \/ j = n + 1
  OBVIOUS
<1>9. \A j \in 0 .. n + 1 : g[j] = Expected(s2, f)[j]
  BY <1>3, <1>4, <1>5, <1>8
<1>. QED
  BY <1>6, <1>7, <1>9

(* Without duplicate kinds, the closed form at the end of the items is    *)
(* the meaning of the group: a present flag is on exactly when no negation *)
(* comes before it.                                                        *)
LEMMA ExpectedMeaning ==
  ASSUME NEW seq \in Seq(Items), NEW f \in Flags,
         \A i, j \in 1 .. Len(seq) : i # j => seq[i].kind # seq[j].kind
  PROVE  Expected(seq, f)[Len(seq)].ret =
           IF \E i \in 1 .. Len(seq) : seq[i].kind = f
           THEN \E i \in 1 .. Len(seq) :
                  /\ seq[i].kind = f
                  /\ \A j \in 1 .. i - 1 : seq[j].kind # Negation
           ELSE None
<1> DEFINE n == Len(seq)
<1>1. Expected(seq, f)[n] =
        [neg |-> NegSeen(seq, f, n),
         ret |-> IF Found(seq, f, n) THEN ~NegSeen(seq, f, n) ELSE None]
  BY DEF Expected
<1>2. CASE \E i \in 1 .. n : seq[i].kind = f
  <2>1. PICK i \in 1 .. n : seq[i].kind = f
    BY <1>2
  <2>2. f # Negation
    OBVIOUS
  <2>3. ~NegSeen(seq, f, n) <=> \A j \in 1 .. i - 1 : seq[j].kind # Negation
    BY <2>1, <2>2 DEF NegSeen
  <2>4. (\E i2 \in 1 .. n : seq[i2].kind = f /\ \A j \in 1 .. i2 - 1 : seq[j].kind # Negation)
          <=> \A j \in 1 .. i - 1 : seq[j].kind # Negation
    BY <2>1
  <2>5. Found(seq, f, n)
    BY <2>1 DEF Found
  <2>6. Expected(seq, f)[n].ret = ~NegSeen(seq, f, n)
    BY <1>1, <2>5
  <2>7. (~NegSeen(seq, f, n)) =
          \E i2 \in 1 .. n : seq[i2].kind = f /\ \A j \in 1 .. i2 - 1 : seq[j].kind # Negation
    BY <2>3, <2>4, Zenon DEF NegSeen
  <2>. QED
    BY <1>2, <2>6, <2>7
<1>3. CASE ~\E i \in 1 .. n : seq[i].kind = f
  <2>1. ~Found(seq, f, n)
    BY <1>3 DEF Found
  <2>. QED
    BY <1>1, <1>3, <2>1
<1>. QED
  BY <1>2, <1>3

LEMMA InitInv == Init => Inv
BY DEF Init, Inv, TypeOK, NoDuplicateKinds, SpansBelow, DuplicateNamesOriginal

LEMMA StepInv == Inv /\ [Next]_vars => Inv'
<1> SUFFICES ASSUME Inv, [Next]_vars PROVE Inv'
  OBVIOUS
<1>1. CASE UNCHANGED vars
  BY <1>1 DEF Inv, TypeOK, NoDuplicateKinds, SpansBelow, DuplicateNamesOriginal, vars
<1>2. ASSUME NEW k \in Kinds, AddItem(k) PROVE Inv'
  <2> DEFINE found == FirstWithKind(items, k)
  <2>1. items \in Seq(Items) /\ NoDuplicateKinds
    BY DEF Inv, TypeOK
  <2>2. pos' = pos + 1 /\ pos \in 0 .. MaxLen - 1 /\ result' = found /\ offered' = k
    BY <1>2 DEF AddItem, Inv, TypeOK
  <2>3. CASE \E i \in 1 .. Len(items) : items[i].kind = k
    <3>1. PICK i \in 1 .. Len(items) : items[i].kind = k
      BY <2>3
    <3>2. found = i
      BY <2>1, <3>1, ScanFinds DEF NoDuplicateKinds
    <3>3. items' = items
      BY <1>2, <3>2, NoneAssumption DEF AddItem
    <3>4. SpansBelow' /\ items[i].span < pos
      <4>1. SpansBelow
        BY DEF Inv
      <4>2. ASSUME NEW j \in 1 .. Len(items) PROVE items[j].span \in Nat
        <5>1. items[j] \in Items
          BY <2>1
        <5>. QED
          BY <5>1 DEF Items
      <4>. QED
        BY <4>1, <4>2, <2>2, <3>3 DEF SpansBelow
    <3>5. DuplicateNamesOriginal'
      BY <2>2, <3>1, <3>2, <3>3, <3>4 DEF DuplicateNamesOriginal
    <3>. QED
      BY <2>1, <2>2, <3>2, <3>3, <3>4, <3>5 DEF Inv, TypeOK, NoDuplicateKinds
  <2>4. CASE \A i \in 1 .. Len(items) : items[i].kind # k
    <3> DEFINE new == [span |-> pos, kind |-> k]
    <3>1. found = None
      BY <2>1, <2>4, ScanFinds DEF NoDuplicateKinds
    <3>2. items' = Append(items, new)
      BY <1>2, <3>1 DEF AddItem
    <3>3. new \in Items
      BY <2>2 DEF Items
    <3>4. items' \in Seq(Items) /\ Len(items') = Len(items) + 1
      BY <2>1, <3>2, <3>3
    <3>5. \A i \in 1 .. Len(items) : items'[i] = items[i]
      BY <2>1, <3>2
    <3>6. items'[Len(items) + 1] = new
      BY <2>1, <3>2
    <3>7. NoDuplicateKinds'
      BY <2>1, <2>4, <3>4, <3>5, <3>6 DEF NoDuplicateKinds
    <3>8. TypeOK'
      BY <2>2, <3>1, <3>4 DEF TypeOK
    <3>9. SpansBelow'
      <4>1. \A j \in 1 .. Len(items) : items[j].span < pos
        BY DEF Inv, SpansBelow
      <4>2. ASSUME NEW j \in 1 .. Len(items) PROVE items[j].span \in Nat
        <5>1. items[j] \in Items
          BY <2>1
        <5>. QED
          BY <5>1 DEF Items
      <4>3. \A j \in 1 .. Len(items') : j \in 1 .. Len(items) \/ j = Len(items) + 1
        BY <2>1, <3>4
      <4>. QED
        BY <2>2, <3>4, <3>5, <3>6, <4>1, <4>2, <4>3 DEF SpansBelow
    <3>10. DuplicateNamesOriginal'
      BY <2>2, <3>1 DEF DuplicateNamesOriginal
    <3>. QED
      BY <3>7, <3>8, <3>9, <3>10 DEF Inv
  <2>. QED
    BY <2>3, <2>4
<1>. QED
  BY <1>1, <1>2 DEF Next

(* For every set of flags, a group built by add_item holds each flag at    *)
(* most once and at most one negation, and every Some(i) it returned is    *)
(* the index of an item.                                                   *)
THEOREM NoDuplicates == Spec => [](TypeOK /\ NoDuplicateKinds)
<1>1. Init => Inv
  BY InitInv
<1>2. Inv /\ [Next]_vars => Inv'
  BY StepInv
<1>3. Inv => TypeOK /\ NoDuplicateKinds
  BY DEF Inv
<1>. QED
  BY <1>1, <1>2, <1>3, PTL DEF Spec

(* For every set of flags, every Some(i) add_item returns names an item of *)
(* the kind just offered, written before it: the span the parser reports   *)
(* as the original of a duplicate flag or repeated negation is the first  *)
(* occurrence.                                                             *)
THEOREM DuplicateOriginal == Spec => []DuplicateNamesOriginal
<1>1. Inv => DuplicateNamesOriginal
  BY DEF Inv
<1>. QED
  BY <1>1, InitInv, StepInv, PTL DEF Spec

(* The closed form is the unique solution in every reachable state.       *)
LEMMA InitScan == Init => ScanUnique
<1> SUFFICES ASSUME Init, NEW f \in Flags PROVE \A g : IsScan(g, items, f) => g = Expected(items, f)
  BY DEF ScanUnique
<1>. QED
  BY UniqueEmpty DEF Init

LEMMA StepScan == Inv /\ ScanUnique /\ [Next]_vars => ScanUnique'
<1> SUFFICES ASSUME Inv, ScanUnique, [Next]_vars, NEW f \in Flags
             PROVE  \A g : IsScan(g, items', f) => g = Expected(items', f)
  BY DEF ScanUnique
<1>1. items \in Seq(Items) /\ pos \in Nat
  BY DEF Inv, TypeOK
<1>2. \A g : IsScan(g, items, f) => g = Expected(items, f)
  BY DEF ScanUnique
<1>3. CASE UNCHANGED vars
  BY <1>2, <1>3 DEF vars
<1>4. ASSUME NEW k \in Kinds, AddItem(k) PROVE \A g : IsScan(g, items', f) => g = Expected(items', f)
  <2>1. CASE items' = items
    BY <1>2, <2>1
  <2>2. CASE items' = Append(items, [span |-> pos, kind |-> k])
    <3>1. [span |-> pos, kind |-> k] \in Items
      BY <1>1 DEF Items
    <3>. QED
      BY <1>1, <1>2, <2>2, <3>1, UniqueAppend
  <2>. QED
    BY <1>4, <2>1, <2>2 DEF AddItem
<1>. QED
  BY <1>3, <1>4 DEF Next

(* For every set of flags, flag_state's loop gives every flag of a group   *)
(* built by add_item the meaning of spec 4.5: on before the first -, off   *)
(* after it, unset when absent.                                            *)
THEOREM FlagStateCorrect == Spec => []FlagStateMeaning
<1>1. Inv /\ ScanUnique => FlagStateMeaning
  <2> SUFFICES ASSUME Inv, ScanUnique, NEW f \in Flags
               PROVE  FlagState(items, f) = Expected(items, f)[Len(items)].ret
    <3>1. ASSUME Inv, NEW f \in Flags
          PROVE  Expected(items, f)[Len(items)].ret =
                   IF \E i \in 1 .. Len(items) : items[i].kind = f
                   THEN \E i \in 1 .. Len(items) :
                          /\ items[i].kind = f
                          /\ \A j \in 1 .. i - 1 : items[j].kind # Negation
                   ELSE None
      BY <3>1, ExpectedMeaning DEF Inv, TypeOK, NoDuplicateKinds
    <3>. QED
      BY <3>1 DEF FlagStateMeaning
  <2>1. items \in Seq(Items)
    BY DEF Inv, TypeOK
  <2>2. IsScan(Expected(items, f), items, f)
    BY <2>1, ExpectedIsScan
  <2>3. \A h : IsScan(h, items, f) => h = Expected(items, f)
    BY DEF ScanUnique
  <2>. QED
    BY <2>2, <2>3, FlagStateOfScan
<1>. QED
  BY <1>1, InitInv, StepInv, InitScan, StepScan, PTL DEF Spec

(* Type correctness of add_item: the items are well formed and every      *)
(* Some(i) it returns indexes them.                                        *)
THEOREM FlagsTypeCorrect == Spec => []TypeOK
BY NoDuplicates, PTL

-----------------------------------------------------------------------------
(* The refinement of FlagSet: the kinds of the items are the abstract set. *)

KindsOf(seq) == {seq[i].kind : i \in 1 .. Len(seq)}

LEMMA RefInit == Init => FS!Init
BY DEF Init, FS!Init

(* A push adds the kind of the new item to the kinds of the items.         *)
LEMMA KindsOfAppend ==
  ASSUME NEW seq \in Seq(Items), NEW new \in Items
  PROVE  KindsOf(Append(seq, new)) = KindsOf(seq) \cup {new.kind}
<1>1. /\ Len(Append(seq, new)) = Len(seq) + 1
      /\ \A i \in 1 .. Len(seq) : Append(seq, new)[i] = seq[i]
      /\ Append(seq, new)[Len(seq) + 1] = new
  OBVIOUS
<1>2. \A i \in 1 .. Len(seq) + 1 : i \in 1 .. Len(seq) \/ i = Len(seq) + 1
  OBVIOUS
<1>. QED
  BY <1>1, <1>2 DEF KindsOf

LEMMA RefStep == Inv /\ [Next]_vars => [FS!Next]_FS!vars
<1> SUFFICES ASSUME Inv, [Next]_vars PROVE [FS!Next]_FS!vars
  OBVIOUS
<1>1. CASE UNCHANGED vars
  BY <1>1 DEF vars, FS!vars
<1>2. ASSUME NEW k \in Kinds, AddItem(k) PROVE [FS!Next]_FS!vars
  <2> DEFINE found == FirstWithKind(items, k)
  <2>1. items \in Seq(Items) /\ NoDuplicateKinds
    BY DEF Inv, TypeOK
  <2>2. pos' = pos + 1 /\ pos < MaxLen /\ result' = found
    BY <1>2 DEF AddItem
  <2>3. CASE \E i \in 1 .. Len(items) : items[i].kind = k
    <3>1. PICK i \in 1 .. Len(items) : items[i].kind = k
      BY <2>3
    <3>2. found = i
      BY <2>1, <3>1, ScanFinds DEF NoDuplicateKinds
    <3>3. found # None
      BY <3>2, NoneAssumption
    <3>4. items' = items
      BY <1>2, <3>3 DEF AddItem
    <3>5. k \in KindsOf(items) /\ KindsOf(items') = KindsOf(items) \cup {k}
      BY <3>1, <3>4 DEF KindsOf
    <3>6. FS!Offer(k)
      BY <2>2, <3>3, <3>5 DEF FS!Offer, KindsOf
    <3>. QED
      BY <3>6 DEF FS!Next
  <2>4. CASE \A i \in 1 .. Len(items) : items[i].kind # k
    <3> DEFINE new == [span |-> pos, kind |-> k]
    <3>1. found = None
      BY <2>1, <2>4, ScanFinds DEF NoDuplicateKinds
    <3>2. items' = Append(items, new)
      BY <1>2, <3>1 DEF AddItem
    <3>3. new \in Items
      BY DEF Inv, TypeOK, Items
    <3>4. KindsOf(items') = KindsOf(items) \cup {k}
      BY <2>1, <3>2, <3>3, KindsOfAppend
    <3>5. k \notin KindsOf(items)
      BY <2>4 DEF KindsOf
    <3>6. ((result # None)' = FALSE) /\ ((k \in KindsOf(items)) = FALSE)
      BY <2>2, <3>1, <3>5
    <3>7. (result # None)' = (k \in KindsOf(items))
      BY <3>6, Zenon
    <3>8. FS!Offer(k)
      BY <2>2, <3>4, <3>7 DEF FS!Offer, KindsOf
    <3>. QED
      BY <3>8 DEF FS!Next
  <2>. QED
    BY <2>3, <2>4
<1>. QED
  BY <1>1, <1>2 DEF Next

(* add_item implements its doc comment's promise for every set of flags    *)
(* and every length of flag text: mapped to the set of the items' kinds,   *)
(* every call refuses exactly a kind already held and adds any other, so   *)
(* the behaviours of AstFlags are behaviours of FlagSet.                   *)
THEOREM FlagSetRefined == Spec => RefinesFlagSet
<1>1. Init => FS!Init
  BY RefInit
<1>2. Inv /\ [Next]_vars => [FS!Next]_FS!vars
  BY RefStep
<1>. QED
  BY <1>1, <1>2, InitInv, StepInv, PTL DEF Spec, RefinesFlagSet, FS!Spec

=============================================================================
