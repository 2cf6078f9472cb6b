------------------------- MODULE FindCapturesProofs -------------------------
(***************************************************************************)
(* Proofs about FindCaptures, for every text length, every number of       *)
(* capture groups and every engine obeying the contract of                 *)
(* RegularExpression: the slot vectors stay well typed, every yielded      *)
(* vector describes its match, and every step of captures_iter is a step   *)
(* or a stutter of find_iter under the refinement mapping FM.              *)
(***************************************************************************)
EXTENDS FindCaptures, TLAPS

USE TextLenAssumption, GroupsAssumption, NoneAssumption

(* What a vector of the form captures_at fills describes: the match in     *)
(* slots 1 and 2, and for each other group either nothing or a span inside *)
(* the match.                                                              *)
Describes(v, m) ==
  /\ v \in [1 .. SlotsLen -> Slot]
  /\ v[1] = m[1] /\ v[2] = m[2]
  /\ \A g \in 1 .. Groups - 1 :
       \/ v[2*g + 1] = None /\ v[2*g + 2] = None
       \/ /\ v[2*g + 1] \in Positions /\ v[2*g + 2] \in Positions
          /\ m[1] <= v[2*g + 1] /\ v[2*g + 1] <= v[2*g + 2] /\ v[2*g + 2] <= m[2]

(* A fresh vector filled by captures_at with the writes of a match m       *)
(* describes m: the slots of a group left alone stay None, and those of a  *)
(* group that took part hold its span.                                     *)
LEMMA FillDescribes ==
  ASSUME NEW m \in Match, NEW w \in GroupWrites(m)
  PROVE  Describes(Fill(FreshSlots, w), m)
<1> DEFINE Sub == {p \in Match : m[1] <= p[1] /\ p[2] <= m[2]}
           Part == [1 .. Groups - 1 -> Sub \cup {None}]
           D(gr) == {1, 2} \cup UNION {IF gr[g] = None THEN {} ELSE {2*g + 1, 2*g + 2}
                                        : g \in 1 .. Groups - 1}
<1> USE DEF Sub, Part
<1>0. ASSUME NEW gr \in Part
      PROVE  \A x : x \in D(gr) <=>
               \/ x \in {1, 2}
               \/ \E h \in 1 .. Groups - 1 : gr[h] # None /\ x \in {2*h + 1, 2*h + 2}
  BY Zenon DEF D
<1>1. PICK gr \in Part :
        w = [k \in D(gr) |-> IF k = 1 THEN m[1] ELSE IF k = 2 THEN m[2]
                             ELSE gr[(k - 1) \div 2][2 - (k % 2)]]
  BY DEF GroupWrites
<1>2. /\ \A k : k \in DOMAIN w <=>
               \/ k \in {1, 2}
               \/ \E h \in 1 .. Groups - 1 : gr[h] # None /\ k \in {2*h + 1, 2*h + 2}
      /\ w[1] = m[1] /\ w[2] = m[2]
      /\ \A k \in DOMAIN w \ {1, 2} : w[k] = gr[(k - 1) \div 2][2 - (k % 2)]
  BY <1>0, <1>1
<1> DEFINE vec == Fill(FreshSlots, w)
<1>3. DOMAIN vec = 1 .. SlotsLen
      /\ \A k \in 1 .. SlotsLen : vec[k] = IF k \in DOMAIN w THEN w[k] ELSE None
  BY DEF Fill, FreshSlots, NoSlots
<1>4. m[1] \in Positions /\ m[2] \in Positions /\ m[1] <= m[2]
  BY DEF Match
<1>5. vec[1] = m[1] /\ vec[2] = m[2]
  BY <1>2, <1>3 DEF SlotsLen
<1>6. ASSUME NEW g \in 1 .. Groups - 1
      PROVE  /\ 2*g + 1 \in 1 .. SlotsLen /\ 2*g + 2 \in 1 .. SlotsLen
             /\ gr[g] = None => vec[2*g + 1] = None /\ vec[2*g + 2] = None
             /\ gr[g] # None => vec[2*g + 1] = gr[g][1] /\ vec[2*g + 2] = gr[g][2]
  <2>1. 2*g + 1 \in 1 .. SlotsLen /\ 2*g + 2 \in 1 .. SlotsLen
    BY DEF SlotsLen
  <2>2. \A h \in 1 .. Groups - 1 :
          (2*g + 1 \in {2*h + 1, 2*h + 2} \/ 2*g + 2 \in {2*h + 1, 2*h + 2}) => h = g
    OBVIOUS
  <2>3. gr[g] = None => 2*g + 1 \notin DOMAIN w /\ 2*g + 2 \notin DOMAIN w
    BY <1>2, <2>2
  <2>4. gr[g] # None => 2*g + 1 \in DOMAIN w /\ 2*g + 2 \in DOMAIN w
    BY <1>2
  <2>5. (2*g + 1 - 1) \div 2 = g /\ 2 - ((2*g + 1) % 2) = 1
        /\ (2*g + 2 - 1) \div 2 = g /\ 2 - ((2*g + 2) % 2) = 2
    OBVIOUS
  <2>6. 2*g + 1 \notin {1, 2} /\ 2*g + 2 \notin {1, 2}
    OBVIOUS
  <2>7. gr[g] = None => vec[2*g + 1] = None /\ vec[2*g + 2] = None
    BY <1>3, <2>1, <2>3
  <2>8. ASSUME gr[g] # None PROVE vec[2*g + 1] = gr[g][1] /\ vec[2*g + 2] = gr[g][2]
    <3>1. vec[2*g + 1] = w[2*g + 1] /\ vec[2*g + 2] = w[2*g + 2]
      BY <1>3, <2>1, <2>4, <2>8
    <3>2. w[2*g + 1] = gr[(2*g + 1 - 1) \div 2][2 - ((2*g + 1) % 2)]
          /\ w[2*g + 2] = gr[(2*g + 2 - 1) \div 2][2 - ((2*g + 2) % 2)]
      <4>1. 2*g + 1 \in DOMAIN w \ {1, 2} /\ 2*g + 2 \in DOMAIN w \ {1, 2}
        BY <2>4, <2>6, <2>8
      <4>. QED  BY <4>1, <1>2
    <3>. QED  BY <3>1, <3>2, <2>5, Zenon
  <2>. QED  BY <2>1, <2>7, <2>8
<1>7. \A k \in 1 .. SlotsLen : vec[k] \in Slot
  <2> SUFFICES ASSUME NEW k \in 1 .. SlotsLen, k \in DOMAIN w, k \notin {1, 2}
               PROVE  w[k] \in Slot
    BY <1>2, <1>3, <1>4 DEF Slot
  <2>1. PICK h \in 1 .. Groups - 1 : gr[h] # None /\ k \in {2*h + 1, 2*h + 2}
    BY <1>2
  <2>2. gr[h] \in Match
    BY <2>1
  <2>3. w[k] \in {gr[h][1], gr[h][2]}
    BY <2>1, <1>3, <1>6
  <2>. QED  BY <2>2, <2>3 DEF Slot, Match
<1>8. ASSUME NEW g \in 1 .. Groups - 1
      PROVE  \/ vec[2*g + 1] = None /\ vec[2*g + 2] = None
             \/ /\ vec[2*g + 1] \in Positions /\ vec[2*g + 2] \in Positions
                /\ m[1] <= vec[2*g + 1] /\ vec[2*g + 1] <= vec[2*g + 2] /\ vec[2*g + 2] <= m[2]
  <2>1. CASE gr[g] = None
    BY <2>1, <1>6
  <2>2. CASE gr[g] # None
    <3>1. gr[g] \in Match /\ m[1] <= gr[g][1] /\ gr[g][2] <= m[2]
      BY <2>2 DEF Sub
    <3>2. gr[g][1] \in Positions /\ gr[g][2] \in Positions /\ gr[g][1] <= gr[g][2]
      BY <3>1 DEF Match
    <3>. QED  BY <3>1, <3>2, <2>2, <1>6
  <2>. QED  BY <2>1, <2>2
<1>9. vec \in [1 .. SlotsLen -> Slot]
  BY <1>3, <1>7 DEF Fill
<1>. QED  BY <1>5, <1>8, <1>9 DEF Describes

(* The answer captures_at gives in a frame that searches: a match at or    *)
(* after the cursor, with the slots of its groups.                         *)
LEMMA FoundAnswer ==
  ASSUME TypeOK, lastEnd <= TextLen, Found # None
  PROVE  /\ Found.m \in Match
         /\ lastEnd <= Found.m[1]
         /\ Found.writes \in GroupWrites(Found.m)
<1>1. lastEnd \in Positions
  BY DEF TypeOK, Offsets, Positions
<1>2. Found \in CaptureAnswers(lastEnd)
  BY <1>1 DEF TypeOK, Found
<1>3. PICK x \in {y \in Match : lastEnd <= y[1]} :
        \E w \in GroupWrites(x) : Found = [m |-> x, writes |-> w]
  BY <1>2 DEF CaptureAnswers
<1>. QED  BY <1>3

(* The vector a searching frame yields or keeps describes the match found. *)
LEMMA FoundVector ==
  ASSUME TypeOK, lastEnd <= TextLen, Found # None
  PROVE  Describes(Fill(FreshSlots, Found.writes), Found.m)
BY FoundAnswer, FillDescribes

Inv == TypeOK /\ CapturesInsideMatch

LEMMA InitInv == Init => Inv
<1> SUFFICES ASSUME Init PROVE Inv
  OBVIOUS
<1>1. slots \in [1 .. SlotsLen -> Slot]
  BY DEF Init, NoSlots, Slot
<1>. QED  BY <1>1 DEF Init, Inv, TypeOK, CapturesInsideMatch, Offsets, Positions

(* A vector that describes a match satisfies what CapturesInsideMatch      *)
(* asks of a yielded vector.                                               *)
LEMMA DescribedInside ==
  ASSUME NEW v, NEW m \in Match, Describes(v, m)
  PROVE  /\ v[1] # None /\ v[2] # None
         /\ \A g \in 1 .. Groups - 1 :
              \/ v[2*g + 1] = None /\ v[2*g + 2] = None
              \/ /\ v[2*g + 1] # None /\ v[2*g + 2] # None
                 /\ v[1] <= v[2*g + 1] /\ v[2*g + 1] <= v[2*g + 2] /\ v[2*g + 2] <= v[2]
BY DEF Describes, Match, Positions

LEMMA StepInv == Inv /\ [Next]_vars => Inv'
<1> SUFFICES ASSUME Inv, [Next]_vars PROVE Inv'
  OBVIOUS
<1>0. TypeOK
  BY DEF Inv
<1>1. FreshSlots \in [1 .. SlotsLen -> Slot]
  BY DEF FreshSlots, NoSlots, Slot
<1>2. CASE NextPastEnd
  BY <1>2 DEF NextPastEnd, ReturnNone, Inv, TypeOK, CapturesInsideMatch, engine
<1>3. CASE NextNoMatch
  BY <1>1, <1>3 DEF NextNoMatch, ReturnNone, Inv, TypeOK, CapturesInsideMatch, engine
<1>4. CASE NextEmptyAtEnd
  <2>1. slots' \in [1 .. SlotsLen -> Slot]
    BY <1>0, <1>4, FoundVector DEF NextEmptyAtEnd, Describes
  <2>. QED  BY <1>4, <2>1 DEF NextEmptyAtEnd, ReturnNone, Inv, TypeOK,
                             CapturesInsideMatch, engine
<1>5. CASE NextSkipEmpty
  <2>1. slots' \in [1 .. SlotsLen -> Slot]
    BY <1>0, <1>5, FoundVector DEF NextSkipEmpty, Describes
  <2>2. lastEnd \in 0 .. TextLen - 1
    BY <1>0, <1>5 DEF NextSkipEmpty, TypeOK, Offsets
  <2>3. lastEnd' \in Offsets
    BY <1>0, <1>5, <2>2 DEF NextSkipEmpty, TypeOK, NextAfterEmptyFns
  <2>. QED  BY <1>5, <2>1, <2>3 DEF NextSkipEmpty, Inv, TypeOK, CapturesInsideMatch,
                                   engine
<1>6. CASE NextYield
  <2> DEFINE v == Fill(FreshSlots, Found.writes)
  <2>1. /\ lastEnd <= TextLen /\ Found # None
        /\ slots' = v /\ yielded' = Append(yielded, v)
        /\ lastEnd' = Found.m[2] /\ lastMatch' = Found.m[2]
        /\ pc' = "idle" /\ UNCHANGED <<engine, done>>
    BY <1>6 DEF NextYield
  <2>2. Describes(v, Found.m) /\ Found.m \in Match
    BY <1>0, <2>1, FoundVector, FoundAnswer
  <2>3. v \in [1 .. SlotsLen -> Slot] /\ Found.m[2] \in Positions
    BY <2>2 DEF Describes, Match
  <2>4. TypeOK'
    BY <1>0, <2>1, <2>3 DEF TypeOK, engine, Offsets, Positions
  <2>5. CapturesInsideMatch'
    <3>1. yielded \in Seq([1 .. SlotsLen -> Slot])
      BY <1>0 DEF TypeOK
    <3>2. /\ Len(yielded') = Len(yielded) + 1
          /\ yielded'[Len(yielded')] = v
          /\ \A j \in 1 .. Len(yielded) : yielded'[j] = yielded[j]
      BY <2>1, <3>1
    <3>3. \A j \in 1 .. Len(yielded') : j \in 1 .. Len(yielded) \/ j = Len(yielded')
      BY <3>1, <3>2
    <3>. QED  BY <3>2, <3>3, <2>2, DescribedInside DEF Inv, CapturesInsideMatch
  <2>. QED  BY <2>4, <2>5 DEF Inv
<1>7. CASE UNCHANGED vars
  BY <1>7 DEF vars, Inv, TypeOK, CapturesInsideMatch
<1>. QED  BY <1>2, <1>3, <1>4, <1>5, <1>6, <1>7 DEF Next, Call, Recurse, Body

(* For every text length, number of groups and contract-obeying engine,    *)
(* captures_iter keeps every slot vector slots_len() long and yields only *)
(* vectors whose groups lie inside their match: a fresh vector per frame   *)
(* means no group of a skipped or earlier match survives.                  *)
THEOREM CapturesSafety == Spec => [](TypeOK /\ CapturesInsideMatch)
BY InitInv, StepInv, PTL DEF Spec, Inv

-----------------------------------------------------------------------------
(* The refinement of FindMatches, safety part.  Under the mapping FM,      *)
(* find_at is the match part of captures_at and a yielded match is slots 1 *)
(* and 2 of a yielded vector.                                              *)

findAtBar == [i \in Positions |-> IF capturesAt[i] = None THEN None ELSE capturesAt[i].m]

yieldedBar == [j \in 1 .. Len(yielded) |-> <<yielded[j][1], yielded[j][2]>>]

(* FindMatches, instantiated, has the same engine contract.               *)
LEMMA SameContract ==
  /\ FM!FindAtFns = FindAtFns
  /\ FM!NextAfterEmptyFns = NextAfterEmptyFns
  /\ \A m : FM!IsEmpty(m) = IsEmpty(m)
BY DEF FM!FindAtFns, FindAtFns, FM!NextAfterEmptyFns, NextAfterEmptyFns,
       FM!IsEmpty, IsEmpty, FM!Positions, Positions, FM!Match, Match, FM!Offsets, Offsets

(* captures_iter starts where find_iter starts.                            *)
LEMMA RefInit == Init => FM!Init
<1> SUFFICES ASSUME Init PROVE FM!Init
  OBVIOUS
<1>1. findAtBar \in FindAtFns
  <2>1. ASSUME NEW i \in Positions, capturesAt[i] # None
        PROVE  capturesAt[i].m \in Match /\ i <= capturesAt[i].m[1]
    <3>1. capturesAt[i] \in CaptureAnswers(i)
      BY DEF Init
    <3>2. PICK x \in {y \in Match : i <= y[1]} :
            \E w \in GroupWrites(x) : capturesAt[i] = [m |-> x, writes |-> w]
      BY <2>1, <3>1 DEF CaptureAnswers
    <3>. QED  BY <3>2
  <2>. QED  BY <2>1 DEF FindAtFns, findAtBar
<1>2. yieldedBar = <<>>
  BY DEF Init, yieldedBar
<1>. QED  BY <1>1, <1>2, SameContract DEF Init, FM!Init, findAtBar, yieldedBar

(* What find_at answers under the mapping, in a frame that searches.      *)
LEMMA FindAtBarFound ==
  ASSUME TypeOK, lastEnd <= TextLen
  PROVE  /\ Found = None => findAtBar[lastEnd] = None
         /\ Found # None => findAtBar[lastEnd] = Found.m /\ Found.m # None
<1>1. lastEnd \in Positions
  BY DEF TypeOK, Offsets, Positions
<1>. QED  BY <1>1, FoundAnswer, NoneNotMatchAssumption DEF findAtBar, Found

(* Every step of captures_iter is the same step of find_iter, or a        *)
(* stutter of it.                                                          *)
LEMMA RefStep == Inv /\ [Next]_vars => [FM!Next]_FM!vars
<1> SUFFICES ASSUME Inv, [Next]_vars PROVE [FM!Next]_FM!vars
  OBVIOUS
<1>0. TypeOK
  BY DEF Inv
<1>1. findAtBar' = findAtBar
  <2>1. capturesAt' = capturesAt
    BY DEF Next, Call, Recurse, Body, NextPastEnd, NextNoMatch, NextEmptyAtEnd,
           NextSkipEmpty, NextYield, ReturnNone, engine, vars
  <2>. QED  BY <2>1 DEF findAtBar
<1>2. CASE UNCHANGED vars
  BY <1>2 DEF vars, FM!vars, findAtBar, yieldedBar
<1>3. Body => FM!Body
  <2>1. CASE NextPastEnd
    BY <2>1, <1>1 DEF NextPastEnd, ReturnNone, engine, FM!Body, FM!NextPastEnd,
                      FM!ReturnNone, FM!engine, findAtBar, yieldedBar
  <2>2. CASE NextNoMatch
    BY <2>2, <1>0, <1>1, FindAtBarFound, SameContract DEF NextNoMatch, ReturnNone, engine, FM!Body,
       FM!NextNoMatch, FM!ReturnNone, FM!engine, findAtBar, yieldedBar
  <2>3. CASE NextEmptyAtEnd
    BY <2>3, <1>0, <1>1, FindAtBarFound, SameContract DEF NextEmptyAtEnd, ReturnNone, engine,
       RepeatsLastMatch, FM!Body, FM!NextEmptyAtEnd, FM!ReturnNone, FM!engine,
       FM!RepeatsLastMatch, findAtBar, yieldedBar
  <2>4. CASE NextSkipEmpty
    BY <2>4, <1>0, <1>1, FindAtBarFound, SameContract DEF NextSkipEmpty, engine, RepeatsLastMatch,
       FM!Body, FM!NextSkipEmpty, FM!engine, FM!RepeatsLastMatch, findAtBar, yieldedBar
  <2>5. CASE NextYield
    <3> DEFINE v == Fill(FreshSlots, Found.writes)
    <3>1. /\ lastEnd <= TextLen /\ Found # None /\ ~RepeatsLastMatch(Found.m)
          /\ yielded' = Append(yielded, v)
          /\ lastEnd' = Found.m[2] /\ lastMatch' = Found.m[2]
          /\ pc' = "idle" /\ UNCHANGED <<engine, done>>
      BY <2>5 DEF NextYield
    <3>2. findAtBar[lastEnd] = Found.m /\ Found.m # None /\ Found.m \in Match
      BY <3>1, <1>0, FindAtBarFound, FoundAnswer
    <3>3. Describes(v, Found.m)
      BY <3>1, <1>0, FoundVector
    <3>4. <<v[1], v[2]>> = Found.m
      BY <3>2, <3>3 DEF Describes, Match
    <3>5. yieldedBar' = Append(yieldedBar, Found.m)
      <4>1. yielded \in Seq([1 .. SlotsLen -> Slot])
        BY <1>0 DEF TypeOK
      <4>2. /\ Len(yielded') = Len(yielded) + 1
            /\ yielded'[Len(yielded) + 1] = v
            /\ \A j \in 1 .. Len(yielded) : yielded'[j] = yielded[j]
        BY <3>1, <4>1
      <4>3. Len(yieldedBar) = Len(yielded) /\ yieldedBar \in Seq(Slot \X Slot)
        BY <4>1 DEF yieldedBar, SlotsLen
      <4>4. Append(yieldedBar, Found.m)
              = [j \in 1 .. Len(yielded) + 1 |->
                   IF j <= Len(yielded) THEN yieldedBar[j] ELSE Found.m]
        BY <4>3
      <4>5. yieldedBar' = [j \in 1 .. Len(yielded) + 1 |->
                            <<yielded'[j][1], yielded'[j][2]>>]
        BY <4>2 DEF yieldedBar
      <4>6. \A j \in 1 .. Len(yielded) + 1 :
              <<yielded'[j][1], yielded'[j][2]>>
                = IF j <= Len(yielded) THEN yieldedBar[j] ELSE Found.m
        <5>1. ASSUME NEW j \in 1 .. Len(yielded) PROVE yielded'[j] = yielded[j]
          BY <4>2
        <5>2. yielded'[Len(yielded) + 1] = v
          BY <4>2
        <5>. QED  BY <5>1, <5>2, <3>4 DEF yieldedBar
      <4>. QED  BY <4>4, <4>5, <4>6
    <3>. QED  BY <3>1, <3>2, <3>5, <1>1, SameContract DEF RepeatsLastMatch, engine, FM!Body,
                 FM!NextYield, FM!engine, FM!RepeatsLastMatch, findAtBar, yieldedBar
  <2>. QED  BY <2>1, <2>2, <2>3, <2>4, <2>5 DEF Body
<1>4. CASE Call
  BY <1>3, <1>4 DEF Call, FM!Next, FM!Call
<1>5. CASE Recurse
  BY <1>3, <1>5 DEF Recurse, FM!Next, FM!Recurse
<1>. QED  BY <1>2, <1>4, <1>5 DEF Next

(* For every text length, number of groups and contract-obeying engine,    *)
(* the matches captures_iter yields (slots 0 and 1 of its vectors) are the *)
(* matches find_iter yields over find_at = the match part of captures_at:  *)
(* every behaviour of captures_iter is one of find_iter's, fairness aside. *)
THEOREM RefinesFindMatchesSafety == Spec => FM!Init /\ [][FM!Next]_FM!vars
BY InitInv, StepInv, RefInit, RefStep, PTL DEF Spec

(* Type correctness of captures_iter: the cursor stays within             *)
(* text_len + 1 and every slot vector, kept or yielded, has slots_len()    *)
(* slots, for every text length, number of groups and engine.             *)
THEOREM CapturesTypeCorrect == Spec => []TypeOK
BY CapturesSafety, PTL

=============================================================================
