------------------------- MODULE FindMatchesProofs -------------------------
(***************************************************************************)
(* Proofs about FindMatches, for every text length and every engine that   *)
(* obeys the contract of RegularExpression.                                *)
(***************************************************************************)
EXTENDS FindMatches, TLAPS

(* The facts of the engine contract the proofs use: what find_at and       *)
(* next_after_empty return.                                                *)
LEMMA FindAtContract ==
  ASSUME NEW f \in FindAtFns, NEW i \in Positions, f[i] # None
  PROVE  /\ f[i] \in Match
         /\ i <= f[i][1]
  BY DEF FindAtFns

LEMMA NextAfterEmptyContract ==
  ASSUME NEW g \in NextAfterEmptyFns, NEW i \in 0 .. TextLen - 1
  PROVE  /\ g[i] \in Offsets
         /\ g[i] > i
  BY DEF NextAfterEmptyFns

USE TextLenAssumption, NoneAssumption

(* The initial state is well typed.                                       *)
LEMMA TypeInit == Init => TypeOK
<1> SUFFICES ASSUME Init PROVE TypeOK
  OBVIOUS
<1>1. yielded \in Seq(Match)
  BY DEF Init
<1>2. lastEnd \in Offsets /\ lastMatch \in Positions \cup {None}
  BY DEF Init, Offsets
<1>. QED  BY <1>1, <1>2 DEF Init, TypeOK

(* What the match found by a step is: a match at or after the cursor.      *)
LEMMA FoundMatch ==
  ASSUME TypeOK, lastEnd <= TextLen, findAt[lastEnd] # None
  PROVE  /\ findAt[lastEnd] \in Match
         /\ lastEnd <= findAt[lastEnd][1]
         /\ findAt[lastEnd][1] <= findAt[lastEnd][2]
         /\ findAt[lastEnd][2] \in Positions
  BY FindAtContract DEF TypeOK, Offsets, Positions, Match

(* Every step keeps the state well typed.                                  *)
LEMMA TypeStep == TypeOK /\ [Next]_vars => TypeOK'
<1> SUFFICES ASSUME TypeOK, [Next]_vars PROVE TypeOK'
  OBVIOUS
<1>1. CASE NextPastEnd
  BY <1>1 DEF NextPastEnd, ReturnNone, TypeOK, engine
<1>2. CASE NextNoMatch
  BY <1>2 DEF NextNoMatch, ReturnNone, TypeOK, engine
<1>3. CASE NextEmptyAtEnd
  BY <1>3 DEF NextEmptyAtEnd, ReturnNone, TypeOK, engine
<1>4. CASE NextSkipEmpty
  <2>1. lastEnd \in 0 .. TextLen - 1
    BY <1>4 DEF NextSkipEmpty, TypeOK, Offsets
  <2>2. nextAfterEmpty[lastEnd] \in Offsets
    BY <2>1, NextAfterEmptyContract DEF TypeOK
  <2>. QED  BY <1>4, <2>2 DEF NextSkipEmpty, TypeOK, engine
<1>5. CASE NextYield
  BY <1>5, FoundMatch DEF NextYield, TypeOK, engine, Offsets, Positions
<1>6. CASE UNCHANGED vars
  BY <1>6 DEF vars, TypeOK
<1>. QED  BY <1>1, <1>2, <1>3, <1>4, <1>5, <1>6 DEF Next, Call, Recurse, Body

(* Every state of FindMatches is well typed.                               *)
THEOREM TypeCorrect == Spec => []TypeOK
BY TypeInit, TypeStep, PTL DEF Spec

(* The inductive invariant.  NonOverlapping and NoEmptyAfterMatch are not  *)
(* inductive on their own: a step compares the new match with the last     *)
(* yielded one through lastMatch and lastEnd, so the invariant records     *)
(* that lastMatch is the end of the last yielded match, that the cursor is *)
(* never behind it, that a pending recursive call has moved the cursor     *)
(* strictly past it, and the count of yielded matches against it.          *)
LastYieldedEnd ==
  yielded # <<>> => yielded[Len(yielded)][2] = lastMatch

CursorNotBehind ==
  lastMatch # None => lastMatch <= lastEnd

RetryHasMoved ==
  pc = "retry" => lastMatch # None /\ lastMatch < lastEnd

CountBound ==
  Len(yielded) <= IF lastMatch = None THEN 0 ELSE lastMatch + 1

IInv ==
  /\ TypeOK
  /\ LastYieldedEnd
  /\ CursorNotBehind
  /\ RetryHasMoved
  /\ CountBound
  /\ NonOverlapping
  /\ NoEmptyAfterMatch

LEMMA InitIInv == Init => IInv
BY TypeInit DEF Init, IInv, LastYieldedEnd, CursorNotBehind, RetryHasMoved,
                CountBound, NonOverlapping, NoEmptyAfterMatch

(* In a pending recursive call, no zero-width match repeats the last one.  *)
LEMMA RetryNoRepeat ==
  ASSUME IInv, pc = "retry", NEW m
  PROVE  ~RepeatsLastMatch(m)
  BY DEF IInv, RetryHasMoved, RepeatsLastMatch, TypeOK, Offsets, Positions

(* A step that returns None or skips leaves the yielded matches alone.    *)
LEMMA StepIInv == IInv /\ [Next]_vars => IInv'
<1> SUFFICES ASSUME IInv, [Next]_vars PROVE IInv'
  OBVIOUS
<1>0. TypeOK /\ TypeOK'
  BY TypeStep DEF IInv
<1>1. CASE NextPastEnd \/ NextNoMatch \/ NextEmptyAtEnd
  <2>1. /\ UNCHANGED <<lastEnd, lastMatch, yielded>>
        /\ pc' = "idle"
    BY <1>1 DEF NextPastEnd, NextNoMatch, NextEmptyAtEnd, ReturnNone
  <2>. QED  BY <2>1, <1>0 DEF IInv, LastYieldedEnd, CursorNotBehind, RetryHasMoved,
                         CountBound, NonOverlapping, NoEmptyAfterMatch
<1>2. CASE NextSkipEmpty
  <2>1. lastMatch = lastEnd /\ lastEnd \in 0 .. TextLen - 1
    BY <1>2, <1>0 DEF NextSkipEmpty, RepeatsLastMatch, TypeOK, Offsets
  <2>2. nextAfterEmpty[lastEnd] > lastEnd
    BY <2>1, <1>0, NextAfterEmptyContract DEF TypeOK
  <2>4. lastEnd' = nextAfterEmpty[lastEnd]
    BY <1>2 DEF NextSkipEmpty
  <2>3. UNCHANGED <<lastMatch, yielded>> /\ pc' = "retry"
    BY <1>2 DEF NextSkipEmpty
  <2>. QED  BY <2>1, <2>2, <2>3, <2>4, <1>0 DEF IInv, LastYieldedEnd, CursorNotBehind,
                 RetryHasMoved, CountBound, NonOverlapping, NoEmptyAfterMatch,
                 TypeOK, Offsets
<1>3. CASE NextYield
  <2> DEFINE m == findAt[lastEnd]
  <2>1. /\ lastEnd <= TextLen /\ m # None /\ ~RepeatsLastMatch(m)
        /\ lastEnd' = m[2] /\ lastMatch' = m[2]
        /\ yielded' = Append(yielded, m) /\ pc' = "idle"
    BY <1>3 DEF NextYield
  <2>2. /\ m \in Match /\ lastEnd <= m[1] /\ m[1] <= m[2] /\ m[2] \in Positions
    BY <2>1, <1>0, FoundMatch
  <2>3. lastMatch # None => lastMatch <= m[1]
    BY <2>2, <1>0 DEF IInv, CursorNotBehind, TypeOK, Offsets, Positions, Match
  <2>4. (lastMatch # None /\ IsEmpty(m)) => lastMatch # m[1]
    BY <2>1, <2>2, <2>3, <1>0 DEF IsEmpty, RepeatsLastMatch, IInv, CursorNotBehind,
                                 TypeOK, Offsets, Positions
  <2>5. lastMatch # None => lastMatch < m[2]
    BY <2>2, <2>3, <2>4, <1>0 DEF IsEmpty, TypeOK, Positions, Match
  <2>6. yielded \in Seq(Match) /\ Len(yielded') = Len(yielded) + 1
        /\ yielded'[Len(yielded')] = m
        /\ \A i \in 1 .. Len(yielded) : yielded'[i] = yielded[i]
    BY <2>1, <2>2, <1>0 DEF TypeOK
  <2>7. /\ lastMatch = None => yielded = <<>>
        /\ yielded # <<>> => lastMatch # None
    <3>1. lastMatch = None => yielded = <<>>
      BY <1>0 DEF IInv, CountBound, TypeOK
    <3>2. ASSUME yielded # <<>> PROVE lastMatch # None
      <4>1. yielded[Len(yielded)] \in Match
        BY <3>2, <2>6
      <4>2. yielded[Len(yielded)][2] \in Nat
        BY <4>1 DEF Match, Positions
      <4>. QED  BY <3>2, <4>2, NoneAssumption DEF IInv, LastYieldedEnd
    <3>. QED  BY <3>1, <3>2
  <2>8. LastYieldedEnd'
    BY <2>1, <2>6 DEF LastYieldedEnd
  <2>12. CursorNotBehind' /\ RetryHasMoved'
    BY <2>1, <2>2 DEF CursorNotBehind, RetryHasMoved, Positions
  <2>9. CountBound'
    BY <2>1, <2>2, <2>5, <2>6, <2>7, <1>0 DEF IInv, CountBound, TypeOK, Positions
  <2>10. NonOverlapping'
    <3>1. yielded # <<>> => yielded[Len(yielded)][2] <= m[1]
      BY <2>3, <2>7 DEF IInv, LastYieldedEnd
    <3>. QED  BY <3>1, <2>6 DEF IInv, NonOverlapping
  <2>11. NoEmptyAfterMatch'
    <3>1. yielded # <<>> /\ IsEmpty(m) => m[1] # yielded[Len(yielded)][2]
      BY <2>4, <2>7 DEF IInv, LastYieldedEnd
    <3>. QED  BY <3>1, <2>6 DEF IInv, NoEmptyAfterMatch
  <2>. QED  BY <1>0, <2>8, <2>9, <2>10, <2>11, <2>12 DEF IInv
<1>4. CASE UNCHANGED vars
  BY <1>4, <1>0 DEF vars, IInv, LastYieldedEnd, CursorNotBehind, RetryHasMoved,
                    CountBound, NonOverlapping, NoEmptyAfterMatch
<1>. QED  BY <1>1, <1>2, <1>3, <1>4 DEF Next, Call, Recurse, Body

(* The iterator's safety: matches never overlap, no zero-width match is   *)
(* yielded where the previous match ended, and at most text_len + 1       *)
(* matches are yielded, for every text length and every engine obeying    *)
(* the contract.                                                           *)
THEOREM Safety == Spec => [](NonOverlapping /\ NoEmptyAfterMatch /\ YieldBound)
<1>1. IInv => NonOverlapping /\ NoEmptyAfterMatch /\ YieldBound
  BY DEF IInv, CountBound, YieldBound, TypeOK, Positions
<1>. QED  BY <1>1, InitIInv, StepIInv, PTL DEF Spec

(* The recursive call of next never recurses again: a Recurse step always  *)
(* ends the call.                                                          *)
THEOREM NoNestedRecursion == Spec => RecursionBound
<1>1. IInv /\ [Next]_vars => [pc = "retry" => pc' = "idle"]_vars
  <2> SUFFICES ASSUME IInv, Next, pc = "retry" PROVE pc' = "idle"
    BY DEF vars
  <2>1. ~NextSkipEmpty
    BY RetryNoRepeat DEF NextSkipEmpty
  <2>. QED  BY <2>1 DEF Next, Call, Recurse, Body, NextPastEnd, NextNoMatch,
                      NextEmptyAtEnd, NextYield, ReturnNone, vars
<1>. QED  BY <1>1, InitIInv, StepIInv, PTL DEF Spec, RecursionBound

(* next never yields a zero-width match at the offset where the previous *)
(* match ended, for every text length and engine.                          *)
THEOREM EmptySkipped == Spec => []NoEmptyAfterMatch
BY Safety, PTL

(* Every step of next that does not return None advances the cursor, or  *)
(* keeps it and moves last_match onto it, for every text length and       *)
(* engine: the variant behind Termination.                                 *)
THEOREM EveryStepAdvances == Spec => Advances
<1>1. TypeOK /\ [Next]_vars => [Advance]_vars
  <2> SUFFICES ASSUME TypeOK, Next PROVE Advance
    BY DEF vars
  <2>1. CASE NextPastEnd \/ NextNoMatch \/ NextEmptyAtEnd
    BY <2>1 DEF NextPastEnd, NextNoMatch, NextEmptyAtEnd, ReturnNone, Advance
  <2>2. CASE NextSkipEmpty
    <3>1. lastEnd \in 0 .. TextLen - 1
      BY <2>2 DEF NextSkipEmpty, TypeOK, Offsets
    <3>2. nextAfterEmpty[lastEnd] > lastEnd
      BY <3>1, NextAfterEmptyContract DEF TypeOK
    <3>. QED
      BY <2>2, <3>2 DEF NextSkipEmpty, Advance
  <2>3. CASE NextYield
    <3>1. lastEnd <= findAt[lastEnd][1] /\ findAt[lastEnd][1] <= findAt[lastEnd][2]
      BY <2>3, FoundMatch DEF NextYield
    <3>2. lastEnd \in Nat /\ findAt[lastEnd][1] \in Nat /\ findAt[lastEnd][2] \in Nat
      BY <2>3, FoundMatch DEF NextYield, TypeOK, Offsets, Positions, Match
    <3>3. ~RepeatsLastMatch(findAt[lastEnd])
      BY <2>3 DEF NextYield
    <3>4. lastEnd' = findAt[lastEnd][2] /\ lastMatch' = findAt[lastEnd][2]
      BY <2>3 DEF NextYield
    <3>5. CASE findAt[lastEnd][2] = lastEnd
      <4>1. IsEmpty(findAt[lastEnd])
        BY <3>1, <3>2, <3>5 DEF IsEmpty
      <4>2. lastMatch # lastEnd
        BY <3>3, <4>1 DEF RepeatsLastMatch
      <4>. QED
        BY <3>4, <3>5, <4>2 DEF Advance
    <3>6. CASE findAt[lastEnd][2] # lastEnd
      BY <3>1, <3>2, <3>4, <3>6 DEF Advance
    <3>. QED
      BY <3>5, <3>6
  <2>. QED
    BY <2>1, <2>2, <2>3 DEF Next, Call, Recurse, Body
<1>. QED
  BY <1>1, TypeInit, TypeStep, PTL DEF Spec, Advances

=============================================================================
