---------------------------- MODULE FindMatches ----------------------------
(***************************************************************************)
(* The iterator FindMatches of src/src/re_trait.rs (find_iter and          *)
(* Iterator::next for FindMatches), driving an engine that obeys the       *)
(* contract of module RegularExpression.                                   *)
(*                                                                         *)
(* One call of next is one Call step.  The call ends by returning None, by *)
(* yielding a match, or, when the engine reports a zero-width match at the *)
(* offset where the previous match ended, by advancing last_end with       *)
(* next_after_empty and calling itself again (return self.next()): the    *)
(* pending recursive call is pc = "retry", taken by a Recurse step that    *)
(* runs the same body one frame deeper.                                    *)
(***************************************************************************)
EXTENDS RegularExpression, Sequences

VARIABLES
  findAt,          \* the engine's find_at, fixed for the run (self.re)
  nextAfterEmpty,  \* the engine's next_after_empty, fixed for the run
  lastEnd,         \* self.last_end
  lastMatch,       \* self.last_match
  pc,              \* "idle" between calls, "retry" when self.next() is pending
  yielded,         \* history: the matches returned so far
  done             \* history: some call has returned None

engine == <<findAt, nextAfterEmpty>>
vars == <<findAt, nextAfterEmpty, lastEnd, lastMatch, pc, yielded, done>>

(* find_iter(text): a fresh iterator over an engine obeying the contract.  *)
Init ==
  /\ findAt \in FindAtFns
  /\ nextAfterEmpty \in NextAfterEmptyFns
  /\ lastEnd = 0
  /\ lastMatch = None
  /\ pc = "idle"
  /\ yielded = <<>>
  /\ done = FALSE

(* Mutant of RepeatsLastMatch: last_match <= last_end instead of ==.      *)
RepeatsLastMatchAtOrAfter(m) ==
  IsEmpty(m) /\ lastMatch # None /\ lastMatch <= lastEnd

(* The condition of line 112: a zero-width match found while last_end is   *)
(* still the end of the previous match.                                    *)
RepeatsLastMatch(m) == IsEmpty(m) /\ lastMatch = lastEnd

(* next returns None, leaving the cursor alone.                           *)
ReturnNone ==
  /\ done' = TRUE
  /\ pc' = "idle"
  /\ UNCHANGED <<engine, lastEnd, lastMatch, yielded>>

(* Mutants: plausible bugs in the body of next, each a variant of one     *)
(* of the definitions below.                                               *)

(* last_end = s instead of e after yielding.                               *)
NextYieldCursorAtStart ==
  /\ lastEnd <= TextLen
  /\ findAt[lastEnd] # None
  /\ ~RepeatsLastMatch(findAt[lastEnd])
  /\ lastEnd' = findAt[lastEnd][1]
  /\ lastMatch' = findAt[lastEnd][2]
  /\ yielded' = Append(yielded, findAt[lastEnd])
  /\ pc' = "idle"
  /\ UNCHANGED <<engine, done>>

(* last_match is not updated when a match is yielded.                      *)
NextYieldKeepLastMatch ==
  /\ lastEnd <= TextLen
  /\ findAt[lastEnd] # None
  /\ ~RepeatsLastMatch(findAt[lastEnd])
  /\ lastEnd' = findAt[lastEnd][2]
  /\ yielded' = Append(yielded, findAt[lastEnd])
  /\ pc' = "idle"
  /\ UNCHANGED <<engine, lastMatch, done>>

(* last_end is not advanced before the recursive call.                    *)
NextSkipEmptyNoAdvance ==
  /\ lastEnd <= TextLen
  /\ findAt[lastEnd] # None
  /\ RepeatsLastMatch(findAt[lastEnd])
  /\ lastEnd < TextLen
  /\ pc' = "retry"
  /\ UNCHANGED <<engine, lastEnd, lastMatch, yielded, done>>

(* Off by one: last_end = e + 1, and last_match = Some(last_end).         *)
NextYieldPastEnd ==
  /\ lastEnd <= TextLen
  /\ findAt[lastEnd] # None
  /\ ~RepeatsLastMatch(findAt[lastEnd])
  /\ lastEnd' = findAt[lastEnd][2] + 1
  /\ lastMatch' = findAt[lastEnd][2] + 1
  /\ yielded' = Append(yielded, findAt[lastEnd])
  /\ pc' = "idle"
  /\ UNCHANGED <<engine, done>>

(* Lines 102-105: the cursor is past the end of the text.                  *)
NextPastEnd ==
  /\ lastEnd > TextLen
  /\ ReturnNone

(* Lines 106-107: find_at reports no match.                                *)
NextNoMatch ==
  /\ lastEnd <= TextLen
  /\ findAt[lastEnd] = None
  /\ ReturnNone

(* Lines 112-115: a repeated empty match at the end of the text.           *)
NextEmptyAtEnd ==
  /\ lastEnd <= TextLen
  /\ findAt[lastEnd] # None
  /\ RepeatsLastMatch(findAt[lastEnd])
  /\ lastEnd >= TextLen
  /\ ReturnNone

(* Lines 112-118: a repeated empty match is not yielded; last_end moves to *)
(* next_after_empty(last_end) and next calls itself.                       *)
NextSkipEmpty ==
  /\ lastEnd <= TextLen
  /\ findAt[lastEnd] # None
  /\ RepeatsLastMatch(findAt[lastEnd])
  /\ lastEnd < TextLen
  /\ lastEnd' = nextAfterEmpty[lastEnd]
  /\ pc' = "retry"
  /\ UNCHANGED <<engine, lastMatch, yielded, done>>

(* Lines 120-122: the match is yielded and the cursor moves to its end.    *)
NextYield ==
  /\ lastEnd <= TextLen
  /\ findAt[lastEnd] # None
  /\ ~RepeatsLastMatch(findAt[lastEnd])
  /\ lastEnd' = findAt[lastEnd][2]
  /\ lastMatch' = findAt[lastEnd][2]
  /\ yielded' = Append(yielded, findAt[lastEnd])
  /\ pc' = "idle"
  /\ UNCHANGED <<engine, done>>

(* The body of next, run by a call or by its recursive call.              *)
Body ==
  \/ NextPastEnd
  \/ NextNoMatch
  \/ NextEmptyAtEnd
  \/ NextSkipEmpty
  \/ NextYield

(* The consumer calls next.                                                *)
Call ==
  /\ pc = "idle"
  /\ Body

(* return self.next(): the pending recursive call runs.                    *)
Recurse ==
  /\ pc = "retry"
  /\ Body

Next == Call \/ Recurse

(* The recursive call runs at once (it is the same synchronous call); the *)
(* consumer is one that drains the iterator (a for loop, collect).         *)
Fairness == WF_vars(Recurse) /\ WF_vars(Call)

Spec == Init /\ [][Next]_vars /\ Fairness

-----------------------------------------------------------------------------

(* Type invariant: the engine stays the one chosen at find_iter, the      *)
(* cursor stays in Offsets (it only takes values of find_at's match ends   *)
(* and of next_after_empty, whose contract bounds them) and last_match is  *)
(* an offset inside the text.                                              *)
TypeOK ==
  /\ findAt \in FindAtFns
  /\ nextAfterEmpty \in NextAfterEmptyFns
  /\ lastEnd \in Offsets
  /\ lastMatch \in Positions \cup {None}
  /\ pc \in {"idle", "retry"}
  /\ yielded \in Seq(Match)
  /\ done \in BOOLEAN

(* Matches are yielded left to right and never overlap: each one starts    *)
(* at or after the end of the one before (the cursor moves to e, and the   *)
(* engine searches forward from the cursor).                               *)
NonOverlapping ==
  \A i \in 1 .. Len(yielded) - 1 : yielded[i][2] <= yielded[i + 1][1]

(* No zero-width match is yielded at the offset where the previous match   *)
(* ended: the guard of line 112 is what keeps `a*` on "a" from yielding    *)
(* (1,1) after (0,1), and an all-empty engine from looping.                *)
NoEmptyAfterMatch ==
  \A i \in 1 .. Len(yielded) - 1 :
    IsEmpty(yielded[i + 1]) => yielded[i + 1][1] # yielded[i][2]

(* The iteration is finite: at most text_len + 1 matches are yielded, even *)
(* for an engine that reports a zero-width match at every offset.  It      *)
(* follows from NonOverlapping and NoEmptyAfterMatch (the ends of the      *)
(* yielded matches strictly increase after the first) and is proved in     *)
(* FindMatchesProofs rather than checked on its own.                       *)
YieldBound == Len(yielded) <= TextLen + 1

(* The recursion of line 118 is at most one frame deep: the frame started *)
(* by return self.next() always ends the call, it never skips again, so    *)
(* next never grows the stack beyond two frames.                           *)
RecursionBound == [][pc = "retry" => pc' = "idle"]_vars

(* Every step of next that does not return None advances the iteration:  *)
(* the cursor moves forward, or it stays and last_match, which was         *)
(* elsewhere, moves to it (a zero-width match yielded at the cursor).      *)
(* With the cursor bounded by text_len + 1 this is the variant that makes  *)
(* a drained iterator end; a skip that does not advance, or a yield that   *)
(* leaves last_match behind, would let next return to a state it was in.   *)
Advance ==
  \/ done'
  \/ lastEnd' > lastEnd
  \/ lastEnd' = lastEnd /\ lastMatch # lastEnd /\ lastMatch' = lastEnd

Advances == [][Advance]_vars

(* Every drained iterator ends: some call of next returns None.            *)
Termination == <>done

=============================================================================
