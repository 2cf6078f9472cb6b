---------------------------- MODULE FindCaptures ----------------------------
(***************************************************************************)
(* The iterator FindCaptures of src/src/re_trait.rs (captures_iter and     *)
(* Iterator::next for FindCaptures): the same cursor logic as FindMatches, *)
(* over captures_at, yielding the slot vector the engine filled.           *)
(*                                                                         *)
(* slots is the vector of the most recent frame of next: each frame that   *)
(* gets past the first check allocates vec![None; slots_len()] and hands   *)
(* it to captures_at, which writes the slots of the groups that took part  *)
(* in the match and leaves the others alone.                               *)
(***************************************************************************)
EXTENDS RegularExpression, Sequences

VARIABLES
  capturesAt,      \* the engine's captures_at, fixed for the run
  nextAfterEmpty,  \* the engine's next_after_empty, fixed for the run
  lastEnd,         \* self.0.last_end
  lastMatch,       \* self.0.last_match
  pc,              \* "idle" between calls, "retry" when self.next() is pending
  slots,           \* the slot vector of the most recent frame
  yielded,         \* history: the slot vectors returned so far
  done             \* history: some call has returned None

engine == <<capturesAt, nextAfterEmpty>>
vars == <<capturesAt, nextAfterEmpty, lastEnd, lastMatch, pc, slots, yielded, done>>

(* Mutant of NoSlots: one slot per group instead of two.                  *)
NoSlotsPerGroup == [k \in 1 .. Groups |-> None]

(* Line 149: vec![None; self.0.re.slots_len()].                            *)
NoSlots == [k \in 1 .. SlotsLen |-> None]

(* Mutant of FreshSlots: the vector of the previous frame is reused.       *)
ReusedSlots == slots

(* The vector handed to captures_at by a frame of next.                    *)
FreshSlots == NoSlots

(* captures_at writes, into the vector it is given, the slots of the      *)
(* groups that took part in the match.                                     *)
Fill(buf, w) == [k \in DOMAIN buf |-> IF k \in DOMAIN w THEN w[k] ELSE buf[k]]

(* captures_iter(text): a fresh iterator.                                  *)
Init ==
  /\ capturesAt \in [Positions -> UNION {CaptureAnswers(i) : i \in Positions}]
  /\ \A i \in Positions : capturesAt[i] \in CaptureAnswers(i)
  /\ nextAfterEmpty \in NextAfterEmptyFns
  /\ lastEnd = 0
  /\ lastMatch = None
  /\ pc = "idle"
  /\ slots = NoSlots
  /\ yielded = <<>>
  /\ done = FALSE

(* The answer of captures_at in the current frame, with its slots.        *)
Found == capturesAt[lastEnd]

RepeatsLastMatch(m) == IsEmpty(m) /\ lastMatch = lastEnd

(* A frame that has called captures_at returns None.                       *)
ReturnNone ==
  /\ done' = TRUE
  /\ pc' = "idle"
  /\ UNCHANGED <<engine, lastEnd, lastMatch, yielded>>

(* Lines 144-147: the cursor is past the end of the text.                  *)
NextPastEnd ==
  /\ lastEnd > TextLen
  /\ ReturnNone
  /\ UNCHANGED slots

(* Lines 149-156: captures_at reports no match.                            *)
NextNoMatch ==
  /\ lastEnd <= TextLen
  /\ Found = None
  /\ slots' = FreshSlots
  /\ ReturnNone

(* Lines 161-164: a repeated empty match at the end of the text.           *)
NextEmptyAtEnd ==
  /\ lastEnd <= TextLen
  /\ Found # None
  /\ RepeatsLastMatch(Found.m)
  /\ lastEnd >= TextLen
  /\ slots' = Fill(FreshSlots, Found.writes)
  /\ ReturnNone

(* Lines 161-167: a repeated empty match is skipped; next calls itself,    *)
(* which allocates a new vector.                                           *)
NextSkipEmpty ==
  /\ lastEnd <= TextLen
  /\ Found # None
  /\ RepeatsLastMatch(Found.m)
  /\ lastEnd < TextLen
  /\ slots' = Fill(FreshSlots, Found.writes)
  /\ lastEnd' = nextAfterEmpty[lastEnd]
  /\ pc' = "retry"
  /\ UNCHANGED <<engine, lastMatch, yielded, done>>

(* Mutant of NextYield: last_match is not updated.                         *)
NextYieldKeepLastMatch ==
  /\ lastEnd <= TextLen
  /\ Found # None
  /\ ~RepeatsLastMatch(Found.m)
  /\ slots' = Fill(FreshSlots, Found.writes)
  /\ lastEnd' = Found.m[2]
  /\ yielded' = Append(yielded, Fill(FreshSlots, Found.writes))
  /\ pc' = "idle"
  /\ UNCHANGED <<engine, lastMatch, done>>

(* Lines 169-171: the filled vector is yielded.                            *)
NextYield ==
  /\ lastEnd <= TextLen
  /\ Found # None
  /\ ~RepeatsLastMatch(Found.m)
  /\ slots' = Fill(FreshSlots, Found.writes)
  /\ lastEnd' = Found.m[2]
  /\ lastMatch' = Found.m[2]
  /\ yielded' = Append(yielded, Fill(FreshSlots, Found.writes))
  /\ pc' = "idle"
  /\ UNCHANGED <<engine, done>>

(* The body of next, run by a call or by its recursive call.              *)
Body ==
  \/ NextPastEnd
  \/ NextNoMatch
  \/ NextEmptyAtEnd
  \/ NextSkipEmpty
  \/ NextYield

(* The consumer calls next.                                                *)
Call ==
  /\ pc = "idle"
  /\ Body

(* return self.next(): the pending recursive call runs.                    *)
Recurse ==
  /\ pc = "retry"
  /\ Body

Next == Call \/ Recurse

(* As for FindMatches: a synchronous recursive call, a draining consumer.  *)
Fairness == WF_vars(Recurse) /\ WF_vars(Call)

Spec == Init /\ [][Next]_vars /\ Fairness

-----------------------------------------------------------------------------

(* Type invariant: the cursor stays within text_len + 1, last_match is an *)
(* offset inside the text, and every slot vector has slots_len() slots.    *)
TypeOK ==
  /\ \A i \in Positions : capturesAt[i] \in CaptureAnswers(i)
  /\ nextAfterEmpty \in NextAfterEmptyFns
  /\ lastEnd \in Offsets
  /\ lastMatch \in Positions \cup {None}
  /\ pc \in {"idle", "retry"}
  /\ slots \in [1 .. SlotsLen -> Slot]
  /\ yielded \in Seq([1 .. SlotsLen -> Slot])

(* Every yielded vector describes one match: slots 0 and 1 hold its span,  *)
(* and each other group either did not take part (both slots unset) or has *)
(* a span inside the match.  A vector carried over from a skipped empty    *)
(* match, or from the previous call, would keep a group of that match.     *)
CapturesInsideMatch ==
  \A j \in 1 .. Len(yielded) :
    LET v == yielded[j] IN
    /\ v[1] # None /\ v[2] # None
    /\ \A g \in 1 .. Groups - 1 :
         \/ v[2*g + 1] = None /\ v[2*g + 2] = None
         \/ /\ v[2*g + 1] # None /\ v[2*g + 2] # None
            /\ v[1] <= v[2*g + 1] /\ v[2*g + 1] <= v[2*g + 2] /\ v[2*g + 2] <= v[2]

(* FindCaptures yields, through slots 0 and 1, exactly the matches that    *)
(* FindMatches yields over the same engine: the captures iterator refines  *)
(* the find iterator, with find_at the match part of captures_at.          *)
FM == INSTANCE FindMatches WITH
        findAt <- [i \in Positions |-> IF capturesAt[i] = None THEN None
                                        ELSE capturesAt[i].m],
        yielded <- [j \in 1 .. Len(yielded) |-> <<yielded[j][1], yielded[j][2]>>]

RefinesFindMatches == FM!Spec

=============================================================================
