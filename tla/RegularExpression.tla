------------------------- MODULE RegularExpression -------------------------
(***************************************************************************)
(* The match-capability interface of src/src/re_trait.rs, trait            *)
(* RegularExpression: the contract a concrete match engine must satisfy    *)
(* for the iterators FindMatches and FindCaptures to drive it.             *)
(*                                                                         *)
(* The text is abstracted to its length TextLen (the iterators only read   *)
(* text.as_ref().len()); an engine is abstracted to the answers it gives   *)
(* for that text: find_at as a function from search start to an optional  *)
(* (start, end) pair, next_after_empty as a function from offset to the    *)
(* next search offset, captures_at as a function from search start to an   *)
(* optional match together with the slots it writes.  A model run chooses  *)
(* one engine among all the engines that obey the contract.                *)
(***************************************************************************)
EXTENDS Naturals

CONSTANTS
  TextLen,   \* text.as_ref().len()
  Groups,    \* number of capture groups, the implicit whole-match group included
  None       \* Option::None

ASSUME TextLenAssumption == TextLen \in Nat
ASSUME GroupsAssumption == Groups \in Nat \ {0}
ASSUME NoneAssumption == None \notin Nat

(* Offsets a search may start from.  next_after_empty may step past the    *)
(* end of the text (next_utf8 on a truncated multi-byte sequence does),    *)
(* which is why FindMatches::next checks last_end > text_len first.        *)
Offsets == 0 .. TextLen + 1

(* Offsets inside the text, where a match may start or end.                *)
Positions == 0 .. TextLen

(* A match (s, e) with s <= e; it is zero-width when s = e.                *)
Match == {m \in Positions \X Positions : m[1] <= m[2]}

(* Option::None is not a match.                                            *)
ASSUME NoneNotMatchAssumption == None \notin Match

IsEmpty(m) == m[1] = m[2]

(* find_at(text, start): a match that starts at or after start, or None.   *)
FindAtFns ==
  {f \in [Positions -> Match \cup {None}] :
     \A i \in Positions : f[i] # None => i <= f[i][1]}

(* next_after_empty(text, i): an offset strictly greater than i.  It is    *)
(* only called with i < text_len.                                          *)
NextAfterEmptyFns ==
  {g \in [0 .. TextLen - 1 -> Offsets] : \A i \in DOMAIN g : g[i] > i}

(* slots_len(): two slots per capture group.                               *)
SlotsLen == 2 * Groups

Slot == Positions \cup {None}

(* The slots captures_at writes for a match m: the whole-match group k = 0 *)
(* gets (s, e); every other group either participates, with a span inside *)
(* m, or is left alone.  A write set is a function from the written slot   *)
(* indexes (1-based, as in a TLA+ sequence) to offsets.                    *)
GroupWrites(m) ==
  LET Sub == {p \in Match : m[1] <= p[1] /\ p[2] <= m[2]}
      Part == [1 .. Groups - 1 -> Sub \cup {None}]
  IN  {[k \in {1, 2} \cup UNION {IF gr[g] = None THEN {} ELSE {2*g + 1, 2*g + 2}
                                  : g \in 1 .. Groups - 1} |->
          IF k = 1 THEN m[1] ELSE IF k = 2 THEN m[2]
          ELSE gr[(k - 1) \div 2][2 - (k % 2)]]
       : gr \in Part}

(* captures_at(slots, text, start): the answers it may give for a search  *)
(* from offset i, a match at or after i with the slots it writes, or None. *)
CaptureAnswers(i) ==
  {None} \cup UNION {{[m |-> x, writes |-> w] : w \in GroupWrites(x)}
                      : x \in {y \in Match : i <= y[1]}}

=============================================================================
