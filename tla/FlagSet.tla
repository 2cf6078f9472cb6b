------------------------------- MODULE FlagSet -------------------------------
(***************************************************************************)
(* What AstFlags::add_item promises in its doc comment, without the       *)
(* sequence: a group of flags is the set of kinds written so far; a kind   *)
(* already in the set is refused (Some(i)) and leaves it alone, any other  *)
(* kind is added (None).  calls counts the items offered, one per byte of  *)
(* the flag text.                                                          *)
(***************************************************************************)
EXTENDS Naturals

CONSTANTS
  Kinds,   \* the item kinds: the flags and the negation
  MaxLen   \* bound on the items offered

VARIABLES
  kinds,    \* the kinds the group holds
  refused,  \* the last offer was a duplicate
  calls     \* the number of items offered

vars == <<kinds, refused, calls>>

Init ==
  /\ kinds = {}
  /\ refused = FALSE
  /\ calls = 0

(* One item of kind k is offered.                                          *)
Offer(k) ==
  /\ calls < MaxLen
  /\ calls' = calls + 1
  /\ refused' = (k \in kinds)
  /\ kinds' = kinds \cup {k}

Next == \E k \in Kinds : Offer(k)

Spec == Init /\ [][Next]_vars

=============================================================================
