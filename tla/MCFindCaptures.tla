--------------------------- MODULE MCFindCaptures ---------------------------
(* Model-checking instance of FindCaptures: every engine obeying the       *)
(* contract, with one capture group besides the whole match, over a text   *)
(* of MCTextLen bytes.                                                     *)
EXTENDS FindCaptures

MCTextLen == 2

MCGroups == 2

(* Bound on the history, one past what FindMatches allows.                 *)
MaxYields == TextLen + 2

StateBound == Len(yielded) <= MaxYields

=============================================================================
