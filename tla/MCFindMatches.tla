--------------------------- MODULE MCFindMatches ---------------------------
(* Model-checking instance of FindMatches: every engine obeying the        *)
(* contract over a text of MCTextLen bytes.                                *)
EXTENDS FindMatches

MCTextLen == 3

(* Bound on the history, one past what YieldBound allows, so that an       *)
(* iterator that would never stop is cut off after showing the violation.  *)
MaxYields == TextLen + 2

StateBound == Len(yielded) <= MaxYields

=============================================================================
