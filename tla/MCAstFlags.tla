----------------------------- MODULE MCAstFlags -----------------------------
(* Model-checking instance of AstFlags: three flags and the negation,      *)
(* offered in every order, duplicates included, over a flag text long      *)
(* enough to hold every kind once and one duplicate.                       *)
EXTENDS AstFlags

CONSTANTS CaseInsensitive, MultiLine, DotMatchesNewLine

MCFlags == {CaseInsensitive, MultiLine, DotMatchesNewLine}

MCMaxLen == 5

=============================================================================
