---------------------------- MODULE MCOctalEscape ----------------------------
(* Patterns of up to five backslashes and digits 0, 1 and 2, with the      *)
(* three-digit octal escapes of the specification's example \141.          *)
EXTENDS OctalEscape

MCSourceChars == {"\\", "0", "1", "2"}

MCCharText == [c \in 48 .. 50 |-> SubSeq("012", c - 47, c - 47)]

MCMaxOctalDigits == 3

MCMaxLen == 5

=============================================================================
