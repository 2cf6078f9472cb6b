---------------------------- MODULE MCHexEscape ----------------------------
(* Hex escapes over the digits 0, 6, a and A, up to three brace digits.    *)
EXTENDS HexEscape

MCHexChars == {"0", "6", "a", "A"}

MCMaxBraceDigits == 3

MCCharText == <<>>

=============================================================================
