------------------------------ MODULE HexEscape ------------------------------
(***************************************************************************)
(* The round trip of a \x hex escape: the parser reads the escape digit   *)
(* by digit into an AstLiteral of kind HexFixed(X) or HexBrace(X), and the *)
(* printer of src/regex-syntax-2/src/ast.rs writes it back.  The reader is *)
(* the external parser's and follows the specification: two hex digits    *)
(* after \x, or one or more between \x{ and }, of either case.             *)
(***************************************************************************)
EXTENDS Naturals, Sequences, Printer

CONSTANTS
  HexChars,        \* the digit characters the pattern may use
  MaxBraceDigits   \* bound on the digits of a brace escape

HexAlphabet == "0123456789abcdefABCDEF"

(* The value of one hex digit character, in either case.                   *)
DigitValue(ch) ==
  LET i == CHOOSE i \in 1 .. Len(HexAlphabet) : SubSeq(HexAlphabet, i, i) = ch
  IN  IF i <= 16 THEN i - 1 ELSE i - 7

(* The value of a string of hex digits.                                    *)
HexValue(s) ==
  LET v[i \in 0 .. Len(s)] ==
        IF i = 0 THEN 0 ELSE 16 * v[i - 1] + DigitValue(SubSeq(s, i, i))
  IN  v[Len(s)]

NoLiteral == [t |-> "None"]

VARIABLES
  form,     \* the escape being read: "HexFixed" (\x) or "HexBrace" (\x{)
  digits,   \* the digits read so far
  lit       \* the literal produced, NoLiteral while reading

vars == <<form, digits, lit>>

HexLiteral == [t |-> "Literal", kind |-> [k |-> form, hex |-> "X"], c |-> HexValue(digits)]

(* The parser has read \x or \x{.                                          *)
Init ==
  /\ form \in {"HexFixed", "HexBrace"}
  /\ digits = ""
  /\ lit = NoLiteral

(* It reads one more digit; the second digit of \x ends the escape.        *)
ReadDigit(ch) ==
  /\ lit = NoLiteral
  /\ Len(digits) < IF form = "HexFixed" THEN 2 ELSE MaxBraceDigits
  /\ digits' = digits \o ch
  /\ lit' = IF form = "HexFixed" /\ Len(digits') = 2
            THEN [HexLiteral EXCEPT !.c = HexValue(digits')]
            ELSE NoLiteral
  /\ UNCHANGED form

(* It reads the } of a non-empty brace escape.                             *)
CloseBrace ==
  /\ lit = NoLiteral
  /\ form = "HexBrace"
  /\ digits # ""
  /\ lit' = HexLiteral
  /\ UNCHANGED <<form, digits>>

Next == (\E ch \in HexChars : ReadDigit(ch)) \/ CloseBrace

Spec == Init /\ [][Next]_vars

(* The text the parser read.                                               *)
Spelling == IF form = "HexFixed" THEN "\\x" \o digits ELSE "\\x{" \o digits \o "}"

(* The round-trip law (spec 4.4, 5.1): printing the literal the parser     *)
(* read reproduces the escape as it was written.                           *)
HexRoundTrip == lit # NoLiteral => PrintLiteral(lit) = Spelling

=============================================================================
