----------------------------- MODULE OctalEscape -----------------------------
(***************************************************************************)
(* The reparse law for octal escapes: with octal enabled, the parser reads *)
(* a backslash and then as many octal digits as it may (up to             *)
(* MaxOctalDigits) into one AstLiteral of kind Octal, and any other digit  *)
(* verbatim.  The printer of src/regex-syntax-2/src/ast.rs writes an       *)
(* Octal literal with {:o}, the fewest digits of its value.  The reader is *)
(* the external parser's and follows the specification; a pattern here is *)
(* a string of backslashes and digits, the part of the grammar in which    *)
(* octal escapes and the digits after them meet.                           *)
(***************************************************************************)
EXTENDS Naturals, Sequences, Printer

CONSTANTS
  SourceChars,     \* the characters a pattern is made of
  MaxOctalDigits,  \* the most digits the parser reads after a backslash
  MaxLen           \* bound on the length of the pattern

OctalDigits == "01234567"

IsOctal(ch) == \E i \in 1 .. 8 : SubSeq(OctalDigits, i, i) = ch

(* The code point and the value of a digit character.                      *)
DigitCode(ch) == 47 + CHOOSE i \in 1 .. 10 : SubSeq("0123456789", i, i) = ch

Char(s, i) == SubSeq(s, i, i)

(* The number of octal digits the parser takes after a backslash at i.    *)
OctalRun(s, i) ==
  LET n[j \in 0 .. MaxOctalDigits] ==
        IF j = 0 THEN 0
        ELSE IF n[j - 1] = j - 1 /\ i + j <= Len(s) /\ IsOctal(Char(s, i + j))
             THEN j ELSE n[j - 1]
  IN  n[MaxOctalDigits]

OctalValue(s) ==
  LET v[j \in 0 .. Len(s)] ==
        IF j = 0 THEN 0 ELSE 8 * v[j - 1] + (DigitCode(Char(s, j)) - 48)
  IN  v[Len(s)]

(* The literals of a pattern, left to right: [ok |-> TRUE, lits |-> ...], *)
(* or ok = FALSE for a backslash followed by no octal digit.               *)
Fail == [ok |-> FALSE, lits |-> <<>>]

Literal(kind, c) == [t |-> "Literal", kind |-> [k |-> kind], c |-> c]

RECURSIVE Lex(_)
Lex(s) ==
  IF s = "" THEN [ok |-> TRUE, lits |-> <<>>]
  ELSE IF Char(s, 1) = "\\"
  THEN LET k == OctalRun(s, 1)
           rest == Lex(SubSeq(s, k + 2, Len(s)))
       IN  IF k = 0 \/ ~rest.ok THEN Fail
           ELSE [rest EXCEPT !.lits =
                   <<Literal("Octal", OctalValue(SubSeq(s, 2, k + 1)))>> \o @]
  ELSE LET rest == Lex(SubSeq(s, 2, Len(s)))
       IN  IF ~rest.ok THEN Fail
           ELSE [rest EXCEPT !.lits = <<Literal("Verbatim", DigitCode(Char(s, 1)))>> \o @]

VARIABLE src   \* the pattern read so far

Init == src = ""

(* One more character of the pattern.                                      *)
Read(ch) ==
  /\ Len(src) < MaxLen
  /\ src' = src \o ch

Next == \E ch \in SourceChars : Read(ch)

Spec == Init /\ [][Next]_src

(* The reparse law (spec 4.4): re-parsing the printed text of a parsed     *)
(* pattern gives the same literals (spans aside, which follow the text).   *)
ReparseLaw ==
  LET read == Lex(src)
  IN  read.ok => Lex(PrintConcat(read.lits)) = read

=============================================================================
