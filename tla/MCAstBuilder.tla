---------------------------- MODULE MCAstBuilder ----------------------------
(* A model of AstBuilder: trees of up to two constructs over atoms of      *)
(* every variant and literal spelling.                                     *)
EXTENDS AstBuilder

MCCharText == [c \in {42, 76, 97, 98} |->
                 CASE c = 42 -> "*" [] c = 76 -> "L" [] c = 97 -> "a" [] c = 98 -> "b"]

Lit(k, c) == [t |-> "Literal", kind |-> k, c |-> c]

LitA == Lit([k |-> "Verbatim"], 97)
LitB == Lit([k |-> "Verbatim"], 98)
Star == Lit([k |-> "Punctuation"], 42)

Ascii(k, n) == [t |-> "Ascii", kind |-> k, negated |-> n]

MCAtoms ==
  { EmptyAst, LitA, Star, [t |-> "Dot"],
    Lit([k |-> "Special", special |-> "Tab"], 9),
    Lit([k |-> "Octal"], 97),
    Lit([k |-> "HexFixed", hex |-> "X"], 97),
    Lit([k |-> "HexFixed", hex |-> "UnicodeShort"], 97),
    Lit([k |-> "HexBrace", hex |-> "X"], 97),
    [t |-> "Assertion", kind |-> "StartLine"],
    [t |-> "Perl", kind |-> "Digit", negated |-> TRUE],
    [t |-> "Unicode", negated |-> FALSE, kind |-> [form |-> "OneLetter", c |-> 76]],
    [t |-> "Unicode", negated |-> TRUE,
     kind |-> [form |-> "NamedValue", name |-> "sc", op |-> "NotEqual", value |-> "Greek"]],
    [t |-> "Set", negated |-> FALSE,
     op |-> [t |-> "Union",
             items |-> <<[t |-> "Range", start |-> LitA, end |-> LitB],
                         Ascii("Alpha", TRUE)>>]],
    [t |-> "Set", negated |-> TRUE,
     op |-> [t |-> "BinaryOp", kind |-> "Intersection",
             lhs |-> [t |-> "Union", items |-> <<[t |-> "Perl", kind |-> "Word", negated |-> FALSE]>>],
             rhs |-> [t |-> "Union", items |-> <<Ascii("Digit", FALSE)>>]]],
    [t |-> "Flags", flags |-> <<"CaseInsensitive", "Negation", "DotMatchesNewLine">>] }

MCPartners == {LitB, Star, [t |-> "Flags", flags |-> <<"SwapGreed">>]}

MCRepeatOps ==
  { [k |-> "ZeroOrOne"], [k |-> "OneOrMore"],
    [k |-> "Range", range |-> "Bounded", m |-> 2, n |-> 10] }

MCGroupKinds ==
  { [k |-> "CaptureIndex"], [k |-> "CaptureName", name |-> "n"],
    [k |-> "NonCapturing", flags |-> <<"Negation", "MultiLine">>] }

MCMaxSteps == 2

(* Every ASCII class name the printer writes is read back by from_name as *)
(* the kind it was printed from, in both polarities.  An assumption, which *)
(* TLC evaluates when the run starts, not a property of the run.           *)
ASSUME AsciiNamesRoundTrip ==
  \A k \in AsciiKinds, n \in BOOLEAN :
    LET s == PrintAscii(Ascii(k, n))
        off == IF n THEN 3 ELSE 2
    IN  FromName(SubSeq(s, off + 1, Len(s) - 2)) = k

=============================================================================
