------------------------------- MODULE Printer -------------------------------
(***************************************************************************)
(* The printer of src/regex-syntax-2/src/ast.rs: the fmt::Display impls of *)
(* Ast and of every node, literal, class, operator and flag type, which    *)
(* turn a syntax tree back into pattern text.  Print(ast) is the string    *)
(* that format!("{}", ast) writes.                                         *)
(*                                                                         *)
(* A node is a record whose field t names its variant (Ast::Literal is     *)
(* [t |-> "Literal", kind |-> ..., c |-> ...]); spans are left out, since  *)
(* no Display impl reads them.  A char is its scalar value, a String a     *)
(* TLA+ string.  The number formats of write! ({}, {:o}, {:X}, {:02X} ...) *)
(* are modelled by the base conversion and zero padding they perform.      *)
(***************************************************************************)
EXTENDS Naturals, Sequences, SequencesExt

CONSTANTS
  CharText   \* the text of each scalar value the trees use: a function

-----------------------------------------------------------------------------
(* Number formatting.                                                      *)

DigitText(d) == SubSeq("0123456789ABCDEF", d + 1, d + 1)

(* {} on u32 in base 10, {:o} in base 8, {:X} in base 16 (upper case).     *)
RECURSIVE InBase(_, _)
InBase(n, b) ==
  IF n < b THEN DigitText(n) ELSE InBase(n \div b, b) \o DigitText(n % b)

(* {:0wX}: zero-padded to at least w digits.                                *)
ZeroPad(s, w) ==
  IF Len(s) >= w THEN s ELSE SubSeq("00000000", 1, w - Len(s)) \o s

-----------------------------------------------------------------------------
(* Literals.                                                               *)

(* AstHexLiteralKind::digits: the fixed width of \x, \u and \U.            *)
HexDigits(h) == CASE h = "X" -> 2 [] h = "UnicodeShort" -> 4 [] h = "UnicodeLong" -> 8

HexPrefix(h) == CASE h = "X" -> "\\x" [] h = "UnicodeShort" -> "\\u" [] h = "UnicodeLong" -> "\\U"

(* Display for AstSpecialLiteralKind.                                      *)
PrintSpecial(k) ==
  CASE k = "Bell" -> "\\a" [] k = "FormFeed" -> "\\f" [] k = "Tab" -> "\\t"
    [] k = "LineFeed" -> "\\n" [] k = "CarriageReturn" -> "\\r"
    [] k = "VerticalTab" -> "\\v" [] k = "Space" -> "\\ "

(* Display for AstLiteral: the spelling its kind records.                  *)
PrintLiteral(x) ==
  CASE x.kind.k = "Verbatim"    -> CharText[x.c]
    [] x.kind.k = "Special"     -> PrintSpecial(x.kind.special)
    [] x.kind.k = "Punctuation" -> "\\" \o CharText[x.c]
    [] x.kind.k = "Octal"       -> "\\" \o InBase(x.c, 8)
    [] x.kind.k = "HexFixed"    ->
         HexPrefix(x.kind.hex) \o ZeroPad(InBase(x.c, 16), HexDigits(x.kind.hex))
    [] x.kind.k = "HexBrace"    ->
         HexPrefix(x.kind.hex) \o "{" \o InBase(x.c, 16) \o "}"

-----------------------------------------------------------------------------
(* Classes.                                                                *)

(* Display for AstClassPerl.                                               *)
PrintPerl(x) ==
  LET letter == CASE x.kind = "Digit" -> IF x.negated THEN "D" ELSE "d"
                  [] x.kind = "Space" -> IF x.negated THEN "S" ELSE "s"
                  [] x.kind = "Word"  -> IF x.negated THEN "W" ELSE "w"
  IN  "\\" \o letter

(* The names of the ASCII classes, as Display for AstClassAscii spells    *)
(* them.                                                                   *)
AsciiName ==
  ("Alnum" :> "alnum") @@ ("Alpha" :> "alpha") @@ ("Ascii" :> "ascii") @@
  ("Blank" :> "blank") @@ ("Cntrl" :> "cntrl") @@ ("Digit" :> "digit") @@
  ("Graph" :> "graph") @@ ("Lower" :> "lower") @@ ("Print" :> "print") @@
  ("Punct" :> "punct") @@ ("Space" :> "space") @@ ("Upper" :> "upper") @@
  ("Word" :> "word") @@ ("Xdigit" :> "xdigit")

AsciiKinds == DOMAIN AsciiName

(* Display for AstClassAscii.                                              *)
PrintAscii(x) ==
  (IF x.negated THEN "[:^" ELSE "[:") \o AsciiName[x.kind] \o ":]"

(* AstClassAsciiKind::from_name: the kind whose name is exactly s.         *)
FromName(s) ==
  IF \E k \in AsciiKinds : AsciiName[k] = s
  THEN CHOOSE k \in AsciiKinds : AsciiName[k] = s
  ELSE "None"

(* Display for AstClassUnicodeOpKind.                                      *)
PrintUnicodeOp(op) == CASE op = "Equal" -> "=" [] op = "Colon" -> ":" [] op = "NotEqual" -> "!="

(* Display for AstClassUnicodeKind.                                        *)
PrintUnicodeKind(k) ==
  CASE k.form = "OneLetter"  -> CharText[k.c]
    [] k.form = "Named"      -> "{" \o k.name \o "}"
    [] k.form = "NamedValue" -> "{" \o k.name \o PrintUnicodeOp(k.op) \o k.value \o "}"

(* Display for AstClassUnicode.                                            *)
PrintUnicode(x) == (IF x.negated THEN "\\P" ELSE "\\p") \o PrintUnicodeKind(x.kind)

(* Display for AstClassSetBinaryOpKind.                                    *)
PrintBinaryOpKind(k) ==
  CASE k = "Intersection" -> "&&" [] k = "Difference" -> "--"
    [] k = "SymmetricDifference" -> "~~"

(* Display for AstClass, AstClassSet, AstClassSetOp, AstClassSetUnion,     *)
(* AstClassSetItem, AstClassSetRange and AstClassSetBinaryOp: a nested    *)
(* class may sit inside a set, so the five are one recursion.              *)
RECURSIVE PrintClass(_), PrintSetOp(_), PrintSetItem(_)

PrintClass(x) ==
  CASE x.t = "Perl"    -> PrintPerl(x)
    [] x.t = "Unicode" -> PrintUnicode(x)
    [] x.t = "Set"     -> (IF x.negated THEN "[^" ELSE "[") \o PrintSetOp(x.op) \o "]"

PrintSetOp(op) ==
  IF op.t = "Union"
  THEN FoldLeft(LAMBDA acc, item : acc \o PrintSetItem(item), "", op.items)
  ELSE PrintSetOp(op.lhs) \o PrintBinaryOpKind(op.kind) \o PrintSetOp(op.rhs)

PrintSetItem(item) ==
  CASE item.t = "Literal" -> PrintLiteral(item)
    [] item.t = "Range"   -> PrintLiteral(item.start) \o "-" \o PrintLiteral(item.end)
    [] item.t = "Ascii"   -> PrintAscii(item)
    [] OTHER              -> PrintClass(item)

-----------------------------------------------------------------------------
(* Assertions, repetitions, flags.                                         *)

(* Display for AstAssertion and AstAssertionKind.                          *)
PrintAssertion(x) ==
  CASE x.kind = "StartLine" -> "^" [] x.kind = "EndLine" -> "$"
    [] x.kind = "StartText" -> "\\A" [] x.kind = "EndText" -> "\\z"
    [] x.kind = "WordBoundary" -> "\\b" [] x.kind = "NotWordBoundary" -> "\\B"

(* Display for AstRepetitionRange.                                         *)
PrintRepetitionRange(r) ==
  CASE r.range = "Exactly" -> "{" \o InBase(r.m, 10) \o "}"
    [] r.range = "AtLeast" -> "{" \o InBase(r.m, 10) \o ",}"
    [] r.range = "Bounded" -> "{" \o InBase(r.m, 10) \o "," \o InBase(r.n, 10) \o "}"

(* Mutant of PrintRepetitionOp: a lazy counted repetition loses its ?.    *)
PrintRepetitionOpRangeGreedy(op, greedy) ==
  LET base == CASE op.k = "ZeroOrOne"  -> "?"
                [] op.k = "ZeroOrMore" -> "*"
                [] op.k = "OneOrMore"  -> "+"
                [] op.k = "Range"      -> PrintRepetitionRange(op)
  IN  IF greedy \/ op.k = "Range" THEN base ELSE base \o "?"

(* The operator text of Display for AstRepetition, after the operand: ?,   *)
(* *, + or the range, then ? when the repetition is lazy.  op is an        *)
(* AstRepetitionKind: [k |-> "ZeroOrOne"], ..., or [k |-> "Range", ...].   *)
PrintRepetitionOp(op, greedy) ==
  LET base == CASE op.k = "ZeroOrOne"  -> "?"
                [] op.k = "ZeroOrMore" -> "*"
                [] op.k = "OneOrMore"  -> "+"
                [] op.k = "Range"      -> PrintRepetitionRange(op)
  IN  IF greedy THEN base ELSE base \o "?"

(* Display for AstFlag.                                                    *)
PrintFlag(f) ==
  CASE f = "CaseInsensitive" -> "i" [] f = "MultiLine" -> "m"
    [] f = "DotMatchesNewLine" -> "s" [] f = "SwapGreed" -> "U"
    [] f = "Unicode" -> "u" [] f = "IgnoreWhitespace" -> "x"

(* Display for AstFlags, AstFlagsItem and AstFlagsItemKind: the items in  *)
(* order, Negation as -.                                                   *)
PrintFlags(items) ==
  FoldLeft(LAMBDA acc, it : acc \o (IF it = "Negation" THEN "-" ELSE PrintFlag(it)),
           "", items)

(* Display for AstCaptureName.                                             *)
PrintCaptureName(name) == name

-----------------------------------------------------------------------------
(* Ast: the recursion over the tree.                                       *)

RECURSIVE PrintAst(_)

(* Display for AstGroup.                                                   *)
PrintGroup(x) ==
  CASE x.kind.k = "CaptureIndex" -> "(" \o PrintAst(x.ast) \o ")"
    [] x.kind.k = "CaptureName"  ->
         "(?P<" \o PrintCaptureName(x.kind.name) \o ">" \o PrintAst(x.ast) \o ")"
    [] x.kind.k = "NonCapturing" ->
         "(?" \o PrintFlags(x.kind.flags) \o ":" \o PrintAst(x.ast) \o ")"

(* Display for AstAlternation: the branches separated by |, none after    *)
(* the last.                                                               *)
PrintAlternation(asts) ==
  FoldLeft(LAMBDA acc, i : acc \o (IF i = 1 THEN "" ELSE "|") \o PrintAst(asts[i]),
           "", [i \in 1 .. Len(asts) |-> i])

(* Display for AstConcat.                                                  *)
PrintConcat(asts) == FoldLeft(LAMBDA acc, a : acc \o PrintAst(a), "", asts)

(* Display for Ast.                                                        *)
PrintAst(a) ==
  CASE a.t = "Empty"       -> ""
    [] a.t = "Flags"       -> "(?" \o PrintFlags(a.flags) \o ")"
    [] a.t = "Literal"     -> PrintLiteral(a)
    [] a.t = "Dot"         -> "."
    [] a.t = "Assertion"   -> PrintAssertion(a)
    [] a.t \in {"Perl", "Unicode", "Set"} -> PrintClass(a)
    [] a.t = "Repetition"  -> PrintAst(a.ast) \o PrintRepetitionOp(a.op, a.greedy)
    [] a.t = "Group"       -> PrintGroup(a)
    [] a.t = "Alternation" -> PrintAlternation(a.asts)
    [] a.t = "Concat"      -> PrintConcat(a.asts)

=============================================================================
