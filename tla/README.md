# Formal models of the regex match iterators and syntax tree

TLA+ models, TLC runs and TLAPS proofs for two sources of this repository:

* `src/src/re_trait.rs`: the engine-agnostic match iterators `FindMatches` (`find_iter`) and
  `FindCaptures` (`captures_iter`), which drive any engine implementing `RegularExpression`;
* `src/regex-syntax-2/src/ast.rs`: the syntax tree (spans, nodes, the canonicalising builders,
  the flags model, the class-set union builder) and its printer (the `fmt::Display` impls).

## The system and how its parts interact

An external parser (not in `src/`) reads a pattern left to right and builds the tree bottom up:
it opens a class union with `Span::splat` and `push`es items, offers each flag character to
`AstFlags::add_item`, collects the children of concatenations and alternations and canonicalises
them with `into_ast`, and wraps operands in repetitions and groups. The printer turns any tree back
into text. At match time an engine implementing `find_at`, `captures_at` and `next_after_empty`
is driven by the iterators, which must skip the empty match right after a match and always end.

## Modules

| Module | Part of the code | State and actions |
|---|---|---|
| `RegularExpression` | the `RegularExpression` trait | constants and the set of engine answers the contract allows (`FindAtFns`, `NextAfterEmptyFns`, `CaptureAnswers`) |
| `FindMatches` | `FindMatches::next` | `last_end`, `last_match`, a `pc` for the recursive call; one action per exit of `next` (`NextPastEnd`, `NextNoMatch`, `NextEmptyAtEnd`, `NextSkipEmpty`, `NextYield`), `Call` and `Recurse` |
| `FindCaptures` | `FindCaptures::next` | as above plus the slot vector; refines `FindMatches` |
| `AstFlags` | `AstFlags::add_item`, `flag_state` | `items`, the offset offered, the last result; one action `AddItem(k)`; `flag_state` is a recursive function over the items |
| `AstSpan` | `Span`, `Position` and their constructors, `AstClass::span`, `AstClassSetOp::span`, `AstClassSetItem::span`, `AstClassSetUnion::push` | no state: the span operators both class models use |
| `ClassSetUnion` | `AstClassSetUnion::push` on a flat class | the union, the opening offset, the parser's cursor; one action `Push(k, s, e)` |
| `ClassSetNesting` | `AstClassSet`, `AstClassSetOp`, `AstClassSetBinaryOp`, nested `AstClassSetItem::Class` | the parser's stack of open brackets (opening offset, negation, pending lhs and operator, union being read), its cursor, the finished class; actions `Open(neg)`, `Leaf(k, n)`, `Operator(k)`, `Close`; after them, `NestedClosure` states the nesting of spans over the nodes reachable from the stack and result, without recursion |
| `ClassSetTrees` | the same classes, walked as trees | no state: the RECURSIVE walk `OpsOf` of every node, `TypeOK` and `SpanNesting` for TLC; kept apart so that `ClassSetNestingProofs` reaches no RECURSIVE operator |
| `Printer` | every `fmt::Display` impl of the tree | no state: `PrintAst` and one operator per impl; `{}`, `{:o}`, `{:X}`, `{:02X}` are modelled by base conversion and zero padding |
| `AstBuilderCore` | `into_ast` of `AstAlternation`/`AstConcat`, the node constructors | the tree built so far; actions `Repeat`, `Wrap`, `Concat`, `Alternate` as the parser's grammar applies them; `NodesWellFormed` states the node invariants over the nodes defined without recursion |
| `AstBuilder` | the same trees, walked and printed | no state: the RECURSIVE walk `Nodes`, the universe of trees of `MaxSteps` constructs and their texts, and `Canonical`, `PrintInjective` for TLC; kept apart from `AstBuilderCore` so that `AstBuilderProofs` reaches no RECURSIVE operator |
| `FlagSet` | the doc comment of `AstFlags::add_item` | the abstract group: the set of kinds, whether the last offer was refused, the count of offers; one action `Offer(k)`. `AstFlags` refines it (`RefinesFlagSet`) |
| `HexEscape` | `AstLiteral` of kind `HexFixed`/`HexBrace` and its printer | the parser reading a `\x` escape digit by digit |
| `OctalEscape` | `AstLiteral` of kind `Octal` and its printer | the parser lexing a pattern of digits and backslashes into literals, and reading the printed text back |

The engine is not code but a contract: `Init` of `FindMatches` chooses `findAt` among all
functions from cursor to "no match or a match starting at or after it", and `nextAfterEmpty`
among all functions that advance. Every run thus covers every engine obeying the contract on a
text of the given length. `return self.next()` is the `pc = "retry"` state and the `Recurse`
action, so the recursion depth is a property rather than an assumption.

What comes from the specification rather than from `src/` (marked `spec_modelled` in
`PROJECT.json`): the parser's side, that is, which trees it builds (`AstBuilderCore`'s guards:
no repetition of nothing or of a flag group, a `?` after a greedy operator makes it lazy, no empty
group), how positions advance (`Pos`), how hex and octal escapes are read (`HexEscape`,
`OctalEscape`), and how the parser keeps its stack of open brackets and spans a binary operation
from its lhs to its rhs (`ClassSetNesting`).

## Runs

| Run | Checks | Shows |
|---|---|---|
| `fm_safety` | `TypeOK`, `NonOverlapping`, `NoEmptyAfterMatch`, `RecursionBound`, `Advances` | for every contract-obeying engine on a 3-byte text, yielded matches never overlap, never an empty match at the previous end, `next` recurses at most once, and every step moves the cursor forward or moves `last_match` onto it |
| `fm_termination` | `Termination` | every iteration ends, under weak fairness of `Call` and `Recurse` |
| `fc_captures` | `TypeOK`, `CapturesInsideMatch`, `RefinesFindMatches` | capture slots lie inside their match; `captures_iter` yields exactly the matches of `find_iter` |
| `af_flags` | `TypeOK`, `NoDuplicateKinds`, `DuplicateNamesOriginal`, `FlagStateMeaning`, `RefinesFlagSet` | over every order of up to five flag items, no kind is stored twice, a refused item is reported by the index of the earlier item of its kind, `add_item` behaves as the set of kinds its doc comment promises, and `flag_state` gives each flag the polarity of its place relative to the first `-` |
| `csu_union` | `TypeOK`, `UnionSpanFitsItems`, `PushOnlyExtends` | after any sequence of pushes with skipped whitespace, the union spans exactly its items; no push moves the start of a non-empty union or changes an earlier item |
| `csn_nesting` | `TypeOK`, `SpanNesting` | in classes nested two deep with binary operations, every union contains its items in order, every binary operation its lhs before its rhs, every class its op strictly inside the brackets |
| `ast_print` | `Canonical`, `PrintInjective` | every tree of two constructs over atoms of every variant and spelling is canonical, and no two print alike |
| `hex_roundtrip` (violation) | `HexRoundTrip` | `\xa0` prints as `\xA0` |
| `octal_reparse` (violation) | `ReparseLaw` | `\0111` prints as `\111`, which reads back as one literal |

Bounds. A 3-byte text gives empty matches at the start, middle and end, matches that touch,
and `next_after_empty` jumping past the end. Five flag items are enough to offer three
flags, a negation, and a duplicate of each. A 6-byte class with items of 1 or 2 bytes and
gaps of 0 or 1 gives unions of 0 to 5 items. A 9-byte class nested two deep is room for
`[a[b]&&c]`, `[a&&b&&c]` (a binary operation as lhs) and `[^[^a]b]`: every case where a nested
class or a binary operation is the child whose span matters. Two constructs over 16 atoms reach:
- repetition of a repetition, lazy and greedy;
- groups of every kind around sequences;
- concatenation after an alternation's last branch;
- empty branches.
Fairness is justified because `next` is a synchronous call: a caller that keeps calling it is
the consumer `Termination` speaks of, and the recursive call runs as soon as it is made.

Each property has a mutant in `PROJECT.json`: a plausible bug in the mapped code that TLC
finds under the run's own configuration.

## Findings

`hex_roundtrip`: the printer writes hex escapes in upper case (`{:02X}` for `\xHH`, line 489;
`{:X}`, without leading zeros, for `\x{...}`, line 498) and `AstLiteralKind` records only the
form. TLC's trace reads `\xa0`, which prints as `\xA0`; in the same way `\x{a}` and `\x{061}`
print as `\x{A}` and `\x{61}`. The specification's round-trip law (`Print(AST) == S`) holds only for
upper-case, unpadded spellings.

`octal_reparse`: the printer writes an octal literal with `{:o}`, the fewest digits of its value,
and the parser reads up to three octal digits after a backslash. So `\0111` (octal 9 as `\011`,
then a verbatim `1`) prints as `\111` and reads back as the single literal octal 73: the reparse
law (parsing the printed text gives an equal tree) fails.

The builder run also shows what injectivity depends on: `Repetition(Repetition(a, +, greedy), ?)`
prints `a+?`, the text of the lazy `+`. Without the grammar rule that `?` after an operator
means laziness, `PrintInjective` fails: its mutant `CanRepeatAnyOperand` drops that rule and TLC
finds the two trees. The atoms leave out a verbatim digit after an octal escape, whose collision
is the separate finding of `octal_reparse`; `PrintInjective` speaks of the other spellings.

## Proofs (TLAPS)

* `FindCapturesProofs`: `CapturesSafety` (`TypeOK /\ CapturesInsideMatch`) and
  `RefinesFindMatchesSafety` (`Spec => FM!Init /\ [][FM!Next]_FM!vars`, the refinement without
  fairness). The lemma `FillDescribes` shows that a slot vector filled from any answer the contract
  allows has both match slots and every group inside the match; `FoundAnswer` that the engine's
  answer at the cursor is such an answer. The refinement maps `capturesAt` to its match part and
  the yielded vectors to their first two slots; `SameContract` shows that the contract of
  `FindMatches` seen through the instance is the one of this module, and `RefStep` maps each
  action to the action of the same name. It uses the assumption `NoneNotMatchAssumption`
  (`None` is not a match).
* `FindMatchesProofs`: `TypeCorrect`, `Safety` (`NonOverlapping /\ NoEmptyAfterMatch /\
  YieldBound`) and `NoNestedRecursion` (`RecursionBound`), for every text length and engine.
  The inductive invariant adds four facts:
  - `LastYieldedEnd`: the last yielded match ends at `last_match`;
  - `CursorNotBehind`: the cursor is never behind `last_match`;
  - `RetryHasMoved`: in the retry state the cursor has moved past `last_match`;
  - `CountBound`: the yield count is bounded.
  `RetryHasMoved` is what makes the recursion one frame deep.
* `AstFlagsProofs`: `NoDuplicates` (`TypeOK /\ NoDuplicateKinds`) for every set of flags. The
  lemma `ScanFinds` shows that, without duplicates, the scan of `add_item` returns the unique
  index of the kind. So `TypeOK` (the result names an item) and `NoDuplicateKinds` must be
  proved together. `DuplicateOriginal` (`DuplicateNamesOriginal`) strengthens the invariant
  with `SpansBelow`: every item lies before the current offset, so the original is earlier.
* `ClassSetUnionProofs`: `UnionSpan` (`TypeOK /\ UnionSpanFitsItems`) for every pattern
  length and bound. The invariant is strengthened with `EndAtCursor`: the union ends where the
  parser stands. This is needed to show that the span stays well formed, with start ≤ end.
  It assumes `LeafKindsAssumption`: the items pushed are leaves, not nested classes.
  `UnionTypeCorrect` (`TypeOK`) follows from it. `PushMonotone` (`PushOnlyExtends`, an action
  property) rests on the lemma `PushExtends`: from a state of the inductive invariant, a push keeps
  the union's items as a prefix, its start when it was non-empty, and moves its end forward.
* `AstFlagsProofs`, continued: `FlagsTypeCorrect` (`TypeOK`) and `FlagStateCorrect`
  (`FlagStateMeaning`). `flag_state` is a recursive function `scan` over the items, and what a
  recursive function computes cannot be proved by induction here. The proof instead writes the
  loop in closed form (`Expected`: after j items, the flag was found, and a `-` was met before it)
  and shows, as an invariant `ScanUnique`, that the recursive definition has exactly one solution
  for the current items, the closed form. Appending one item keeps this (`UniqueAppend`). This is
  induction over the states, not over data. `ExpectedMeaning` then reads the closed form as the
  meaning of spec 4.5. It uses `NoneNotBooleanAssumption`: `None` is neither TRUE nor FALSE.
* `FindMatchesProofs`, continued: `EmptySkipped` (`NoEmptyAfterMatch`) and `EveryStepAdvances`
  (`Advances`, an action property): every step that does not end the iteration moves the cursor
  forward, or keeps it and moves `last_match` onto it. This is the variant behind `Termination`.
* `FindCapturesProofs`, continued: `CapturesTypeCorrect` (`TypeOK`).
* `ClassSetNestingProofs`: `SpansNest` (`Spec => []NestedClosure`) for every pattern length,
  item length and depth. `NestedClosure` says what `SpanNesting` says, but over the nodes
  *reachable* from the stack and the result, defined as the least set closed under
  `Children` (a binary operation's operands, a union's nested classes' ops) instead of by the
  recursive walk `OpsOf`. The inductive invariant `Inv` holds:
  - `FrameFacts(i)`: each open bracket lies before its union, its pending lhs lies between
    the bracket and the union, and the union ends before the next bracket (or the cursor);
  - a finished class is alone and nested;
  - a witness set `S` of ops that is typed over itself (`S \subseteq OpIn(S)`, so closed under
    children), whose every op is `Good` (its own nesting), and which contains every op the stack
    and result hold.
  Every reachable op lies in any such closed set, so `InvNested` gives `NestedClosure`. Each
  action grows `S` by the ops it builds (`GrowWitness`); `PushNested` shows a push keeps a
  union `Good`, and `ClosedClass` that closing a bracket gives a class strictly around its op.

* `AstBuilderProofs`: `TreesWellFormed` (`Spec => []NodesWellFormed`) for every set of atoms,
  operators, group kinds and number of constructs: every node of the tree is a well-typed `Ast`
  variant, and every `Concat` and `Alternation` has at least two children, none of its own
  variant. This is `Canonical` of `ast_print`, and the typing of every node, over the nodes defined as
  the least set closed under `Kids` instead of the recursive walk `Nodes`. As for `SpansNest`,
  the inductive invariant holds a witness: a set of nodes holding the tree, each of one of the
  shapes the constructors and `into_ast` produce (`Typed`), with its children in the set. One
  lemma per construct shows that the nodes it builds can be added: `RepOfGrown`,
  `ConcatOntoTyped`, `AlternateTyped`, `GroupTyped`, and `GrowLast` for a change to the last
  branch of an `Alternation`. `IntoAstCases` is `into_ast`'s collapse of one child. It assumes
  `AtomsAssumption`: the atoms the parser reads are leaf nodes.
* `AstFlagsProofs`, refinement: `FlagSetRefined` (`Spec => RefinesFlagSet`). The items are mapped
  to the set of their kinds, and a `Some(i)` result to a refused offer. `RefStep` maps each
  `AddItem(k)` to `Offer(k)`, using `ScanFinds` and the invariant `NoDuplicateKinds`: the scan
  finds the kind exactly when the set holds it. `KindsOfAppend` is the effect of a push on the
  set.

Only model-checked:
* liveness (`Termination`), which is out of TLAPS' reach;
* the fairness part of `RefinesFindMatches`;
* `SpanNesting` and `TypeOK` of `ClassSetTrees` as stated, over the RECURSIVE walk `OpsOf`:
  `SpansNest` proves the same nesting over the reachable nodes, and that `OpsOf` collects exactly
  the reachable nodes is an induction over the tree, which these provers cannot do;
* `Canonical` of `AstBuilder` as stated, over the RECURSIVE walk `Nodes`.
  `TreesWellFormed` proves the same facts over the least closed set. That `Nodes` computes that set
  is an induction over the tree;
* that every `[:name:]` the printer writes for an ASCII class is read back by `from_name` as its
  kind: `AsciiNamesRoundTrip` in `MCAstBuilder`, an ASSUME over the finite set of kinds that TLC
  evaluates at the start of `ast_print` (it is not an invariant of the run);
* everything about the printer (`PrintInjective`, the escape round trips), which is recursive
  (RECURSIVE operators) and TLC-only.

## Not modelled

* The error taxonomy's strings: fixed text per kind, no control.
* Comments.
* The `Debug` impls.
* `Ast::span` and the span accessors of the non-class nodes: they only read a field.
* The parser itself, except where its grammar decides which trees exist.
* The default methods of `RegularExpression` beyond the iterators: they only delegate.

## Plan for later sittings

* Give the tree of `AstBuilder` spans and check `Ast::span` against the nesting of `SpanNesting`.
* Check `from_name` against every string of up to six letters, not only the printed names.
* Prove an action property of `ClassSetNesting` (a step changes only the innermost open bracket,
  or pushes or pops one), and the `HexEscape` reader's digit-count invariant once the reader is
  separated from the printer.
