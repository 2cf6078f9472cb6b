------------------------------ MODULE AstFlags ------------------------------
(***************************************************************************)
(* The flags model of src/regex-syntax-2/src/ast.rs: AstFlags, the ordered *)
(* sequence of flag items written in a group such as (?is-u:...), built    *)
(* one item at a time with add_item and queried with flag_state.           *)
(*                                                                         *)
(* The external parser scans the flag text left to right and offers each  *)
(* item to add_item; a Some(i) answer is its duplicate-flag or repeated-   *)
(* negation error, carrying the span of items[i].  An item is modelled by  *)
(* its kind and the offset of its span: the parser moves forward one byte  *)
(* per item, so offsets increase with the order of the calls.              *)
(***************************************************************************)
EXTENDS Naturals, Sequences

CONSTANTS
  Flags,     \* AstFlag: CaseInsensitive, MultiLine, ...
  Negation,  \* AstFlagsItemKind::Negation
  None,      \* Option::None
  MaxLen     \* bound on the length of the flag text (the offsets offered)

ASSUME NegationAssumption == Negation \notin Flags
ASSUME NoneAssumption == None \notin Nat
(* Option::None is not a bool: flag_state's Some(b) and None differ.       *)
ASSUME NoneNotBooleanAssumption == None \notin BOOLEAN
ASSUME MaxLenAssumption == MaxLen \in Nat

(* AstFlagsItemKind: Negation, or Flag(f) for a flag f.                    *)
Kinds == Flags \cup {Negation}

(* AstFlagsItem: the offset of its span and its kind.                      *)
Items == [span : Nat, kind : Kinds]

VARIABLES
  items,   \* self.items
  pos,     \* the offset of the next item the parser offers
  result,  \* the value returned by the last add_item: None or Some(i)
  offered  \* history: the kind of the item offered to the last add_item

vars == <<items, pos, result, offered>>

(* The parser starts a group of flags with no items.                       *)
Init ==
  /\ items = <<>>
  /\ pos = 0
  /\ result = None
  /\ offered = None

(* Mutant of FirstWithKind: the index is off by one.                       *)
FirstWithKindOffByOne(seq, k) ==
  IF \E i \in 1 .. Len(seq) : seq[i].kind = k
  THEN (CHOOSE i \in 1 .. Len(seq) :
          seq[i].kind = k /\ \A j \in 1 .. i - 1 : seq[j].kind # k) - 1
  ELSE None

(* Mutant of FirstWithKind: the scan only compares with the last item.     *)
LastIfKind(seq, k) ==
  IF seq # <<>> /\ seq[Len(seq)].kind = k THEN Len(seq) ELSE None

(* Mutant of FirstWithKind: a duplicate is reported at the last item.     *)
LastIndexIfFound(seq, k) ==
  IF \E i \in 1 .. Len(seq) : seq[i].kind = k THEN Len(seq) ELSE None

(* The loop of add_item: the first index whose item has the given kind.    *)
FirstWithKind(seq, k) ==
  IF \E i \in 1 .. Len(seq) : seq[i].kind = k
  THEN CHOOSE i \in 1 .. Len(seq) :
         seq[i].kind = k /\ \A j \in 1 .. i - 1 : seq[j].kind # k
  ELSE None

(* add_item(item): a duplicate kind is reported by its index and the       *)
(* items are left alone; otherwise the item is pushed and None returned.   *)
AddItem(k) ==
  LET found == FirstWithKind(items, k) IN
  /\ pos < MaxLen
  /\ pos' = pos + 1
  /\ result' = found
  /\ offered' = k
  /\ items' = IF found = None
              THEN Append(items, [span |-> pos, kind |-> k])
              ELSE items

Next == \E k \in Kinds : AddItem(k)

Spec == Init /\ [][Next]_vars

-----------------------------------------------------------------------------
(* flag_state(flag): the loop over the items, with its sticky negated     *)
(* flag.  scan[j] is the loop state after j items: the value of negated   *)
(* and the value returned, None while the loop runs on.                    *)

(* Mutant of the loop step: a flag that is not the one queried resets     *)
(* negated, so a negation only reaches the flag right after it.            *)
ScanStepReset(st, x, flag) ==
  IF st.ret # None THEN st
  ELSE CASE x = Negation -> [neg |-> TRUE, ret |-> None]
         [] x = flag     -> [neg |-> st.neg, ret |-> ~st.neg]
         [] OTHER        -> [neg |-> FALSE, ret |-> None]

(* One iteration, once the loop has not returned yet: Negation sets       *)
(* negated, the queried flag returns Some(!negated), any other flag is     *)
(* passed over.                                                            *)
ScanStep(st, x, flag) ==
  IF st.ret # None THEN st
  ELSE CASE x = Negation -> [neg |-> TRUE, ret |-> None]
         [] x = flag     -> [neg |-> st.neg, ret |-> ~st.neg]
         [] OTHER        -> st

FlagState(seq, flag) ==
  LET scan[j \in 0 .. Len(seq)] ==
        IF j = 0 THEN [neg |-> FALSE, ret |-> None]
        ELSE ScanStep(scan[j - 1], seq[j].kind, flag)
  IN  scan[Len(seq)].ret

-----------------------------------------------------------------------------

(* Type invariant: items are offered at increasing offsets below MaxLen.   *)
TypeOK ==
  /\ items \in Seq(Items)
  /\ pos \in 0 .. MaxLen
  /\ result \in {None} \cup 1 .. Len(items)
  /\ offered \in Kinds \cup {None}

(* The items of a group never repeat a kind: each flag appears at most     *)
(* once and there is at most one negation, whatever order the parser      *)
(* offers them in.  flag_state relies on it: with two `-`, or two `i`,     *)
(* the first occurrence would silently win.                                *)
NoDuplicateKinds ==
  \A i, j \in 1 .. Len(items) : i # j => items[i].kind # items[j].kind

(* The contract of add_item (its doc comment: Some(i) means               *)
(* items[i].kind == item.kind), which the parser relies on to report a     *)
(* duplicate flag or a repeated negation with the span of the original:    *)
(* after every call that returned Some(i), items[i] has the kind just      *)
(* offered and was written strictly before the duplicate.                  *)
DuplicateNamesOriginal ==
  result # None =>
    /\ items[result].kind = offered
    /\ items[result].span < pos - 1

(* The meaning of a group of flags (spec 4.5): a flag is on if it appears  *)
(* before the first `-`, off if after it, unset if absent.  flag_state's   *)
(* loop computes exactly that for every flag of every group add_item can   *)
(* build.                                                                  *)
FlagStateMeaning ==
  \A f \in Flags :
    IF \E i \in 1 .. Len(items) : items[i].kind = f
    THEN FlagState(items, f) =
           \E i \in 1 .. Len(items) :
              /\ items[i].kind = f
              /\ \A j \in 1 .. i - 1 : items[j].kind # Negation
    ELSE FlagState(items, f) = None

-----------------------------------------------------------------------------
(* The abstract group of FlagSet, seen through the items: the set of      *)
(* their kinds, whether the last call returned Some(i), and the number of *)
(* items offered.                                                          *)
FS == INSTANCE FlagSet WITH kinds <- {items[i].kind : i \in 1 .. Len(items)},
                            refused <- (result # None), calls <- pos

(* add_item keeps its doc comment's promise in every state: the sequence   *)
(* it builds behaves as a set of kinds, where an offered kind is refused   *)
(* exactly when an item of that kind is already in the group, and joins    *)
(* it exactly when none is.                                                *)
RefinesFlagSet == FS!Spec

=============================================================================
