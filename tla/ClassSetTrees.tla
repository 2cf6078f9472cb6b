--------------------------- MODULE ClassSetTrees ---------------------------
(***************************************************************************)
(* The properties of ClassSetNesting over the nodes a walk of the parser's *)
(* trees collects: OpsOf descends through binary operations and the        *)
(* classes nested in unions.                                               *)
(***************************************************************************)
EXTENDS ClassSetNesting

RECURSIVE OpsOf(_)
(* Every op of an op tree, those of nested classes included.               *)
OpsOf(op) == {op} \cup UNION {OpsOf(o) : o \in Children(op)}

(* The ops of the result and of every open frame.                          *)
AllOps == UNION {OpsOf(o) : o \in RootOps}

(* The closed classes: the result and every nested class.                  *)
AllClasses ==
  {result[i] : i \in 1 .. Len(result)} \cup UNION {ClassesOf(op) : op \in AllOps}

(* Type invariant: at most MaxDepth open brackets, one result, and every   *)
(* op holds a well-formed span.                                            *)
TypeOK ==
  /\ Len(frames) \in 0 .. MaxDepth
  /\ Len(result) \in 0 .. 1
  /\ cursor \in 0 .. MaxPos
  /\ \A op \in AllOps : OwnOpSpan(op) \in Span

(* Spans nest (spec 3): the span of every union contains its items, in     *)
(* source order and without overlap; a binary operation contains its lhs   *)
(* and rhs, lhs first; a class contains its op strictly (the brackets lie  *)
(* outside it), however deeply classes and operations are nested.          *)
SpanNesting ==
  /\ \A op \in AllOps : OpNested(op)
  /\ \A c \in AllClasses : ClassNested(c)

=============================================================================
