CONSTANTS
  Literal = Literal
  Range = Range
  Intersection = Intersection
  Difference = Difference
  LeafKinds <- MCLeafKinds
  OpKinds <- MCOpKinds
  MaxPos = 9
  MaxItemLen = 2
  MaxDepth = 2
SPECIFICATION Spec
INVARIANTS
  TypeOK
  SpanNesting
CHECK_DEADLOCK FALSE
