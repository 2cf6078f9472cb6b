CONSTANTS
  Literal = Literal
  Range = Range
  ItemKinds <- MCItemKinds
  MaxPos = 6
  MaxItemLen = 2
  MaxGap = 1
SPECIFICATION Spec
INVARIANTS
  TypeOK
  UnionSpanFitsItems
PROPERTIES
  PushOnlyExtends
CHECK_DEADLOCK FALSE
