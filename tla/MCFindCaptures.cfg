CONSTANTS
  TextLen <- MCTextLen
  Groups <- MCGroups
  None = None
SPECIFICATION Spec
CONSTRAINT StateBound
INVARIANTS
  TypeOK
  CapturesInsideMatch
PROPERTIES
  RefinesFindMatches
