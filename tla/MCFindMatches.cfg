CONSTANTS
  TextLen <- MCTextLen
  Groups = 1
  None = None
SPECIFICATION Spec
CONSTRAINT StateBound
INVARIANTS
  TypeOK
  NonOverlapping
  NoEmptyAfterMatch
PROPERTIES
  RecursionBound
  Advances
