CONSTANTS
  TextLen <- MCTextLen
  Groups = 1
  None = None
SPECIFICATION Spec
CONSTRAINT StateBound
PROPERTIES
  Termination
