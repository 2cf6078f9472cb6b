CONSTANTS
  CaseInsensitive = CaseInsensitive
  MultiLine = MultiLine
  DotMatchesNewLine = DotMatchesNewLine
  Flags <- MCFlags
  Negation = Negation
  None = None
  MaxLen <- MCMaxLen
SPECIFICATION Spec
INVARIANTS
  TypeOK
  NoDuplicateKinds
  DuplicateNamesOriginal
  FlagStateMeaning
PROPERTIES
  RefinesFlagSet
CHECK_DEADLOCK FALSE
