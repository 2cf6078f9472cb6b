CONSTANTS
  CharText <- MCCharText
  Atoms <- MCAtoms
  Partners <- MCPartners
  RepeatOps <- MCRepeatOps
  GroupKinds <- MCGroupKinds
  MaxSteps <- MCMaxSteps
INIT Init
NEXT Next
INVARIANTS Canonical PrintInjective
CHECK_DEADLOCK FALSE
