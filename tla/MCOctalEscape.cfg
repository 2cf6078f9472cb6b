CONSTANTS
  CharText <- MCCharText
  SourceChars <- MCSourceChars
  MaxOctalDigits <- MCMaxOctalDigits
  MaxLen <- MCMaxLen
INIT Init
NEXT Next
INVARIANT ReparseLaw
CHECK_DEADLOCK FALSE
