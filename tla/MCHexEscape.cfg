CONSTANTS
  CharText <- MCCharText
  HexChars <- MCHexChars
  MaxBraceDigits <- MCMaxBraceDigits
INIT Init
NEXT Next
INVARIANT HexRoundTrip
CHECK_DEADLOCK FALSE
