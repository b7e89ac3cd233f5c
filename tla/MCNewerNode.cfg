SPECIFICATION Spec
CONSTANTS
  OneWord <- MCOneWord
  Numeral <- MCNumeral
  DigitTexts <- MCDigitTexts
  NewMembers <- MCNewMembers
  Requests <- MCTransactions
  Answers <- MCAnswers
  Rows <- MCRows
  BadPages <- MCBadPages
  Symbols <- MCSymbols
  Decimals = {0, 8}
  Objects <- MCObjects
  Base = 16
  MaxArraySize = 64
  AddressBytes = 4
  HashBytes = 3
  Characters <- MCCharacters
  Utf8 <- MCUtf8
  Utf16 <- MCUtf16
  DigitValue <- MCDigitValue
  Minus = "-"
  MaxLookups = 3
  MaxCasts = 2
  MaxFailures = 2
CHECK_DEADLOCK FALSE
INVARIANT
  AddedDataKept
