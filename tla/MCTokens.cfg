SPECIFICATION MCSpec
CONSTANTS
  DigitValue <- Hexadecimal
  MaxNumber = 127
  MaxWord = 4
  MaxString = 3
INVARIANTS
  TypeOK
  NothingLost
  WordsWhole
  StringsWhole
  LinesRight
  ReadsBack
PROPERTIES
  ReadsOn
CHECK_DEADLOCK FALSE
