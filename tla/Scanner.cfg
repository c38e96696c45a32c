SPECIFICATION Spec
CONSTANTS
  Alphabets <- MCAlphabets
  MaxLength = 5
INVARIANTS
  LongestMatch
PROPERTIES
  TokensTile
  NumbersReadWhole
  ScanEnds
