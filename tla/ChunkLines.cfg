CONSTANTS
  Bytes = {10, 11}
  Lines <- MCLines
  MaxLength = 4
SPECIFICATION Spec
INVARIANTS
  RunsTight
  LinesFound
PROPERTY ImplementsLineTable
