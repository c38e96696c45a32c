CONSTANTS
  P = 3
  Q = 3
  Doubles <- MCDoubles
  Objects <- MCObjects
SPECIFICATION Spec
INVARIANT OneType
PROPERTY ImplementsVariant
