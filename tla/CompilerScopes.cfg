\* Declarations and uses of a name, also of more than the bytes can count.  A compile may hang: CHECK_DEADLOCK FALSE.
SPECIFICATION Spec
CONSTANTS
  str_a = str_a
  str_b = str_b
  str_f = str_f
  str_g = str_g
  str_s = str_s
  str_fib = str_fib
  str_clock = str_clock
  UINT8_MAX = 2
  Vocabularies <- ScopeVocabularies
CONSTRAINT OneBlock
INVARIANTS
  ScopesResolve
CHECK_DEADLOCK FALSE
