\* A line with an error.
SPECIFICATION Spec
CONSTANTS
  str_a = str_a
  str_b = str_b
  str_f = str_f
  str_g = str_g
  str_s = str_s
  str_fib = str_fib
  str_clock = str_clock
  UINT8_MAX = 255
  Vocabularies <- RecoveryVocabularies
INVARIANTS
  CompileReturns
CHECK_DEADLOCK FALSE
