\* Statements nested in each other.  A line that has reached the bound is not
\* gone on with: CHECK_DEADLOCK FALSE.
SPECIFICATION Spec
CONSTANTS
  str_a = str_a
  str_b = str_b
  str_f = str_f
  str_g = str_g
  str_s = str_s
  str_fib = str_fib
  str_clock = str_clock
  UINT8_MAX = 4
  Fragments <- MCFragments
  MaxTokens = 26
CONSTRAINTS
  Nesting
  UpToFirstError
  WithinBytes
INVARIANTS
  AcceptedIsVerified
CHECK_DEADLOCK FALSE
