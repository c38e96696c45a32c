SPECIFICATION ExecutionSpec
CONSTANTS
  str_a = str_a
  str_b = str_b
  str_f = str_f
  str_g = str_g
  str_s = str_s
  str_fib = str_fib
  str_clock = str_clock
  UINT8_MAX = 255
  Names <- MCNames
  ClockName = str_clock
  Numbers <- MCNumbers
  Arith <- MCArith
  Less <- MCLess
  Negate <- MCNegate
  ClockReadings <- MCClockReadings
  Library <- MCLibrary
  Scripts <- MCScripts
  Corpus <- MCCorpus
  Script <- MCScript
  Functions <- MCFunctions
  NextLines <- MCNextLines
  Fuel = 30
  STACK_MAX = 24
  FRAME_MAX = 5
PROPERTIES
  EvaluatesLines
  LinesEnd
CHECK_DEADLOCK FALSE
