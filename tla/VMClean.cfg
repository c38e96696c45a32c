\* Lines that never fail, until the closures are used up.  The process may end: CHECK_DEADLOCK FALSE.
SPECIFICATION Spec
CONSTANTS
  str_a = str_a
  str_b = str_b
  str_f = str_f
  str_g = str_g
  str_s = str_s
  str_fib = str_fib
  str_clock = str_clock
  UINT8_MAX = 255
  Names <- MCNames
  ClockName = str_clock
  Numbers <- MCNumbers
  Arith <- MCArith
  Less <- MCLess
  Negate <- MCNegate
  ClockReadings <- MCClockReadings
  Library <- MCLibrary
  Heights <- MCHeights
  Locals <- MCLocals
  Scripts <- CleanScripts
  STACK_MAX = 15
  FRAME_MAX = 5
INVARIANTS
  NoUninitRead
  WindowsExact
  UpvaluesOpen
PROPERTIES
  RunEnds
  FrameIsolation
CHECK_DEADLOCK FALSE
