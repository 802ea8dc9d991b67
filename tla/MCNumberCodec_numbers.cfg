CONSTANTS
  Base = 4
  IntDigits = 4
  SizeDigits = 8
  Numbers <- SomeNumbers
  Delays <- SomeDelays
  Past = 5
  Future = 3
CHECK_DEADLOCK FALSE
SPECIFICATION CodecSpec
INVARIANTS
  OnlyIntsArrive
  WindowRespected
