CONSTANTS
  N = 3
  FifoDepth = 2
  MaxBytes = 5
  Garbage = 99
SPECIFICATION UartSpec
INVARIANT ThreadsGetTime
CHECK_DEADLOCK FALSE
