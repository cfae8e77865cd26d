CONSTANTS
  N = 3
  FifoDepth = 2
  MaxBytes = 5
  Garbage = 99
SPECIFICATION UartFairSpec
INVARIANT RingIsFifo
PROPERTY RingDrains
CHECK_DEADLOCK FALSE
