CONSTANTS
  Base = 16
  MaxStr = 6
  MaxTag = 3
  PktSize = 8
  ToPacket <- Packet
  FromPacket <- Decode
  Meaning <- Meant
  Whole <- Fits
  ZeroPacket <- Zeros
  NoMessage <- Nothing
  Message <- All
  Traffic <- Everything
  MaxAttempt = 3
  Pids = 4
  Depth = 2
SPECIFICATION RadioFairSpec
INVARIANTS AckedIsTaken InOrder
PROPERTIES TakenArrives SendReturns
CHECK_DEADLOCK FALSE
