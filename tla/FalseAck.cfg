CONSTANTS
  Base = 16
  MaxStr = 6
  MaxTag = 3
  PktSize = 8
  ToPacket <- Packet
  FromPacket <- Decode
  Meaning <- Meant
  Whole <- Fits
  ZeroPacket <- Zeros
  NoMessage <- Nothing
  Message <- All
  Traffic <- Exchanges
  MaxAttempt = 3
  Pids = 4
  Depth = 2
SPECIFICATION RadioSpec
INVARIANT AckedIsTrue
CHECK_DEADLOCK FALSE
