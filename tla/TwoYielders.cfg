CONSTANTS
  t1 = t1
  t2 = t2
  t3 = t3
  m1 = m1
  m2 = m2
  Thread = {t1, t2}
  Main = t1
  MVar = {m1}
  Value = {v1}
  NIL = NIL
  ClockMod = 2
  May <- Yielders
  Usecs = {1}
  Wraps = TRUE
SPECIFICATION LiveSpec
PROPERTY YieldReturns
CHECK_DEADLOCK FALSE
