CONSTANTS
  t1 = t1
  t2 = t2
  t3 = t3
  m1 = m1
  m2 = m2
  Thread = {t1, t2, t3}
  Main = t1
  MVar = {m1}
  Value = {v1}
  NIL = NIL
  ClockMod = 4
  May <- OneTaker
  Usecs = {1, 2}
  Wraps = TRUE
SPECIFICATION Spec
INVARIANT WakeTimeComes
CHECK_DEADLOCK FALSE
