CONSTANTS
  t1 = t1
  t2 = t2
  t3 = t3
  t4 = t4
  hb = hb
  s1 = s1
  s2 = s2
  s3 = s3
  s4 = s4
  Thread = {t1, t2, t3, t4}
  Main = t1
  NChild = 2
  St <- States
  Hb = hb
  MVar <- MVars
  Value <- Values
  NIL = NIL
  ClockMod = 2
  Programs <- MainSystem
SPECIFICATION LiveSpec
PROPERTY AlwaysRestarts
CHECK_DEADLOCK FALSE
