CONSTANTS
  t1 = t1
  t2 = t2
  t3 = t3
  t4 = t4
  r1 = r1
  r2 = r2
  w1 = w1
  w2 = w2
  Thread = {t1, t2, t3, t4}
  Main = t1
  NChan = 2
  Rd <- RdEnds
  Wr <- WrEnds
  Hole = {h1, h2, h3, h4, h5}
  MVar <- MVars
  Value <- Values
  NIL = NIL
  ClockMod = 2
  MaxSends = 1
  Clients <- ThreeSenders
SPECIFICATION LiveSpec
PROPERTY Delivered
CHECK_DEADLOCK FALSE
