CONSTANTS
  t1 = t1
  t2 = t2
  x1 = x1
  x2 = x2
  m1 = m1
  Thread = {t1, t2}
  Main = t1
  MVar = {x1, x2, m1}
  Value = {v1, e1, e2}
  Exn = {e1, e2}
  ExnOf <- ExnOf2
  NIL = NIL
  ClockMod = 3
  May <- Anybody
  Usecs = {1}
  MaxFrames = 1
SPECIFICATION Spec
INVARIANT RaisesExceptions
CHECK_DEADLOCK FALSE
