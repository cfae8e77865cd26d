CONSTANTS
  t1 = t1
  t2 = t2
  t3 = t3
  m1 = m1
  m2 = m2
  Thread = {t1, t2, t3}
  Main = t1
  MVar = {m1, m2}
  Value = {v1, v2, v3}
  NIL = NIL
  ClockMod = 3
  May <- AnyThread
  Usecs = {1, 2}
  Wraps = TRUE
SPECIFICATION Spec
INVARIANTS OneQueue OneKindWaits StashIsForTake
PROPERTY NeverEarly
SYMMETRY Perms
CHECK_DEADLOCK FALSE
