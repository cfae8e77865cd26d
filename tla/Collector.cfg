SPECIFICATION Spec
CONSTANTS
  WordBits = 3
  NPerm = 2
  HeapSize = 7
  MinFree = 2
  MaxRecords = 2
  MaxStack = 2
  MaxMVars = 1
  MaxElems = 2
  GcInWindow = FALSE
  Features = {"graph", "arrays", "weaks", "threads", "pointers"}
INVARIANTS NoLiveFree NoGarbage
PROPERTIES OnlyGarbageDies CollectionEnds
CHECK_DEADLOCK FALSE
