CONSTANTS
  Thread = {t1, t2}
  t1 = t1
  t2 = t2
  Word = 128
  Start = 4
  HeapSize = 36
  Sizes = {0, 1, 6, 100, 125}
  Alignments = {16}
  Byte = {1}
  JUNK = 9
  MaxBlocks = 3
  MaxPokes = 2
SPECIFICATION Spec
INVARIANTS BlocksApart ContentsKept
SYMMETRY Symmetric
CHECK_DEADLOCK FALSE
