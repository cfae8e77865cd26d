CONSTANTS
  LastCluster = 4
  NFats = 2
  NSlots = 2
  Name = {"F", "G"}
  Chunk = {"x", "y"}
  ZERO = ZERO
  NoFile = NoFile
  Data <- Contents
  MaxCuts = 0
SPECIFICATION Spec
PROPERTIES WroteIsThere
