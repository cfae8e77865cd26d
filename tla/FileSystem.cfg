CONSTANTS
  LastCluster = 4
  NFats = 1
  NSlots = 2
  Name = {"F", "G"}
  Chunk = {"x", "y"}
  ZERO = ZERO
  NoFile = NoFile
  Data <- Contents
  MaxCuts = 2
SPECIFICATION FairSpec
INVARIANTS ChainsApart NamesAreUnique
PROPERTIES ImplementsFiles OperationsEnd
