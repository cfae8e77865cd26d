CONSTANTS
  NSectors = 2
  Value = {"x", "y"}
  MaxBlocks = 2
  Attempts = 3
  Tries = 3
  Rca = {1, 2}
  Kinds = {"v1", "v2", "hc"}
  MaxWarm = 1
  MaxFaults = 3
SPECIFICATION FairSpec
INVARIANTS RetriesHelp
