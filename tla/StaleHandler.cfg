SPECIFICATION Spec
CONSTANTS
  WordBits = 8
  NPerm = 84
  HeapSize = 172
  MinFree = 2
  MaxRecords = 1
  Width = 4
  LowInt <- MCLowInt
  HighInt = 8
  GcInWindow = FALSE
  Programs <- Handlers
INVARIANT HandlerRuns
