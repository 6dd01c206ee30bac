SPECIFICATION FairSpec
CONSTANTS
  a = a
  b = b
  Nothing = Nothing
  ChunkSize = 4
  InitSlots = 2
  Vals = {a, b}
  AppendBatches <- LimitBatches
  UpdateBatches <- LimitUpdates
  NF = 99
  MaxDocs = 4
  MaxChunks = 3
  MaxCrashes = 0
PROPERTIES OperationsEnd
