SPECIFICATION Spec
CONSTANTS
  a = a
  b = b
  Nothing = Nothing
  ChunkSize = 4
  InitSlots = 2
  Vals = {a, b}
  AppendBatches <- SmallBatches
  UpdateBatches <- SmallUpdates
  NF = 99
  MaxDocs = 3
  MaxChunks = 3
  MaxCrashes = 1
INVARIANTS TypeOK ExtentsDisjoint StoredDocsIntact CollSizeExactButForCrashes
PROPERTIES UpdateOKMeansStored ImplementsDocStore
