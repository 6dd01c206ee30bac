SPECIFICATION Spec
CONSTANTS
  t1 = t1
  t2 = t2
  t3 = t3
  u = u
  v = v
  Absent = Absent
  TooSmall = TooSmall
  NoMore = NoMore
  Nothing = Nothing
  Threads <- MCThreads
  Keys <- MCKeys
  Vals <- MCVals
  AtomicVals <- MCAtomicVals
  KeySize <- MCKeySize
  ValSize <- MCValSize
  Setups <- PassingSetups
  Puts <- MCPuts
  MaxRequests = 1
  UnsignedMax = 7
INVARIANTS HandlesReleased ReadsCurrent ListingExact
PROPERTIES HandoverComplete RequestsEnd ImplementsKVStore
CHECK_DEADLOCK FALSE
