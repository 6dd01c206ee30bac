SPECIFICATION SpecAny
CONSTANTS
  t1 = t1
  t2 = t2
  t3 = t3
  a = a
  b = b
  u = u
  v = v
  Absent = Absent
  TooSmall = TooSmall
  Free = Free
  Threads <- MCThreads
  Keys <- MCKeys
  Vals <- MCVals
  Setups <- PassingSetups
  MaxRequests = 2
  UnsignedMax = 7
INVARIANTS NoLostWakeup NothingStoredAfterHandover NoUseAfterFree
PROPERTIES MapStableWhileRead HandoverComplete RequestsEnd ShutdownEnds ImplementsKVStore
CHECK_DEADLOCK FALSE
