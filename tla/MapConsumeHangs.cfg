SPECIFICATION Spec
CONSTANTS
  t1 = t1
  t2 = t2
  t3 = t3
  a = a
  b = b
  u = u
  v = v
  Absent = Absent
  TooSmall = TooSmall
  Free = Free
  Threads <- MCThreads
  Keys <- MCKeys
  Vals <- MCVals
  MaxRequests = 2
  Setups <- ConsumeSetup
  UnsignedMax = 7
CHECK_DEADLOCK FALSE
PROPERTY RequestsEnd
