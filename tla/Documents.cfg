SPECIFICATION Spec
CONSTANTS
    UnsignedMax = 7
    Threads = {t1, t2}
    Setups <- PassingSetups
INVARIANTS AckedDocsKept SizeExact ReadsComplete
PROPERTY OperationsReturn
CHECK_DEADLOCK FALSE
