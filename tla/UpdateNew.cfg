SPECIFICATION Spec
CONSTANTS
    UnsignedMax = 7
    Threads = {t1, t2}
    Setups <- UpdateNewSetups
INVARIANT AckedDocsKept
CHECK_DEADLOCK FALSE
