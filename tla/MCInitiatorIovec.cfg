SPECIFICATION Spec
CONSTANTS
    d1 = d1
    NULL = NULL
    Buf = {b1, b2, b3}
    MD = {d1}
    t1 = t1
    t2 = t2
    Thread = {t1, t2}
    Threshold = 2
    WcCount = 2
    Workloads <- IovecWorkload
CHECK_DEADLOCK FALSE
INVARIANT MemoryInUse
