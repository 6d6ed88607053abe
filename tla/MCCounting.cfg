SPECIFICATION FairSpec
CONSTANTS
    c1 = c1
    c2 = c2
    t1 = t1
    t2 = t2
    t3 = t3
    o1 = o1
    o2 = o2
    CT = {c1, c2}
    Thread = {t1, t2, t3}
    Op = {o1, o2}
    MaxCount = 1
    MaxKept = 1
    Workloads <- MCWorkloads
    NULL = NULL
INVARIANTS NoStrandedOp CountsExact
CHECK_DEADLOCK FALSE
PROPERTY CallsReturn
