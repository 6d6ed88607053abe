SPECIFICATION LiveSpec
CONSTANTS
    m1 = m1
    m2 = m2
    m3 = m3
    e1 = e1
    e2 = e2
    e3 = e3
    o1 = o1
    o2 = o2
    p1 = p1
    p2 = p2
    NULL = NULL
    LE <- LiveLE
    Buf <- LiveBuf
    Thread = {t1, t2}
    Matches <- MCMatches
    Overflow <- LiveOverflow
    Workloads <- LiveWorkloads
    FlowWorkloads <- LiveFlowLoads
PROPERTY TargetProgress
CHECK_DEADLOCK FALSE
