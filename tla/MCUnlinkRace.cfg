SPECIFICATION TargetSpec
CONSTANTS
    m1 = m1
    m2 = m2
    m3 = m3
    e1 = e1
    e2 = e2
    e3 = e3
    o1 = o1
    o2 = o2
    p1 = p1
    p2 = p2
    NULL = NULL
    LE <- MCLE
    Buf <- MCBuf
    Thread = {t1, t2}
    Matches <- MCMatches
    Overflow = {o1, o2}
    Workloads <- RaceWorkload
    FlowWorkloads <- NoFlowLoads
INVARIANT NoDangling
CHECK_DEADLOCK FALSE
