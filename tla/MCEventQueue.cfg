SPECIFICATION FairSpec
CONSTANTS
    t1 = t1
    t2 = t2
    Count = 2
    Thread = {t1, t2}
    Workloads <- MCWorkloads
    NULL = NULL
INVARIANTS CountsExact
PROPERTIES ImplementsStream WaitsEnd
