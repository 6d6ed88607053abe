CONSTANTS
    p1 = p1
    p2 = p2
    t1 = t1
    t2 = t2
    t3 = t3
    b1 = b1
    b2 = b2
    h1 = h1
    h2 = h2
    None = None
    Procs = {p1, p2}
    Threads = {t1, t2, t3}
    ProcOf <- ThreadProcs
    ppebufs = {b1, b2}
    Engines = 2
    Handles = {h1, h2}
    Workloads <- Scenarios
SPECIFICATION Spec
INVARIANT ReplyMine
INVARIANT NothingStale
INVARIANT RegistryExact
PROPERTY CallsReturn
