SPECIFICATION TransportSpec
CONSTANTS
    p1 = p1
    p2 = p2
    o1 = o1
    o2 = o2
    o3 = o3
    Producer = {p1, p2}
    Obj = {o1, o2, o3}
    NULL = NULL
    ConnWorkloads <- ConnLoads
INVARIANTS PredecessorStillQueued AssertsHold NothingLost
PROPERTIES ImplementsFifo EventuallyDequeued EndsReached
CHECK_DEADLOCK FALSE
