SPECIFICATION AllSpec
CONSTANTS
    Threads = {1, 2, 3}
    MAX_INDEX = 3
    obj_per_slab = 2
    Workloads <- PoolLoads
    MrWorkloads <- MrLoads
    InterfaceWorkloads <- InterfaceLoads
INVARIANTS PoolExact RegionsExact InterfaceAlive
PROPERTIES CallsReturn
CHECK_DEADLOCK FALSE
