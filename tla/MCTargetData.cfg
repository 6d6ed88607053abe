SPECIFICATION Spec
CONSTANTS
    ByteBits = 1
    SizeMod = 1024
    Workloads <- DataLoads
INVARIANTS DataExact AnsweredClean
