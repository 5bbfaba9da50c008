SPECIFICATION SpecA
CONSTANTS
    a1 = a1
    a2 = a2
    r1 = r1
    r2 = r2
    NULL = NULL
    Addrs <- MCAddrs
    Reqs <- MCReqs
    NumMSHRs = 2
    NumTargets = 2
    WriteBuffers = 1
    NumBlocks = 1
    HasProtocol = TRUE
    MaxAppended = 1
    CacheDrains = TRUE
INVARIANTS
    TypeOKA
    AtomicAccessNeverPanics
PROPERTIES
    DirtyDataReachesMemory
    AtomicWriteNeedsOwnership
