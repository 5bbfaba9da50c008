SPECIFICATION Spec
CONSTANTS
    a1 = a1
    a2 = a2
    r1 = r1
    r2 = r2
    r3 = r3
    NULL = NULL
    Addrs <- MCAddrs
    Reqs <- MCReqs3
    NumMSHRs = 2
    NumTargets = 4
    WriteBuffers = 1
    NumBlocks = 1
    HasProtocol = TRUE
    MaxAppended = 1
SYMMETRY ReqSymmetry
INVARIANTS
    TypeOK
    PendingMissKeepsItsCommand
    EachRequestInOnePlace
    NoStuckMiss
    MissedLineNotWritable
PROPERTIES
    DirtyEvictionWritesBack
    WriteNeedsOwnership
