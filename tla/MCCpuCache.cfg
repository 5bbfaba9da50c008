SPECIFICATION Spec
CONSTANTS
    p1 = p1
    p2 = p2
    p3 = p3
    a1 = a1
    a2 = a2
    NULL = NULL
    Packets <- MCPackets
    Addrs <- MCAddrs
    SimRunsWhileDrained = FALSE
    NumPCs = 3
    NumMSHRs = 2
    NumTargets = 2
    WriteBuffers = 1
    NumBlocks = 1
    HasProtocol = FALSE
    MaxAppended = 0
INVARIANTS
    TypeOK
    CacheAnswersTheWaitingCpu
    DrainedLeavesOnlyWritebacks
PROPERTIES
    DataAccessCompletes
