SPECIFICATION Spec
CONSTANTS
    a1 = a1
    a2 = a2
    r1 = r1
    r2 = r2
    r3 = r3
    NULL = NULL
    Addrs <- MCAddrs
    Reqs <- MCReqs
    NumMSHRs = 2
    NumTargets = 2
    WriteBuffers = 1
    NumBlocks = 1
    HasProtocol = FALSE
    MaxAppended = 1
INVARIANTS
    MissedLineNotWritable
