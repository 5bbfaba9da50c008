SPECIFICATION SpecD
CONSTANTS
    a1 = a1
    a2 = a2
    r1 = r1
    r2 = r2
    NULL = NULL
    Addrs <- MCAddrs
    Reqs <- MCReqs
    Values <- MCValues
    NumMSHRs = 2
    NumTargets = 2
    WriteBuffers = 2
    NumBlocks = 1
    HasProtocol = TRUE
    MaxAppended = 0
INVARIANTS
    FunctionalReadSeesNewest
