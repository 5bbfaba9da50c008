SPECIFICATION Spec
CONSTANTS
    Addrs <- MCAddrs
    ReqsA <- MCReqsA
    ReqsB <- MCReqsB
    NULL = NULL
    a1 = a1
    a2 = a2
    r1 = r1
    r2 = r2
    NumMSHRs = 2
    NumTargets = 2
    WriteBuffers = 1
    NumBlocks = 1
    MaxAppended = 1
PROPERTIES
    WritebackIsHandedOver
