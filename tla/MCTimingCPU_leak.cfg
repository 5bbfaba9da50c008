SPECIFICATION Spec
CONSTANTS
    p1 = p1
    p2 = p2
    p3 = p3
    NULL = NULL
    Packets <- MCPackets
    SimRunsWhileDrained = FALSE
    NumPCs = 3
INVARIANT
    NoLeak
