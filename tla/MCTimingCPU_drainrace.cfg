SPECIFICATION Spec
CONSTANTS
    p1 = p1
    p2 = p2
    p3 = p3
    NULL = NULL
    Packets <- MCPackets
    SimRunsWhileDrained = TRUE
    NumPCs = 3
INVARIANT
    DrainedIsQuiescent
