SPECIFICATION Spec
CONSTANTS
    p1 = p1
    p2 = p2
    p3 = p3
    NULL = NULL
    Packets <- MCPackets
    SimRunsWhileDrained = FALSE
    NumPCs = 3
INVARIANTS
    TypeOK
    SingleOwner
    CallbackAssertsHold
    DrainedIsQuiescent
    NoOrphanedTransaction
    InOrderExecution
    NoLostWakeup
PROPERTIES
    RetryBeforeNewer
    DrainCompletes
