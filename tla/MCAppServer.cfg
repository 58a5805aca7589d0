SPECIFICATION FairSpec
CONSTANTS
    MaxConnections = 2
    MaxCallers = 2
    MaxRequests = 2
    MaxPending = 1
    MaxTraffic = 2
    MaxShutdowns = 1
    Faults = {"initialize", "spawn", "exit", "invalid", "terminate"}
INVARIANTS
    RequestInv
    ActiveIsAnnounced
    NoOrphanProcess
PROPERTIES
    StatusFollowsObservers
    ObserversSeeLife
    CallsReturn
    LossReported
CHECK_DEADLOCK FALSE
