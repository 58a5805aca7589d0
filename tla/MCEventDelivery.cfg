SPECIFICATION Spec
CONSTANTS
    Runs = {r1, r2}
    Threads = {h1, h2}
    Turns = {t1, t2}
    Connections = {1, 2}
    NoTurn = NoTurn
    MaxStreams = 2
    MaxActiveRoutes = 2
    QueueCapacity = 2
    MaxRunEvents = 4
    MaxSent = 5
INVARIANTS
    DeliveryInv
    OneTurnPerStream
    InactiveIsExplained
SYMMETRY Symmetry
CHECK_DEADLOCK FALSE
