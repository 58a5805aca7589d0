SPECIFICATION Spec
CONSTANTS
    Keys = {k1}
    Runs = {k1}
    Projects = {p1}
    MaxEvents = 8
    MaxStoredTasks = 1
    FileSize <- MCFileSize
    MaxFileSize = 8
    MaxStreams = 2
    Threads = {1, 2}
    Turns = {1, 2}
    NoTurn = 0
    Connections = {1, 2}
    MaxActiveRoutes = 2
    QueueCapacity = 2
    MaxRunEvents = 4
    Callers = {c1, c2}
    MaxActiveRuns = 1
    MaxNotifications = 3
    Faults = {"save", "git", "spawn", "crash"}
INVARIANTS
    Restartable
    AtMostOneTurn
    VerdictIsHonest
    WorkKept
PROPERTIES
    ServiceSpec
SYMMETRY Symmetry
CHECK_DEADLOCK FALSE
