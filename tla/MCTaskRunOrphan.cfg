SPECIFICATION Spec
CONSTANTS
    Keys = {k1}
    Runs = {k1}
    Projects = {p1}
    MaxEvents = 9
    MaxStoredTasks = 1
    FileSize <- MCFileSize
    MaxFileSize = 100
    MaxStreams = 2
    Threads = {1, 2}
    Turns = {1, 2}
    NoTurn = 0
    Connections = {1}
    MaxActiveRoutes = 2
    QueueCapacity = 2
    MaxRunEvents = 4
    Callers = {c1}
    MaxActiveRuns = 1
    MaxNotifications = 1
    Faults = {"git"}
INVARIANTS
    ActiveRunsOwned
CHECK_DEADLOCK FALSE
