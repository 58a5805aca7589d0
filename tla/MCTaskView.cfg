SPECIFICATION Spec
CONSTANTS
    Keys = {k1}
    Projects = {p1, p2}
    NoProject = NoProject
    MaxEvents = 8
    MaxStoredTasks = 2
    FileSize <- MCFileSize
    MaxFileSize = 8
    MaxLives = 3
    MaxInFlight = 2
INVARIANTS
    StoredConsistent
    KeysUnique
    StartupBlockedOnlyByLimits
    ViewInv
    ViewCatchesUp
PROPERTIES
    HistoryStable
    ViewNeverGoesBack
SYMMETRY Symmetry
CHECK_DEADLOCK FALSE
