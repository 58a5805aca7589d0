SPECIFICATION Spec

CONSTANTS
    m0 = m0
    m1 = m1
    m2 = m2
    t1 = t1
    t2 = t2
    Members = {m0}
    Owner = m0
    OwnerDevice = d0
    Devices = {d0}
    Invites = {}
    TaskIds = {t1}
    Keys = {k1, k2}
    None = None
    MaxRevision = 5
    MaxMembers = 1
    MaxInvites = 1
    MaxTasks = 1
    MaxReplays = 2
    CredentialTtl = 3
    InviteTtl = 2
    PresenceTtl = 1
    Commands = {"submit"}
    Coordinated = {"offered", "accepted", "running", "awaitingReview"}
    Faults = {"write", "stop", "lose", "limit"}
    BrainSize <- MCBrainSize
    MaxBrainSize = 5
    MaxTime = 0
    MaxStrays = 1
    MemberOrder <- MCMemberOrder
    TaskOrder <- MCTaskOrder
INVARIANTS
    RefusedOnlyForSize
    AcknowledgedIsDurable
    ViewAgrees
PROPERTIES
    NeverRunningAgain
CHECK_DEADLOCK FALSE
