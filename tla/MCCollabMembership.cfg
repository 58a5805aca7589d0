SPECIFICATION Spec

CONSTANTS
    m0 = m0
    m1 = m1
    m2 = m2
    t1 = t1
    t2 = t2
    Members = {m0, m1, m2}
    Owner = m0
    OwnerDevice = d0
    Devices = {d0, d1}
    Invites = {i1, i2}
    TaskIds = {}
    Keys = {}
    None = None
    MaxRevision = 5
    MaxMembers = 3
    MaxInvites = 1
    MaxTasks = 0
    MaxReplays = 0
    CredentialTtl = 3
    InviteTtl = 2
    PresenceTtl = 1
    Commands = {"invite", "cancel"}
    Coordinated = {}
    Faults = {"write", "crash", "local"}
    BrainSize <- MCBrainSize
    MaxBrainSize = 100
    MaxTime = 0
    MaxStrays = 1
    MemberOrder <- MCMemberOrder
    TaskOrder <- MCTaskOrder

INVARIANTS
    EnrolledOnce
    RegistrationBacked

CHECK_DEADLOCK FALSE
