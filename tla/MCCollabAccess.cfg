SPECIFICATION Spec

CONSTANTS
    m0 = m0
    m1 = m1
    m2 = m2
    t1 = t1
    t2 = t2
    Members = {m0, m1}
    Owner = m0
    OwnerDevice = d0
    Devices = {d0, d1}
    Invites = {i1}
    TaskIds = {}
    Keys = {}
    None = None
    MaxRevision = 5
    MaxMembers = 2
    MaxInvites = 1
    MaxTasks = 0
    MaxReplays = 0
    CredentialTtl = 2
    InviteTtl = 2
    PresenceTtl = 1
    Commands = {"invite", "pulse", "revoke"}
    Coordinated = {}
    Faults = {"lose"}
    BrainSize <- MCBrainSize
    MaxBrainSize = 100
    MaxTime = 2
    MaxStrays = 0
    MemberOrder <- MCMemberOrder
    TaskOrder <- MCTaskOrder
INVARIANTS
    ReadingInv
PROPERTIES
    AccessEnds
    RevisionCoversChanges
CHECK_DEADLOCK FALSE
