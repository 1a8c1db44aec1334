SPECIFICATION PartsSpec
CONSTANTS
    VVMs = {v1, v2}
    NoVVM = NoVVM
    Keys = {1}
    NoKey = 0
    Quarter = 2
    AcquisitionDuration = 1
    NoTimer = NoTimer

    Rows = {1, 2}
    Values = {1}
    Absent = Absent
    NotCached = NotCached
    Users = {1, 2}

    CCols = {"", "c"}
    EmptyCCols = ""
    NullKey = "null"
    Contents = {1}
    NoRow = NoRow
    Forever = Forever
    TTLs = {0, 2}
    CleanupInterval = 2
    StorageUsers = {1}

    ChunkSize = 2
    BucketSize = 2
    Base = 3
    Quota = 5
    MaxBytes = 6

    Roles = {"reader", "writer"}
    MaxCommands = 4
    MaxFaults = 2

    Identifiers = {"jsmith", "j.smith", "john"}
    NoIdentifier = ""
    MaxLogins = 2
    MaxChanges = 2
    MaxAliasFaults = 1

    MaxOwners = 2
    MaxWSIDs = 2
    MaxErrors = 1

    NumPartitions = {1, 2}
    NumAppWorkspaces = {2, 3}
    NoLayout = NoLayout
    MaxStops = 2
INVARIANTS
    RecordOutlivesServices
    LeaderHoldsTheRecord
    CleanupStopsRenewals
    StoredRowIsVisible
    ExpiringRowsAreIndexed
    DownloadIsWhole
    RepliedIsReadable
    MembershipFollowsState
    IdentifiersAreUnambiguous
    DeactivatedIsCutOff
    OwnerGetsACompleteWorkspace
    RunningIsDeployed
PROPERTIES
    LostLeaderStops
    ShutdownCompletes
    CallsReturn
CHECK_DEADLOCK FALSE
