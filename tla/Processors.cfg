\* Commands: one process, two workspaces of one partition, trust level 0; any
\* write may fail, the process may die anywhere.
SPECIFICATION ProcessorsSpec
CONSTANTS
    Nodes = {n1}
    w1 = w1
    w2 = w2
    p1 = p1
    Partitions = {p1}
    WSIDs = {w1, w2}
    PartitionOf <- OnePartition
    TrustLevel = 0
    NoEvent = NoEvent
    MaxOffset = 3
    MaxRecordID = 2
    MaxNew = 1
    MaxUpdates = 2

    c1 = c1
    c2 = c2
    k1 = k1
    login = login
    Channels = {c1, c2}
    Keys = {k1}
    ZeroKey <- MCZeroKey
    SubjectOf <- MCSubjectOf
    Clients = {1}
    ChannelOf <- MCChannelOf
    MaxRequests = 1
    MaxKeyOffset = 1
    EventsSize = 1
    MaxChannels = 2
    MaxChannelsPerSubject = 2
    MaxSubscriptions = 2
    MaxSubscriptionsPerSubject = 2

    MaxRows = 3
INVARIANTS
    EarlierEventsAreApplied
    ExecSeesAllEvents
    RecordsFollowPLog
    AnnouncedIsApplied
    WakeUpIsOnItsWay
    QuotasAreReturned
    CleanEndIsComplete
PROPERTIES
    EveryCommandIsAnswered
    ImplementsNotifications
    CleanupReturns
    ProcessorIsFreed
\* every offset may be used up, every channel closed and the request answered
CHECK_DEADLOCK FALSE
