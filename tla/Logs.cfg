SPECIFICATION LogsSpec
CONSTANTS
    w1 = w1  w2 = w2  w3 = w3  s1 = s1  s2 = s2  NoWS = NoWS
    SeqWSIDs <- OneWorkspace
    SeqIDs <- TwoSequences
    MaxNumUnflushedValues = 3
    LRUCacheSize = 1
    InitialValue = 2
    FirstOffset = 0
    LastOffset = 2
    MaxNumber = 3

    Nodes = {n1, n2}
    p1 = p1
    Partitions = {p1}
    WSIDs <- OneWorkspace
    PartitionOf <- OnePartition
    TrustLevel = 0
    NoEvent = NoEvent
    MaxOffset = 3
    MaxRecordID = 2
    MaxNew = 1
    MaxUpdates = 0
SYMMETRY Symmetry
PROPERTIES ImplementsSequenceLog ImplementsWorkspaceLog
INVARIANTS
    PersistedOffsetIsCovered
    PLogIsDense
    WLogOffsetsAreSequential
    RecordIDsAreUnique
    WLogRowsAreEvents
    AckedIsDurable
\* every offset may be used up
CHECK_DEADLOCK FALSE
