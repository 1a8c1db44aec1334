SPECIFICATION SequencerSpec
CONSTANTS
    w1 = w1  w2 = w2  w3 = w3  s1 = s1  s2 = s2  NoWS = NoWS
    SeqWSIDs <- TwoWorkspaces
    SeqIDs <- OneSequence
    MaxNumUnflushedValues = 1
    LRUCacheSize = 3
    InitialValue = 2
    FirstOffset = 0
    LastOffset = 2
    MaxNumber = 3
INVARIANT PersistedOffsetIsCovered
