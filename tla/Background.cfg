SPECIFICATION BackgroundSpec
CONSTANTS
    w1 = w1
    w2 = w2  w3 = w3  s1 = s1  NoWS = NoWS
    WSIDs = {w1, w2}
    NoWSID = NoWSID
    Kinds = {"view", "http"}
    BatchSize = 2
    BundlesLimit = 2
    MaxEvents = 3
    MaxFaults = 1
INVARIANTS PositionIsCovered
PROPERTIES ImplementsProjection AnnouncedIsSaved ActualizationEnds CleanupReturns FlushedNumbersArePersisted
CHECK_DEADLOCK FALSE
