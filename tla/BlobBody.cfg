\* The reader gives an error together with the last bytes it has.
SPECIFICATION BlobSpec
CONSTANTS
    ChunkSize = 2
    BucketSize = 2
    Base = 3
    Quota = 5
    MaxBytes = 6
INVARIANT CompletedIsTheBody
CHECK_DEADLOCK FALSE
