\* One bucket of four chunks, a byte of three values: chunk 3 has two bytes.
SPECIFICATION BlobSpec
CONSTANTS
    ChunkSize = 2
    BucketSize = 2
    Base = 3
    Quota = 5
    MaxBytes = 6
INVARIANT DownloadKeepsOrder
CHECK_DEADLOCK FALSE
