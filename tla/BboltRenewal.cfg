\* One row, a user that renews it, the cleaner between two renewals.
SPECIFICATION BboltSpec
CONSTANTS
    CCols = {"", "c"}
    EmptyCCols = ""
    NullKey = "null"
    Contents = {1}
    NoRow = NoRow
    Forever = Forever
    TTLs = {2}
    CleanupInterval = 3
    StorageUsers = {1}
PROPERTY RenewedRowsStay
CHECK_DEADLOCK FALSE
