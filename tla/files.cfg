SPECIFICATION Spec
CONSTANTS
    Backends = {"s3", "gs", "az", "azfs"}
    Versions = {"1", "2"}
    Objects <- MCObjects
    Stores <- MCStores
    Accepted <- MCAccepted
    PageSize = 3
    MaxTemp = 2
    MaxTroubles = 1
INVARIANTS
    DownloadsAreTrue
    AvailableHasCopy
CHECK_DEADLOCK FALSE
