CONSTANTS
    N = 2
    UsePrimary = TRUE
    Faults <- SyncFaults
    MaxFaults = 2
SPECIFICATION FairSyncSpec
PROPERTIES ReturnsToOneLeader PrimaryTakesOver
