CONSTANTS
    N = 3
    UsePrimary = FALSE
    Faults <- Endings
    MaxFaults = 1
SPECIFICATION FairSyncSpec
INVARIANTS SyncTypeOK SingleLeader ControlleeFollowsHAD
PROPERTIES ImplementsCentralManager
