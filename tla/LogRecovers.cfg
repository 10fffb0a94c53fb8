CONSTANTS
    Key = {k1}
    Value = {v}
    MaxHistory = 0
    Faults <- FaultKinds
    MaxFaults = 2
    MaxParked = 0
    MaxOps = 2
    MaxRecords = 3
    MaxRotations = 1
SPECIFICATION FairSpec
INVARIANTS MemoryIsLogged
PROPERTIES ImplementsStore AlwaysServesAgain
