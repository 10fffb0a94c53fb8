CONSTANTS
    Key = {k1}
    Value = {v}
    MaxHistory = 1
    Faults <- NoPowerFaults
    MaxFaults = 2
    MaxParked = 1
    MaxOps = 2
    MaxRecords = 3
    MaxRotations = 1
SPECIFICATION Spec
CONSTRAINT LastFaultAlone
INVARIANTS ExistsAsCommitted LookupAsCommitted HistoryBounded NumberIsCurrent
