CONSTANTS
    Key = {k1}
    Value = {v}
    MaxHistory = 0
    Faults <- JustKill
    MaxFaults = 1
    MaxParked = 0
    MaxOps = 1
    MaxRecords = 2
    MaxSpilled = 1
    MaxRotations = 1
SPECIFICATION ReaderSpec
INVARIANTS ReaderTypeOK MirrorFollows
PROPERTY MirrorConverges
