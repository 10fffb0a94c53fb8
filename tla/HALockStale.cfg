SPECIFICATION Spec
CONSTANTS
    Node = {n1, n2}
    Urls = {u1}
    Periods = {1}
    Holds = {2}
    Skew <- SkewOfOne
    MaxSkew = 0
    Faults = {"crash"}
    MaxFaults = 1
    MaxCommands = 0
INVARIANT SingleSchedd
