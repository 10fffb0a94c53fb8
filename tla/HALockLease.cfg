SPECIFICATION FairSpec
CONSTANTS
    Node = {n1, n2}
    Urls = {u1, u2}
    Periods = {0, 1, 2}
    Holds = {4, 5}
    Skew <- SkewOfOne
    MaxSkew = 1
    Faults = {"crash", "kill", "error", "late", "exec", "exit", "preen", "reconfig",
              "move", "remove"}
    MaxFaults = 1
    MaxCommands = 1
INVARIANTS TypeOK OneHolder SingleUnlessLapse RunsUnderLock LockIsServed Competes
PROPERTY TakenOver
