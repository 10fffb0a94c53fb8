CONSTANTS
    N = 2
    UsePrimary = TRUE
    Faults <- AllFaults
    MaxFaults = 2
SPECIFICATION Spec
INVARIANTS HeardLeaderExists
PROPERTIES LeadershipSurvives
