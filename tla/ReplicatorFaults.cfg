\* Two hosts, any one fault.
CONSTANTS
    Node = {h1, h2}
    Gids = {0, 1}
    INT_MAX = 2
    MaxUpdates = 2
    MaxElections = 2
    Faults = {"loss", "transfer", "stuck", "rename", "second", "unheard", "split", "torn", "crash", "reconfig"}
    MaxFaults = 1
SPECIFICATION Spec
SYMMETRY Hosts
INVARIANTS TypeOK ClockNeverOverstates UpdateWillBeCounted NoGidSelected AssertionsHold
PROPERTY VersionMovesForward
CHECK_DEADLOCK FALSE
