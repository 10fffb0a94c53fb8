\* Two hosts, one of them elected once; any one fault but a reconfiguration; the
\* second update overflows the clock.
CONSTANTS
    Node = {h1, h2}
    Gids = {0, 1}
    INT_MAX = 1
    MaxUpdates = 2
    MaxElections = 1
    Faults = {"loss", "transfer", "stuck", "rename", "second", "unheard", "split", "torn", "crash"}
    MaxFaults = 1
SPECIFICATION FairSpec
PROPERTIES JoinCompletes StepsDown 
CHECK_DEADLOCK FALSE
