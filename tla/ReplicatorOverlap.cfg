\* Three versions announced to a backup, one of whose downloads is stuck.
CONSTANTS
    Node = {h1, h2}
    Gids = {0, 1}
    INT_MAX = 3
    MaxUpdates = 3
    MaxElections = 1
    Faults = {"stuck"}
    MaxFaults = 1
SPECIFICATION Spec
INVARIANT OneDownload
CHECK_DEADLOCK FALSE
