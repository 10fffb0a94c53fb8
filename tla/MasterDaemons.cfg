CONSTANTS
    Order <- HADOrder
    Controller <- HADController
    NoDaemon = "NONE"
    Startds = {"STARTD"}
    OnlyLast = {"SHARED_PORT"}
    WaitFile = {"SHARED_PORT"}
    MaxCommands = 2
    MaxDeaths = 1
SPECIFICATION Spec
INVARIANTS TypeOK StopHasDeadline AllReaperEnds RestartLostOnlyByLapse
PROPERTIES HoldKept ShutdownCompletes
CHECK_DEADLOCK FALSE
