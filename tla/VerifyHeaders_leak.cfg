CONSTANTS
    N = 4
    Procs = 2
    Verdicts = {"ok", "err"}
    CanAbort = TRUE
SPECIFICATION Spec
PROPERTY WorkersTerminate
CHECK_DEADLOCK FALSE
