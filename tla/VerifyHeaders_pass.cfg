CONSTANTS
    N = 4
    Procs = 2
    Verdicts = {"ok", "err"}
    CanAbort = TRUE
SPECIFICATION Spec
INVARIANT TypeOK
PROPERTY VerifierRefinement
CHECK_DEADLOCK FALSE
