\* Plot writing, with at most one createFile / OpenFile failure: plot
\* layout and close discipline hold in every interleaving, and a run
\* without failures terminates.  The process exits when the main goroutine
\* returns, and a failed worker leaves it waiting, so terminal states are
\* expected.
CONSTANTS
    threadCount <- MCWorkers
    CellSize <- MCCellSize
    Flags <- MCFlags
    onceHandle <- MCOnceHandle
    writeCount <- MCWriteCount
    StartNonce <- MCStartNonce
    MaxIOErrors = 1
    Zero = Zero
SPECIFICATION Spec
INVARIANT ReportedFileCovered
INVARIANT PlotLayout
INVARIANT ClosedOnlyWhenComplete
PROPERTY TerminationWithoutErrors
CHECK_DEADLOCK FALSE
