\* A worker whose createFile fails never signals chp: the writer waits forever.
CONSTANTS
    threadCount <- MCWorkers
    CellSize <- MCCellSize
    Flags <- MCFlagsUnaligned
    onceHandle <- MCOnceHandle
    writeCount <- MCWriteCount
    StartNonce <- MCStartNonce
    MaxIOErrors = 1
    Zero = Zero
SPECIFICATION Spec
CHECK_DEADLOCK FALSE
PROPERTY Termination
