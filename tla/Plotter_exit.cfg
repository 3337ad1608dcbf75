\* The plot command returns while written batches still sit in chw.
CONSTANTS
    threadCount <- MCWorkers
    CellSize <- MCCellSize
    Flags <- MCFlagsUnaligned
    onceHandle <- MCOnceHandle
    writeCount <- MCWriteCount
    StartNonce <- MCStartNonce
    MaxIOErrors = 0
    Zero = Zero
SPECIFICATION Spec
CHECK_DEADLOCK FALSE
INVARIANT ExitOnlyWhenWritten
