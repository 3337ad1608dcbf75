CONSTANTS
    Target <- MCTarget
    PlotFiles <- MCPlotFiles
    Nodes <- MCNodes
    InitChain <- MCInitChain
    AddrPlotID = 7
    InitBaseTarget = 100
    TargetBlockTime = 2
    Sentinel = 1000
    MaxBlocks = 4
    MaxStops = 2
    TimeWindow = 5
SPECIFICATION Spec
INVARIANT TypeOK
INVARIANT HonestSealAccepted
INVARIANT ChainDeadlinesElapsed
PROPERTY SealTerminates
CHECK_DEADLOCK FALSE
