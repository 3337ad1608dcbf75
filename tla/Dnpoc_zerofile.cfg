CONSTANTS
    Target <- MCTarget
    PlotFiles <- MCPlotFilesZero
    Nodes <- MCNodes
    InitChain <- MCInitChain
    AddrPlotID = 7
    InitBaseTarget = 100
    TargetBlockTime = 2
    Sentinel = 1000
    MaxBlocks = 1
    MaxStops = 0
    TimeWindow = 5
SPECIFICATION Spec
PROPERTY SealTerminates
CHECK_DEADLOCK FALSE
