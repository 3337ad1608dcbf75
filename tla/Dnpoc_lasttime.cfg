CONSTANTS
    Target <- MCTarget
    PlotFiles <- MCPlotFiles
    Nodes <- MCNodes
    InitChain <- MCInitChain
    AddrPlotID = 7
    InitBaseTarget = 100
    TargetBlockTime = 2
    Sentinel = 1000
    MaxBlocks = 2
    MaxStops = 0
    PeerPlotID = 9
    PeerNonces = {0, 1, 2, 3}
    PeerBaseTargets = {1000}
    TimeWindow = 5
SPECIFICATION SpecWithPeers
INVARIANT ChainDeadlinesElapsed
CHECK_DEADLOCK FALSE
