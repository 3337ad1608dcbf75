\* The plot written by the plotter, read by the miner and recomputed by the
\* verifier agree for every geometry and scoop.
CONSTANTS
    CellSizes <- MCCellSizes
    Windows <- MCWindows
    Nonces <- MCNonces
    PlotIDs <- MCPlotIDs
    None = None
SPECIFICATION Spec
INVARIANT RoundTrip
INVARIANT CellMatchesReference
