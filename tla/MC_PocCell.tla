---------------------------- MODULE MC_PocCell -----------------------------
(* Cells of 2 to 8 slots (1 to 4 scoops) and windows of 1 to 5 hashes:     *)
(* windows smaller than, equal to and larger than the cell, so both       *)
(* branches of the window test and the seed-only first hash are reached.  *)
EXTENDS PocCell

MCCellSizes == {2, 4, 6, 8}
MCWindows   == 1 .. 5
MCNonces    == {0, 1}
MCPlotIDs   == {7}
=============================================================================
