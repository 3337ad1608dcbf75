------------------------------ MODULE MC_Dnpoc ------------------------------
(* Dnpoc instantiated for TLC: one local miner (plot identifier 7), plot *)
(* directories built from plotter runs (PlotNames), an authorised window *)
(* that cuts the first file, and base-target values scaled down so *)
(* that deadlines are a few seconds.                                      *)
EXTENDS Dnpoc, TLC

(* A fixed, irregular target per nonce and block number (0 .. 300). *)
MCTarget(n, number) == ((n * 5 + number * 3) % 4) * 100

(* Genesis and five blocks sealed by plotter 7 with nonce 1 at base      *)
(* target 100 (deadlines Target(1, number) / 100), each one second after *)
(* its deadline elapsed: the next block is the first whose base target   *)
(* calcBaseTarget computes from the chain (and clamps, to 90).           *)
MCBlock(number, dl, lastTime) ==
    [number |-> number, plotID |-> 7, nonce |-> 1, baseTarget |-> 100,
     deadLine |-> dl, time |-> lastTime + dl + 1, lastTime |-> lastTime, coinbase |-> 7]

MCInitChain ==
    << Genesis, MCBlock(1, 0, 0), MCBlock(2, 3, 1), MCBlock(3, 2, 5),
       MCBlock(4, 1, 8), MCBlock(5, 0, 10) >>

MCNodes == 7 :> [min |-> 1, max |-> 3]

(* The plot directory as two runs of the plotter leave it, with a cell  *)
(* of 2 bytes as in MC_Plotter.  The first run is given a --singSize     *)
(* below one cell, which parseParam accepts: SingCount is 0, and both of *)
(* its files get the name 7_0_0.  The second run plots nonces 2 and 3.   *)
Plot == INSTANCE PlotNames WITH CellSize <- 2

(* ioutil.ReadDir lists a directory sorted by name.  For names whose     *)
(* numbers have one digit, that is the order of pid, start, total.       *)
NameBefore(a, b) ==
    \/ a.pid < b.pid
    \/ a.pid = b.pid /\ a.start < b.start
    \/ a.pid = b.pid /\ a.start = b.start /\ a.total < b.total

PlotDir == INSTANCE SequencesExt

MCPlotFilesZero ==
    PlotDir!SetToSortSeq(
        Plot!PlotNames(7, 0, [singSize |-> 1, size |-> 2])
          \cup Plot!PlotNames(7, 2, [singSize |-> 4, size |-> 4]),
        NameBefore)

(* The plot directory of the honest runs: plotter 7 plotted nonces 0..3 *)
(* in two files of two, and another plotter, 9, one file of nonce 0.     *)
MCPlotFiles ==
    PlotDir!SetToSortSeq(
        Plot!PlotNames(7, 0, [singSize |-> 4, size |-> 8])
          \cup Plot!PlotNames(9, 0, [singSize |-> 2, size |-> 2]),
        NameBefore)
=============================================================================
