----------------------------- MODULE PlotNames -----------------------------
(***************************************************************************)
(* What a run of the plotter of src/cmd/plot/main.go leaves on disk, as    *)
(* the miner sees it: the numbers parseParam derives from the flags and    *)
(* the names loop gives the plot files.  Plotter extends this module; the  *)
(* miner's configurations instantiate it to build their plot directories   *)
(* from plotter runs.                                                      *)
(***************************************************************************)
EXTENDS Naturals

CONSTANT CellSize   \* the bytes of one nonce's cell, "256KB" in parseParam

(* parseParam: SingCount = sing / cellSize and Count = total / sing     *)
(* (int64 divisions), for the parsed --singSize and --size.             *)
ParseParam(fl) ==
    [singCount |-> fl.singSize \div CellSize, count |-> fl.size \div fl.singSize]

(* makeName formats "%v_%v_%v" of plotID, nonce and singCount; mine      *)
(* splits a name at "_" and parses the three numbers back, so a name is  *)
(* the triple of those numbers.                                          *)
MakeName(plotID, nonce, singCount) ==
    [pid |-> plotID, start |-> nonce, total |-> singCount]

(* The files a run creates: file i is named from currentNonce =          *)
(* StartNonce + i * SingCount.  os.Create of a name made before opens    *)
(* (and truncates) that same file, so the run leaves a set of names.     *)
PlotNames(plotID, startNonce, fl) ==
    LET p == ParseParam(fl)
    IN {MakeName(plotID, startNonce + i * p.singCount, p.singCount) :
            i \in 0 .. p.count - 1}
=============================================================================
