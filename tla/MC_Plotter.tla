---------------------------- MODULE MC_Plotter -----------------------------
(* Instantiation of Plotter for TLC.  Three workers share four files, so  *)
(* one worker owns two files and all feed the writer at once; batches of  *)
(* two nonces and a channel of two batches let a worker block on a full   *)
(* channel.  A cell is 2 bytes here instead of 256KB.  The flags give     *)
(* four files of 3 nonces (a full and a partial last batch) or of 4       *)
(* nonces (a multiple of onceHandle: the last loop iteration is empty)    *)
(* or of 5 nonces (two full batches before the partial one).              *)
EXTENDS Plotter

MCWorkers    == 3
MCCellSize   == 2
MCOnceHandle == 2
MCWriteCount == 2
MCStartNonce == 5

MCFlags == {[singSize |-> 6, size |-> 24], [singSize |-> 8, size |-> 32],
            [singSize |-> 10, size |-> 40]}

(* Only the 3-nonce files.                                                *)
MCFlagsUnaligned == {[singSize |-> 6, size |-> 24]}
=============================================================================
