------------------------- MODULE MC_DnpocAdversary -------------------------
(* DnpocAdversary with the constants of MC_Dnpoc and one peer, plotter 9. *)
EXTENDS DnpocAdversary, MC_Dnpoc
=============================================================================
