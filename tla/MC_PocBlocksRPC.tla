------------------------- MODULE MC_PocBlocksRPC -------------------------
(* 5-bit arithmetic (modulus 32): the negative page -1 (rpc.LatestBlock- *)
(* Number), page 0, the first pages, and page 9, whose (page - 1) * 4    *)
(* is 32 and wraps to 0; count 29, whose sum with a head of 3 or more     *)
(* passes 2^Width.                                                       *)
EXTENDS PocBlocksRPC

MCPages == {-1, 0, 1, 2, 3, 9}
=============================================================================
