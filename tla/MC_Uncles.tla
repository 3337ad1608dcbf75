------------------------------ MODULE MC_Uncles ------------------------------
(* The node starts with genesis (id 1) and a chain of eight blocks        *)
(* (ids 2 .. 9, numbers 1 .. 8), plus two side blocks: id 10 at number 2  *)
(* (its parent, block 1, is just outside the window of the next block)    *)
(* and id 11 at number 6 (inside it).  Three more blocks may be inserted, *)
(* so a side block can be offered for inclusion twice, at the edge of     *)
(* the window and past it.                                                *)
EXTENDS Uncles

MCBlock(parent, number) ==
    [parent |-> parent, number |-> number, uncles |-> <<>>, credits |-> <<>>]

MCInitTree ==
    [i \in 1 .. 9 |-> MCBlock(i - 1, i - 1)] \o << MCBlock(2, 2), MCBlock(6, 6) >>

MCMaxBlocks == 14
=============================================================================
