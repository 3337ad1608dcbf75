------------------------------ MODULE PocCell ------------------------------
(***************************************************************************)
(* The cell construction of src/poc/poc.go and the scoop layout that the   *)
(* plotter (src/cmd/plot/main.go), the miner and the verifier              *)
(* (src/consensus/xdnoc/dnpoc.go) put on it.                               *)
(*                                                                         *)
(* Shabal-256 is abstracted to a collision-free constructor: Hash(s) is   *)
(* the term <<"shabal", s>> of its input, a sequence of 32-byte hashes and *)
(* the 16-byte seed BE64(pub) || BE64(nonce).  XOR of a hash with the      *)
(* final hash is the term Xor(a, f).  Two cells are equal iff every slot   *)
(* was computed from the same inputs in the same way, which is what the   *)
(* round trip needs.  A cell is a sequence of CELL_SIZE hashes (8192 in    *)
(* the code); PLOT_SIZE / HASH_SIZE = 128 is the window, in hashes.        *)
(* Both are parameters here, so the geometry is checked at many sizes.     *)
(***************************************************************************)
EXTENDS Naturals, Sequences

CONSTANTS
    CellSizes,   \* the values of CELL_SIZE to check (even numbers)
    Windows,     \* the values of PLOT_SIZE / HASH_SIZE to check
    Nonces,      \* nonces
    PlotIDs,     \* plot identifiers
    None         \* no value yet

ASSUME /\ \A c \in CellSizes : c \in Nat \ {0} /\ c % 2 = 0
       /\ Windows \subseteq Nat \ {0}

Hash(s)   == <<"shabal", s>>
Xor(a, f) == <<"xor", a, f>>

(* comBytes = BE64(pub) || BE64(nonce). *)
Seed(nonce, pub) == <<"seed", pub, nonce>>

(* The descending loop of GenCell: cellBytes grows at the front; each new *)
(* hash is taken over its first PLOT_SIZE bytes when it has that many,    *)
(* else over all of it followed by the seed.                              *)
GenCellCom(i, cellBytes, seed, c, w) ==
    IF i = c - 1 THEN <<seed>>
    ELSE IF Len(cellBytes) >= w THEN SubSeq(cellBytes, 1, w)
    ELSE cellBytes \o <<seed>>

RECURSIVE GenCellLoop(_, _, _, _, _)
GenCellLoop(i, cellBytes, seed, c, w) ==
    IF i < 0 THEN cellBytes
    ELSE GenCellLoop(i - 1, <<Hash(GenCellCom(i, cellBytes, seed, c, w))>> \o cellBytes,
                     seed, c, w)

(* final = Hash(cellBytes || comBytes), XORed into every slot. *)
XorFinal(cell, seed) ==
    LET final == Hash(cell \o <<seed>>)
    IN [t \in DOMAIN cell |-> Xor(cell[t], final)]

(* Fault: odd slots taken one slot lower, from CELL_SIZE - i - 1. *)
RearrangeOffByOne(src, c) ==
    [t \in 1 .. c |-> IF (t - 1) % 2 = 0 THEN src[t] ELSE src[c - (t - 1)]]

(* rearrange: slot i of the result is src slot i for even i, else src    *)
(* slot CELL_SIZE - i (slots numbered from 0, sequences from 1).          *)
Rearrange(src, c) ==
    [t \in 1 .. c |-> IF (t - 1) % 2 = 0 THEN src[t] ELSE src[c - (t - 1) + 1]]

(* GenCell: the cell the verifier computes. *)
GenCell(nonce, pub, c, w) ==
    LET seed == Seed(nonce, pub)
    IN Rearrange(XorFinal(GenCellLoop(c - 1, <<>>, seed, c, w), seed), c)

(* The descending loop of GenCellForP: slot i (at index i + 1) is the hash *)
(* of slots i+1 .. i+w when i < CELL_SIZE - w, else of slots              *)
(* i+1 .. CELL_SIZE-1 followed by the seed.  (Fault: the full window is  *)
(* used one slot too late.)                                               *)
ForPComLateWindow(i, cells, seed, c, w) ==
    IF i = c - 1 THEN <<seed>>
    ELSE IF i < c - w - 1 THEN SubSeq(cells, i + 2, i + 1 + w)
    ELSE SubSeq(cells, i + 2, c) \o <<seed>>

ForPCom(i, cells, seed, c, w) ==
    IF i = c - 1 THEN <<seed>>
    ELSE IF i < c - w THEN SubSeq(cells, i + 2, i + 1 + w)
    ELSE SubSeq(cells, i + 2, c) \o <<seed>>

RECURSIVE ForPLoop(_, _, _, _, _)
ForPLoop(i, cells, seed, c, w) ==
    IF i < 0 THEN cells
    ELSE ForPLoop(i - 1,
                  [slot \in 1 .. c |-> IF slot = i + 1
                                       THEN Hash(ForPCom(i, cells, seed, c, w))
                                       ELSE cells[slot]],
                  seed, c, w)

(* GenCellForP: the cell the plotter computes (no rearrange). *)
GenCellForP(nonce, pub, c, w) ==
    LET seed == Seed(nonce, pub)
    IN XorFinal(ForPLoop(c - 1, [slot \in 1 .. c |-> None], seed, c, w), seed)

(* The 64 bytes the plotter writes for a nonce in scoop region k:        *)
(* cells[q][32*(2k) ..] then cells[q][(8192 - (2k+1))*32 ..].             *)
PlotScoop(cellP, c, k) == <<cellP[2 * k + 1], cellP[c - (2 * k + 1) + 1]>>

(* scoop_1 = cells[64*scoopID : +32], scoop_2 = cells[64*scoopID+32 : +64]. *)
VerifierScoop(cell, k) == <<cell[2 * k + 1], cell[2 * k + 2]>>

(* The cell as the specification defines it: H[i] is the hash of the      *)
(* window H[i+1 .. min(i+w, C-1)], followed by the seed when the window   *)
(* has fewer than w slots; then the final hash is XORed in.               *)
RefCell(nonce, pub, c, w) ==
    LET seed == Seed(nonce, pub)
        H[i \in 0 .. c - 1] ==
            IF i = c - 1 THEN Hash(<<seed>>)
            ELSE LET n == IF c - 1 - i < w THEN c - 1 - i ELSE w
                     win == [t \in 1 .. n |-> H[i + t]]
                 IN Hash(IF n < w THEN win \o <<seed>> ELSE win)
    IN XorFinal([t \in 1 .. c |-> H[t - 1]], seed)

-----------------------------------------------------------------------------
VARIABLES
    cellSize, window,   \* the geometry: CELL_SIZE and PLOT_SIZE / HASH_SIZE
    nonce, pub,         \* the nonce and plot identifier of the cell
    file,               \* file[k + 1]: the 64 bytes of scoop region k, or None
    scoop,              \* the scoopID of the block being sealed, or None
    minerRead,          \* scoop_1 || scoop_2 as the miner read them
    verifierRead        \* scoop_1 || scoop_2 as the verifier computed them

vars == <<cellSize, window, nonce, pub, file, scoop, minerRead, verifierRead>>

Init ==
    /\ cellSize \in CellSizes
    /\ window \in Windows
    /\ nonce \in Nonces
    /\ pub \in PlotIDs
    /\ file = None
    /\ scoop = None
    /\ minerRead = None
    /\ verifierRead = None

(* The plotter computes the nonce's cell and writes its two halves into   *)
(* every scoop region of the file.                                        *)
Plot ==
    LET cellP == GenCellForP(nonce, pub, cellSize, window) IN
    /\ file = None
    /\ file' = [r \in 1 .. cellSize \div 2 |-> PlotScoop(cellP, cellSize, r - 1)]
    /\ UNCHANGED <<cellSize, window, nonce, pub, scoop, minerRead, verifierRead>>

(* A block with scoopID k: the miner reads scoop region k of the file for *)
(* the nonce, and the verifier recomputes the nonce's cell and slices it. *)
ProveAndVerify(k) ==
    /\ file # None
    /\ scoop' = k
    /\ minerRead' = file[k + 1]
    /\ verifierRead' = VerifierScoop(GenCell(nonce, pub, cellSize, window), k)
    /\ UNCHANGED <<cellSize, window, nonce, pub, file>>

Next ==
    \/ Plot
    \/ \E k \in 0 .. cellSize \div 2 - 1 : ProveAndVerify(k)

Spec == Init /\ [][Next]_vars

-----------------------------------------------------------------------------
(* Plot round trip: for every scoop of every nonce, the two halves the    *)
(* miner reads from the plot file are the two halves the verifier slices  *)
(* out of GenCell, so an honestly mined seal has the deadline the         *)
(* verifier recomputes.                                                   *)
RoundTrip == scoop # None => minerRead = verifierRead

(* The plotter's cell (GenCellForP) is the cell the specification defines. *)
CellMatchesReference ==
    file # None =>
        GenCellForP(nonce, pub, cellSize, window) = RefCell(nonce, pub, cellSize, window)
=============================================================================
