--------------------------- MODULE PocPrimitives ---------------------------
(* GetScoopID of src/poc/poc.go at the byte level: the scoop a block's    *)
(* generation hash selects, which the miner reads and the verifier        *)
(* checks.  Bytes are numbers 0 .. 255 and a hash is a sequence of 32 of  *)
(* them, indexed from 1 (Go index i is element i + 1).                    *)
EXTENDS Naturals, Sequences, Bitwise

CONSTANTS
    Hashes,      \* the 32-byte generation hashes to check
    NoValue      \* not computed yet

(* The number of scoops in a cell, 4096, and of 64-byte scoops in a plot. *)
NumScoops == 4096

(* Go's byte << k: the shift is done in 8 bits. *)
ByteShl(b, k) == (b * 2^k) % 256

(* GetScoopID: int(genHash[30] << 8) | int(genHash[31]), mod 4096. *)
GetScoopID(genHash) == (ByteShl(genHash[31], 8) | genHash[32]) % NumScoops

(* The specification's scoop_id with test vector S2: the two last bytes  *)
(* of genHash, big-endian, mod 4096 (0x0F 0xFF gives 4095).             *)
ScoopIDRef(genHash) == (genHash[31] * 256 + genHash[32]) % NumScoops

-----------------------------------------------------------------------------
VARIABLES
    genHash, scoopID    \* a generation hash and the scoop GetScoopID gives

vars == <<genHash, scoopID>>

Init == genHash = NoValue /\ scoopID = NoValue

(* Seal or VerifySeal selects the scoop of a block. *)
SelectScoop(h) ==
    /\ genHash' = h
    /\ scoopID' = GetScoopID(h)

Next == \E h \in Hashes : SelectScoop(h)

Spec == Init /\ [][Next]_vars

-----------------------------------------------------------------------------
(* The scoop miner and verifier select agrees with the specification's    *)
(* scoop_id (vector S2), so that every one of the 4096 scoops of a plot   *)
(* can be asked for.                                                       *)
ScoopMatchesSpec ==
    scoopID # NoValue => scoopID = ScoopIDRef(genHash)
=============================================================================
