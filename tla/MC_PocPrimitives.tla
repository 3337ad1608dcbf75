------------------------- MODULE MC_PocPrimitives -------------------------
(* Hashes that differ in the two bytes GetScoopID reads, including the   *)
(* S2 vectors 0x0F 0xFF and 0x10 0x00.                                    *)
EXTENDS PocPrimitives

ByteValues == {0, 1, 15, 16, 255}

MCHashes == { [i \in 1 .. 32 |-> IF i = 31 THEN b30 ELSE IF i = 32 THEN b31 ELSE 0]
              : b30 \in ByteValues, b31 \in ByteValues }
=============================================================================
