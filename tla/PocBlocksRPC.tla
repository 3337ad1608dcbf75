--------------------------- MODULE PocBlocksRPC ---------------------------
(* The block-listing RPC get_poc_blocks(page, count): GetPocBlocks of      *)
(* src/xdn/api_backend.go (full node) and of src/les/api_backend.go        *)
(* (light client).  A block is abstracted to its number, so a result is    *)
(* the sequence of block numbers whose summaries are returned.  Go's       *)
(* uint64 arithmetic is kept, at width Width instead of 64: every +, -     *)
(* and * is taken modulo 2^Width, and the int64 page is reinterpreted      *)
(* modulo 2^Width by uint64(...).                                         *)
EXTENDS Integers, Sequences

CONSTANTS
    Width,     \* the width of the unsigned arithmetic (64 in the code)
    Heights,   \* chain heights: the number of the current block
    Pages,     \* blockPage values (rpc.BlockNumber, signed)
    Counts,    \* blockCnt values
    Backends,  \* the RPC backends serving the call: "full", "les"
    NoValue,   \* no call answered yet
    Spinning   \* the answer of a call whose loop never stops

Modulus == 2^Width

ASSUME /\ Width \in Nat \ {0}
       /\ Heights \subseteq 0 .. Modulus - 1
       /\ Counts \subseteq 0 .. Modulus - 1
       /\ Pages \subseteq -(Modulus \div 2) .. Modulus \div 2 - 1
       /\ Backends \subseteq {"full", "les"}

(* uint64(x): the value modulo 2^Width. *)
U(x) == x % Modulus

(* GetBlockByNumber(i) on a chain whose head is block h: nil above h. *)
HasBlock(i, h) == i <= h

(* The for loop from i down, while i + page*cnt > head && i >= 0,       *)
(* appending the summary of every block found.  fuel counts the           *)
(* iterations left before i has taken every value once: a loop still     *)
(* running then never stops.                                             *)
RECURSIVE Scan(_, _, _, _, _)
Scan(i, pc, h, rs, fuel) ==
    IF ~(U(i + pc) > h /\ i >= 0) THEN rs
    ELSE IF fuel = 0 THEN Spinning
    ELSE Scan(U(i - 1), pc, h,
              IF HasBlock(i, h) THEN Append(rs, i) ELSE rs, fuel - 1)

(* DnpApiBackend.GetPocBlocks on a chain with head h. *)
GetPocBlocks(h, page, cnt) ==
    Scan(U(h - U(U(page - 1) * cnt)), U(U(page) * cnt), h, <<>>, Modulus)

(* LesApiBackend.GetPocBlocks: return nil, nil. *)
LesGetPocBlocks(h, page, cnt) == <<>>

(* The specification's get_poc_blocks for page >= 1: the blocks of page  *)
(* `page` of `cnt` blocks each, newest first, in unbounded integers.      *)
PageRef(h, page, cnt) ==
    LET hi == h - (page - 1) * cnt
        lo == IF h - page * cnt + 1 > 0 THEN h - page * cnt + 1 ELSE 0
    IN [k \in 1 .. hi - lo + 1 |-> hi - k + 1]

-----------------------------------------------------------------------------
VARIABLES
    backend, head, page, count,   \* the last call and the chain it ran on
    result                        \* its answer

vars == <<backend, head, page, count, result>>

Init ==
    /\ backend = NoValue /\ head = NoValue /\ page = NoValue
    /\ count = NoValue /\ result = NoValue

(* A client calls get_poc_blocks(p, c) on backend b at chain head h. *)
Request(b, h, p, c) ==
    /\ backend' = b /\ head' = h /\ page' = p /\ count' = c
    /\ result' = IF b = "full" THEN GetPocBlocks(h, p, c)
                 ELSE LesGetPocBlocks(h, p, c)

Next == \E b \in Backends, h \in Heights, p \in Pages, c \in Counts :
            Request(b, h, p, c)

Spec == Init /\ [][Next]_vars

-----------------------------------------------------------------------------
(* Every call with page >= 1 answers the specification's page: the      *)
(* blocks of that page, newest first, the loop in GetPocBlocks having    *)
(* stopped.                                                               *)
PageMatchesSpec ==
    result # NoValue /\ page >= 1 => result = PageRef(head, page, count)
=============================================================================
