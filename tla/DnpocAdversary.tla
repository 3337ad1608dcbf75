--------------------------- MODULE DnpocAdversary ---------------------------
(* Dnpoc with blocks from peers: between two Seal calls the worker imports *)
(* a block another plotter sealed, after VerifyHeader accepts it.  The     *)
(* peer seals at the current time and chooses the header's LastTime and   *)
(* BaseTarget: the base target calcBaseTarget gives or one of             *)
(* PeerBaseTargets; DeadLine is computed from the chosen base target.     *)
(* VerifySeal takes LastTime and BaseTarget from the header it checks.    *)
EXTENDS Dnpoc

CONSTANTS
    PeerPlotID,      \* the plot identifier (and coinbase) of the peer
    PeerNonces,      \* nonces the peer may have plotted
    PeerBaseTargets  \* base targets the peer may write into its header

(* The base targets a peer may put in the header of block number. *)
PeerBases(number) == {CalcBaseTarget(chain, number)} \cup PeerBaseTargets

(* The header a peer builds on the head with nonce n, LastTime lt and    *)
(* BaseTarget base.                                                      *)
PeerHeader(n, lt, base) ==
    LET number == CurrentHead.number + 1
    IN [number |-> number, plotID |-> PeerPlotID, nonce |-> n, baseTarget |-> base,
        deadLine |-> CalcDeadLine(Target(n, number), base), time |-> now,
        lastTime |-> lt, coinbase |-> PeerPlotID]

(* The worker inserts a peer's block that VerifyHeader accepts. *)
ImportPeerBlock(n, lt, base) ==
    /\ sealPc = "idle"
    /\ Len(chain) < Len(InitChain) + MaxBlocks
    /\ VerifyHeader(CurrentHead, PeerHeader(n, lt, base), now) = "ok"
    /\ chain' = Append(chain, PeerHeader(n, lt, base))
    /\ UNCHANGED <<now, sealPc, stop, abort, work, bt, mpc, mineVars, result, rejected, stops>>

NextWithPeers ==
    \/ Next
    \/ \E n \in PeerNonces, lt \in 0 .. CurrentHead.time,
          base \in PeerBases(CurrentHead.number + 1) : ImportPeerBlock(n, lt, base)

SpecWithPeers == Init /\ [][NextWithPeers]_vars /\ Fairness
=============================================================================
