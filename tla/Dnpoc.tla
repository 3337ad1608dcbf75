------------------------------- MODULE Dnpoc --------------------------------
(***************************************************************************)
(* The proof-of-capacity engine of src/consensus/xdnoc/dnpoc.go: Seal and  *)
(* its mine goroutine, VerifyHeader / verifyHeader / VerifySeal, and the   *)
(* base-target controller calcBaseTarget, on a chain that grows by the     *)
(* blocks the local node seals and imports.                               *)
(*                                                                         *)
(* Abstractions.  An address is its plot identifier (CalcPlotID is the     *)
(* identity on it: common.Address is outside src).  The target of a        *)
(* nonce, CalcTarget over the scoop the block's generation signature       *)
(* selects, is the constant operator Target(nonce, number).  The plot      *)
(* files the miner scans are the constant sequence PlotFiles of parsed     *)
(* names [pid, start, total] in ReadDir order.  Time is a clock of whole   *)
(* seconds.  Gas, extra-data and uncle checks are not modelled.            *)
(***************************************************************************)
EXTENDS Integers, Sequences

CONSTANTS
    Target(_, _),     \* Target(nonce, number): the low 8 bytes of CalcTarget
    PlotFiles,        \* the plot files in the PLOT directories, ReadDir order
    AddrPlotID,       \* CalcPlotID(header.Coinbase) of the local miner
    Nodes,            \* authorised windows: plotID -> [MinNonce, MaxNonce]
    InitBaseTarget,   \* initBaseTarget (5 * 10^15 in the code)
    TargetBlockTime,  \* the 60 of calcBaseTarget
    Sentinel,         \* the initial minDeadLine, 9999999999
    InitChain,        \* the chain the node has when it starts sealing
    MaxBlocks,        \* bound: blocks sealed on top of InitChain
    MaxStops,         \* bound: Seal calls stopped by the worker
    TimeWindow        \* bound: the clock runs at most this far past the head

ASSUME /\ InitBaseTarget \in Nat \ {0} /\ TargetBlockTime \in Nat \ {0}
       /\ MaxBlocks \in Nat /\ MaxStops \in Nat /\ TimeWindow \in Nat \ {0}

Header == [number : Nat, plotID : Nat, nonce : Nat, baseTarget : Int,
           deadLine : Int, time : Int, lastTime : Int, coinbase : Nat]

Genesis == [number |-> 0, plotID |-> 0, nonce |-> 0, baseTarget |-> InitBaseTarget,
            deadLine |-> 0, time |-> 0, lastTime |-> 0, coinbase |-> 0]

ASSUME InitChain \in Seq(Header) /\ InitChain[1] = Genesis

(* CalcDeadLine: target / baseTarget (big.Int Div; panics when zero). *)
CalcDeadLine(target, baseTarget) == target \div baseTarget

(* The header of block i on chain c (GetHeaderByNumber). *)
HeaderByNumber(c, i) == c[i + 1]

(* aver and timeDiff of calcBaseTarget: the means (integer division by   *)
(* 4) of the base targets and deadlines of blocks number-1 .. number-4.   *)
Mean(c, number, field) ==
    LET v(k) == HeaderByNumber(c, number - k)[field]
    IN (v(1) + v(2) + v(3) + v(4)) \div 4

(* Fault: the upper clamp is missing. *)
CalcBaseTargetNoUpperClamp(c, number) ==
    IF number <= 5 THEN InitBaseTarget
    ELSE LET aver == Mean(c, number, "baseTarget")
             cand == (aver * Mean(c, number, "deadLine")) \div TargetBlockTime
         IN IF cand < (aver * 9) \div 10 THEN (aver * 9) \div 10 ELSE cand

(* calcBaseTarget: candidate aver * timeDiff / 60 (initBaseTarget when    *)
(* negative), clamped to [aver * 9 / 10, aver * 11 / 10].                  *)
CalcBaseTarget(c, number) ==
    IF number <= 5 THEN InitBaseTarget
    ELSE LET aver  == Mean(c, number, "baseTarget")
             cand0 == (aver * Mean(c, number, "deadLine")) \div TargetBlockTime
             cand  == IF cand0 < 0 THEN InitBaseTarget ELSE cand0
             saver == (aver * 9) \div 10
             baver == (aver * 11) \div 10
         IN IF cand < saver THEN saver
            ELSE IF cand > baver THEN baver ELSE cand

(* VerifySeal: the outcome for header h when the local clock reads clock. *)
VerifySeal(h, clock) ==
    IF h.plotID # h.coinbase THEN "plotID mismatch"
    ELSE IF h.baseTarget = 0 THEN "panic: division by zero"
    ELSE LET deadline == CalcDeadLine(Target(h.nonce, h.number), h.baseTarget)
         IN IF deadline # h.deadLine THEN "deadline compute error"
            ELSE IF ~(deadline + h.lastTime < h.time) THEN "deadline not satisfy"
            ELSE IF h.time - 15 > clock THEN "time mismatch"
            ELSE "ok"

(* verifyHeader (uncle = FALSE, seal = TRUE) of h against its parent. *)
VerifyHeader(parent, h, clock) ==
    IF h.time > clock THEN "future block"
    ELSE IF h.time <= parent.time THEN "timestamp equals parent's"
    ELSE IF h.number - parent.number # 1 THEN "invalid block number"
    ELSE VerifySeal(h, clock)

-----------------------------------------------------------------------------
VARIABLES
    chain,     \* the canonical chain: a sequence of headers, genesis first
    now,       \* the clock, time.Now().Unix()
    sealPc,    \* Seal: "idle", "sealing" (in its select) or "returned"
    stop,      \* the stop channel of the running Seal call is closed
    abort,     \* the abort channel Seal shares with mine is closed
    work,      \* the block being sealed: [number, lastTime]
    bt,        \* the baseTarget Seal computed for it
    mpc,       \* mine: "init", "scan", "wait", "send" or "exit"
    fi,        \* index of the plot file mine is at
    total,     \* total of that file, 0 before it is opened
    idx,       \* index of the nonce within that file
    minDL,     \* minDeadLine
    minNonce,  \* minNonce
    minPub,    \* minPubID
    pending,   \* the header mine is trying to send on found
    result,    \* the block Seal returned
    rejected,  \* the verdict on a locally sealed block that was rejected
    stops      \* Seal calls stopped so far

vars == <<chain, now, sealPc, stop, abort, work, bt, mpc, fi, total, idx,
          minDL, minNonce, minPub, pending, result, rejected, stops>>

mineVars == <<fi, total, idx, minDL, minNonce, minPub, pending>>

CurrentHead == chain[Len(chain)]

NoHeader == [number |-> 0, plotID |-> 0, nonce |-> 0, baseTarget |-> 0,
             deadLine |-> 0, time |-> 0, lastTime |-> 0, coinbase |-> 0]

(* The header mine emits: CopyHeader with Nonce, PlotID, Time = now,      *)
(* BaseTarget and DeadLine set.                                           *)
SealedHeader ==
    [number |-> work.number, plotID |-> minPub, nonce |-> minNonce,
     baseTarget |-> bt, deadLine |-> minDL, time |-> now,
     lastTime |-> work.lastTime, coinbase |-> AddrPlotID]

(* Fault: a deadline equal to the elapsed time is taken as elapsed. *)
DeadlinePassedInclusive(dl, lastTime, t) == dl + lastTime <= t

(* The emission test of mine: minDeadLine + lastTime < now. *)
DeadlinePassed(dl, lastTime, t) == dl + lastTime < t

(* mine's locals as it starts; once mine has returned they are dead and  *)
(* are put back to these values, so that dead values do not split states. *)
MineLocalsReset ==
    /\ fi' = 1 /\ total' = 0 /\ idx' = 0
    /\ minDL' = Sentinel /\ minNonce' = 0 /\ minPub' = 0
    /\ pending' = NoHeader

(* The node authorisation check: startNonce + index in [MinNonce, MaxNonce]. *)
Authorized(n) == n >= Nodes[AddrPlotID].min /\ n <= Nodes[AddrPlotID].max

Init ==
    /\ chain = InitChain
    /\ now = InitChain[Len(InitChain)].time
    /\ sealPc = "idle"
    /\ stop = FALSE
    /\ abort = FALSE
    /\ work = [number |-> 0, lastTime |-> 0]
    /\ bt = InitBaseTarget
    /\ mpc = "exit"
    /\ fi = 1 /\ total = 0 /\ idx = 0
    /\ minDL = Sentinel /\ minNonce = 0 /\ minPub = 0
    /\ pending = NoHeader
    /\ result = NoHeader
    /\ rejected = "none"
    /\ stops = 0

(* Fault: the new block's LastTime is copied from the parent's LastTime. *)
WorkForStale(parent) == [number |-> parent.number + 1, lastTime |-> parent.lastTime]

(* The block the miner's worker builds on parent: Number = parent + 1 and *)
(* LastTime = parent.Time.                                                *)
WorkFor(parent) == [number |-> parent.number + 1, lastTime |-> parent.time]

(* The miner calls Seal on a block built on the head: Seal computes the    *)
(* base target and starts mine.  A mine goroutine of an earlier, stopped   *)
(* Seal call only has its abort check left, which touches nothing shared. *)
StartSeal ==
    /\ sealPc = "idle"
    /\ Len(chain) < Len(InitChain) + MaxBlocks
    /\ work' = WorkFor(CurrentHead)
    /\ bt' = CalcBaseTarget(chain, CurrentHead.number + 1)
    /\ sealPc' = "sealing"
    /\ stop' = FALSE
    /\ abort' = FALSE
    /\ mpc' = "init"
    /\ MineLocalsReset
    /\ UNCHANGED <<chain, now, result, rejected, stops>>

(* mine: GetNodeByPlotID; on error it returns without sending. *)
MineStart ==
    /\ mpc = "init"
    /\ mpc' = IF AddrPlotID \in DOMAIN Nodes THEN "scan" ELSE "exit"
    /\ UNCHANGED <<chain, now, sealPc, stop, abort, work, bt, mineVars, result, rejected, stops>>

(* Each loop iteration first selects on abort. *)
MineAborted ==
    /\ mpc \in {"scan", "wait", "send"}
    /\ abort
    /\ mpc' = "exit"
    /\ MineLocalsReset
    /\ UNCHANGED <<chain, now, sealPc, stop, abort, work, bt, result, rejected, stops>>

(* Fault: a file of another plotID is not left (continue, not break). *)
MineOpenFileSkipStays ==
    LET fl == PlotFiles[fi] IN
    /\ mpc = "scan" /\ ~abort
    /\ fi <= Len(PlotFiles)
    /\ total = 0
    /\ IF fl.pid # AddrPlotID
       THEN UNCHANGED <<fi, total, idx>>
       ELSE total' = fl.total /\ idx' = 0 /\ UNCHANGED fi
    /\ UNCHANGED <<chain, now, sealPc, stop, abort, work, bt, mpc, minDL,
                   minNonce, minPub, pending, result, rejected, stops>>

(* total == 0: parse the file name; a file of another plotID is skipped;  *)
(* otherwise total is taken from the name and the scoop slab is read.     *)
(* A name with total 0 leaves total at 0, so the next iteration opens the *)
(* same file again.                                                        *)
MineOpenFile ==
    LET fl == PlotFiles[fi] IN
    /\ mpc = "scan" /\ ~abort
    /\ fi <= Len(PlotFiles)
    /\ total = 0
    /\ IF fl.pid # AddrPlotID
       THEN fi' = fi + 1 /\ UNCHANGED <<total, idx>>
       ELSE total' = fl.total /\ idx' = 0 /\ UNCHANGED fi
    /\ UNCHANGED <<chain, now, sealPc, stop, abort, work, bt, mpc, minDL,
                   minNonce, minPub, pending, result, rejected, stops>>

(* Fault: the end of the file is tested before index++. *)
FileDoneLate(index, tot) == index = tot

(* index++; if index == total: the file's last nonce has been handled. *)
FileDone(index, tot) == index + 1 = tot

(* total > 0: nonce start + index.  When authorised, its deadline may      *)
(* become the minimum, and if the minimum deadline has passed the sealed  *)
(* header is sent.  Otherwise go on to the next index or file.            *)
MineNonce ==
    LET n        == PlotFiles[fi].start + idx
        auth     == Authorized(n)
        deadline == CalcDeadLine(Target(n, work.number), bt)
        better   == auth /\ deadline < minDL
        dl       == IF better THEN deadline ELSE minDL
        emit     == auth /\ DeadlinePassed(dl, work.lastTime, now)
    IN
    /\ mpc = "scan" /\ ~abort
    /\ total > 0
    /\ minDL' = dl
    /\ minNonce' = IF better THEN n ELSE minNonce
    /\ minPub' = IF better THEN PlotFiles[fi].pid ELSE minPub
    /\ IF emit
       THEN /\ mpc' = "send"
            /\ pending' = [SealedHeader EXCEPT !.nonce = minNonce', !.plotID = minPub',
                                               !.deadLine = dl]
            /\ UNCHANGED <<fi, total, idx>>
       ELSE /\ UNCHANGED <<mpc, pending>>
            /\ IF FileDone(idx, total)
               THEN fi' = fi + 1 /\ total' = 0 /\ idx' = 0
               ELSE idx' = idx + 1 /\ UNCHANGED <<fi, total>>
    /\ UNCHANGED <<chain, now, sealPc, stop, abort, work, bt, result, rejected, stops>>

(* All plot files scanned: enter the once-a-second wait loop. *)
MineScanDone ==
    /\ mpc = "scan" /\ ~abort
    /\ fi > Len(PlotFiles)
    /\ mpc' = "wait"
    /\ UNCHANGED <<chain, now, sealPc, stop, abort, work, bt, mineVars, result, rejected, stops>>

(* The wait loop finds the minimum deadline passed and sends the header. *)
MineWaitEmit ==
    /\ mpc = "wait" /\ ~abort
    /\ DeadlinePassed(minDL, work.lastTime, now)
    /\ mpc' = "send"
    /\ pending' = SealedHeader
    /\ UNCHANGED <<chain, now, sealPc, stop, abort, work, bt, fi, total, idx,
                   minDL, minNonce, minPub, result, rejected, stops>>

(* found <- block meets Seal's select: Seal closes abort and returns it. *)
Deliver ==
    /\ mpc = "send"
    /\ sealPc = "sealing"
    /\ result' = pending
    /\ abort' = TRUE
    /\ sealPc' = "returned"
    /\ mpc' = "exit"
    /\ MineLocalsReset
    /\ UNCHANGED <<chain, now, stop, work, bt, rejected, stops>>

(* The miner's worker closes stop (new head or StopMining). *)
StopSeal ==
    /\ sealPc = "sealing"
    /\ ~stop
    /\ stops < MaxStops
    /\ stop' = TRUE
    /\ stops' = stops + 1
    /\ UNCHANGED <<chain, now, sealPc, abort, work, bt, mpc, mineVars, result, rejected>>

(* Seal's select takes stop: close abort, return nil. *)
SealStopped ==
    /\ sealPc = "sealing"
    /\ stop
    /\ abort' = TRUE
    /\ sealPc' = "idle"
    /\ result' = NoHeader
    /\ UNCHANGED <<chain, now, stop, work, bt, mpc, mineVars, rejected, stops>>

(* The worker inserts the sealed block: VerifyHeader against the head. *)
Import ==
    LET verdict == VerifyHeader(CurrentHead, result, now) IN
    /\ sealPc = "returned"
    /\ sealPc' = "idle"
    /\ IF verdict = "ok"
       THEN chain' = Append(chain, result) /\ UNCHANGED rejected
       ELSE rejected' = verdict /\ UNCHANGED chain
    /\ result' = NoHeader
    /\ UNCHANGED <<now, stop, abort, work, bt, mpc, mineVars, stops>>

(* A second passes. *)
Tick ==
    /\ now < CurrentHead.time + TimeWindow
    /\ now' = now + 1
    /\ UNCHANGED <<chain, sealPc, stop, abort, work, bt, mpc, mineVars, result, rejected, stops>>

Next ==
    \/ StartSeal \/ MineStart \/ MineAborted \/ MineOpenFile \/ MineNonce
    \/ MineScanDone \/ MineWaitEmit \/ Deliver \/ StopSeal \/ SealStopped
    \/ Import \/ Tick

(* The mine goroutine, Seal, the worker and the clock all make progress;   *)
(* closing stop is the environment's choice and is not forced.            *)
Fairness ==
    /\ WF_vars(StartSeal) /\ WF_vars(MineStart) /\ WF_vars(MineAborted)
    /\ WF_vars(MineOpenFile) /\ WF_vars(MineNonce) /\ WF_vars(MineScanDone)
    /\ WF_vars(MineWaitEmit) /\ WF_vars(Deliver) /\ WF_vars(SealStopped)
    /\ WF_vars(Import) /\ WF_vars(Tick)

Spec == Init /\ [][Next]_vars /\ Fairness

-----------------------------------------------------------------------------
TypeOK ==
    /\ chain \in Seq(Header)
    /\ now \in Nat
    /\ sealPc \in {"idle", "sealing", "returned"}
    /\ stop \in BOOLEAN /\ abort \in BOOLEAN
    /\ mpc \in {"init", "scan", "wait", "send", "exit"}
    /\ fi \in 1 .. Len(PlotFiles) + 1
    /\ idx \in 0 .. (IF total = 0 THEN 0 ELSE total - 1)
    /\ minDL \in Nat
    /\ pending \in Header /\ result \in Header

(* A block the local miner seals is accepted by VerifyHeader when the      *)
(* worker imports it: the miner's emission test, base target and deadline *)
(* agree with what the verifier recomputes.                               *)
HonestSealAccepted == rejected = "none"

(* Every block of the chain was sealed after its deadline had elapsed     *)
(* since its parent (spec invariant I3), the deadline being the one its   *)
(* nonce has at the base target calcBaseTarget prescribes for its height  *)
(* on that chain: Time > parent.Time + Target / calcBaseTarget.  The      *)
(* header's own DeadLine, BaseTarget and LastTime are claims this does    *)
(* not take on trust.                                                     *)
ChainDeadlinesElapsed ==
    \A i \in 2 .. Len(chain) :
        LET h == chain[i]
            dl == CalcDeadLine(Target(h.nonce, h.number),
                               CalcBaseTarget(SubSeq(chain, 1, i - 1), h.number))
        IN h.time > chain[i - 1].time + dl

(* Every Seal call returns: mine finds a passed deadline and hands the    *)
(* block over, or the call is stopped.                                    *)
SealTerminates == (sealPc = "sealing") ~> (sealPc # "sealing")
=============================================================================
