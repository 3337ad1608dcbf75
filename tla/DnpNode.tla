------------------------------ MODULE DnpNode ------------------------------
(***************************************************************************)
(* The full node service of src/xdn/backend.go: New, the node.Service      *)
(* Start and Stop, and the etherbase and mining calls the admin RPC        *)
(* (miner_setEtherbase, miner_start, miner_stop) makes on it.              *)
(*                                                                         *)
(* The miner package is not part of this repository.  Its entry points    *)
(* appear only through the calls backend.go makes: miner.Start(eb) and    *)
(* miner.SetDnperbase(a) set the coinbase the miner seals to, Start also  *)
(* sets it mining, miner.Stop stops it.  StartMining does not call         *)
(* miner.Start itself: it spawns a goroutine that does, so the call runs   *)
(* after StartMining has returned, at any later point.  Pending goroutines *)
(* are a bag of the etherbases they were handed.                           *)
(*                                                                         *)
(* SetDnperbase writes s.xdnerbase under s.lock and then, after the        *)
(* unlock, tells the miner: two steps, between which other callers run.    *)
(***************************************************************************)
EXTENDS Naturals, FiniteSets, Bags, BagsExt

CONSTANTS
    Addrs,              \* the addresses a caller may set as etherbase
    Zero,               \* common.Address{}
    WalletAccount,      \* accounts[0] of wallets[0], or Zero when there is none
    Configs,            \* the configs New may be given
    ValidSyncModes,     \* the modes SyncMode.IsValid accepts
    BlockChainVersion,  \* core.BlockChainVersion
    ServerMaxPeers,     \* values of srvr.MaxPeers
    Clients,            \* RPC callers
    MaxCalls            \* bound: admin calls over the run

ASSUME /\ Zero \notin Addrs
       /\ WalletAccount \in Addrs \cup {Zero}
       /\ MaxCalls \in Nat

VARIABLES
    status,     \* "none", "failed" (New returned an error), "created", "started", "stopped"
    config,     \* the Config New was given
    xdnerbase,  \* s.xdnerbase
    maxPeers,   \* the peer limit Start hands to protocolManager.Start
    acceptTxs,  \* protocolManager.acceptTxs
    pc,         \* pc[c]: "idle", or "setMiner" between the two steps of SetDnperbase
    arg,        \* arg[c]: the address SetDnperbase(c) is passing on
    starts,     \* bag of etherbases of `go s.miner.Start(eb)` not yet run
    coinbase,   \* the miner's coinbase
    mining,     \* the miner is mining
    calls       \* admin calls made

nodeVars  == <<status, config, xdnerbase, maxPeers, acceptTxs>>
callVars  == <<pc, arg, calls>>
minerVars == <<starts, coinbase, mining>>
vars == <<nodeVars, callVars, minerVars>>

-----------------------------------------------------------------------------
(* Dnperbase: s.xdnerbase read under the read lock, else the first account *)
(* of the first wallet, else an error (Zero here).                         *)
Dnperbase(eb) == IF eb # Zero THEN eb ELSE WalletAccount

(* Start's peer limit: with LightServ > 0 the light peers are taken off,   *)
(* but never below half of the server's limit.                             *)
MaxPeersFor(srvMax, cfg) ==
    LET lessLight == srvMax - cfg.lightPeers
    IN IF cfg.lightServ > 0
       THEN IF lessLight < srvMax \div 2 THEN srvMax \div 2 ELSE lessLight
       ELSE srvMax

(* New refuses light sync, an invalid sync mode and (unless the check is   *)
(* skipped) a database of another chain version; opening the database,    *)
(* the genesis setup, NewBlockChain and NewProtocolManager may also fail.  *)
ConfigRefused(cfg) ==
    \/ cfg.syncMode = "light"
    \/ cfg.syncMode \notin ValidSyncModes
    \/ ~cfg.skipBcVersionCheck /\ cfg.bcVersion \notin {BlockChainVersion, 0}

Init ==
    /\ status = "none"
    /\ config = CHOOSE cfg \in Configs : TRUE
    /\ xdnerbase = Zero
    /\ maxPeers = 0
    /\ acceptTxs = 0
    /\ pc = [c \in Clients |-> "idle"]
    /\ arg = [c \in Clients |-> Zero]
    /\ starts = EmptyBag
    /\ coinbase = Zero
    /\ mining = FALSE
    /\ calls = 0

New(cfg) ==
    /\ status = "none"
    /\ config' = cfg
    /\ \/ /\ ConfigRefused(cfg)
          /\ status' = "failed"
          /\ UNCHANGED xdnerbase
       \/ /\ ~ConfigRefused(cfg)
          /\ status' \in {"created", "failed"}
          /\ xdnerbase' = cfg.etherbase
    /\ UNCHANGED <<maxPeers, acceptTxs, callVars, minerVars>>

Start ==
    /\ status = "created"
    /\ status' = "started"
    /\ \E srvMax \in ServerMaxPeers : maxPeers' = MaxPeersFor(srvMax, config)
    /\ UNCHANGED <<config, xdnerbase, acceptTxs, callVars, minerVars>>

(* Stop tears the services down; of them only miner.Stop is visible here. *)
(* Goroutines StartMining spawned are not waited for.                      *)
Stop ==
    /\ status = "started"
    /\ status' = "stopped"
    /\ mining' = FALSE
    /\ UNCHANGED <<config, xdnerbase, maxPeers, acceptTxs, callVars, starts, coinbase>>

(* An admin call, made by an idle caller while the node runs. *)
Call(c) ==
    /\ status = "started"
    /\ pc[c] = "idle"
    /\ calls < MaxCalls
    /\ calls' = calls + 1

(* SetDnperbase, first step: s.xdnerbase is written under s.lock. *)
SetDnperbaseLocked(c, a) ==
    /\ Call(c)
    /\ xdnerbase' = a
    /\ pc' = [pc EXCEPT ![c] = "setMiner"]
    /\ arg' = [arg EXCEPT ![c] = a]
    /\ UNCHANGED <<status, config, maxPeers, acceptTxs, minerVars>>

(* SetDnperbase, second step, after the unlock: miner.SetDnperbase. *)
SetDnperbaseMiner(c) ==
    /\ pc[c] = "setMiner"
    /\ coinbase' = arg[c]
    /\ pc' = [pc EXCEPT ![c] = "idle"]
    /\ UNCHANGED <<nodeVars, arg, calls, starts, mining>>

(* StartMining: the etherbase is read (Dnperbase); without one the call   *)
(* fails; a local start sets acceptTxs; then `go s.miner.Start(eb)`.      *)
StartMining(c, local) ==
    LET eb == Dnperbase(xdnerbase) IN
    /\ Call(c)
    /\ IF eb = Zero
       THEN UNCHANGED <<acceptTxs, starts>>
       ELSE /\ acceptTxs' = IF local THEN 1 ELSE acceptTxs
            /\ starts' = BagAdd(starts, eb)
    /\ UNCHANGED <<status, config, xdnerbase, maxPeers, pc, arg, coinbase, mining>>

StopMining(c) ==
    /\ Call(c)
    /\ mining' = FALSE
    /\ UNCHANGED <<nodeVars, pc, arg, starts, coinbase>>

(* A goroutine StartMining spawned runs miner.Start(eb). *)
MinerStart(eb) ==
    /\ BagIn(eb, starts)
    /\ starts' = BagRemove(starts, eb)
    /\ coinbase' = eb
    /\ mining' = TRUE
    /\ UNCHANGED <<nodeVars, callVars>>

Next ==
    \/ \E cfg \in Configs : New(cfg)
    \/ Start
    \/ Stop
    \/ \E c \in Clients :
          \/ \E a \in Addrs : SetDnperbaseLocked(c, a)
          \/ SetDnperbaseMiner(c)
          \/ \E local \in BOOLEAN : StartMining(c, local)
          \/ StopMining(c)
    \/ \E eb \in BagToSet(starts) : MinerStart(eb)

Spec == Init /\ [][Next]_vars

-----------------------------------------------------------------------------
(* No admin call is half done and no spawned miner.Start is still to run. *)
Quiescent == (\A c \in Clients : pc[c] = "idle") /\ starts = EmptyBag

(* s.lock "protects the variadic fields (e.g. gas price and xdnerbase)":   *)
(* once every admin call has returned and every goroutine it spawned has   *)
(* run, a mining miner seals to the etherbase the node reports.  A        *)
(* goroutine of StartMining that runs after a later SetDnperbase, or two   *)
(* SetDnperbase calls whose miner updates cross, break it.                 *)
MinerCoinbaseCurrent ==
    Quiescent /\ mining => coinbase = Dnperbase(xdnerbase)
=============================================================================
