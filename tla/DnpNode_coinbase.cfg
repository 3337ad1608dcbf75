\* A miner_start whose goroutine runs after a later miner_setEtherbase, or
\* two miner_setEtherbase calls whose miner updates cross, leave the miner
\* sealing to an etherbase the node no longer reports.
CONSTANTS
    Addrs <- MCAddrs
    Zero = "zero"
    WalletAccount = "a1"
    Configs <- MCConfigs
    ValidSyncModes = {"full", "fast", "light"}
    BlockChainVersion = 6
    ServerMaxPeers = {25, 50}
    Clients = {c1, c2}
    MaxCalls = 4
SPECIFICATION Spec
CHECK_DEADLOCK FALSE
INVARIANT MinerCoinbaseCurrent
