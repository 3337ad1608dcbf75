----------------------------- MODULE MC_DnpNode -----------------------------
(* DnpNode for TLC: two addresses besides the zero one, a wallet whose    *)
(* first account is a1, and configs New accepts (with and without an      *)
(* etherbase, with and without a light server) and refuses (light sync,   *)
(* an invalid mode, another chain version).                               *)
EXTENDS DnpNode

MCAddrs == {"a1", "a2"}

MCConfig(mode, bcv, eb, lserv) ==
    [syncMode |-> mode, bcVersion |-> bcv, skipBcVersionCheck |-> FALSE,
     etherbase |-> eb, lightServ |-> lserv, lightPeers |-> 20]

MCConfigs ==
    { MCConfig("fast", 0, "zero", 0),
      MCConfig("full", 6, "a2", 50),
      MCConfig("light", 6, "a2", 0),
      MCConfig("snap", 6, "a2", 0),
      MCConfig("fast", 5, "a2", 0) }
=============================================================================
