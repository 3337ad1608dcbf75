# TLA+ models of go-xdn's proof-of-capacity engine

This directory holds TLA+ models of the proof-of-capacity (PoC) parts of
go-xdn, the TLC configurations that check them, and `PROJECT.json`, which maps
every model definition to the source lines it translates and lists the runs,
mutants, findings and hazards.

## The system

| Part | Source | What it does |
|---|---|---|
| Cell construction | `src/poc/poc.go` `GenCell`, `GenCellForP`, `rearrange` | A nonce's cell is 8192 Shabal-256 hashes. Each hash covers the next 128 hashes, or the tail of the cell plus the seed. Then everything is XORed with a final hash. The verifier's `GenCell` also rearranges the cell. |
| Primitives | `src/poc/poc.go` `GetScoopID`, `CalcPlotID`, `CalcDeadLine`, `GenHash`, `CalcTarget` | Chooses the scoop, derives the plot id from an address, and computes the deadline as target / baseTarget. |
| Plotter | `src/cmd/plot/main.go` `loop` | `2*NumCPU` worker goroutines compute cells and send batches on the bounded channel `chw` (capacity 100). The main goroutine is the only writer: it does `WriteAt` for each batch and closes the file when a batch carries the marker. Each worker sends on `chp` when it is done. |
| Miner | `src/consensus/xdnoc/dnpoc.go` `Seal`, `mine` | `Seal` computes the base target and starts `mine`, then waits on `stop` or `found`. `mine` scans the plot files, keeps the minimum deadline among authorised nonces, and emits once that deadline has elapsed since `LastTime`. The emission races `abort`. |
| Verifier | `dnpoc.go` `VerifyHeader`, `verifyHeader`, `VerifySeal` | Checks the timestamp against the parent and the block number. Then it recomputes the deadline from the header's fields and checks that `deadline + LastTime < Time`. |
| Base-target controller | `dnpoc.go` `calcBaseTarget` | Averages the last 4 blocks, computes a candidate and clamps it to [0.9, 1.1] of the mean. |
| Batch verifier | `dnpoc.go` `VerifyHeaders` | A dispatcher sends indices to workers over an unbuffered channel. Workers report on `done`. The dispatcher forwards verdicts in header order and stops when `abort` is closed. |
| Uncles and rewards | `dnpoc.go` `VerifyUncles`, `Finalize`, `PocRewards` | At most two uncles per block. Each must be new within the last seven ancestors and hang off one of them, but not be a sibling. Finalize pays the author 7.5 block rewards plus 1/32 per uncle, and each uncle (uncle.Number + 8 − Number)/8. |
| Plot command line | `src/cmd/plot/main.go` `parseParam` | SingCount = singSize / 256KB and Count = size / singSize. |
| Block-listing RPC | `src/xdn/api_backend.go`, `src/les/api_backend.go` `GetPocBlocks` | Paginates the chain newest first, in uint64 arithmetic. The light client returns nil. |
| Full node service | `src/xdn/backend.go` `New`, `Start`, `Stop`, `Dnperbase`, `SetDnperbase`, `StartMining`, `StopMining` | Creates the node from its config, starts and stops the protocol manager and the miner, and serves the admin calls that set the etherbase and start and stop mining. `StartMining` starts the miner in a goroutine it does not wait for. |
| les, metrics, key tool, other RPC | `src/les`, `src/internal`, `src/cmd/priv`, `src/xdn/api_backend.go` | Wiring of go-ethereum services and RPC delegation. |

How the parts interact: the plotter writes files that the miner reads. The
miner seals blocks, and each node's verifier accepts them or not. Miner and
verifier must agree on the cell, the scoop, the base target and the deadline
test.

## Modules and how they correspond to the code

- **PocCell** models `GenCell`, `GenCellForP` and `rearrange`. Loops become
  RECURSIVE operators (`GenCellLoop`, `ForPLoop`). Shabal is a free
  constructor (`Hash(s) == <<"shabal", s>>`), so two cells are equal exactly
  when they were built from the same inputs in the same way. Cell size and
  window are parameters. The state machine plots one nonce and then lets the
  miner and the verifier each read a scoop.
- **PocPrimitives** models `GetScoopID` (8-bit shift, then `| b31`, `% 4096`)
  at the byte level, over hashes that differ in the two bytes it reads. It
  compares it with the spec's `scoop_id`.
- **PlotNames** is what a plotter run leaves for the miner. `ParseParam` is
  `parseParam`'s two divisions. `MakeName` is `makeName`, as the triple of
  numbers that `mine` parses back out of the name. `PlotNames(plotID,
  start, flags)` is the set of names `loop` creates. Two files with the same
  name are one file, because `os.Create` reopens it. Plotter extends
  PlotNames. MC_Dnpoc instantiates it with the plotter's 2-byte cell and
  builds the miner's `PlotFiles` from plotter runs, sorted by name as
  `ioutil.ReadDir` returns them. This is where the two components are
  composed.
- **Plotter** models `loop`. There is one action per step of a worker:
  `OpenFile`, `IOError`, `EmptyBatch` (the `once == 0` break), `SendBatch`
  (blocks while `chw` is full), `Report` and `FinishWorker`. The writer has
  `RecvDone` and `RecvWrite`. Data is abstracted to the nonce stored at each
  slot. `SingCount` and `Count` are variables fixed in `Init` by
  `ParseParam` from one of the flag pairs `Flags`.
- **Dnpoc** models `Seal`, `mine`, `VerifyHeader` and `calcBaseTarget` on a
  chain that grows by locally sealed blocks:
  - `StartSeal` is `Seal` up to `go mine`.
  - `MineStart`, `MineOpenFile`, `MineNonce`, `MineScanDone` and
    `MineWaitEmit` are the iterations of `mine`. `MineAborted` is the `abort`
    case of each loop.
  - `Deliver` and `SealStopped` are the two cases of `Seal`'s select.
  - `StopSeal`, `Import` and `Tick` are the environment: the miner worker
    closing `stop`, the chain inserting the block after `VerifyHeader`, and
    the clock.
  - `Target(nonce, number)` stands for `CalcTarget` over the selected scoop
    (PocCell shows that the scoop matches).
- **DnpocAdversary** extends Dnpoc with blocks sealed by peers. A peer
  chooses its header's `LastTime`, and its `BaseTarget` from the controller's
  value and `PeerBaseTargets`.
- **VerifyHeaders** models the dispatcher (`Dispatch`, `Collect`,
  `DispatcherAbort`), the workers (`Verify`, `WorkerExit`) and the caller's
  `Abort`.
- **VerifierContract** is the abstract specification of `VerifyHeaders`, as
  its caller sees it. The results channel holds a growing prefix of the
  verdicts in header order (`Deliver`), and the caller may `Abort`. Unless
  it does, all verdicts arrive. VerifyHeaders instantiates it as `Contract`
  (`INSTANCE VerifierContract WITH ...`) and checks `Contract!Spec` as the
  property `VerifierRefinement`. The mapping is the identity on `verdict`,
  `errorsOut` and `aborted`, and the dispatcher's and workers' variables are
  hidden. A `Collect` that forwards nothing is a stutter step of the
  contract.
- **Uncles** models `VerifyUncles`, `Finalize` and `PocRewards` on a tree of
  known blocks. `InsertBlock(p, us)` is the chain inserting a block on parent
  `p` with uncle list `us`. It happens only when `VerifyUncles` accepts the
  block, and the block's state records the credits `PocRewards` makes. The
  seven-ancestor walk is the RECURSIVE `AncestorsFrom`, and the loop over
  uncles is `CheckUncles`, which returns the first error. `blockReward` is
  scaled to 32.
- **PocBlocksRPC** models `GetPocBlocks` of the full node as the RECURSIVE
  `Scan`. It keeps the code's loop test, and all arithmetic wraps at
  `2^Width`. A fuel argument of `2^Width` iterations detects a loop that
  never ends. The light client's `GetPocBlocks` is `LesGetPocBlocks`.
  `PageRef` is the spec's page in unbounded integers.

- **DnpNode** models the full node service of `src/xdn/backend.go`. `New`
  refuses the configs the code refuses (`ConfigRefused`) and may also fail
  later (database, genesis, chain). `Start` sets the peer limit
  (`MaxPeersFor`), and `Stop` stops the miner. The admin calls are actions
  of a client: `SetDnperbaseLocked` is the write of `s.xdnerbase` under
  `s.lock`, and `SetDnperbaseMiner` is the `miner.SetDnperbase` call after
  the unlock. `StartMining` reads the etherbase (`Dnperbase`) and adds it to
  the bag `starts` of spawned `go s.miner.Start(eb)` goroutines. Each one
  runs later as `MinerStart`. The miner package is outside the repository,
  so only the coinbase and mining flag these calls set are modelled.

`MC_*` modules give the constants. Definitions named `...OffByOne`, `...Late`,
`...Stale` and the like are the faults used as mutants (see `PROJECT.json`).

## Runs

| Run | Checks | Result |
|---|---|---|
| plotter_pass | ReportedFileCovered, PlotLayout, ClosedOnlyWhenComplete, TerminationWithoutErrors | pass, for files of 3, 4 (empty last batch) and 5 nonces |
| plotter_exit | ExitOnlyWhenWritten | violated: the writer exits with batches still buffered in `chw` (main.go:237) |
| plotter_hang | Termination | violated: an I/O error in a worker hangs the writer (main.go:164) |
| poccell_pass | RoundTrip, CellMatchesReference | pass: plotter and verifier agree on every scoop, and the cell matches the spec's definition |
| primitives_spec | ScoopMatchesSpec | violated: GetScoopID selects only scoops 0..255 (poc.go:169) |
| dnpoc_pass | TypeOK, HonestSealAccepted, ChainDeadlinesElapsed, SealTerminates | pass |
| dnpoc_lasttime | ChainDeadlinesElapsed | violated: the verifier trusts the header's LastTime (dnpoc.go:288) and BaseTarget (dnpoc.go:260) |
| dnpoc_zerofile | SealTerminates | violated: a plotter run given `--singSize` below one cell (main.go:84) names its files pid_start_0, and mine spins forever on that name (dnpoc.go:419) |
| verifyheaders_pass | TypeOK, VerifierRefinement | pass: VerifyHeaders implements VerifierContract |
| verifyheaders_leak | WorkersTerminate | violated: after `abort`, a worker blocks forever on a full `done` (dnpoc.go:92) |
| uncles_pass | UncleRewardedOnce, UncleRewardPositive | pass: an uncle is paid at most once along any chain, never when it is an ancestor, and always a positive amount |
| node_coinbase | MinerCoinbaseCurrent | violated: a `StartMining` goroutine that runs after a later `SetDnperbase` makes the miner seal to the old etherbase while the node reports the new one (backend.go:345) |

`ChainDeadlinesElapsed` recomputes each block's deadline from its nonce and
the base target `calcBaseTarget` gives for its height. It does not read the
header's `DeadLine`, `BaseTarget` or `LastTime`. TLC's shortest
counterexample in dnpoc_lasttime forges `LastTime`. With `LastTime` pinned to
the parent's time, it finds one that forges `BaseTarget`.

The same scoop restriction shows that a miner keeping only scoops 0..255 of
each plot (1/16 of the disk) finds the same deadlines as one keeping all of
it. The spec's vector S2 expects scoop 4095 for the bytes 0x0F 0xFF.

The results of VerifyHeaders arriving in header order follows from
`VerifierRefinement`: the contract's `Deliver` appends only the next index.

In node_coinbase, TLC's trace is: `New` creates the node with etherbase a2,
and it starts. `StartMining` reads a2 and spawns `miner.Start(a2)`. Then
`SetDnperbase(a1)` runs both of its steps, and the goroutine runs last: the
miner mines to a2 while `Dnperbase` reports a1. `MinerCoinbaseCurrent` is checked only
in quiescent states, where no call is half done and no goroutine is pending.
So the race it shows is visible after everyone has returned. The same model
also shows `StopMining` or `Stop` being undone by a pending goroutine. That
is listed as a hazard, because a violation run checks one property.

`PocBlocksRPC_wrap.cfg` still reproduces the uint64 wrap of `GetPocBlocks`
(the invariant `PageMatchesSpec`). It is not one of the listed runs. The
wrap needs page × count or count products past 2^64, which RPC callers
rarely send.

On the empty last batch: when `SingCount` is a multiple of 400, no
batch carries the close marker, so complete files are never closed
explicitly. The process exit closes them. `ClosedOnlyWhenComplete` checks
the closes that happen. `ReportedFileCovered` checks that the skipped batch is
the only one skipped: when a worker prints "ok" for a file, each of its slots
is written or still queued in `chw` with its own nonce. The plotter has no
type invariant in its run. Its only non-type conjunct, the bound on `chw`,
is the channel's capacity, which the Go runtime enforces.

## Bounds and why they are enough

- **Plotter**: 3 workers, 4 files, batches of 2, `chw` capacity 2, and a
  cell of 2 bytes. The flag pairs give 3 nonces per file (a full and a
  partial batch), 4 (an empty last batch, which drops the close marker) or 5
  (two full batches). One worker owns two files, and three workers' batches
  interleave in the writer while the channel fills.
- **PocCell**: cell sizes 2..8 with windows 1..5. This covers windows smaller
  than, equal to and larger than the cell, which is every branch of both
  window tests.
- **Dnpoc**: the chain starts with genesis plus five honest blocks, so every
  block sealed in the model goes through the controller. The first one is
  clamped.
  - `MaxBlocks = 4` new blocks and `MaxStops = 2` stopped Seal calls.
  - The clock runs at most `TimeWindow = 5` s past the head, which exceeds
    the largest reachable deadline plus one, so every minimum deadline can
    elapse.
  - Base target 100, targets 0..300 and a 2-second target block time keep
    the integers small.
  - The plot directory is what plotter runs leave (`PlotNames`): plotter 7
    with two files of two nonces, one cut by the authorisation window and
    one fully authorised, and one file of another plotter, 9. The zero-file
    run adds a plotter run given `--singSize` below one cell.
- **VerifyHeaders**: 4 headers and 2 workers. This is enough for `done` to
  fill and for workers to finish out of order.
- **Uncles**: genesis and eight chain blocks, a side block at number 2 whose
  parent is just outside the next block's window, one at number 6 inside
  it, and three more insertions. This reaches the oldest admissible uncle,
  the first inadmissible one, an uncle offered again one block later, and
  new side blocks mined in the model. Uncle lists of up to two known blocks
  are offered, plus one list of three, which stands for all of them because
  the length is checked before any uncle is read.
- **PocBlocksRPC**: 5-bit words (modulus 32), heads 0, 3 and 6, pages −1 to
  3 and 9, counts 0, 1, 2, 4 and 29. This covers the first, middle and
  beyond-the-chain pages, a page below the genesis block, and both wraps.
  The 64-bit behaviour is the same once the products reach 2^64.
- **DnpNode**: two addresses, with the wallet account a1 as the fallback.
  Five configs: a valid one with no etherbase, a valid light server with
  etherbase a2, and three refused ones (light sync, an invalid mode, another
  chain version). Two clients, two server peer limits and `MaxCalls = 4`
  admin calls, which is enough for the StartMining / SetDnperbase race and
  for two crossing SetDnperbase calls.

## Fairness

Weak fairness is assumed for every goroutine step and for each case of a
`select`. Go runs every runnable goroutine, and `select` picks uniformly among
ready cases. Closing `stop` or `abort` and I/O errors are the environment's
choice and are never forced. `CHECK_DEADLOCK FALSE` is used only where the
program really stops: the plotter after `loop` returns, Dnpoc at the bound on
chain length, and VerifyHeaders after all goroutines return.

VerifierContract assumes weak fairness of `Deliver` only while abort is
open. VerifyHeaders' own fairness implies it: until abort, the dispatcher's
`Collect` keeps being enabled while a verdict is pending. Uncles and
PocBlocksRPC check safety only, and their specifications carry no fairness.
DnpNode checks safety only. Its admin calls stop at `MaxCalls`, and a node
stops for good after `Stop` or a failed `New`, so `CHECK_DEADLOCK FALSE` is
set. The uncles tree stops growing at `MaxBlocks`, which is the bound and not a
deadlock of the code, so `CHECK_DEADLOCK FALSE` is set there.

## Not modelled

- `CalcPlotID`'s bytes. It slices `addr.Bytes()[15:]`, and what that gives
  depends on `common.Address`, which is outside `src`. Dnpoc takes an
  address to be its plot identifier.
- Gas and extra-data checks, and `verifyHeader` of an uncle inside
  `VerifyUncles`. Its checks are those of Dnpoc, and blocks of the tree are
  taken as having passed them.
- The state root (`IntermediateRoot`), `Prepare` (sets Difficulty 1) and
  `Author`: they change nothing a property reads.
- The PLOT directory list and read errors in `mine`. The directory order is
  `ioutil.ReadDir`'s name order, modelled for names whose numbers have one
  digit.
- Flag parsing errors, `makeResult` and the `calc` subcommand: output
  formatting.
- The cost of a large `count` in `GetPocBlocks`. The loop always runs
  `count` times, which is a policy question rather than a safety property.
- The ApiBackend methods other than `GetPocBlocks`, `les.New` and the light
  client's backend, the `APIs` and `Protocols` lists of the full node,
  metrics and the key tool. They delegate to go-ethereum components outside
  `src` (blockchain, txpool, downloader, miner) or are pure I/O. Modelling
  them would mean modelling those components from nothing.
- Inside DnpNode, the database, genesis and chain setup of `New` are one
  nondeterministic failure, and the services `Stop` tears down other than
  the miner are left out.

## Plan for later sittings

1. A refinement of Dnpoc's chain onto an abstract "valid chain"
   specification.
2. The run budget is full (12 runs). The hazards listed without a property
   (the Stop race in backend.go, ignored WriteAt errors, New's failure
   paths leaving the database open) each need a violation run of their
   own. Adding one means retiring a run, as pocblocks_wrap was retired for
   node_coinbase.
