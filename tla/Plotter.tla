------------------------------ MODULE Plotter ------------------------------
(***************************************************************************)
(* The plot writer of src/cmd/plot/main.go (function loop).                *)
(*                                                                         *)
(* threadCount worker goroutines each own the files i with                 *)
(* i % threadCount = w.  For each file a worker preallocates it            *)
(* (createFile), opens it, computes its cells batch by batch (onceHandle   *)
(* nonces per batch) and sends every batch on the bounded channel chw to   *)
(* the single writer, which is the main goroutine.  The last batch of a    *)
(* file carries the Close flag.  A worker that has handled all its files   *)
(* sends 1 on chp; the main goroutine returns once it has received         *)
(* threadCount of them.                                                    *)
(*                                                                         *)
(* Data is abstracted to nonces: a batch carries the nonces of its cells,  *)
(* and a file slot holds the nonce whose scoops were written there (or     *)
(* Zero, the preallocated bytes).  The 4096 scoops of a batch are all      *)
(* written at the same nonce offset of their scoop region, so one slot     *)
(* stands for the nonce's 64 bytes in every scoop region.                  *)
(***************************************************************************)
EXTENDS Naturals, Sequences, FiniteSets, PlotNames

CONSTANTS
    threadCount,   \* number of worker goroutines (2 * NumCPU in the code)
    Flags,         \* the --singSize / --size pairs given, in bytes
    onceHandle,    \* nonces per batch (400 in the code)
    writeCount,    \* capacity of the channel chw (100 in the code)
    StartNonce,    \* param.StartNonce
    MaxIOErrors,   \* bound on createFile / OpenFile failures in a run
    Zero           \* content of a preallocated, not yet written slot

(* A --singSize of 0 bytes makes parseParam divide by zero and panic    *)
(* before any file is written; it is not among the flags checked.       *)
ASSUME /\ threadCount \in Nat \ {0} /\ CellSize \in Nat \ {0}
       /\ Flags \subseteq [singSize : Nat \ {0}, size : Nat]
       /\ onceHandle \in Nat \ {0} /\ writeCount \in Nat \ {0}
       /\ StartNonce \in Nat /\ MaxIOErrors \in Nat

VARIABLES
    SingCount,     \* param.SingCount: nonces per file
    Count,         \* param.Count: number of plot files
    pc,            \* pc[w]: "open", "batch", "report", "done" or "failed"
    cur,           \* cur[w]: the file index i the worker is at
    j,             \* j[w]: batch index within the current file
    currentNonce,  \* currentNonce[w]: next nonce whose cell is computed
    chw,           \* the channel chw: a sequence of batches
    chp,           \* number of completion signals buffered in chp
    complete,      \* completion signals the main goroutine has received
    mainDone,      \* the main goroutine has left its select loop
    created,       \* files preallocated by createFile
    disk,          \* disk[f][s]: the nonce stored at slot s of file f
    closed,        \* files closed by the writer
    reported,      \* files for which an "ok" progress line was printed
    ioErrors       \* failures of createFile / OpenFile so far

Workers == 0 .. threadCount - 1
Files   == 0 .. Count - 1
Slots   == 0 .. SingCount - 1

params == <<SingCount, Count>>

vars == <<params, pc, cur, j, currentNonce, chw, chp, complete, mainDone,
          created, disk, closed, reported, ioErrors>>

(* A send on chw proceeds only while the channel has room. *)
ChannelHasRoom == Len(chw) < writeCount

(* The first nonce of file i (currentNonce at the start of a file). *)
FileStart(i) == StartNonce + i * SingCount

(* Index of the batch after the last full one: SingCount / onceHandle. *)
LastBatch == SingCount \div onceHandle

(* once: the number of nonces of batch jf. *)
BatchSize(jf) == IF jf >= LastBatch THEN SingCount % onceHandle ELSE onceHandle

(* Fault: the loop runs while j < SingCount/onceHandle, without the +1. *)
MoreBatchesNoTail(jf) == jf + 1 < LastBatch

(* The batch loop goes on after batch jf: j < SingCount/onceHandle + 1. *)
MoreBatches(jf) == jf + 1 <= LastBatch

(* Fault: the marker is set one batch early. *)
BatchCloseEarly(jf) == jf + 1 >= LastBatch

(* closed: batch jf is the one that carries the close marker. *)
BatchClose(jf) == jf >= LastBatch

(* Fault: the offset uses the size of this batch instead of onceHandle. *)
IndexOnce(jf) == jf * BatchSize(jf)

(* The nonce offset at which batch jf is written in every scoop region:   *)
(* index = 64*SingCount*k + 64*jf*onceHandle, divided by 64.              *)
Index(jf) == jf * onceHandle

(* Fault: one signal too many is awaited. *)
AllWorkersDoneOffByOne(n) == n = threadCount + 1

(* The writer leaves the loop once it has seen every worker's signal. *)
AllWorkersDone(n) == n = threadCount

Batch == [file : Files, index : Nat, nonces : Seq(Nat), close : BOOLEAN]

-----------------------------------------------------------------------------
Init ==
    /\ \E fl \in Flags : /\ SingCount = ParseParam(fl).singCount
                         /\ Count = ParseParam(fl).count
    /\ pc = [w \in Workers |-> "open"]
    /\ cur = [w \in Workers |-> w]
    /\ j = [w \in Workers |-> 0]
    /\ currentNonce = [w \in Workers |-> 0]
    /\ chw = <<>>
    /\ chp = 0
    /\ complete = 0
    /\ mainDone = FALSE
    /\ created = {}
    /\ disk = [f \in Files |-> [s \in Slots |-> Zero]]
    /\ closed = {}
    /\ reported = {}
    /\ ioErrors = 0

(* Worker w starts its file cur[w]: createFile writes zeros over the whole *)
(* file, OpenFile opens it; the batch loop starts at j = 0.               *)
OpenFile(w) ==
    LET i == cur[w] IN
    /\ pc[w] = "open"
    /\ i < Count
    /\ created' = created \cup {i}
    /\ disk' = [disk EXCEPT ![i] = [s \in Slots |-> Zero]]
    /\ currentNonce' = [currentNonce EXCEPT ![w] = FileStart(i)]
    /\ j' = [j EXCEPT ![w] = 0]
    /\ pc' = [pc EXCEPT ![w] = "batch"]
    /\ UNCHANGED <<params, cur, chw, chp, complete, mainDone, closed, reported, ioErrors>>

(* createFile or OpenFile returns an error: the goroutine returns err,    *)
(* without sending on chp.                                                 *)
IOError(w) ==
    /\ pc[w] = "open"
    /\ cur[w] < Count
    /\ ioErrors < MaxIOErrors
    /\ ioErrors' = ioErrors + 1
    /\ pc' = [pc EXCEPT ![w] = "failed"]
    /\ UNCHANGED <<params, cur, j, currentNonce, chw, chp, complete, mainDone,
                   created, disk, closed, reported>>

(* Batch j[w] is empty (SingCount % onceHandle = 0): break out of the     *)
(* batch loop without sending anything.                                    *)
EmptyBatch(w) ==
    /\ pc[w] = "batch"
    /\ BatchSize(j[w]) = 0
    /\ pc' = [pc EXCEPT ![w] = "report"]
    /\ UNCHANGED <<params, cur, j, currentNonce, chw, chp, complete, mainDone,
                   created, disk, closed, reported, ioErrors>>

(* Compute the cells of batch j[w] and send them on chw (blocking while   *)
(* the channel is full).  The loop runs while j < SingCount/onceHandle+1. *)
SendBatch(w) ==
    LET once == BatchSize(j[w]) IN
    /\ pc[w] = "batch"
    /\ once > 0
    /\ ChannelHasRoom
    /\ chw' = Append(chw, [file   |-> cur[w],
                           index  |-> Index(j[w]),
                           nonces |-> [q \in 1 .. once |-> currentNonce[w] + q - 1],
                           close  |-> BatchClose(j[w])])
    /\ currentNonce' = [currentNonce EXCEPT ![w] = @ + once]
    /\ j' = [j EXCEPT ![w] = @ + 1]
    /\ pc' = [pc EXCEPT ![w] = IF MoreBatches(j[w]) THEN "batch" ELSE "report"]
    /\ UNCHANGED <<params, cur, chp, complete, mainDone, created, disk, closed,
                   reported, ioErrors>>

(* Print the "ok" progress line of the file and go on to the worker's next *)
(* file (the next i with i % threadCount = w).                             *)
Report(w) ==
    /\ pc[w] = "report"
    /\ reported' = reported \cup {cur[w]}
    /\ cur' = [cur EXCEPT ![w] = @ + threadCount]
    /\ pc' = [pc EXCEPT ![w] = "open"]
    /\ UNCHANGED <<params, j, currentNonce, chw, chp, complete, mainDone, created,
                   disk, closed, ioErrors>>

(* The worker has no file left: chp <- 1 (chp never fills: its capacity   *)
(* is threadCount).                                                        *)
FinishWorker(w) ==
    /\ pc[w] = "open"
    /\ cur[w] >= Count
    /\ chp' = chp + 1
    /\ pc' = [pc EXCEPT ![w] = "done"]
    /\ UNCHANGED <<params, cur, j, currentNonce, chw, complete, mainDone, created,
                   disk, closed, reported, ioErrors>>

(* The main goroutine's select takes a completion signal. *)
RecvDone ==
    /\ ~mainDone
    /\ chp > 0
    /\ chp' = chp - 1
    /\ complete' = complete + 1
    /\ mainDone' = AllWorkersDone(complete + 1)
    /\ UNCHANGED <<params, pc, cur, j, currentNonce, chw, created, disk, closed,
                   reported, ioErrors>>

(* The content of file f after WriteAt of batch b (a WriteAt on a closed  *)
(* file fails and its error is ignored).                                   *)
WriteAt(f, b) ==
    IF f \in closed THEN disk[f]
    ELSE [s \in Slots |-> IF s - b.index \in 0 .. Len(b.nonces) - 1
                          THEN b.nonces[s - b.index + 1]
                          ELSE disk[f][s]]

(* The main goroutine's select takes a batch: WriteAt of every scoop      *)
(* buffer, then Close if the batch carries the marker.                     *)
RecvWrite ==
    LET b == Head(chw) IN
    /\ ~mainDone
    /\ chw # <<>>
    /\ chw' = Tail(chw)
    /\ disk' = [disk EXCEPT ![b.file] = WriteAt(b.file, b)]
    /\ closed' = IF b.close THEN closed \cup {b.file} ELSE closed
    /\ UNCHANGED <<params, pc, cur, j, currentNonce, chp, complete, mainDone,
                   created, reported, ioErrors>>

Next ==
    \/ \E w \in Workers :
          \/ OpenFile(w) \/ IOError(w) \/ EmptyBatch(w) \/ SendBatch(w)
          \/ Report(w) \/ FinishWorker(w)
    \/ RecvDone
    \/ RecvWrite

(* Go schedules every runnable goroutine, and select picks uniformly among *)
(* its ready cases, so every action is weakly fair.                        *)
Fairness ==
    /\ \A w \in Workers : WF_vars(OpenFile(w) \/ EmptyBatch(w) \/ SendBatch(w)
                                  \/ Report(w) \/ FinishWorker(w))
    /\ WF_vars(RecvDone)
    /\ WF_vars(RecvWrite)

Spec == Init /\ [][Next]_vars /\ Fairness

-----------------------------------------------------------------------------
(* File f holds, at every slot s, the scoops of nonce FileStart(f) + s. *)
Complete(f) == \A s \in Slots : disk[f][s] = FileStart(f) + s

(* Plot layout: whatever interleaving of workers and writer, a slot of a  *)
(* plot file only ever holds zeros or the scoops of the nonce the miner   *)
(* derives from the file name and the slot (startNonce + index in mine).  *)
PlotLayout ==
    \A f \in Files, s \in Slots : disk[f][s] \in {Zero, FileStart(f) + s}

(* The writer closes a file only once it has written all of it: the      *)
(* close marker rides on the last batch of the file, and the batches of   *)
(* one file reach the writer in the order its worker sent them, however   *)
(* they interleave with other files' batches.                             *)
ClosedOnlyWhenComplete ==
    \A f \in closed : Complete(f)

(* Slot s of file f is in a batch still queued in chw, with its nonce. *)
Queued(f, s) ==
    \E k \in 1 .. Len(chw) :
        /\ chw[k].file = f
        /\ s - chw[k].index \in 0 .. Len(chw[k].nonces) - 1
        /\ chw[k].nonces[s - chw[k].index + 1] = FileStart(f) + s

(* When a worker prints "ok" for a file, every nonce of the file has been *)
(* handed to the writer: each slot holds its nonce's scoops or is queued  *)
(* in chw to receive them.  The batch loop must cover the partial last    *)
(* batch and may skip only an empty one (SingCount a multiple of          *)
(* onceHandle), while the writer drains other workers' batches.           *)
ReportedFileCovered ==
    \A f \in reported, s \in Slots : disk[f][s] = FileStart(f) + s \/ Queued(f, s)

(* When the main goroutine returns (and the process exits), every file    *)
(* for which an "ok" progress line was printed is completely written.     *)
ExitOnlyWhenWritten ==
    mainDone => \A f \in reported : Complete(f)

(* The plot command terminates: the main goroutine leaves its loop. *)
Termination == <>mainDone

(* In a run where createFile and OpenFile never fail, the plot command    *)
(* terminates: every worker signals chp and the writer counts them all.   *)
TerminationWithoutErrors == [](ioErrors = 0) => <>mainDone
=============================================================================
