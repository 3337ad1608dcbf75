--------------------------- MODULE VerifyHeaders ---------------------------
(* The concurrent header verifier Dnpoc.VerifyHeaders of                  *)
(* src/consensus/xdnoc/dnpoc.go: a dispatcher goroutine hands header      *)
(* indices to min(GOMAXPROCS, len(headers)) worker goroutines over the    *)
(* unbuffered channel inputs; workers store verifyHeaderWorker's verdict  *)
(* in errors[index] and report the index on done (capacity workers); the  *)
(* dispatcher marks it checked and forwards the verdicts of the longest   *)
(* checked prefix, in header order, on errorsOut (capacity len(headers)). *)
(* The caller may close abort at any time.                                *)
(*                                                                        *)
(* The verdict of header i is fixed for the call and abstracted to a     *)
(* member of Verdicts, chosen in the initial state.                      *)
EXTENDS Naturals, Sequences

CONSTANTS
    N,          \* len(headers), at least 1
    Procs,      \* runtime.GOMAXPROCS(0)
    Verdicts,   \* the outcomes of verifyHeaderWorker
    CanAbort    \* whether the caller may close abort

ASSUME N \in Nat \ {0} /\ Procs \in Nat \ {0} /\ CanAbort \in BOOLEAN

(* workers = min(GOMAXPROCS, len(headers)). *)
NumWorkers == IF N < Procs THEN N ELSE Procs

Workers == 1 .. NumWorkers
Indices == 0 .. N - 1

VARIABLES
    verdict,     \* verdict[i]: what verifyHeaderWorker returns for header i
    in,          \* the dispatcher's next index to send
    out,         \* the dispatcher's next index to forward
    inputsNil,   \* the dispatcher has set its inputs to nil
    dispDone,    \* the dispatcher returned, so inputs is closed
    checked,     \* checked[i]: the dispatcher has received i on done
    errors,      \* errors[i]: the verdict stored by a worker, or "none"
    done,        \* the channel done: a sequence of indices
    errorsOut,   \* the channel errorsOut: verdicts sent so far, in order
    wpc,         \* wpc[w]: "idle", "busy" or "exited"
    widx,        \* widx[w]: the index worker w is verifying
    aborted      \* the caller has closed abort

vars == <<verdict, in, out, inputsNil, dispDone, checked, errors, done,
          errorsOut, wpc, widx, aborted>>

(* Fault: inputs is set to nil one index early. *)
NoMoreInputsEarly(i) == i = N - 1

(* `if in++; in == len(headers)`: the last index has been sent. *)
NoMoreInputs(i) == i = N

Init ==
    /\ verdict \in [Indices -> Verdicts]
    /\ in = 0 /\ out = 0
    /\ inputsNil = FALSE /\ dispDone = FALSE
    /\ checked = [i \in Indices |-> FALSE]
    /\ errors = [i \in Indices |-> "none"]
    /\ done = <<>>
    /\ errorsOut = <<>>
    /\ wpc = [w \in Workers |-> "idle"]
    /\ widx = [w \in Workers |-> 0]
    /\ aborted = FALSE

(* case inputs <- in: the send meets worker w's range receive. *)
Dispatch(w) ==
    /\ ~dispDone /\ ~inputsNil
    /\ wpc[w] = "idle"
    /\ wpc' = [wpc EXCEPT ![w] = "busy"]
    /\ widx' = [widx EXCEPT ![w] = in]
    /\ in' = in + 1
    /\ inputsNil' = NoMoreInputs(in + 1)
    /\ UNCHANGED <<verdict, out, dispDone, checked, errors, done, errorsOut, aborted>>

(* Worker w stores its verdict and sends its index on done (blocking      *)
(* while done is full).                                                   *)
Verify(w) ==
    /\ wpc[w] = "busy"
    /\ Len(done) < NumWorkers
    /\ errors' = [errors EXCEPT ![widx[w]] = verdict[widx[w]]]
    /\ done' = Append(done, widx[w])
    /\ wpc' = [wpc EXCEPT ![w] = "idle"]
    /\ UNCHANGED <<verdict, in, out, inputsNil, dispDone, checked, errorsOut, widx, aborted>>

(* The first index at or after o that is not checked (N when none is). *)
RECURSIVE FirstUnchecked(_, _)
FirstUnchecked(o, chk) ==
    IF o = N THEN N ELSE IF chk[o] THEN FirstUnchecked(o + 1, chk) ELSE o

(* Fault: each verdict is forwarded as its index arrives on done. *)
CollectUnordered ==
    LET index == Head(done) IN
    /\ ~dispDone
    /\ done # <<>>
    /\ done' = Tail(done)
    /\ checked' = [checked EXCEPT ![index] = TRUE]
    /\ errorsOut' = Append(errorsOut, errors[index])
    /\ out' = out + 1
    /\ dispDone' = (out + 1 = N)
    /\ UNCHANGED <<verdict, in, inputsNil, errors, wpc, widx, aborted>>

(* case index := <-done: mark it checked, then send errors[out] for every *)
(* checked out in a row; after the last header the dispatcher returns.    *)
Collect ==
    LET index == Head(done)
        chk   == [checked EXCEPT ![index] = TRUE]
        next  == FirstUnchecked(out, chk)
    IN
    /\ ~dispDone
    /\ done # <<>>
    /\ done' = Tail(done)
    /\ checked' = chk
    /\ errorsOut' = errorsOut \o [k \in 1 .. next - out |-> errors[out + k - 1]]
    /\ out' = IF next = N THEN N - 1 ELSE next
    /\ dispDone' = (next = N)
    /\ UNCHANGED <<verdict, in, inputsNil, errors, wpc, widx, aborted>>

(* The caller closes abort. *)
Abort ==
    /\ CanAbort /\ ~aborted
    /\ aborted' = TRUE
    /\ UNCHANGED <<verdict, in, out, inputsNil, dispDone, checked, errors, done,
                   errorsOut, wpc, widx>>

(* case <-abort: the dispatcher returns. *)
DispatcherAbort ==
    /\ ~dispDone /\ aborted
    /\ dispDone' = TRUE
    /\ UNCHANGED <<verdict, in, out, inputsNil, checked, errors, done,
                   errorsOut, wpc, widx, aborted>>

(* inputs is closed: worker w's range loop ends. *)
WorkerExit(w) ==
    /\ wpc[w] = "idle" /\ dispDone
    /\ wpc' = [wpc EXCEPT ![w] = "exited"]
    /\ UNCHANGED <<verdict, in, out, inputsNil, dispDone, checked, errors, done,
                   errorsOut, widx, aborted>>

Next ==
    \/ \E w \in Workers : Dispatch(w) \/ Verify(w) \/ WorkerExit(w)
    \/ Collect \/ Abort \/ DispatcherAbort

(* Every goroutine runs; the dispatcher's select takes each ready case    *)
(* with positive probability.  Closing abort is the caller's choice.      *)
Fairness ==
    /\ \A w \in Workers : WF_vars(Dispatch(w)) /\ WF_vars(Verify(w)) /\ WF_vars(WorkerExit(w))
    /\ WF_vars(Collect) /\ WF_vars(DispatcherAbort)

Spec == Init /\ [][Next]_vars /\ Fairness

-----------------------------------------------------------------------------
TypeOK ==
    /\ in \in 0 .. N /\ out \in 0 .. N - 1
    /\ checked \in [Indices -> BOOLEAN]
    /\ errors \in [Indices -> Verdicts \cup {"none"}]
    /\ done \in Seq(Indices) /\ Len(done) <= NumWorkers
    /\ errorsOut \in Seq(Verdicts) /\ Len(errorsOut) <= N
    /\ wpc \in [Workers -> {"idle", "busy", "exited"}]

(* VerifyHeaders implements VerifierContract: seen through the verdicts  *)
(* on errorsOut and the abort flag, every step of the dispatcher and the  *)
(* workers either delivers a longer in-order prefix or changes nothing    *)
(* the caller sees, and until abort the prefix grows to all N headers.    *)
Contract == INSTANCE VerifierContract
    WITH verdict <- verdict, errorsOut <- errorsOut, aborted <- aborted,
         N <- N, Verdicts <- Verdicts, CanAbort <- CanAbort

VerifierRefinement == Contract!Spec

(* Every worker goroutine eventually returns, aborted call or not. *)
WorkersTerminate == <>(\A w \in Workers : wpc[w] = "exited")
=============================================================================
