-------------------------- MODULE VerifierContract --------------------------
(* What Dnpoc.VerifyHeaders of src/consensus/xdnoc/dnpoc.go promises its  *)
(* caller, with the goroutines left out: the results channel carries the  *)
(* verdict of header 0, then of header 1, and so on; each step of the     *)
(* verifier makes the delivered prefix longer, and the caller may close   *)
(* abort at any time.  Unless it does, all N verdicts arrive.             *)
EXTENDS Naturals, Sequences

CONSTANTS N, Verdicts, CanAbort

Indices == 0 .. N - 1

VARIABLES
    verdict,    \* verdict[i]: the verdict of header i
    errorsOut,  \* the verdicts received so far, in order
    aborted     \* the caller has closed abort

cvars == <<verdict, errorsOut, aborted>>

(* The verdicts of headers 0 .. k-1, in order. *)
Prefix(k) == [j \in 1 .. k |-> verdict[j - 1]]

Init ==
    /\ verdict \in [Indices -> Verdicts]
    /\ errorsOut = <<>>
    /\ aborted = FALSE

(* One or more further verdicts arrive, in header order. *)
Deliver ==
    /\ \E k \in Len(errorsOut) + 1 .. N : errorsOut' = Prefix(k)
    /\ UNCHANGED <<verdict, aborted>>

(* The caller closes abort. *)
Abort ==
    /\ CanAbort /\ ~aborted
    /\ aborted' = TRUE
    /\ UNCHANGED <<verdict, errorsOut>>

Next == Deliver \/ Abort

(* Until abort is closed, delivery goes on. *)
Spec == Init /\ [][Next]_cvars /\ WF_cvars(~aborted /\ Deliver)
=============================================================================
