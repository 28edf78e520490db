----------------------------- MODULE ProcessRun -----------------------------
(***************************************************************************)
(* What runVerificationProcess promises the worker that awaits it: it      *)
(* settles once, a signal that is aborted beforehand keeps the child from  *)
(* being spawned, and a signal aborted while the run has not settled keeps *)
(* the run from reporting that the child came to its own end.              *)
(* VerificationProcess is shown to implement it, and PackedWorker runs its *)
(* processes by it.                                                        *)
(***************************************************************************)
VARIABLES
    aborted,    \* the signal is aborted
    spawned,    \* a child has been asked for
    outcome     \* what the promise resolved with, "pending" before

vars == <<aborted, spawned, outcome>>

\* How a child ends by itself, and how a run ends that did not let it.
OwnEnd == {"exitedZero", "exitedNonzero", "signalled", "startFailed"}
Forced == {"timeout", "cancelled", "stdoutLimit", "stderrLimit"}
Outcomes == OwnEnd \cup Forced

Init ==
    /\ aborted \in BOOLEAN
    /\ spawned = FALSE
    /\ outcome = "pending"

Abort ==
    /\ aborted' = TRUE
    /\ UNCHANGED <<spawned, outcome>>

Spawn ==
    /\ ~aborted
    /\ ~spawned /\ outcome = "pending"
    /\ spawned' = TRUE
    /\ UNCHANGED <<aborted, outcome>>

\* The outcomes a run may settle with: all but cancelled before the signal
\* is aborted, none of the child's own afterwards.
Possible(isAborted, isSpawned) ==
    IF ~isSpawned THEN (IF isAborted THEN {"cancelled"} ELSE {"startFailed"})
    ELSE IF isAborted THEN Forced
    ELSE Outcomes \ {"cancelled"}

Settle ==
    /\ outcome = "pending"
    /\ outcome' \in Possible(aborted, spawned)
    /\ UNCHANGED <<aborted, spawned>>

Next == Abort \/ Spawn \/ Settle

Spec == Init /\ [][Next]_vars
=============================================================================
