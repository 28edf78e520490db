------------------------- MODULE OperationLifecycle -------------------------
(***************************************************************************)
(* What the operation manager promises its callers: the life of an         *)
(* operation as start, operation.get and operation.cancel show it, without *)
(* ids, a Map, microtasks or promises.  An operation is visible while it   *)
(* is active and for as long as it is among the last MaxRetained           *)
(* operations that completed.  OperationManager is shown to implement it.  *)
(***************************************************************************)
EXTENDS Naturals, Sequences, FiniteSets

CONSTANTS MaxActive, MaxRetained, MaxStarts

VARIABLES
    state,      \* the life of each operation, by the order of acceptance
    requested,  \* cancellationRequested
    receipt,    \* the kind of result or diagnostic a terminal one carries
    retained,   \* the completed operations still visible, oldest first
    accepting   \* the host has not shut down

vars == <<state, requested, receipt, retained, accepting>>

Ops == 1..MaxStarts
Terminal == {"succeeded", "failed", "cancelled"}
Active(s) == {op \in Ops : s[op] \in {"queued", "running"}}

\* The last n members of a sequence.
LastOf(n, s) == IF Len(s) > n THEN SubSeq(s, Len(s) - n + 1, Len(s)) ELSE s

Init ==
    /\ state = [op \in Ops |-> "unborn"]
    /\ requested = [op \in Ops |-> FALSE]
    /\ receipt = [op \in Ops |-> "none"]
    /\ retained = <<>>
    /\ accepting = TRUE

Accept(op) ==
    /\ accepting
    /\ state[op] = "unborn"
    /\ \A older \in 1..(op - 1) : state[older] # "unborn"
    /\ Cardinality(Active(state)) < MaxActive
    /\ state' = [state EXCEPT ![op] = "queued"]
    /\ UNCHANGED <<requested, receipt, retained, accepting>>

Begin(op) ==
    /\ accepting
    /\ state[op] = "queued"
    /\ \A older \in 1..(op - 1) : state[older] # "queued"
    /\ state' = [state EXCEPT ![op] = "running"]
    /\ UNCHANGED <<requested, receipt, retained, accepting>>

\* The response of the verification decides the outcome, a request for
\* cancellation does not.
Complete(op) ==
    /\ state[op] = "running"
    /\ \/ state' = [state EXCEPT ![op] = "succeeded"]
          /\ receipt' = [receipt EXCEPT ![op] = "report"]
       \/ \E kind \in {"failure", "diagnostic"} :
             /\ state' = [state EXCEPT ![op] = "failed"]
             /\ receipt' = [receipt EXCEPT ![op] = kind]
       \/ /\ requested[op]
          /\ state' = [state EXCEPT ![op] = "cancelled"]
          /\ receipt' = [receipt EXCEPT ![op] = "cancelledReport"]
    /\ retained' = LastOf(MaxRetained, Append(retained, op))
    /\ UNCHANGED <<requested, accepting>>

\* Cancelling queued work is immediate; running work is only told.
RequestCancel(op) ==
    /\ state[op] \in {"queued", "running"}
    /\ requested' = [requested EXCEPT ![op] = TRUE]
    /\ IF state[op] = "queued"
       THEN /\ state' = [state EXCEPT ![op] = "cancelled"]
            /\ retained' = LastOf(MaxRetained, Append(retained, op))
       ELSE UNCHANGED <<state, retained>>
    /\ UNCHANGED <<receipt, accepting>>

\* Shutting down asks every active operation to stop and cancels the queued
\* ones, oldest first.
Shutdown ==
    LET queued == {op \in Ops : state[op] = "queued"}
    IN  /\ accepting' = FALSE
        /\ requested' = [op \in Ops |-> requested[op] \/ op \in Active(state)]
        /\ state' = [op \in Ops |-> IF op \in queued THEN "cancelled"
                                                     ELSE state[op]]
        /\ \E batch \in [1..Cardinality(queued) -> queued] :
              /\ \A i, j \in 1..Cardinality(queued) : i < j => batch[i] < batch[j]
              /\ retained' = LastOf(MaxRetained, retained \o batch)
        /\ UNCHANGED receipt

Next ==
    \/ \E op \in Ops : Accept(op) \/ Begin(op) \/ Complete(op) \/ RequestCancel(op)
    \/ Shutdown

Spec == Init /\ [][Next]_vars
=============================================================================
