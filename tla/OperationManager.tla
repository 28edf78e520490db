-------------------------- MODULE OperationManager --------------------------
(***************************************************************************)
(* The registry of asynchronous plugin.verify operations that              *)
(* createVerificationOperationManager builds (src/kernel/operation.ts).    *)
(*                                                                         *)
(* The code is a closure over a Map of entries, an array completedOrder, a *)
(* Set of running promises and a flag closed.  JavaScript runs one turn at *)
(* a time, so every function call is one atomic action; what interleaves   *)
(* are the calls of the host, the queued microtasks, the settling of       *)
(* options.execute, and the continuations of promises.                     *)
(*                                                                         *)
(* An entry object outlives its registration: the microtask and the task   *)
(* of an operation hold the entry itself, while get and cancel go through  *)
(* the Map, whose key may meanwhile be evicted and given to a newer entry. *)
(* Entries are therefore numbered in the order start creates them, and an  *)
(* id is only a key of the Map.                                            *)
(*                                                                         *)
(* An operator named X_Defect is X with a plausible slip of the code; no   *)
(* definition uses it.                                                     *)
(***************************************************************************)
EXTENDS Naturals, Sequences, FiniteSets

CONSTANTS
    Ids,          \* what options.operationId may return, when it is valid
    NoId,         \* the id of an entry that does not exist yet
    Closers,      \* the calls of close() a host may make
    MaxActive,    \* options.maxActive
    MaxRetained,  \* options.maxRetainedCompleted
    MaxStarts     \* bound of the model: accepted calls of start

\* assertPositiveInteger on both limits; the sentinel is no id.
ASSUME ManagerAssumption ==
    /\ MaxActive \in Nat \ {0}
    /\ MaxRetained \in Nat \ {0}
    /\ MaxStarts \in Nat
    /\ NoId \notin Ids

VARIABLES
    state,            \* entry.state, "unborn" before start creates the entry
    idOf,             \* entry.id
    requested,        \* entry.cancellationRequested
    aborted,          \* entry.controller.signal.aborted
    receipt,          \* entry.result and entry.diagnostics, by their kind
    executions,       \* how often options.execute was called on the entry
    entries,          \* the Map: id to entry, 0 where the key is absent
    completedOrder,   \* the array of completed ids, oldest first
    scheduled,        \* entries whose microtask has not run yet
    running,          \* entries whose task is in the Set running
    closed,           \* the flag closed
    closePhase,       \* each call of close(): "idle", "waiting", "returned"
    awaited           \* the tasks each call of close() passed to Promise.all

registry == <<entries, completedOrder>>
closing == <<closed, closePhase, awaited>>
vars == <<state, idOf, requested, aborted, receipt, executions, entries,
          completedOrder, scheduled, running, closed, closePhase, awaited>>

Ops == 1..MaxStarts
TerminalStates == {"succeeded", "failed", "cancelled"}
States == {"unborn", "queued", "running"} \cup TerminalStates

\* What an entry holds: nothing; a canonical report, or one whose status is
\* cancelled; a mapped failure response; or no result and the diagnostic
\* OPERATION_EXECUTION_FAILED of a rejected execution.
Receipts == {"none", "report", "cancelledReport", "failure", "diagnostic"}

IsTerminal(op) == state[op] \in TerminalStates
IsActive(op) == state[op] \in {"queued", "running"}
ActiveOps == {op \in Ops : IsActive(op)}

\* activeCount() walks the Map, not the entries that exist.
ActiveIds == {id \in Ids : entries[id] # 0 /\ ~IsTerminal(entries[id])}

\* The three conditions under which start accepts work.
Accepting == ~closed

HasCapacity == Cardinality(ActiveIds) < MaxActive

KeyIsFree_Unchecked(id) == TRUE
KeyIsFree(id) == entries[id] = 0

-----------------------------------------------------------------------------
\* The members of a finite set of entries, oldest first: the order in which
\* the microtask queue and the Map hold them.
Enumeration(S) ==
    {f \in [1..Cardinality(S) -> S] :
        /\ \A i, j \in 1..Cardinality(S) : i < j => f[i] < f[j]
        /\ \A op \in S : \E i \in 1..Cardinality(S) : f[i] = op}

\* pruneCompleted: how many ids an order of completions is too long by, and
\* which keys go with them.
Surplus_OffByOne(order) ==
    IF Len(order) >= MaxRetained THEN Len(order) - MaxRetained + 1 ELSE 0
Surplus(order) ==
    IF Len(order) > MaxRetained THEN Len(order) - MaxRetained ELSE 0

Evicted(order) == {order[i] : i \in 1..Surplus(order)}

\* commitTerminal for the entries of the sequence batch, none of them
\* terminal, one after the other and each followed by pruneCompleted.
\* Pruning after every push drops what pruning once at the end drops.
CommitTerminal(batch, terminal, kind) ==
    LET members == {batch[i] : i \in 1..Len(batch)}
        order == completedOrder \o [i \in 1..Len(batch) |-> idOf[batch[i]]]
    IN  /\ state' = [op \in Ops |-> IF op \in members THEN terminal
                                                      ELSE state[op]]
        /\ receipt' = [op \in Ops |-> IF op \in members THEN kind
                                                        ELSE receipt[op]]
        /\ completedOrder' = SubSeq(order, Surplus(order) + 1, Len(order))
        /\ entries' = [id \in Ids |-> IF id \in Evicted(order) THEN 0
                                                             ELSE entries[id]]

\* How options.execute settles: the promise resolves with a response or is
\* rejected.  Only a process run cut short by the signal makes a report
\* whose status is cancelled, so that needs the signal to be aborted.
Settlements(op) ==
    {"report", "failure", "diagnostic"}
        \cup (IF aborted[op] THEN {"cancelledReport"} ELSE {})

\* The terminal state run derives from what execute settled with; a request
\* for cancellation by itself decides nothing.
TerminalOf_ReportStatus(op, kind) ==
    IF kind = "report" THEN "verified" ELSE "failed"
TerminalOf_AbortedIsCancelled(op, kind) ==
    IF aborted[op] THEN "cancelled"
    ELSE IF kind = "report" THEN "succeeded" ELSE "failed"
TerminalOf(op, kind) == CASE kind = "report" -> "succeeded"
                          [] kind = "cancelledReport" -> "cancelled"
                          [] OTHER -> "failed"

-----------------------------------------------------------------------------
Init ==
    /\ state = [op \in Ops |-> "unborn"]
    /\ idOf = [op \in Ops |-> NoId]
    /\ requested = [op \in Ops |-> FALSE]
    /\ aborted = [op \in Ops |-> FALSE]
    /\ receipt = [op \in Ops |-> "none"]
    /\ executions = [op \in Ops |-> 0]
    /\ entries = [id \in Ids |-> 0]
    /\ completedOrder = <<>>
    /\ scheduled = {}
    /\ running = {}
    /\ closed = FALSE
    /\ closePhase = [c \in Closers |-> "idle"]
    /\ awaited = [c \in Closers |-> {}]

\* The entry the next accepted start creates.
IsNext(op) ==
    state[op] = "unborn" /\ \A older \in 1..(op - 1) : state[older] # "unborn"

\* start: rejected, with no change of state, when the manager is closed,
\* active capacity is exhausted, or operationId returns a key of the Map.
Start(op, id) ==
    /\ Accepting
    /\ HasCapacity
    /\ KeyIsFree(id)
    /\ IsNext(op)
    /\ state' = [state EXCEPT ![op] = "queued"]
    /\ idOf' = [idOf EXCEPT ![op] = id]
    /\ entries' = [entries EXCEPT ![id] = op]
    /\ scheduled' = scheduled \cup {op}
    /\ UNCHANGED <<requested, aborted, receipt, executions, completedOrder,
                   running, closing>>

\* queueMicrotask is first in, first out.
IsFirstMicrotask(op) == op \in scheduled /\ \A other \in scheduled : op <= other

\* The microtask of the oldest scheduled entry: run(entry) up to its first
\* await, its task added to the Set running.  A terminal entry is left
\* alone, an aborted one is committed, any other calls options.execute.
RunMicrotask(op) ==
    /\ IsFirstMicrotask(op)
    /\ scheduled' = scheduled \ {op}
    /\ running' = running \cup {op}
    /\ IF IsTerminal(op)
       THEN UNCHANGED <<state, receipt, executions, registry>>
       ELSE IF aborted[op]
       THEN CommitTerminal(<<op>>, "cancelled", "none") /\ UNCHANGED executions
       ELSE /\ state' = [state EXCEPT ![op] = "running"]
            /\ executions' = [executions EXCEPT ![op] = @ + 1]
            /\ UNCHANGED <<receipt, registry>>
    /\ UNCHANGED <<idOf, requested, aborted, closing>>

\* options.execute settles and the rest of run commits what it produced.
Settle(op, kind) ==
    /\ state[op] = "running"
    /\ kind \in Settlements(op)
    /\ CommitTerminal(<<op>>, TerminalOf(op, kind), kind)
    /\ UNCHANGED <<idOf, requested, aborted, executions, scheduled, running,
                   closing>>

\* task.finally: the task of a run that has returned leaves the Set.
TaskSettled_IfExecuted(op) == IsTerminal(op) /\ executions[op] > 0
TaskSettled(op) == IsTerminal(op)

FinallyTask(op) ==
    /\ op \in running
    /\ TaskSettled(op)
    /\ running' = running \ {op}
    /\ UNCHANGED <<state, idOf, requested, aborted, receipt, executions,
                   registry, scheduled, closing>>

\* cancel(id) of an operation that is not terminal (of a terminal one it
\* only returns the snapshot; of an unknown id it throws).
Cancellable_Any(op) == op # 0
Cancellable(op) == op # 0 /\ ~IsTerminal(op)

Cancel(id) ==
    LET op == entries[id]
    IN  /\ Cancellable(op)
        /\ requested' = [requested EXCEPT ![op] = TRUE]
        /\ aborted' = [aborted EXCEPT ![op] = TRUE]
        /\ IF state[op] = "queued"
           THEN CommitTerminal(<<op>>, "cancelled", "none")
           ELSE UNCHANGED <<state, receipt, registry>>
        /\ UNCHANGED <<idOf, executions, scheduled, running, closing>>

\* close() up to its await: the Map is walked in insertion order, each
\* entry that is not terminal is aborted and each queued one committed.
ToAbort_QueuedOnly == {op \in {entries[id] : id \in ActiveIds} : state[op] = "queued"}
ToAbort == {entries[id] : id \in ActiveIds}

ToAwait_Nothing == {}
ToAwait == running

Close(c) ==
    LET queued == {op \in ToAbort : state[op] = "queued"}
    IN  /\ closePhase[c] = "idle"
        /\ closed' = TRUE
        /\ requested' = [op \in Ops |-> requested[op] \/ op \in ToAbort]
        /\ aborted' = [op \in Ops |-> aborted[op] \/ op \in ToAbort]
        /\ \E batch \in Enumeration(queued) :
               CommitTerminal(batch, "cancelled", "none")
        /\ closePhase' = [closePhase EXCEPT ![c] = "waiting"]
        /\ awaited' = [awaited EXCEPT ![c] = ToAwait]
        /\ UNCHANGED <<idOf, executions, scheduled, running>>

\* Promise.all over the awaited tasks resolves and close() returns.
CloseReturns(c) ==
    /\ closePhase[c] = "waiting"
    /\ \A op \in awaited[c] : IsTerminal(op)
    /\ closePhase' = [closePhase EXCEPT ![c] = "returned"]
    /\ UNCHANGED <<state, idOf, requested, aborted, receipt, executions,
                   registry, scheduled, running, closed, awaited>>

Next ==
    \/ \E op \in Ops, id \in Ids : Start(op, id)
    \/ \E op \in Ops : RunMicrotask(op)
    \/ \E op \in Ops : \E kind \in Receipts : Settle(op, kind)
    \/ \E op \in Ops : FinallyTask(op)
    \/ \E id \in Ids : Cancel(id)
    \/ \E c \in Closers : Close(c)
    \/ \E c \in Closers : CloseReturns(c)

Spec == Init /\ [][Next]_vars

\* Microtasks and promise continuations always run; execute settles because
\* every process of the worker is under a timeout.  Nothing obliges a host
\* to start, cancel or close.
Fairness ==
    /\ \A op \in Ops : /\ WF_vars(RunMicrotask(op))
                       /\ WF_vars(\E kind \in Receipts : Settle(op, kind))
                       /\ WF_vars(FinallyTask(op))
    /\ \A c \in Closers : WF_vars(CloseReturns(c))

FairSpec == Spec /\ Fairness

-----------------------------------------------------------------------------
\* Every variable holds a value of its type.
TypeOK ==
    /\ state \in [Ops -> States]
    /\ idOf \in [Ops -> Ids \cup {NoId}]
    /\ requested \in [Ops -> BOOLEAN]
    /\ aborted \in [Ops -> BOOLEAN]
    /\ receipt \in [Ops -> Receipts]
    /\ executions \in [Ops -> Nat]
    /\ entries \in [Ids -> 0..MaxStarts]
    /\ completedOrder \in Seq(Ids)
    /\ scheduled \subseteq Ops
    /\ running \subseteq Ops
    /\ closed \in BOOLEAN
    /\ closePhase \in [Closers -> {"idle", "waiting", "returned"}]
    /\ awaited \in [Closers -> SUBSET Ops]

\* An operation that is queued or running is found under its own id, however
\* many completions have pruned the Map and whatever ids were given out
\* since, and a key is the id of the entry it leads to: a get or a cancel by
\* id reaches the operation start returned that id for, or none.
RegistrySound ==
    /\ \A op \in Ops : IsActive(op) => idOf[op] \in Ids /\ entries[idOf[op]] = op
    /\ \A id \in Ids : entries[id] # 0 => /\ idOf[entries[id]] = id
                                          /\ state[entries[id]] # "unborn"

\* completedOrder lists exactly the registered operations that are terminal,
\* each once, and no more than the retention bound: pruning can neither
\* delete a live key, nor leave behind a completed entry it forgot.
RetentionExact ==
    /\ Len(completedOrder) <= MaxRetained
    /\ \A i, j \in 1..Len(completedOrder) :
           completedOrder[i] = completedOrder[j] => i = j
    /\ \A i \in 1..Len(completedOrder) :
           LET op == entries[completedOrder[i]] IN op # 0 /\ IsTerminal(op)
    /\ \A id \in Ids : entries[id] # 0 /\ IsTerminal(entries[id])
                       => \E i \in 1..Len(completedOrder) : completedOrder[i] = id

\* The operations that exist and are not terminal never exceed the capacity,
\* although start counts the entries of the Map and not the operations.
CapacityRespected == Cardinality(ActiveOps) <= MaxActive

\* What the Map and completedOrder hold agrees with the life of the operations:
\* active ones are found, completed ones are retained up to the bound, and
\* start is refused exactly at the capacity.
RegistryIsExact == RegistrySound /\ RetentionExact /\ CapacityRespected

\* An operation is executed at most once.  It is executed not at all only if
\* it was cancelled while queued: then it is cancelled without a result.  A
\* cancelled operation that did run carries the report that says so, and
\* cancelled is never reached without a request for it.
ExecutionMatchesReceipt ==
    \A op \in Ops :
        /\ executions[op] <= 1
        /\ IsTerminal(op) => (executions[op] = 0) = (receipt[op] = "none")
        /\ state[op] = "cancelled" =>
               requested[op] /\ receipt[op] \in {"none", "cancelledReport"}
        /\ state[op] \in {"succeeded", "failed"} =>
               receipt[op] \in {"report", "failure", "diagnostic"}

\* The signal of an operation is aborted exactly if cancellation was
\* requested, a queued operation is never aborted, and what still runs in a
\* closed manager has been told to stop.
AbortMatchesRequest ==
    \A op \in Ops :
        /\ aborted[op] = requested[op]
        /\ state[op] = "queued" => ~aborted[op] /\ ~closed
        /\ state[op] = "running" /\ closed => aborted[op]

\* A receipt of the manager tells what became of its execution, and its signal
\* what was asked of it.
ReceiptsTellTheTruth == ExecutionMatchesReceipt /\ AbortMatchesRequest

\* When any call of close() has returned the manager is closed and nothing
\* is queued or executing, whatever calls came before, during and after.
ShutdownQuiescent ==
    \A c \in Closers : closePhase[c] = "returned" => closed /\ ActiveOps = {}

\* Terminal finalisation is single-assignment: no later completion, cancel,
\* close or eviction changes what the entry says.
TerminalIsFinal ==
    [][\A op \in Ops : IsTerminal(op) =>
           /\ state'[op] = state[op]
           /\ receipt'[op] = receipt[op]
           /\ requested'[op] = requested[op]]_vars

\* Once close() has been called no further operation is executed, not even
\* one that was accepted before and whose microtask is still to run.
NoExecutionAfterClose ==
    [][closed => executions' = executions /\ closed']_vars

\* Operations begin in the order in which they were accepted.
BeginsInOrder ==
    [][\A op \in Ops : state[op] = "queued" /\ state'[op] = "running" =>
           \A older \in Ops : older < op => state[older] # "queued"]_vars

\* The id of a retained operation never passes directly to another one.
IdsNotTakenOver ==
    [][\A id \in Ids : entries[id] # 0 => entries'[id] \in {0, entries[id]}]_vars

\* No step of anyone revises what has become final: a terminal receipt, the
\* closing of the manager, the operation a retained id leads to.
HistoryStands == TerminalIsFinal /\ NoExecutionAfterClose /\ IdsNotTakenOver

\* Every accepted operation becomes terminal.
AcceptedTerminates == \A op \in Ops : state[op] = "queued" ~> IsTerminal(op)

\* No microtask stays queued and no task stays in the Set running.
TasksDrain ==
    \A op \in Ops : op \in scheduled \cup running ~> op \notin scheduled \cup running

\* Accepted work ends, in its receipt and in the bookkeeping of tasks.
AcceptedWorkEnds == AcceptedTerminates /\ TasksDrain

\* The manager implements the life of operations its callers are promised.
\* Which operations are still visible is read from the Map: it is exactly
\* by following completedOrder through the Map that the last completed
\* operations, and no operation that took over an id, must be found.
Lifecycle == INSTANCE OperationLifecycle WITH
    retained <- [i \in 1..Len(completedOrder) |-> entries[completedOrder[i]]],
    accepting <- ~closed

ImplementsLifecycle == Lifecycle!Spec
=============================================================================
