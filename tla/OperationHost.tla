--------------------------- MODULE OperationHost ---------------------------
(***************************************************************************)
(* A host that owns an operation manager: the ToolchainService of the DSH  *)
(* integration or the MCP server on stdio.  While it serves, its tools     *)
(* call start and cancel.  It ends once: the DSH service is unloaded and   *)
(* its effect disposer calls manager.close(); the MCP server only loses    *)
(* its transport, since nothing keeps the manager it created or closes it. *)
(***************************************************************************)
EXTENDS OperationManager

CONSTANT ClosesManager   \* TRUE: the DSH service; FALSE: the MCP server

VARIABLE host            \* "serving" or "ended"

hostVars == <<vars, host>>

HostInit == Init /\ host = "serving"

\* A tool call that reaches the manager.
ToolCall ==
    /\ host = "serving"
    /\ \/ \E op \in Ops, id \in Ids : Start(op, id)
       \/ \E id \in Ids : Cancel(id)
    /\ UNCHANGED host

\* Microtasks, settlements and continuations go on by themselves.
Background ==
    /\ \/ \E op \in Ops : \/ RunMicrotask(op)
                          \/ \E kind \in Receipts : Settle(op, kind)
                          \/ FinallyTask(op)
       \/ \E c \in Closers : CloseReturns(c)
    /\ UNCHANGED host

\* The end of the host's lifetime.
EndHost ==
    /\ host = "serving"
    /\ host' = "ended"
    /\ IF ClosesManager THEN \E c \in Closers : Close(c) ELSE UNCHANGED vars

HostNext == ToolCall \/ Background \/ EndHost

HostSpec == HostInit /\ [][HostNext]_hostVars

FairHostSpec == HostSpec /\ Fairness

\* On host shutdown every operation that is not terminal records the request
\* for cancellation and nothing stays queued
\* (spec/operation-lifecycle.md, "Host lifetime and shutdown").
ShutdownCancelsOperations ==
    host = "ended" => \A op \in ActiveOps : state[op] = "running" /\ requested[op]

\* After the end of the host every close() it made returns, and only when
\* all work has come to rest.
ShutdownAwaitsOperations ==
    host = "ended" ~> \A c \in Closers : closePhase[c] = "returned" /\ ActiveOps = {}

\* The end of the host is the end of its operations: all are told at once, and
\* the unload waits for them.
ShutdownEndsOperations ==
    /\ [][ShutdownCancelsOperations']_hostVars
    /\ ShutdownAwaitsOperations
=============================================================================
