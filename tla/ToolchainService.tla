--------------------------- MODULE ToolchainService ---------------------------
(***************************************************************************)
(* The service a DSH host loads (src/integrations/dsh/index.ts): it owns   *)
(* the operation manager for as long as it is loaded, and, whenever the    *)
(* host offers a tools service, registers the tools that the policy of     *)
(* src/integrations/dsh/agent-surface-policy.ts shows to an agent.  The    *)
(* tools service is the host's: it keeps one tool per name, refuses a name *)
(* that another plugin has, and may be unloaded and loaded again.          *)
(*                                                                         *)
(* verifyPlugin called directly, by the tool or by another plugin, is no   *)
(* operation: it has no signal and no entry in the manager.                *)
(***************************************************************************)
EXTENDS OperationHost

CONSTANTS
    Calls,          \* direct calls of verifyPlugin
    ForeignNames    \* names another plugin may give to a tool of its own

ASSUME ServiceAssumption == ClosesManager

VARIABLES
    scope,      \* of ctx.inject: "waiting" for tools, "registering", "rolling back",
                \* "failed", "mounted", "unmounting"
    tools,      \* the tools service: name to its owner, "none" where free
    held,       \* disposers: the definitions whose disposer is held, by position
    direct      \* each direct call: "idle", "verifying", "returned"

serviceVars == <<hostVars, scope, tools, held, direct>>

-----------------------------------------------------------------------------
\* registerNativeTools: the definitions in order, and the policy's filter.
Definitions ==
    <<"target_resolve", "contract_search", "contract_inspect", "plugin_check", "plugin_verify",
      "plugin_verify_start", "operation_get", "operation_cancel">>
DefaultAgentTools ==
    {"target_resolve", "contract_search", "contract_inspect", "plugin_check", "plugin_verify"}
\* The names at some positions, and the positions the policy lets through.
Named(positions) == {Definitions[i] : i \in positions}
Registered == {i \in DOMAIN Definitions : Definitions[i] \in DefaultAgentTools}

\* The loops over the definitions and over their disposers are synchronous:
\* nothing else happens while one of them runs.
Looping == scope \in {"registering", "rolling back", "unmounting"}

-----------------------------------------------------------------------------
ServiceInit ==
    /\ HostInit
    /\ scope = "waiting"
    /\ tools = [name \in Named(DOMAIN Definitions) |-> "none"]
    /\ held = {}
    /\ direct = [call \in Calls |-> "idle"]

\* The host has a tools service: the inject callback runs.
MountTools ==
    /\ host = "serving" /\ scope = "waiting"
    /\ scope' = "registering"
    /\ UNCHANGED <<hostVars, tools, held, direct>>

\* One definition after the other; a registration that throws ends the loop.
Register(i) ==
    /\ i \in Registered \ held
    /\ \A j \in Registered \ held : i <= j
    /\ IF tools[Definitions[i]] = "none"
       THEN /\ tools' = [tools EXCEPT ![Definitions[i]] = "toolchain"]
            /\ held' = held \cup {i}
            /\ UNCHANGED scope
       ELSE scope' = "rolling back" /\ UNCHANGED <<tools, held>>
RegisterTools ==
    /\ scope = "registering"
    /\ \/ \E i \in Registered : Register(i)
       \/ held = Registered /\ scope' = "mounted" /\ UNCHANGED <<tools, held>>
    /\ UNCHANGED <<hostVars, direct>>

\* disposers.toReversed(): the last of those that are left comes first.
IsNextDisposed_InOrder(i) == \A j \in held : i <= j
IsNextDisposed(i) == \A j \in held : j <= i
DisposeTools ==
    /\ scope \in {"rolling back", "unmounting"}
    /\ \/ \E i \in held :
             /\ IsNextDisposed(i)
             /\ tools' = [tools EXCEPT ![Definitions[i]] = "none"]
             /\ held' = held \ {i}
             /\ UNCHANGED scope
       \/ /\ held = {}
          /\ scope' = IF scope = "rolling back" THEN "failed" ELSE "waiting"
          /\ UNCHANGED <<tools, held>>
    /\ UNCHANGED <<hostVars, direct>>

\* The tools service goes away: what the callback returned disposes the tools.
Unmounted == IF scope = "mounted" THEN "unmounting" ELSE "waiting"
UnmountTools ==
    /\ host = "serving" /\ scope \in {"mounted", "failed"}
    /\ scope' = Unmounted
    /\ UNCHANGED <<hostVars, tools, held, direct>>

\* Another plugin registers a tool under one of these names, or removes it.
ForeignTool ==
    /\ ~Looping
    /\ \E name \in ForeignNames :
           \/ tools[name] = "none" /\ tools' = [tools EXCEPT ![name] = "foreign"]
           \/ tools[name] = "foreign" /\ tools' = [tools EXCEPT ![name] = "none"]
    /\ UNCHANGED <<hostVars, scope, held, direct>>

\* verifyPlugin of the service: by the tool or by a plugin that has the service.
VerifyDirectly(call) ==
    /\ host = "serving" /\ ~Looping /\ direct[call] = "idle"
    /\ direct' = [direct EXCEPT ![call] = "verifying"]
    /\ UNCHANGED <<hostVars, scope, tools, held>>
DirectReturns(call) ==
    /\ ~Looping /\ direct[call] = "verifying"
    /\ direct' = [direct EXCEPT ![call] = "returned"]
    /\ UNCHANGED <<hostVars, scope, tools, held>>

\* startPluginVerification and cancelOperation of the service, and what the
\* manager does by itself.
Operate == ~Looping /\ (ToolCall \/ Background) /\ UNCHANGED <<scope, tools, held, direct>>

\* The service is unloaded: the effects of its context are disposed.
Unload ==
    /\ ~Looping
    /\ EndHost
    /\ scope' = Unmounted
    /\ UNCHANGED <<tools, held, direct>>

ServiceNext ==
    \/ MountTools \/ RegisterTools \/ DisposeTools \/ UnmountTools \/ ForeignTool
    \/ \E call \in Calls : VerifyDirectly(call) \/ DirectReturns(call)
    \/ Operate
    \/ Unload

\* A loop that has begun ends; nothing makes a direct verification return.
ServiceFairness == Fairness /\ WF_serviceVars(RegisterTools \/ DisposeTools)
ServiceSpec == ServiceInit /\ [][ServiceNext]_serviceVars /\ ServiceFairness

-----------------------------------------------------------------------------
Ours == {name \in DOMAIN tools : tools[name] = "toolchain"}

\* The tools an agent sees are those of the policy or none at all: mounted,
\* each is registered by this service; unmounted, unloaded or after a failed
\* registration no name is left behind, so the next mount can succeed.  While
\* they come and go, none is there without those that are defined before it.
\* (agent-surface-policy.ts, registerNativeTools.)
SurfaceIsPolicy ==
    /\ scope = "mounted" => Ours = DefaultAgentTools
    /\ scope \in {"waiting", "failed"} => Ours = {}
    /\ \A i, j \in Registered :
           i < j /\ Definitions[j] \in Ours => Definitions[i] \in Ours
    /\ host = "ended" => scope \in {"waiting", "unmounting"}
=============================================================================
