------------------------------ MODULE Observation ------------------------------
(***************************************************************************)
(* One observation of the H2 evaluation: runObservation of                 *)
(* scripts/eval/h2/h2-runner.mjs, with the control plane, the transport    *)
(* and the budget guard of h2-dsh.mjs, the session log of h2-telemetry.mjs *)
(* and the trees of h2-workspace.mjs and safety/owned-tree.mjs.            *)
(*                                                                         *)
(* An agent works for one turn in a workspace of its own, under a limit of *)
(* completions, which a watchdog reads from the agent's session log, and   *)
(* of time.  Then the log is read once more, the workspace is graded, and  *)
(* everything on disk is removed.                                          *)
(*                                                                         *)
(* The process runObservation starts is a launcher, pnpm, and the agent a  *)
(* child of that (h2-dsh-env.mjs:96).  The host is a POSIX one, as that of *)
(* the scoring run (.github/workflows/h2-scoring.yml:42), where a kill     *)
(* reaches the launcher alone; on Windows taskkill ends the tree, which is *)
(* among the outcomes here.                                                *)
(***************************************************************************)
EXTENDS Integers, FiniteSets, Sequences

CONSTANTS Limit,            \* providerCompletionsLimit
          MaxCompletions    \* bound of the model: what an agent asks of its model

ASSUME BoundsAssumption == Limit \in Nat /\ MaxCompletions \in Nat /\ Limit < MaxCompletions

VARIABLES
    phase,      \* of runObservation; "idle" between two, "thrown" when it left by an exception
    cell,       \* the task and arm observed, "none" before the first
    disk,       \* the run's directory: <<cell, part>>
    agent,      \* [process, turn, workspace] of the agent, its turn with its answer;
                \* "orphaned" when it lives on without its launcher; overtime is
                \* history, its answer came after the time limit
    log,        \* [state, completions, models] of the session log
    watch,      \* [state, seen]: the watchdog and the completions it counted
    late,       \* the time limit, by the clock of the guard, is over
    local,      \* what runObservation knows
    receipt,    \* of the observation that has ended
    survivors   \* cells whose agent outlived its observation, by as long as it likes

obsVars == <<phase, cell, disk, agent, log, watch, late, local, receipt, survivors>>

-----------------------------------------------------------------------------
NoAgent == [process |-> "none", turn |-> "none", workspace |-> "broken", overtime |-> FALSE]
\* A missing log has no completions; what a killed agent was writing is torn.
NoLog == [state |-> "missing", completions |-> 0, models |-> {}]
NoWatch == [state |-> "off", seen |-> 0]
Nothing == [session |-> FALSE, stop |-> FALSE, stopReason |-> "none", budget |-> "none",
            infrastructure |-> FALSE, telemetry |-> FALSE, drift |-> FALSE]

ObsInit ==
    /\ phase = "idle" /\ cell = "none" /\ disk = {}
    /\ agent = NoAgent /\ log = NoLog /\ watch = NoWatch /\ late = FALSE
    /\ local = Nothing /\ receipt = <<>> /\ survivors = {}

Goes(to) == phase' = to
Fails(to) == phase' = to /\ local' = [local EXCEPT !.infrastructure = TRUE]

\* prepareObservationDir removes a run directory that carries the marker of an
\* observation and refuses any other; what it throws leaves runObservation.
Owned_Always == TRUE
Owned == disk = {} \/ \E p \in disk : p[2] = "marker"
Prepare(c) ==
    /\ phase = "idle" /\ cell' = c
    /\ \/ Owned /\ disk' = {<<c, "marker">>, <<c, "workspace">>, <<c, "home">>} /\ Goes("starting")
       \/ Owned /\ disk' = {<<c, "marker">>} /\ Goes("thrown")
       \/ UNCHANGED disk /\ Goes("thrown")
    /\ UNCHANGED <<agent, log, watch, late, local, receipt, survivors>>

\* materializeWorkspace, the plugins of the arm and the start of the process.
Start ==
    /\ phase = "starting"
    /\ \/ agent' = [agent EXCEPT !.process = "running"] /\ Goes("handshake") /\ UNCHANGED local
       \/ Fails("reading") /\ UNCHANGED agent
    /\ UNCHANGED <<cell, disk, log, watch, late, receipt, survivors>>

\* initialize to setConfigOption, as the agent answers: with an error or an
\* unexpected answer before or after there is a session, or as asked.
Handshake ==
    /\ phase = "handshake" /\ agent.process = "running"
    /\ \/ \E session \in BOOLEAN :
             /\ Goes("terminating")
             /\ local' = [local EXCEPT !.infrastructure = TRUE, !.session = session]
             /\ UNCHANGED <<agent, watch>>
       \/ /\ Goes("prompting") /\ local' = [local EXCEPT !.session = TRUE]
          /\ agent' = [agent EXCEPT !.turn = "running"]
          /\ watch' = [watch EXCEPT !.state = "seeking"]
    /\ UNCHANGED <<cell, disk, log, late, receipt, survivors>>

-----------------------------------------------------------------------------
\* The agent, in its turn and with its launcher or without: a completion of a
\* model, which the log names or not, and work on its workspace.  After the
\* grading nobody looks at them.
Working ==
    /\ agent.process \in {"running", "orphaned"} /\ agent.turn = "running"
    /\ phase \notin {"removing", "ended", "thrown"}
Complete ==
    /\ Working /\ log.completions < MaxCompletions
    /\ \E models \in {{}, {"frozen"}, {"other"}} :
          log' = [state |-> IF log.state = "missing" THEN "plain" ELSE log.state,
                  completions |-> log.completions + 1, models |-> log.models \cup models]
    /\ UNCHANGED <<phase, cell, disk, agent, watch, late, local, receipt, survivors>>
\* The log is begun without a completion, or in a form nobody asked for.
BeginLog ==
    /\ Working /\ log.state = "missing"
    /\ \E state \in {"plain", "compressed"} : log' = [log EXCEPT !.state = state]
    /\ UNCHANGED <<phase, cell, disk, agent, watch, late, local, receipt, survivors>>
Work ==
    /\ Working
    /\ \E workspace \in {"solved", "broken"} \ {agent.workspace} :
          agent' = [agent EXCEPT !.workspace = workspace]
    /\ UNCHANGED <<phase, cell, disk, log, watch, late, local, receipt, survivors>>

\* The answer to the prompt, or an error in its place; runObservation goes on
\* with it when it waits for it.
StopReasons == {"end_turn", "max_tokens", "cancelled", "refusal", "unknown"}
Answer ==
    /\ Working
    /\ \/ \E reason \in StopReasons :
             /\ agent' = [agent EXCEPT !.turn = reason, !.overtime = late]
             /\ IF phase \in {"prompting", "grace"}
                THEN /\ local' = [local EXCEPT !.stopReason = reason, !.stop = TRUE]
                     /\ Goes("watching")
                ELSE UNCHANGED <<phase, local>>
       \/ /\ agent' = [agent EXCEPT !.turn = "failed"]
          /\ IF phase \in {"prompting", "grace"} THEN Fails("terminating") ELSE UNCHANGED <<phase, local>>
    /\ UNCHANGED <<cell, disk, log, watch, late, receipt, survivors>>

\* An agent that ends while it works tears its log, and so does a reader who
\* comes while it writes.
Torn == Working /\ log.state = "plain" /\ log' = [log EXCEPT !.state = "torn"]
Ends(processes) == \E process \in processes : agent' = [agent EXCEPT !.process = process]

\* The process ends on its own, the agent with it or not: onExit rejects
\* whatever it had not answered.
Rejected_NotPending == UNCHANGED <<phase, local>>
Rejected ==
    CASE phase \in {"handshake", "prompting", "grace"} -> Fails("terminating")
      [] phase = "closing" -> Goes("terminating") /\ UNCHANGED local
      [] OTHER -> UNCHANGED <<phase, local>>
Exit ==
    /\ agent.process = "running"
    /\ Ends({"exited", "orphaned"})
    /\ Rejected
    /\ UNCHANGED log \/ Torn
    /\ UNCHANGED <<cell, disk, watch, late, receipt, survivors>>

-----------------------------------------------------------------------------
\* The clock of the guard runs since before the plugins were installed.
TimePasses ==
    /\ ~late /\ phase \notin {"idle", "thrown"} /\ late' = TRUE
    /\ UNCHANGED <<phase, cell, disk, agent, log, watch, local, receipt, survivors>>

\* awaitPromptWithinWallClock: the limit and the grace after it.  A cancel is
\* a request, the agent may take notice or not.
Expire ==
    /\ phase = "prompting" /\ Goes("grace") /\ late' = TRUE
    /\ local' = [local EXCEPT !.budget = "WALL_TIME", !.stop = TRUE]
    /\ UNCHANGED <<cell, disk, agent, log, watch, receipt, survivors>>
GraceEnds ==
    /\ phase = "grace" /\ Goes("watching")
    /\ UNCHANGED <<cell, disk, agent, log, watch, late, local, receipt, survivors>>

\* The guard's evaluate; Limit completions are allowed.
Exhausted(seen) ==
    CASE seen > Limit -> "PROVIDER_COMPLETIONS"
      [] seen <= Limit /\ late -> "WALL_TIME"
      [] OTHER -> "none"

\* findSessionLog and parseSessionLog succeed.
Readable == log.state = "plain"
\* The watchdog looks for the log, then reads it in turns until it is stopped.
\* After an error of the prompt nobody stops it.
Seek ==
    /\ watch.state = "seeking" /\ phase # "idle"
    /\ \/ log.state = "plain" /\ watch' = [watch EXCEPT !.state = "polling"] /\ UNCHANGED local
       \/ /\ log.state # "plain" /\ watch' = [watch EXCEPT !.state = "stopped"]
          /\ local' = [local EXCEPT !.telemetry = TRUE, !.stop = TRUE]
    /\ UNCHANGED <<phase, cell, disk, agent, log, late, receipt, survivors>>
Poll ==
    LET reason == Exhausted(watch.seen) IN
    /\ watch.state = "polling" /\ phase # "idle"
    /\ CASE local.stop -> watch' = [watch EXCEPT !.state = "stopped"] /\ UNCHANGED local
         [] ~local.stop /\ reason # "none" ->
                /\ watch' = [watch EXCEPT !.state = "stopped"]
                /\ local' = [local EXCEPT !.budget = reason, !.stop = TRUE,
                                  !.telemetry = @ \/ agent.process # "running"]
         [] OTHER -> /\ watch' = [watch EXCEPT !.seen = IF Readable THEN log.completions ELSE @]
                     /\ UNCHANGED local
    /\ UNCHANGED <<phase, cell, disk, agent, log, late, receipt, survivors>>

\* After the prompt: the watchdog's end, the guard once more, and a request to
\* close the session, which fails when the process is gone.
Watched ==
    /\ phase = "watching" /\ watch.state = "stopped"
    /\ local' = [local EXCEPT !.budget = IF @ = "none" THEN Exhausted(watch.seen) ELSE @]
    /\ Goes(IF agent.process = "running" THEN "closing" ELSE "terminating")
    /\ UNCHANGED <<cell, disk, agent, log, watch, late, receipt, survivors>>
Close ==
    /\ phase = "closing" /\ agent.process = "running" /\ Goes("terminating")
    /\ UNCHANGED <<cell, disk, agent, log, watch, late, local, receipt, survivors>>

\* terminate: at once when the process has exited; otherwise its stdin ends,
\* after a grace the launcher is killed, and the launcher's exit awaited.  The
\* agent ends, on the end of its stdin or by itself, or it lives on.
Terminate_WithoutWaiting ==
    /\ phase = "terminating" /\ Goes("reading")
    /\ UNCHANGED <<cell, disk, agent, log, watch, late, local, receipt, survivors>>
Terminate ==
    /\ phase = "terminating" /\ Goes("reading")
    /\ Ends({"exited"} \cup IF agent.process = "exited" THEN {} ELSE {"orphaned"})
    /\ UNCHANGED log \/ Torn
    /\ UNCHANGED <<cell, disk, watch, late, local, receipt, survivors>>

-----------------------------------------------------------------------------
\* The log is read for the last time, when there was a session.
Interacted == log.models # {} \/ log.completions > 0
Read ==
    LET unread == local.session /\ ~Readable
        silent == local.session /\ Readable /\ ~Interacted
    IN  [local EXCEPT !.telemetry = @ \/ unread,
             !.infrastructure = @ \/ local.telemetry \/ unread \/ silent,
             !.drift = local.session /\ Readable /\ Interacted /\ log.models # {"frozen"}]
Completions == IF local.session /\ Readable THEN log.completions ELSE 0

\* The log is the authority of what was used, whatever the watchdog has seen.
Reconciled_NotAtAll(known, completions) == known.budget
Reconciled(known, completions) ==
    IF known.budget = "none" /\ completions > Limit THEN "PROVIDER_COMPLETIONS" ELSE known.budget

\* classifyTerminal, behind an infrastructure error.
Terminal(known, budget) ==
    CASE known.infrastructure -> "INFRASTRUCTURE_FAILURE"
      [] ~known.infrastructure /\ budget # "none" -> "RESOURCE_EXHAUSTED"
      [] OTHER ->
             CASE known.stopReason = "end_turn" -> "COMPLETED"
               [] known.stopReason = "max_tokens" -> "RESOURCE_EXHAUSTED"
               [] known.stopReason = "cancelled" -> "CANCELLED"
               [] known.stopReason = "refusal" -> "REFUSAL"
               [] OTHER -> "INFRASTRUCTURE_FAILURE"
Gradeable(terminal) == terminal \in {"COMPLETED", "RESOURCE_EXHAUSTED", "REFUSAL"}

\* runGrader: a grader that throws has not run.
Grades == IF agent.workspace = "solved" THEN {"pass", "not-run"} ELSE {"fail", "not-run"}

\* What an agent that lives on does between the reading and the grading changes
\* no success: its turn has not ended.  From here on nothing reads what is known,
\* nor what a watchdog may still find, so that both are forgotten.
Conclude ==
    LET known == Read
        terminal == Terminal(known, Reconciled(known, Completions))
    IN  /\ phase = "reading" /\ Goes("removing") /\ local' = Nothing /\ watch' = NoWatch
        /\ \E grade \in IF Gradeable(terminal) THEN Grades ELSE {"not-run"} :
              receipt' = <<[cell |-> cell, terminal |-> terminal, drift |-> known.drift,
                            success |-> terminal \in {"COMPLETED", "REFUSAL"} /\ grade = "pass"]>>
        /\ UNCHANGED <<cell, disk, agent, log, late, survivors>>

\* Deferred retention: removeOwnedTree of the whole run directory, which asks
\* for its marker, or what it and the assertion after it throw.
Remove ==
    /\ phase = "removing"
    /\ \/ <<cell, "marker">> \in disk /\ disk' = {} /\ Goes("ended")
       \/ UNCHANGED disk /\ Goes("thrown")
    /\ UNCHANGED <<cell, agent, log, watch, late, local, receipt, survivors>>

\* What runObservation knew is gone, its agent perhaps not.
Forgets ==
    /\ survivors' = survivors \cup IF agent.process = "orphaned" THEN {cell} ELSE {}
    /\ agent' = NoAgent /\ log' = NoLog /\ watch' = NoWatch /\ late' = FALSE
    /\ local' = Nothing /\ receipt' = <<>>
    /\ UNCHANGED <<cell, disk>>
\* It returns its receipt.
Return == phase = "ended" /\ phase' = "idle" /\ Forgets

\* An agent that has outlived its observation writes to its workspace, where
\* the next observation is, or where there is nothing.
Linger ==
    /\ \E c \in survivors : <<c, "workspace">> \notin disk /\ disk' = disk \cup {<<c, "workspace">>}
    /\ UNCHANGED <<phase, cell, agent, log, watch, late, local, receipt, survivors>>

\* An error that nothing in the controller catches: of a pipe that breaks before
\* the exit of the process is seen, since child.stdin has no listener; or of a
\* request by an agent without its launcher, since send throws in the reader.
Uncaught ==
    \/ agent.process = "running" /\ phase \in {"handshake", "prompting", "grace", "watching", "closing"}
    \/ agent.process = "orphaned"
    \/ survivors # {}

\* What runObservation and its timers do; the agents do what they like.
Runs ==
    Start \/ Expire \/ GraceEnds \/ Seek \/ Poll \/ Watched \/ Terminate \/ Conclude \/ Remove
Agents == Handshake \/ Complete \/ BeginLog \/ Work \/ Answer \/ Exit \/ Close \/ Linger
=============================================================================
