------------------------------- MODULE Campaign -------------------------------
(***************************************************************************)
(* The scoring run of the H2 evaluation: commandRun and commandFinalize of *)
(* scripts/eval/h2/h2-cli.mjs over the observations of Observation, the    *)
(* report of h2-report.mjs and the decision of h2-statistics.mjs.          *)
(*                                                                         *)
(* The run is at the last task of its schedule: the pairs of the tasks     *)
(* before it, all resolved, enter as the table of their outcomes.          *)
(***************************************************************************)
EXTENDS Observation

CONSTANTS Schedule,     \* the cells that are left: both arms of the last task
          Tables        \* [bOnly, cOnly]: tasks before that one arm alone has solved

ASSUME ScheduleAssumption == Schedule \in Seq({"B", "C"})
ASSUME TablesAssumption == Tables \subseteq [bOnly : Nat, cOnly : Nat]

VARIABLES
    stage,      \* "running", "flushing", "reporting", "ended"; "failed" by an
                \* exception, "crashed" by one that nothing catches
    table,      \* input: the earlier pairs
    stopReason, \* of the ledger
    retained,   \* receipts in the memory of the controller
    report,     \* <<>> before there is one
    published,  \* the report went to the committed place
    truth       \* history: the Facts of each cell that has a receipt

campaignVars == <<stage, table, stopReason, retained, report, published, truth>>
vars == <<obsVars, campaignVars>>

CampaignInit ==
    /\ ObsInit
    /\ stage = "running" /\ table \in Tables /\ stopReason = "none"
    /\ retained = <<>> /\ report = <<>> /\ published = FALSE /\ truth = <<>>

\* The next cell, unless the deadline of the run has passed.
Observe ==
    /\ stage = "running" /\ phase = "idle" /\ Len(retained) < Len(Schedule)
    /\ \/ /\ Prepare(Schedule[Len(retained) + 1])
          /\ UNCHANGED campaignVars
       \/ /\ stage' = "flushing" /\ stopReason' = "RUN_BUDGET_EXHAUSTED"
          /\ UNCHANGED <<obsVars, table, retained, report, published, truth>>

\* History: what an observation has been, of the agent and the log alone, until
\* the log was read for the last time and the workspace graded.
Facts ==
    [earned |-> /\ agent.workspace = "solved" /\ agent.turn \in {"end_turn", "refusal"}
                /\ log.completions <= Limit /\ ~agent.overtime,
     exceeded |-> log.completions > Limit \/ late \/ agent.turn = "max_tokens",
     models |-> IF log.completions > 0 \/ log.models # {}
                THEN IF log.models = {"frozen"} THEN "frozen" ELSE "other"
                ELSE "none"]

\* An observation has returned: infrastructure first, then drift.
StopFor(r) ==
    CASE r.terminal \in {"INFRASTRUCTURE_FAILURE", "CANCELLED"} -> "INFRASTRUCTURE_FAILURE"
      [] r.terminal \notin {"INFRASTRUCTURE_FAILURE", "CANCELLED"} /\ r.drift -> "MODEL_IDENTITY_DRIFT"
      [] OTHER -> "none"
Record ==
    LET r == receipt[1] IN
    /\ stage = "running" /\ phase = "ended" /\ Return
    /\ retained' = Append(retained, r) /\ stopReason' = StopFor(r)
    /\ truth' = Append(truth, Facts)
    /\ stage' = IF StopFor(r) # "none" \/ Len(retained') = Len(Schedule) THEN "flushing" ELSE stage
    /\ UNCHANGED <<table, report, published>>

\* flushRunEvidence, in every case; an exception goes on after it.
Flush ==
    /\ \/ stage = "flushing" /\ stage' = "reporting"
       \/ stage = "running" /\ phase = "thrown" /\ stage' = "failed"
    /\ disk' = disk \cup {<<"run", "ledger">>} \cup {<<r.cell, "receipt">> : r \in {retained[i] : i \in DOMAIN retained}}
    /\ UNCHANGED <<phase, cell, agent, log, watch, late, local, receipt, survivors,
                   table, stopReason, retained, report, published, truth>>

\* The controller ends where it is, with all it knows.
Crash ==
    /\ stage \in {"running", "flushing", "reporting"} /\ Uncaught /\ stage' = "crashed"
    /\ phase' = "thrown" /\ Forgets
    /\ UNCHANGED <<table, stopReason, retained, report, published, truth>>

-----------------------------------------------------------------------------
\* exactOneSidedMcNemarP(c, b) <= alpha, in integers: the upper tail of the
\* binomial coefficients of n against 2^n.
Choose(n, k) ==
    LET row[i \in 0..n] == [j \in 0..n |->
            IF j = 0 THEN 1 ELSE IF i = 0 THEN 0 ELSE row[i - 1][j - 1] + row[i - 1][j]]
    IN  row[n][k]
UpperTail(n, k) ==
    LET above[j \in k..(n + 1)] == IF j > n THEN 0 ELSE Choose(n, j) + above[j + 1]
    IN  above[k]
Significant(c, b) == 20 * UpperTail(c + b, c) <= 2 ^ (c + b)
MinimumDiscordantWins == 2
Decision(c, b) ==
    CASE c <= b -> "INCONCLUSIVE"
      [] c > b /\ c - b < MinimumDiscordantWins -> "INCONCLUSIVE"
      [] OTHER -> IF Significant(c, b) THEN "CONFIRMED_BENEFIT" ELSE "INCONCLUSIVE"

\* buildH2Report: every pair of the schedule resolved, or no estimate.
ResolvedReceipt(r) == ~r.drift /\ r.terminal \in {"COMPLETED", "RESOURCE_EXHAUSTED", "REFUSAL"}
ReportOf(receipts) ==
    LET allResolved == /\ Len(receipts) = Len(Schedule)
                       /\ \A i \in DOMAIN receipts : ResolvedReceipt(receipts[i])
        succeeds(arm) == \E i \in DOMAIN receipts : receipts[i].cell = arm /\ receipts[i].success
        cOnly == table.cOnly + IF succeeds("C") /\ ~succeeds("B") THEN 1 ELSE 0
        bOnly == table.bOnly + IF succeeds("B") /\ ~succeeds("C") THEN 1 ELSE 0
    IN  [status |-> IF allResolved THEN Decision(cOnly, bOnly) ELSE "STOPPED_INVALID",
         failures |-> Cardinality({i \in DOMAIN receipts :
                          receipts[i].terminal \in {"INFRASTRUCTURE_FAILURE", "CANCELLED"}}),
         drifts |-> Cardinality({i \in DOMAIN receipts : receipts[i].drift}),
         executed |-> Len(receipts)]

Report ==
    /\ stage = "reporting" /\ stage' = "ended"
    /\ report' = <<ReportOf(retained)>>
    /\ UNCHANGED <<obsVars, table, stopReason, retained, published, truth>>

\* commandFinalize makes the report again from what is on disk, also of a run
\* that failed, and publishes it when it is that of a complete measurement.
Publishable(r) ==
    /\ r.failures = 0 /\ r.drifts = 0 /\ r.executed = Len(Schedule)
    /\ r.status # "STOPPED_INVALID"
Finalize ==
    /\ stage \in {"ended", "failed"} /\ ~published
    /\ report' = <<ReportOf(retained)>> /\ published' = Publishable(ReportOf(retained))
    /\ UNCHANGED <<obsVars, stage, table, stopReason, retained, truth>>

CampaignNext ==
    \/ Observe \/ Record \/ Flush \/ Crash \/ Report \/ Finalize
    \/ (stage = "running" /\ (Runs \/ Agents \/ TimePasses) /\ UNCHANGED campaignVars)

CampaignSpec == CampaignInit /\ [][CampaignNext]_vars

\* The controller goes on and its timers expire; of the agent nothing is
\* asked.
FairCampaignSpec ==
    /\ CampaignSpec
    /\ WF_vars(Observe) /\ WF_vars(Record) /\ WF_vars(Flush) /\ WF_vars(Report)
    /\ WF_vars(Start /\ UNCHANGED campaignVars) /\ WF_vars(Expire /\ UNCHANGED campaignVars)
    /\ WF_vars(GraceEnds /\ UNCHANGED campaignVars)
    /\ WF_vars((Seek \/ Poll) /\ UNCHANGED campaignVars)
    /\ WF_vars(Watched /\ UNCHANGED campaignVars) /\ WF_vars(Terminate /\ UNCHANGED campaignVars)
    /\ WF_vars((Conclude \/ Remove) /\ UNCHANGED campaignVars)

-----------------------------------------------------------------------------
\* A receipt is true: a success it counts left a solved workspace, within the
\* limit of completions and of time, what was exhausted was, and a model that
\* drifted is in the log.
ReceiptsAreTrue ==
    \A i \in DOMAIN retained :
        LET r == retained[i]
            fact == truth[i]
        IN  /\ r.cell = Schedule[i]
            /\ r.success => fact.earned
            /\ r.terminal = "RESOURCE_EXHAUSTED" => fact.exceeded
            /\ r.drift => fact.models = "other"

\* A report has a verdict, and only then it can be published, when each cell
\* was observed, with the frozen model and no other in the log as it was read;
\* and what stopped the run is called by its name.
MeasurementIsWhole ==
    /\ stopReason = "MODEL_IDENTITY_DRIFT" => \E i \in DOMAIN truth : truth[i].models = "other"
    /\ report # <<>> /\ report[1].status # "STOPPED_INVALID" =>
           /\ stage = "ended" /\ stopReason = "none" /\ Len(truth) = Len(Schedule)
           /\ \A i \in DOMAIN truth : truth[i].models = "frozen"
    /\ published => report # <<>> /\ report[1].status # "STOPPED_INVALID"

\* A benefit is confirmed when at most one in twenty ways to toss a coin for
\* every task that one arm alone has solved does as well for C.
CoinsAsGood(c, b) == {S \in SUBSET (1..(c + b)) : Cardinality(S) >= c}
BenefitIsSignificant ==
    report # <<>> /\ report[1].status # "STOPPED_INVALID" =>
        LET solves(arm) == \E i \in DOMAIN retained : retained[i].cell = arm /\ retained[i].success
            c == table.cOnly + IF solves("C") /\ ~solves("B") THEN 1 ELSE 0
            b == table.bOnly + IF solves("B") /\ ~solves("C") THEN 1 ELSE 0
        IN  report[1].status = "CONFIRMED_BENEFIT" <=>
                c >= b + 2 /\ 20 * Cardinality(CoinsAsGood(c, b)) <= 2 ^ (c + b)

\* What a report claims was earned.
ReportIsEarned == ReceiptsAreTrue /\ MeasurementIsWhole /\ BenefitIsSignificant

\* Before an agent is terminated, and after that while its observation goes on,
\* there is nothing on disk of another cell, not even the name of its
\* directory: an agent can read whatever it can name, and a solved workspace or
\* a receipt of the other arm would tell it the answer.  Excepted is what an
\* agent writes that has outlived its own observation.
Attended == agent.process = "running" \/ (agent.process = "orphaned" /\ phase # "thrown")
NothingOfOthersIsReadable ==
    Attended => \A p \in disk : p[1] = cell \/ (p[1] \in survivors /\ p[2] = "workspace")

\* What is removed is the tree of the observation under way, which carries its
\* marker and has its receipt: no observation deletes what it finds where it is
\* to begin, by whomever that was left (owned-tree.mjs), nor what it has not
\* judged yet.
OwnTreeIsJudged == <<cell, "marker">> \in disk /\ Len(receipt) = 1 /\ receipt[1].cell = cell
OnlyOwnedTreesAreRemoved == [][disk \subseteq disk' \/ OwnTreeIsJudged]_vars

\* A run ends, whatever its agents do, with all the evidence it has on disk.
\* Excepted are an agent that lives on and never answers a request other than
\* the prompt, which nothing limits (h2-runner.mjs:214 and :283), and an error
\* that nothing catches.
Unanswered == agent.process = "running" /\ phase \in {"handshake", "closing"}
CampaignEnds ==
    \/ <>(stage \in {"ended", "failed"} /\ <<"run", "ledger">> \in disk)
    \/ <>[]Unanswered
    \/ <>(stage = "crashed")
=============================================================================
