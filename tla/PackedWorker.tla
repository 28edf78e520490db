---------------------------- MODULE PackedWorker ----------------------------
(***************************************************************************)
(* runPackedPluginVerification (src/verification/packed-worker.ts): the    *)
(* worker that stages a packed plugin in a temporary root, installs,       *)
(* composes and boots it in five child processes, and keeps the ledger of  *)
(* stages (stages.ts) that the verification report is reduced from.        *)
(*                                                                         *)
(* The worker is one asynchronous function: what it does between two       *)
(* awaits is one action.  What interleaves is the abort of the signal, the *)
(* child processes (after ProcessRun), and whoever may rewrite or delete   *)
(* the caller's artifact meanwhile.                                        *)
(*                                                                         *)
(* An operator named X_Defect is X with a plausible slip of the code; no   *)
(* definition uses it.                                                     *)
(***************************************************************************)
EXTENDS Naturals, FiniteSets

VARIABLES
    request,      \* which assertions are requested
    aborted,      \* signal.aborted
    step,         \* where the worker is
    run,          \* the process of this step: "none", "running", an outcome
    ledger,       \* the mark of each runtime stage
    diagnostics,  \* the codes of the diagnostics
    terminal,     \* terminal
    cleanup,      \* cleanup
    root,         \* the temporary root: "absent", "present", "removed"
    source,       \* the artifact at the caller's path, relative to the bytes
                  \*   that were acquired: "bound", "drifted", "missing"
    artifact,     \* the bytes that were fingerprinted: "none" or their kind
    copy,         \* candidate.tgz, likewise
    spawns,       \* history: the steps that spawned a child
    succeeded,    \* history: the steps whose child exited with code 0
    output        \* history: the markers the booted child printed

worker == <<step, run, ledger, diagnostics, terminal, cleanup, artifact>>
history == <<spawns, succeeded, output>>
workerVars == <<request, aborted, step, run, ledger, diagnostics, terminal, cleanup,
                root, source, artifact, copy, spawns, succeeded, output>>

RuntimeStages == {"package", "install", "compose", "boot", "visibility", "behavior"}
ProcessSteps == {"installDsh", "installCandidate", "compose", "installProbe", "boot"}
Steps == {"idle", "createRoot", "layout", "readArtifact", "stageArtifact", "probe",
          "cleanup", "returned"} \cup ProcessSteps

\* A stage is passed, failed, or skipped for one of four reasons.
Marks == {"passed", "failed", "notExecuted", "blocked", "notRequested", "unproven"}
Markers == {"booted", "visible", "invisible", "behaved", "misbehaved"}

Promise == INSTANCE ProcessRun WITH
    spawned <- step \in spawns,
    outcome <- IF run \in {"none", "running"} THEN "pending" ELSE run

\* runner may also reject, when it is not runVerificationProcess.
RunOutcomes_NoRejection == Promise!Outcomes
RunOutcomes == Promise!Outcomes \cup {"rejected"}

-----------------------------------------------------------------------------
\* stages.ts: the ledger.
Prerequisite == [install |-> "package", compose |-> "install", boot |-> "compose",
                 visibility |-> "boot", behavior |-> "boot"]

Downstream == [package    |-> {"install", "compose", "boot", "visibility", "behavior"},
               install    |-> {"compose", "boot", "visibility", "behavior"},
               compose    |-> {"boot", "visibility", "behavior"},
               boot       |-> {"visibility", "behavior"},
               visibility |-> {"behavior"},
               behavior   |-> {}]

InitialLedger ==
    [stage \in RuntimeStages |->
        IF stage \in {"visibility", "behavior"} THEN "notRequested" ELSE "notExecuted"]

\* passVerificationStage throws where CanPass is false.
CanPass(marks, stage) ==
    stage \in DOMAIN Prerequisite => marks[Prerequisite[stage]] = "passed"

Pass(marks, stage) == [marks EXCEPT ![stage] = "passed"]

Fail_KeepsDownstream(marks, stage) == [marks EXCEPT ![stage] = "failed"]
Fail(marks, stage) ==
    [other \in RuntimeStages |-> IF other = stage THEN "failed"
                                 ELSE IF other \in Downstream[stage] THEN "blocked"
                                 ELSE marks[other]]

\* currentWorkerFailureStage: the first stage that has not passed.
FailureOrder == [package |-> 1, install |-> 2, compose |-> 3, boot |-> 4, visibility |-> 5]
CurrentFailureStage(marks) ==
    LET open == {stage \in DOMAIN FailureOrder : marks[stage] # "passed"}
    IN  IF open = {} THEN "visibility"
        ELSE CHOOSE stage \in open :
                 \A other \in open : FailureOrder[stage] <= FailureOrder[other]

-----------------------------------------------------------------------------
\* classifyVerificationProcessFailure and classifyVerificationWorkerFailure.
StageOf == [installDsh |-> "install", installCandidate |-> "install",
            compose |-> "compose", installProbe |-> "boot", boot |-> "boot"]
StageFailureCode == [install |-> "VERIFY_INSTALL_FAILED",
                     compose |-> "VERIFY_COMPOSE_FAILED", boot |-> "VERIFY_BOOT_FAILED"]

CodeOf(outcome, stage) ==
    CASE outcome = "exitedNonzero" -> StageFailureCode[stage]
      [] outcome = "signalled" -> "VERIFY_PROCESS_EXIT_FAILED"
      [] outcome = "timeout" -> "VERIFY_PROCESS_TIMEOUT"
      [] outcome = "cancelled" -> "VERIFY_PROCESS_CANCELLED"
      [] outcome \in {"stdoutLimit", "stderrLimit"} -> "VERIFY_PROCESS_OUTPUT_LIMIT_EXCEEDED"
      [] outcome = "startFailed" -> "VERIFY_PROCESS_START_FAILED"
      [] outcome = "rejected" -> "VERIFY_WORKER_FAILED"

TerminalOf(outcome) == IF outcome = "cancelled" THEN "cancelled" ELSE "failed"

Codes == {"VERIFY_INSTALL_FAILED", "VERIFY_COMPOSE_FAILED", "VERIFY_BOOT_FAILED",
          "VERIFY_PROCESS_EXIT_FAILED", "VERIFY_PROCESS_TIMEOUT",
          "VERIFY_PROCESS_CANCELLED", "VERIFY_PROCESS_OUTPUT_LIMIT_EXCEEDED",
          "VERIFY_PROCESS_START_FAILED", "VERIFY_WORKER_FAILED",
          "VERIFY_ARTIFACT_STALE", "VERIFY_ARTIFACT_READ_FAILED",
          "VERIFY_ARTIFACT_LIMIT_EXCEEDED", "VERIFY_PACKAGE_ENTRYPOINT_MISSING",
          "VERIFY_PACKAGE_INSPECTION_FAILED", "VERIFY_VISIBILITY_FAILED",
          "VERIFY_BEHAVIOR_FAILED", "VERIFY_CLEANUP_FAILED"}

-----------------------------------------------------------------------------
WorkerInit ==
    /\ request \in [visibility : BOOLEAN, behavior : BOOLEAN]
    /\ aborted \in BOOLEAN
    /\ step = "idle"
    /\ run = "none"
    /\ ledger = InitialLedger
    /\ diagnostics = {}
    /\ terminal = "failed"
    /\ cleanup = "not-required"
    /\ root = "absent"
    /\ source = "bound"
    /\ artifact = "none"
    /\ copy = "none"
    /\ spawns = {}
    /\ succeeded = {}
    /\ output = {}

\* The worker goes on to another step with nothing to record.
GoTo(next) ==
    /\ step' = next
    /\ run' = "none"
    /\ UNCHANGED <<ledger, diagnostics, terminal>>

\* The finally clause: a root that was created is cleaned up.
Leave == IF root = "absent" THEN "returned" ELSE "cleanup"

\* A stage fails with a diagnostic and nothing more is done.
Stop(stage, code, how) ==
    /\ diagnostics' = diagnostics \cup {code}
    /\ ledger' = Fail(ledger, stage)
    /\ terminal' = how
    /\ step' = Leave
    /\ run' = "none"

\* The outer catch: an unexpected failure of the infrastructure.
WorkerFailure ==
    /\ diagnostics' = diagnostics \cup {"VERIFY_WORKER_FAILED"}
    /\ ledger' = Fail(ledger, CurrentFailureStage(ledger))
    /\ terminal' = "failed"
    /\ step' = Leave
    /\ run' = "none"

Call ==
    /\ step = "idle"
    /\ GoTo("createRoot")
    /\ UNCHANGED <<request, aborted, cleanup, root, source, artifact, copy, history>>

CreateRoot ==
    /\ step = "createRoot"
    /\ \/ root' = "present" /\ GoTo("layout")
       \/ WorkerFailure /\ UNCHANGED root
    /\ UNCHANGED <<request, aborted, cleanup, source, artifact, copy, history>>

\* The directories of the root and the package.json of the runner.
Layout ==
    /\ step = "layout"
    /\ GoTo("readArtifact") \/ WorkerFailure
    /\ UNCHANGED <<request, aborted, cleanup, root, source, artifact, copy, history>>

\* fingerprintPackedArtifact on the caller's path: bytes other than those
\* that were acquired are stale, or too many; the bytes are fingerprinted.
Matches(bytes) == bytes = "bound"

ReadArtifact ==
    /\ step = "readArtifact"
    /\ IF Matches(source)
       THEN \/ artifact' = source /\ GoTo("stageArtifact")
            \/ Stop("package", "VERIFY_ARTIFACT_READ_FAILED", "failed") /\ UNCHANGED artifact
       ELSE /\ \E code \in {"VERIFY_ARTIFACT_READ_FAILED"} \cup
                           (IF source = "missing" THEN {}
                            ELSE {"VERIFY_ARTIFACT_STALE", "VERIFY_ARTIFACT_LIMIT_EXCEEDED"}) :
                   Stop("package", code, "failed")
            /\ UNCHANGED artifact
    /\ UNCHANGED <<request, aborted, cleanup, root, source, copy, history>>

\* The copy is written from the bytes in memory, fingerprinted again, and
\* the runtime entrypoint looked for in the same bytes: it is present or
\* cannot be checked, or it is missing, or the archive cannot be read.
StageArtifact ==
    /\ step = "stageArtifact"
    /\ \/ /\ copy' = artifact
          /\ \/ /\ CanPass(ledger, "package")
                /\ ledger' = Pass(ledger, "package")
                /\ step' = "installDsh"
                /\ UNCHANGED <<run, diagnostics, terminal>>
             \/ \E code \in {"VERIFY_PACKAGE_ENTRYPOINT_MISSING",
                             "VERIFY_PACKAGE_INSPECTION_FAILED"} :
                    Stop("package", code, "failed")
       \/ /\ copy' \in {"none", "damaged"}
          /\ \E code \in {"VERIFY_ARTIFACT_STALE", "VERIFY_ARTIFACT_READ_FAILED"} :
                 Stop("package", code, "failed")
    /\ UNCHANGED <<request, aborted, cleanup, root, source, artifact, history>>

\* createVerificationBootProbe, which has a catch of its own.
PrepareProbe ==
    /\ step = "probe"
    /\ GoTo("installProbe") \/ Stop("boot", "VERIFY_BOOT_FAILED", "failed")
    /\ UNCHANGED <<request, aborted, cleanup, root, source, artifact, copy, history>>

\* runVerificationProcess is called: it settles at once under an aborted
\* signal or when spawn throws.
SpawnAllowed_Always == TRUE
SpawnAllowed == ~aborted

StartProcess ==
    /\ step \in ProcessSteps
    /\ run = "none"
    /\ \/ SpawnAllowed /\ run' = "running" /\ spawns' = spawns \cup {step}
       \/ run' \in Promise!Possible(aborted, FALSE) /\ UNCHANGED spawns
    /\ UNCHANGED <<request, aborted, step, ledger, diagnostics, terminal, cleanup,
                   root, source, artifact, copy, succeeded, output>>

\* It settles.  What the candidate prints in the booted process is anyone's
\* guess: the markers are no authentication.
ProcessSettles ==
    /\ run = "running"
    /\ run' \in Promise!Possible(aborted, TRUE) \cup {"rejected"}
    /\ IF run' = "exitedZero"
       THEN /\ succeeded' = succeeded \cup {step}
            /\ output' \in IF step = "boot" THEN SUBSET Markers ELSE {output}
       ELSE UNCHANGED <<succeeded, output>>
    /\ UNCHANGED <<request, aborted, step, ledger, diagnostics, terminal, cleanup,
                   root, source, artifact, copy, spawns>>

\* The await of a process resumes with a failure.
ProcessFailed ==
    /\ run \in RunOutcomes \ {"exitedZero"}
    /\ Stop(StageOf[step], CodeOf(run, StageOf[step]), TerminalOf(run))
    /\ UNCHANGED <<request, aborted, cleanup, root, source, artifact, copy, history>>

\* It resumes with success at a step other than boot: a stage is passed at
\* the last of its processes.
NextStep == [installDsh |-> "installCandidate", installCandidate |-> "compose",
             compose |-> "probe", installProbe |-> "boot"]
Passes(at) == at \in {"installCandidate", "compose"}

ProcessSucceeded ==
    /\ run = "exitedZero"
    /\ step # "boot"
    /\ IF ~Passes(step) THEN GoTo(NextStep[step])
       ELSE IF CanPass(ledger, StageOf[step])
       THEN /\ ledger' = Pass(ledger, StageOf[step])
            /\ step' = NextStep[step]
            /\ run' = "none"
            /\ UNCHANGED <<diagnostics, terminal>>
       ELSE WorkerFailure
    /\ UNCHANGED <<request, aborted, cleanup, root, source, artifact, copy, history>>

\* What a pair of markers says of an assertion batch.
Judged_FailureIgnored(pass, fail) ==
    CASE pass \in output -> "passed"
      [] fail \in output /\ pass \notin output -> "failed"
      [] OTHER -> "unproven"
Judged(pass, fail) ==
    CASE pass \in output /\ fail \notin output -> "passed"
      [] fail \in output /\ pass \notin output -> "failed"
      [] OTHER -> "unproven"

Record(marks, stage, verdict) ==
    CASE verdict = "passed" -> Pass(marks, stage)
      [] verdict = "failed" -> Fail(marks, stage)
      [] verdict = "unproven" -> [marks EXCEPT ![stage] = "unproven"]

WithVisibility(marks) ==
    IF request.visibility THEN Record(marks, "visibility", Judged("visible", "invisible"))
    ELSE marks

\* Requested behavior is judged only if requested visibility has passed.
BehaviorJudgeable(marks) == request.visibility => marks["visibility"] = "passed"

WithBehavior(marks) ==
    IF ~request.behavior THEN marks
    ELSE IF BehaviorJudgeable(marks)
    THEN Record(marks, "behavior", Judged("behaved", "misbehaved"))
    ELSE IF marks["visibility"] # "failed" THEN [marks EXCEPT !["behavior"] = "unproven"]
    ELSE marks

\* hasExactMarker of the boot probe.
BootProven == "booted" \in output

\* The booted process exited with code 0: without the exact marker that is
\* no boot, with it the assertions are judged and the worker completes.
BootSucceeded ==
    /\ run = "exitedZero"
    /\ step = "boot"
    /\ IF ~BootProven THEN Stop("boot", "VERIFY_BOOT_FAILED", "failed")
       ELSE IF ~CanPass(ledger, "boot") THEN WorkerFailure
       ELSE LET judged == WithBehavior(WithVisibility(Pass(ledger, "boot")))
            IN  /\ ledger' = judged
                /\ diagnostics' = diagnostics
                       \cup (IF judged["visibility"] = "failed"
                             THEN {"VERIFY_VISIBILITY_FAILED"} ELSE {})
                       \cup (IF judged["behavior"] = "failed"
                             THEN {"VERIFY_BEHAVIOR_FAILED"} ELSE {})
                /\ terminal' = "completed"
                /\ step' = Leave
                /\ run' = "none"
    /\ UNCHANGED <<request, aborted, cleanup, root, source, artifact, copy, history>>

\* finally: the root is removed, or the failure to remove it is recorded.
CleanUp ==
    /\ step = "cleanup"
    /\ step' = "returned"
    /\ \/ /\ cleanup' = "succeeded"
          /\ root' = "removed"
          /\ UNCHANGED diagnostics
       \/ /\ cleanup' = "failed"
          /\ diagnostics' = diagnostics \cup {"VERIFY_CLEANUP_FAILED"}
          /\ UNCHANGED root
    /\ UNCHANGED <<request, aborted, run, ledger, terminal, source, artifact, copy, history>>

\* controller.abort(), by operation.cancel or close().
Abort ==
    /\ ~aborted
    /\ aborted' = TRUE
    /\ UNCHANGED <<request, worker, root, source, copy, history>>

\* Somebody rewrites or deletes the artifact.
Drift ==
    /\ source = "bound"
    /\ source' \in {"drifted", "missing"}
    /\ UNCHANGED <<request, aborted, worker, root, copy, history>>

WorkerStep ==
    \/ CreateRoot \/ Layout \/ ReadArtifact \/ StageArtifact \/ PrepareProbe
    \/ StartProcess \/ ProcessFailed \/ ProcessSucceeded \/ BootSucceeded \/ CleanUp

WorkerNext == Call \/ WorkerStep \/ ProcessSettles \/ Abort \/ Drift

WorkerSpec == WorkerInit /\ [][WorkerNext]_workerVars

-----------------------------------------------------------------------------
\* Every variable holds a value of its type.
WorkerTypeOK ==
    /\ request \in [visibility : BOOLEAN, behavior : BOOLEAN]
    /\ aborted \in BOOLEAN
    /\ step \in Steps
    /\ run \in {"none", "running"} \cup RunOutcomes
    /\ ledger \in [RuntimeStages -> Marks]
    /\ diagnostics \subseteq Codes
    /\ terminal \in {"completed", "failed", "cancelled"}
    /\ cleanup \in {"not-required", "succeeded", "failed"}
    /\ root \in {"absent", "present", "removed"}
    /\ source \in {"bound", "drifted", "missing"}
    /\ artifact \in {"none", "bound", "drifted"}
    /\ copy \in {"none", "bound", "drifted", "damaged"}
    /\ spawns \subseteq ProcessSteps
    /\ succeeded \subseteq spawns
    /\ output \subseteq Markers

\* A stage that is marked passed was proven: by the right bytes, by every one
\* of its processes, and by markers of a requested assertion that say so and
\* nothing else.
PassedIsProven ==
    /\ ledger["package"] = "passed" => copy = "bound"
    /\ ledger["install"] = "passed" => {"installDsh", "installCandidate"} \subseteq succeeded
    /\ ledger["compose"] = "passed" => "compose" \in succeeded
    /\ ledger["boot"] = "passed" =>
           {"installProbe", "boot"} \subseteq succeeded /\ "booted" \in output
    /\ ledger["visibility"] = "passed" =>
           request.visibility /\ "visible" \in output /\ "invisible" \notin output
    /\ ledger["behavior"] = "passed" =>
           /\ request.behavior /\ "behaved" \in output /\ "misbehaved" \notin output
           /\ request.visibility => ledger["visibility"] = "passed"

\* Nothing passes below a stage that has not, and the worker's conclusion
\* agrees with its ledger: it completes exactly if all four required stages
\* passed, and a stage that failed always has its diagnostic.
LedgerAgrees ==
    /\ \A stage \in DOMAIN Prerequisite :
           ledger[stage] = "passed" => ledger[Prerequisite[stage]] = "passed"
    /\ \A stage \in RuntimeStages : ledger[stage] = "failed" =>
           /\ diagnostics # {}
           /\ \A below \in Downstream[stage] : ledger[below] = "blocked"
    /\ step = "returned" =>
           (terminal = "completed") =
               (\A stage \in {"package", "install", "compose", "boot"} : ledger[stage] = "passed")

\* Cancelled is concluded only under an aborted signal, and VERIFY_WORKER_FAILED
\* only of an infrastructure that failed, never of the ledger refusing a pass.
ConclusionHasItsCause ==
    /\ terminal = "cancelled" => aborted /\ "VERIFY_PROCESS_CANCELLED" \in diagnostics
    /\ "VERIFY_WORKER_FAILED" \in diagnostics =>
           terminal = "failed" /\ (spawns = {} \/ spawns # succeeded)

\* The root the worker created is gone when it returns, or the report says
\* that it is not; it is never removed while a process runs in it.
RootAccountedFor ==
    /\ step = "returned" /\ root = "present" => "VERIFY_CLEANUP_FAILED" \in diagnostics
    /\ run # "none" => root = "present"

\* What the worker returns is one story: ledger, conclusion, diagnostics and
\* the fate of its root agree.
ConclusionIsHonest == LedgerAgrees /\ ConclusionHasItsCause /\ RootAccountedFor

\* From the moment the signal is aborted the worker spawns no further child,
\* and marks no stage as passed for a process that had not yet settled.
AbortStopsWork ==
    [][aborted => /\ spawns' = spawns
                  /\ succeeded' = succeeded]_workerVars

\* A worker that is called returns.
WorkerReturns == step = "createRoot" ~> step = "returned"
=============================================================================
