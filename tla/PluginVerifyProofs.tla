-------------------------- MODULE PluginVerifyProofs --------------------------
(***************************************************************************)
(* Theorems about verifyPlugin and the packed worker it runs.  Those about *)
(* the worker come first; they hold for whatever its children, the file    *)
(* system, the signal and those who rewrite the artifact do.  The second   *)
(* part is about verifyPlugin around it, for any number of epochs of the   *)
(* world and any number of changes to it.  The third is about one child    *)
(* process of the worker: its runner keeps the promise the worker counts   *)
(* on.                                                                     *)
(***************************************************************************)
EXTENDS PluginVerify, VerificationProcess, TLAPS

\* What lies behind a worker that has come as far as a step: the stages it
\* has passed and the processes that have succeeded.
Preparing == {"idle", "createRoot", "layout", "readArtifact", "stageArtifact"}
Ended == {"cleanup", "returned"}
PassedBefore(at) ==
    CASE at \in {"installDsh", "installCandidate"} -> {"package"}
      [] at = "compose" -> {"package", "install"}
      [] at \in {"probe", "installProbe", "boot"} -> {"package", "install", "compose"}
      [] OTHER -> {}
SucceededBefore(at) ==
    CASE at = "installCandidate" -> {"installDsh"}
      [] at = "compose" -> {"installDsh", "installCandidate"}
      [] at \in {"probe", "installProbe"} -> {"installDsh", "installCandidate", "compose"}
      [] at = "boot" -> {"installDsh", "installCandidate", "compose", "installProbe"}
      [] OTHER -> {}

\* Until it ends the worker has nothing to report, and its ledger says how far
\* it has come.
LedgerTellsTheStep ==
    step \notin Ended =>
        /\ \A stage \in RuntimeStages :
               ledger[stage] = IF stage \in PassedBefore(step) THEN "passed"
                               ELSE InitialLedger[stage]
        /\ diagnostics = {} /\ terminal = "failed" /\ cleanup = "not-required"

\* The processes that ran are those of the steps that lie behind, but for the
\* one of this step.
RunsTellTheStep ==
    /\ run # "none" => step \in ProcessSteps
    /\ step \notin Ended =>
        /\ succeeded = SucceededBefore(step) \cup (IF run = "exitedZero" THEN {step} ELSE {})
        /\ run = "none" => spawns = succeeded
        /\ run \in {"running", "exitedZero", "rejected"} =>
               spawns = SucceededBefore(step) \cup {step}
    /\ "boot" \notin succeeded => output = {}
    /\ run = "cancelled" => aborted

\* The root is there while the worker works in it, and the bytes that were
\* copied to it are those acquired.
RootAndCopy ==
    /\ step \in {"idle", "createRoot"} => root = "absent"
    /\ step \notin Ended \cup {"idle", "createRoot"} => root = "present"
    /\ step = "cleanup" => root = "present"
    /\ root = "present" /\ step = "returned" => "VERIFY_CLEANUP_FAILED" \in diagnostics
    /\ root = "removed" <=> cleanup = "succeeded"
    /\ artifact \in {"none", "bound"} /\ copy # "drifted"
    /\ step \in Preparing => copy = "none"
    /\ step \in {"stageArtifact", "probe"} \cup ProcessSteps => artifact = "bound"
    /\ step \in {"probe"} \cup ProcessSteps => copy = "bound"

\* A worker that has ended has completed exactly if the required stages passed.
EndTellsTheLedger ==
    step \in Ended =>
        (terminal = "completed") =
            (\A stage \in {"package", "install", "compose", "boot"} : ledger[stage] = "passed")

WorkerInv ==
    /\ WorkerTypeOK
    /\ PassedIsProven
    /\ LedgerAgrees
    /\ ConclusionHasItsCause
    /\ LedgerTellsTheStep
    /\ RunsTellTheStep
    /\ RootAndCopy
    /\ EndTellsTheLedger

\* What those who report on the worker rely on: requested assertions were
\* judged, a cancelled worker stopped short, one that did not complete says
\* why, and nothing was copied to a root that is not there.
RequestedIsJudged ==
    ledger["boot"] = "passed" =>
        /\ request.visibility => ledger["visibility"] \in {"passed", "failed", "unproven"}
        /\ request.behavior => \/ ledger["behavior"] \in {"passed", "failed", "unproven"}
                                \/ ledger["visibility"] = "failed"

StoryIsWhole ==
    /\ RequestedIsJudged
    /\ terminal = "cancelled" => ~(ProcessSteps \subseteq succeeded)
    /\ step \in Ended /\ terminal # "completed" => diagnostics # {}
    /\ root = "absent" => copy = "none"

-----------------------------------------------------------------------------
LEMMA InitWorkerInv == WorkerInit => WorkerInv
<1> SUFFICES ASSUME WorkerInit PROVE WorkerInv
  OBVIOUS
<1>1. \A stage \in RuntimeStages : ledger[stage] \in {"notExecuted", "notRequested"}
  BY DEF WorkerInit, InitialLedger
<1>2. WorkerTypeOK
  BY DEF WorkerInit, InitialLedger, WorkerTypeOK, Steps, Marks
<1>3. PassedIsProven
  BY <1>1 DEF PassedIsProven, RuntimeStages
<1>4. LedgerAgrees
  BY <1>1 DEF WorkerInit, LedgerAgrees, Prerequisite, RuntimeStages
<1>5. ConclusionHasItsCause /\ RunsTellTheStep
  BY DEF WorkerInit, ConclusionHasItsCause, RunsTellTheStep, SucceededBefore
<1>6. LedgerTellsTheStep
  BY DEF WorkerInit, LedgerTellsTheStep, PassedBefore
<1>7. RootAndCopy /\ EndTellsTheLedger
  BY DEF WorkerInit, RootAndCopy, EndTellsTheLedger, Ended, ProcessSteps
<1> QED BY <1>2, <1>3, <1>4, <1>5, <1>6, <1>7 DEF WorkerInv

\* What the ledger holds on the way, stage by stage.
LEMMA LedgerOnTheWay ==
    ASSUME WorkerTypeOK, LedgerTellsTheStep, step \notin Ended
    PROVE  /\ ledger["package"] = IF step \in Preparing THEN "notExecuted" ELSE "passed"
           /\ ledger["install"] = IF step \in {"compose", "probe", "installProbe", "boot"}
                                  THEN "passed" ELSE "notExecuted"
           /\ ledger["compose"] = IF step \in {"probe", "installProbe", "boot"}
                                  THEN "passed" ELSE "notExecuted"
           /\ ledger["boot"] = "notExecuted"
           /\ ledger["visibility"] = "notRequested"
           /\ ledger["behavior"] = "notRequested"
BY DEF WorkerTypeOK, LedgerTellsTheStep, PassedBefore, Preparing, Ended, Steps, ProcessSteps,
       InitialLedger, RuntimeStages

\* The order of the stages, spelled out.
LEMMA Prerequisites ==
    ASSUME NEW marks
    PROVE  (\A stage \in DOMAIN Prerequisite :
                marks[stage] = "passed" => marks[Prerequisite[stage]] = "passed")
           <=> /\ marks["install"] = "passed" => marks["package"] = "passed"
               /\ marks["compose"] = "passed" => marks["install"] = "passed"
               /\ marks["boot"] = "passed" => marks["compose"] = "passed"
               /\ marks["visibility"] = "passed" => marks["boot"] = "passed"
               /\ marks["behavior"] = "passed" => marks["boot"] = "passed"
<1>1. DOMAIN Prerequisite = {"install", "compose", "boot", "visibility", "behavior"}
  BY DEF Prerequisite
<1>2. /\ Prerequisite["install"] = "package" /\ Prerequisite["compose"] = "install"
      /\ Prerequisite["boot"] = "compose" /\ Prerequisite["visibility"] = "boot"
      /\ Prerequisite["behavior"] = "boot"
  BY DEF Prerequisite
<1> QED BY <1>1, <1>2

\* Whatever stage failed, and with it the worker, the stages that passed before
\* it were proven, and the conclusion and the diagnostics say what happened.
LEMMA StopKeepsInv ==
    ASSUME WorkerInv, step \notin Ended,
           NEW stage \in {"package", "install", "compose", "boot"}, NEW code \in Codes,
           NEW how \in {"failed", "cancelled"},
           ledger[stage] # "passed",
           how = "cancelled" => aborted /\ code = "VERIFY_PROCESS_CANCELLED",
           code = "VERIFY_WORKER_FAILED" =>
               how = "failed" /\ (spawns = {} \/ spawns # succeeded),
           Stop(stage, code, how),
           UNCHANGED <<request, aborted, cleanup, root, source, spawns, succeeded, output>>,
           artifact' \in {"none", "bound"}, copy' \in {"none", "bound", "damaged"},
           copy' = copy \/ stage = "package", step # "idle"
    PROVE  WorkerInv'
<1> USE DEF WorkerInv
<1>1. /\ diagnostics' = diagnostics \cup {code}
      /\ ledger' = Fail(ledger, stage)
      /\ terminal' = how
      /\ step' = Leave
      /\ run' = "none"
  BY DEF Stop
<1>2. step' = (IF step = "createRoot" THEN "returned" ELSE "cleanup")
  BY <1>1 DEF Leave, RootAndCopy, WorkerTypeOK
<1>3. \A other \in RuntimeStages :
          ledger'[other] = IF other = stage THEN "failed"
                           ELSE IF other \in Downstream[stage] THEN "blocked"
                           ELSE ledger[other]
  BY <1>1 DEF Fail
<1>4. WorkerTypeOK'
  <2>1. ledger' \in [RuntimeStages -> Marks]
    BY <1>1, <1>3 DEF Fail, WorkerTypeOK, Marks
  <2> QED BY <1>1, <1>2, <2>1 DEF WorkerTypeOK, Steps
<1>5. /\ stage = "package" => ledger'["package"] = "failed" /\ ledger'["install"] = "blocked"
      /\ stage = "install" => ledger'["package"] = ledger["package"] /\ ledger'["install"] = "failed"
      /\ stage \in {"compose", "boot"} => /\ ledger'["package"] = ledger["package"]
                                          /\ ledger'["install"] = ledger["install"]
      /\ stage \in {"package", "install"} => ledger'["compose"] = "blocked"
      /\ stage = "compose" => ledger'["compose"] = "failed"
      /\ stage = "boot" => ledger'["compose"] = ledger["compose"]
      /\ stage # "boot" => ledger'["boot"] = "blocked"
      /\ stage = "boot" => ledger'["boot"] = "failed"
      /\ ledger'["visibility"] = "blocked" /\ ledger'["behavior"] = "blocked"
  BY <1>3 DEF Downstream, RuntimeStages
<1>6. PassedIsProven'
  BY <1>5 DEF PassedIsProven
<1>7. LedgerAgrees'
  <2>1. \A s \in DOMAIN Prerequisite :
            ledger'[s] = "passed" => ledger'[Prerequisite[s]] = "passed"
    <3>1. /\ ledger["install"] = "passed" => ledger["package"] = "passed"
          /\ ledger["compose"] = "passed" => ledger["install"] = "passed"
      BY Prerequisites DEF LedgerAgrees
    <3>2. /\ ledger'["install"] = "passed" => ledger'["package"] = "passed"
          /\ ledger'["compose"] = "passed" => ledger'["install"] = "passed"
          /\ ledger'["boot"] # "passed"
          /\ ledger'["visibility"] # "passed" /\ ledger'["behavior"] # "passed"
      BY <1>5, <3>1
    <3> QED BY <3>2, Prerequisites
  <2>2. \A s \in RuntimeStages : ledger'[s] = "failed" => s = stage
    BY <1>5, LedgerOnTheWay DEF RuntimeStages
  <2>3. \A below \in Downstream[stage] : ledger'[below] = "blocked"
    BY <1>5 DEF Downstream
  <2>4. terminal' # "completed" /\ ledger'[stage] = "failed"
    BY <1>1, <1>5
  <2> QED BY <1>1, <2>1, <2>2, <2>3, <2>4 DEF LedgerAgrees
<1>8. ConclusionHasItsCause'
  BY <1>1 DEF LedgerTellsTheStep, ConclusionHasItsCause
<1>9. LedgerTellsTheStep' /\ RunsTellTheStep'
  BY <1>1, <1>2 DEF LedgerTellsTheStep, RunsTellTheStep, Ended
<1>10. RootAndCopy'
  BY <1>1, <1>2
     DEF RootAndCopy, LedgerTellsTheStep, Preparing, Ended, WorkerTypeOK, Steps, ProcessSteps
<1>11. EndTellsTheLedger'
  BY <1>1, <1>5 DEF EndTellsTheLedger
<1> QED BY <1>4, <1>6, <1>7, <1>8, <1>9, <1>10, <1>11

\* The first stage that has not passed is package until it passes.
LEMMA FirstFailureIsPackage ==
    ASSUME ledger["package"] # "passed"
    PROVE  CurrentFailureStage(ledger) = "package"
<1> DEFINE open == {stage \in DOMAIN FailureOrder : ledger[stage] # "passed"}
           First(stage) == \A other \in open : FailureOrder[stage] <= FailureOrder[other]
<1>1. \A stage \in DOMAIN FailureOrder :
          FailureOrder[stage] \in 1..5 /\ (FailureOrder[stage] = 1 <=> stage = "package")
  BY DEF FailureOrder
<1>2. "package" \in open /\ First("package") /\ FailureOrder["package"] = 1
  BY <1>1 DEF FailureOrder
<1>3. \A stage \in open : First(stage) => stage = "package"
  BY <1>1, <1>2
<1>4. (CHOOSE stage \in open : First(stage)) = "package"
  BY <1>2, <1>3
<1> QED BY <1>2, <1>4 DEF CurrentFailureStage
\* A worker that goes on is told by its ledger to have come as far as it did.
LEMMA AdvanceKeepsInv ==
    ASSUME WorkerInv, step \notin Ended, NEW next \in Steps \ (Ended \cup {"idle"}),
           step' = next, run' = "none",
           UNCHANGED <<diagnostics, terminal, cleanup, request, aborted, source,
                       spawns, succeeded, output>>,
           ledger' \in [RuntimeStages -> Marks],
           \A stage \in RuntimeStages :
               ledger'[stage] = IF stage \in PassedBefore(next) THEN "passed"
                                ELSE InitialLedger[stage],
           succeeded = SucceededBefore(next), spawns = succeeded,
           root' = IF next = "createRoot" THEN "absent" ELSE "present",
           artifact' \in {"none", "bound"}, copy' \in {"none", "bound"},
           next \in {"stageArtifact", "probe"} \cup ProcessSteps => artifact' = "bound",
           next \in {"probe"} \cup ProcessSteps => copy' = "bound",
           next \in Preparing => copy' = "none"
    PROVE  WorkerInv'
<1> USE DEF WorkerInv
<1>1. WorkerTypeOK'
  BY DEF WorkerTypeOK
<1>2. diagnostics = {} /\ terminal = "failed" /\ cleanup = "not-required"
  BY DEF LedgerTellsTheStep
<1>3. LedgerTellsTheStep'
  BY <1>2 DEF LedgerTellsTheStep
<1>4. step' \notin Ended
  OBVIOUS
<1>5. /\ ledger'["package"] = IF next \in Preparing THEN "notExecuted" ELSE "passed"
      /\ ledger'["install"] = IF next \in {"compose", "probe", "installProbe", "boot"}
                              THEN "passed" ELSE "notExecuted"
      /\ ledger'["compose"] = IF next \in {"probe", "installProbe", "boot"}
                              THEN "passed" ELSE "notExecuted"
      /\ ledger'["boot"] = "notExecuted"
      /\ ledger'["visibility"] = "notRequested"
      /\ ledger'["behavior"] = "notRequested"
  BY DEF PassedBefore, Preparing, Ended, Steps, ProcessSteps, InitialLedger, RuntimeStages
<1>6. next \notin Preparing => copy' = "bound"
  BY DEF Preparing, Ended, Steps
<1>7. PassedIsProven'
  BY <1>5, <1>6 DEF PassedIsProven, SucceededBefore
<1>8. LedgerAgrees'
  <2>1. \A stage \in RuntimeStages : ledger'[stage] # "failed"
    BY <1>5 DEF RuntimeStages
  <2>2. \A stage \in DOMAIN Prerequisite :
            ledger'[stage] = "passed" => ledger'[Prerequisite[stage]] = "passed"
    BY <1>5, Prerequisites DEF Preparing
  <2> QED BY <1>4, <2>1, <2>2 DEF LedgerAgrees, Ended
<1>9. ConclusionHasItsCause'
  BY <1>2 DEF ConclusionHasItsCause
<1>10. RunsTellTheStep'
  BY DEF RunsTellTheStep
<1>11. RootAndCopy'
  BY <1>2 DEF RootAndCopy, Ended, Steps, ProcessSteps
<1>12. EndTellsTheLedger'
  BY DEF EndTellsTheLedger
<1> QED BY <1>1, <1>3, <1>7, <1>8, <1>9, <1>10, <1>11, <1>12

\* To go on without passing a stage, the worker has nothing to prove.
LEMMA GoToKeepsInv ==
    ASSUME WorkerInv, step \notin Ended, NEW next \in Steps \ (Ended \cup {"idle"}),
           GoTo(next), run \in {"none", "exitedZero"},
           PassedBefore(next) = PassedBefore(step), SucceededBefore(next) = succeeded,
           UNCHANGED <<request, aborted, cleanup, source, copy, spawns, succeeded, output>>,
           root' = IF next = "createRoot" THEN "absent" ELSE "present",
           artifact' \in {"none", "bound"},
           next \in {"stageArtifact", "probe"} \cup ProcessSteps => artifact' = "bound",
           next \in Preparing <=> step \in Preparing
    PROVE  WorkerInv'
<1> USE DEF WorkerInv
<1>1. spawns = succeeded
  BY DEF RunsTellTheStep
<1>2. /\ ledger' \in [RuntimeStages -> Marks]
      /\ \A stage \in RuntimeStages :
             ledger'[stage] = IF stage \in PassedBefore(next) THEN "passed"
                              ELSE InitialLedger[stage]
  BY DEF GoTo, LedgerTellsTheStep, WorkerTypeOK
<1>3. /\ next \in Preparing => copy = "none"
      /\ next \in {"probe"} \cup ProcessSteps => copy = "bound"
      /\ copy \in {"none", "bound"}
  BY DEF RootAndCopy, Preparing, WorkerTypeOK, Steps, Ended, ProcessSteps
<1> QED BY <1>1, <1>2, <1>3, AdvanceKeepsInv DEF GoTo

-----------------------------------------------------------------------------
\* The call of the worker, and the steps that prepare its root.
LEMMA CallStep == ASSUME WorkerInv, Call PROVE WorkerInv'
<1> USE DEF WorkerInv
<1>1. /\ step = "idle" /\ GoTo("createRoot")
      /\ UNCHANGED <<request, aborted, cleanup, root, source, artifact, copy,
                     spawns, succeeded, output>>
  BY DEF Call, history
<1>2. run = "none" /\ succeeded = {} /\ root = "absent"
  BY <1>1 DEF RunsTellTheStep, ProcessSteps, SucceededBefore, Ended, RootAndCopy
<1>3. PassedBefore("createRoot") = PassedBefore(step) /\ SucceededBefore("createRoot") = {}
  BY <1>1 DEF PassedBefore, SucceededBefore
<1>4. /\ "createRoot" \in Steps \ (Ended \cup {"idle"}) /\ step \notin Ended
      /\ "createRoot" \in Preparing /\ step \in Preparing
      /\ "createRoot" \notin {"stageArtifact", "probe"} \cup ProcessSteps
  BY <1>1 DEF Steps, Ended, Preparing, ProcessSteps
<1>5. artifact' \in {"none", "bound"}
  BY <1>1 DEF RootAndCopy
<1> QED BY <1>1, <1>2, <1>3, <1>4, <1>5, GoToKeepsInv

\* An unexpected failure before anything passed is one of the package stage.
LEMMA EarlyWorkerFailure ==
    ASSUME WorkerInv, step \in {"createRoot", "layout"}, WorkerFailure,
           UNCHANGED <<request, aborted, cleanup, root, source, artifact, copy,
                       spawns, succeeded, output>>
    PROVE  WorkerInv'
<1> USE DEF WorkerInv
<1>1. ledger["package"] = "notExecuted"
  BY LedgerOnTheWay DEF Preparing, Ended
<1>2. Stop("package", "VERIFY_WORKER_FAILED", "failed")
  BY <1>1, FirstFailureIsPackage DEF WorkerFailure, Stop
<1>3. spawns = {}
  BY DEF RunsTellTheStep, SucceededBefore, ProcessSteps, Ended
<1>4. artifact \in {"none", "bound"} /\ copy \in {"none", "bound", "damaged"}
  BY DEF RootAndCopy, WorkerTypeOK
<1>5. "VERIFY_WORKER_FAILED" \in Codes
  BY DEF Codes
<1> QED BY <1>1, <1>2, <1>3, <1>4, <1>5, StopKeepsInv DEF Ended
LEMMA CreateRootStep == ASSUME WorkerInv, CreateRoot PROVE WorkerInv'
<1> USE DEF WorkerInv
<1>1. /\ step = "createRoot"
      /\ \/ root' = "present" /\ GoTo("layout")
         \/ WorkerFailure /\ UNCHANGED root
      /\ UNCHANGED <<request, aborted, cleanup, source, artifact, copy,
                     spawns, succeeded, output>>
  BY DEF CreateRoot, history
<1>2. CASE root' = "present" /\ GoTo("layout")
  <2>1. run = "none" /\ succeeded = {}
    BY <1>1 DEF RunsTellTheStep, ProcessSteps, SucceededBefore, Ended
  <2>2. PassedBefore("layout") = PassedBefore(step) /\ SucceededBefore("layout") = {}
    BY <1>1 DEF PassedBefore, SucceededBefore
  <2>3. /\ "layout" \in Steps \ (Ended \cup {"idle"}) /\ step \notin Ended
        /\ "layout" \in Preparing /\ step \in Preparing
        /\ "layout" \notin {"stageArtifact", "probe"} \cup ProcessSteps
    BY <1>1 DEF Steps, Ended, Preparing, ProcessSteps
  <2>4. artifact' \in {"none", "bound"}
    BY <1>1 DEF RootAndCopy
  <2> QED BY <1>1, <1>2, <2>1, <2>2, <2>3, <2>4, GoToKeepsInv
<1>3. CASE WorkerFailure /\ UNCHANGED root
  BY <1>1, <1>3, EarlyWorkerFailure
<1> QED BY <1>1, <1>2, <1>3

LEMMA LayoutStep == ASSUME WorkerInv, Layout PROVE WorkerInv'
<1> USE DEF WorkerInv
<1>1. /\ step = "layout"
      /\ GoTo("readArtifact") \/ WorkerFailure
      /\ UNCHANGED <<request, aborted, cleanup, root, source, artifact, copy,
                     spawns, succeeded, output>>
  BY DEF Layout, history
<1>2. CASE GoTo("readArtifact")
  <2>1. run = "none" /\ succeeded = {} /\ root = "present"
    BY <1>1 DEF RunsTellTheStep, ProcessSteps, SucceededBefore, Ended, RootAndCopy
  <2>2. PassedBefore("readArtifact") = PassedBefore(step) /\ SucceededBefore("readArtifact") = {}
    BY <1>1 DEF PassedBefore, SucceededBefore
  <2>3. /\ "readArtifact" \in Steps \ (Ended \cup {"idle"}) /\ step \notin Ended
        /\ "readArtifact" \in Preparing /\ step \in Preparing
        /\ "readArtifact" \notin {"stageArtifact", "probe"} \cup ProcessSteps
    BY <1>1 DEF Steps, Ended, Preparing, ProcessSteps
  <2>4. artifact' \in {"none", "bound"}
    BY <1>1 DEF RootAndCopy
  <2> QED BY <1>1, <1>2, <2>1, <2>2, <2>3, <2>4, GoToKeepsInv
<1>3. CASE WorkerFailure
  BY <1>1, <1>3, EarlyWorkerFailure
<1> QED BY <1>1, <1>2, <1>3

\* The bytes at the caller's path: only those that were acquired are staged.
LEMMA ReadArtifactStep == ASSUME WorkerInv, ReadArtifact PROVE WorkerInv'
<1> USE DEF WorkerInv
<1>1. /\ step = "readArtifact"
      /\ UNCHANGED <<request, aborted, cleanup, root, source, copy, spawns, succeeded, output>>
      /\ \/ source = "bound" /\ artifact' = source /\ GoTo("stageArtifact")
         \/ /\ UNCHANGED artifact
            /\ \E code \in {"VERIFY_ARTIFACT_READ_FAILED", "VERIFY_ARTIFACT_STALE",
                            "VERIFY_ARTIFACT_LIMIT_EXCEEDED"} : Stop("package", code, "failed")
  BY DEF ReadArtifact, history, Matches
<1>2. CASE source = "bound" /\ artifact' = source /\ GoTo("stageArtifact")
  <2>1. run = "none" /\ succeeded = {} /\ root = "present"
    BY <1>1 DEF RunsTellTheStep, ProcessSteps, SucceededBefore, Ended, RootAndCopy
  <2>2. /\ PassedBefore("stageArtifact") = PassedBefore(step)
        /\ SucceededBefore("stageArtifact") = {}
    BY <1>1 DEF PassedBefore, SucceededBefore
  <2>3. /\ "stageArtifact" \in Steps \ (Ended \cup {"idle"}) /\ step \notin Ended
        /\ "stageArtifact" \in Preparing /\ step \in Preparing
    BY <1>1 DEF Steps, Ended, Preparing
  <2> QED BY <1>1, <1>2, <2>1, <2>2, <2>3, GoToKeepsInv
<1>3. CASE /\ UNCHANGED artifact
           /\ \E code \in {"VERIFY_ARTIFACT_READ_FAILED", "VERIFY_ARTIFACT_STALE",
                           "VERIFY_ARTIFACT_LIMIT_EXCEEDED"} : Stop("package", code, "failed")
  <2>1. PICK code \in {"VERIFY_ARTIFACT_READ_FAILED", "VERIFY_ARTIFACT_STALE",
                       "VERIFY_ARTIFACT_LIMIT_EXCEEDED"} : Stop("package", code, "failed")
    BY <1>3
  <2>2. code \in Codes /\ code # "VERIFY_WORKER_FAILED" /\ step \notin Ended
    BY <1>1 DEF Codes, Ended
  <2>3. ledger["package"] # "passed"
    BY <1>1, LedgerOnTheWay DEF Preparing, Ended
  <2>4. artifact' \in {"none", "bound"} /\ copy' \in {"none", "bound", "damaged"}
    BY <1>1, <1>3 DEF RootAndCopy, WorkerTypeOK
  <2> QED BY <1>1, <2>1, <2>2, <2>3, <2>4, StopKeepsInv
<1> QED BY <1>1, <1>2, <1>3

\* The copy is made of the bytes that were acquired, or the package fails.
LEMMA StageArtifactStep == ASSUME WorkerInv, StageArtifact PROVE WorkerInv'
<1> USE DEF WorkerInv
<1> DEFINE Reasons == {"VERIFY_PACKAGE_ENTRYPOINT_MISSING", "VERIFY_PACKAGE_INSPECTION_FAILED",
                       "VERIFY_ARTIFACT_STALE", "VERIFY_ARTIFACT_READ_FAILED"}
<1>1. /\ step = "stageArtifact"
      /\ UNCHANGED <<request, aborted, cleanup, root, source, artifact,
                     spawns, succeeded, output>>
      /\ \/ /\ copy' = artifact /\ ledger' = Pass(ledger, "package")
            /\ step' = "installDsh" /\ UNCHANGED <<run, diagnostics, terminal>>
         \/ /\ copy' \in {artifact, "none", "damaged"}
            /\ \E code \in Reasons : Stop("package", code, "failed")
  BY DEF StageArtifact, history
<1>2. /\ run = "none" /\ succeeded = {} /\ spawns = {} /\ root = "present"
      /\ artifact = "bound"
  BY <1>1 DEF RunsTellTheStep, ProcessSteps, SucceededBefore, Ended, RootAndCopy
<1>3. CASE /\ copy' = artifact /\ ledger' = Pass(ledger, "package")
           /\ step' = "installDsh" /\ UNCHANGED <<run, diagnostics, terminal>>
  <2>1. ledger' \in [RuntimeStages -> Marks]
    BY <1>3 DEF Pass, WorkerTypeOK, Marks
  <2>2. \A stage \in RuntimeStages :
            ledger'[stage] = IF stage \in PassedBefore("installDsh") THEN "passed"
                             ELSE InitialLedger[stage]
    BY <1>1, <1>3 DEF Pass, WorkerTypeOK, LedgerTellsTheStep, PassedBefore, Ended
  <2>3. SucceededBefore("installDsh") = {}
    BY DEF SucceededBefore
  <2>4. /\ "installDsh" \in Steps \ (Ended \cup {"idle"}) /\ step \notin Ended
        /\ "installDsh" \notin Preparing
    BY <1>1 DEF Steps, Ended, Preparing, ProcessSteps
  <2> QED BY <1>1, <1>2, <1>3, <2>1, <2>2, <2>3, <2>4, AdvanceKeepsInv
<1>4. CASE /\ copy' \in {artifact, "none", "damaged"}
           /\ \E code \in Reasons : Stop("package", code, "failed")
  <2>1. PICK code \in Reasons : Stop("package", code, "failed")
    BY <1>4
  <2>2. code \in Codes /\ code # "VERIFY_WORKER_FAILED" /\ step \notin Ended
    BY <1>1 DEF Codes, Ended
  <2>3. ledger["package"] # "passed"
    BY <1>1, LedgerOnTheWay DEF Preparing, Ended
  <2>4. artifact' \in {"none", "bound"} /\ copy' \in {"none", "bound", "damaged"}
    BY <1>1, <1>2, <1>4
  <2> QED BY <1>1, <2>1, <2>2, <2>3, <2>4, StopKeepsInv
<1> QED BY <1>1, <1>3, <1>4

\* The boot probe is created, or there is no boot.
LEMMA PrepareProbeStep == ASSUME WorkerInv, PrepareProbe PROVE WorkerInv'
<1> USE DEF WorkerInv
<1>1. /\ step = "probe"
      /\ GoTo("installProbe") \/ Stop("boot", "VERIFY_BOOT_FAILED", "failed")
      /\ UNCHANGED <<request, aborted, cleanup, root, source, artifact, copy,
                     spawns, succeeded, output>>
  BY DEF PrepareProbe, history
<1>2. artifact = "bound" /\ copy = "bound" /\ root = "present" /\ step \notin Ended
  BY <1>1 DEF RootAndCopy, Ended, ProcessSteps
<1>3. CASE GoTo("installProbe")
  <2>1. run = "none" /\ succeeded = SucceededBefore("installProbe")
    BY <1>1 DEF RunsTellTheStep, ProcessSteps, SucceededBefore, Ended
  <2>2. PassedBefore("installProbe") = PassedBefore(step)
    BY <1>1 DEF PassedBefore
  <2>3. /\ "installProbe" \in Steps \ (Ended \cup {"idle"})
        /\ "installProbe" \notin Preparing /\ step \notin Preparing
    BY <1>1 DEF Steps, Ended, Preparing, ProcessSteps
  <2> QED BY <1>1, <1>2, <1>3, <2>1, <2>2, <2>3, GoToKeepsInv
<1>4. CASE Stop("boot", "VERIFY_BOOT_FAILED", "failed")
  <2>1. ledger["boot"] # "passed"
    BY <1>2, LedgerOnTheWay
  <2>2. "VERIFY_BOOT_FAILED" \in Codes
    BY DEF Codes
  <2> QED BY <1>1, <1>2, <1>4, <2>1, <2>2, StopKeepsInv
<1> QED BY <1>1, <1>3, <1>4
\* A process is started: never under an aborted signal.
LEMMA StartProcessStep == ASSUME WorkerInv, StartProcess PROVE WorkerInv'
<1> USE DEF WorkerInv
<1>1. /\ step \in ProcessSteps /\ run = "none" /\ step \notin Ended
      /\ UNCHANGED <<request, aborted, step, ledger, diagnostics, terminal, cleanup,
                     root, source, artifact, copy, succeeded, output>>
  BY DEF StartProcess, ProcessSteps, Ended
<1>2. \/ run' = "running" /\ spawns' = spawns \cup {step}
      \/ run' = "cancelled" /\ aborted /\ UNCHANGED spawns
      \/ run' = "startFailed" /\ UNCHANGED spawns
  BY DEF StartProcess, Promise!Possible
<1>3. succeeded = SucceededBefore(step) /\ spawns = succeeded
  BY <1>1 DEF RunsTellTheStep
<1>4. WorkerTypeOK'
  BY <1>1, <1>2 DEF WorkerTypeOK, RunOutcomes, Promise!Outcomes, Promise!OwnEnd, Promise!Forced
<1>5. PassedIsProven' /\ LedgerAgrees' /\ LedgerTellsTheStep' /\ EndTellsTheLedger'
  BY <1>1 DEF PassedIsProven, LedgerAgrees, LedgerTellsTheStep, EndTellsTheLedger
<1>6. ConclusionHasItsCause'
  BY <1>1 DEF ConclusionHasItsCause, LedgerTellsTheStep
<1>7. RunsTellTheStep'
  BY <1>1, <1>2, <1>3 DEF RunsTellTheStep
<1>8. RootAndCopy'
  BY <1>1 DEF RootAndCopy
<1> QED BY <1>4, <1>5, <1>6, <1>7, <1>8

\* A process settles, and prints only where it is the booted one.
LEMMA ProcessSettlesStep == ASSUME WorkerInv, ProcessSettles PROVE WorkerInv'
<1> USE DEF WorkerInv
<1>1. /\ run = "running"
      /\ UNCHANGED <<request, aborted, step, ledger, diagnostics, terminal, cleanup,
                     root, source, artifact, copy, spawns>>
  BY DEF ProcessSettles
<1>2. /\ run' \in RunOutcomes
      /\ run' = "cancelled" => aborted
      /\ run' = "exitedZero" => /\ succeeded' = succeeded \cup {step}
                                /\ step # "boot" => output' = output
                                /\ output' \in SUBSET Markers
      /\ run' # "exitedZero" => UNCHANGED <<succeeded, output>>
  <2>1. /\ run' \in Promise!Possible(aborted, TRUE) \cup {"rejected"}
        /\ run' = "exitedZero" =>
               /\ succeeded' = succeeded \cup {step}
               /\ output' \in IF step = "boot" THEN SUBSET Markers ELSE {output}
        /\ run' # "exitedZero" => UNCHANGED <<succeeded, output>>
    BY DEF ProcessSettles
  <2>2. run' \in RunOutcomes /\ (run' = "cancelled" => aborted)
    BY <2>1 DEF RunOutcomes, Promise!Possible, Promise!Outcomes, Promise!OwnEnd, Promise!Forced
  <2>3. output \in SUBSET Markers
    BY DEF WorkerTypeOK
  <2> QED BY <2>1, <2>2, <2>3
<1>3. /\ step \in ProcessSteps /\ step \notin Ended
      /\ succeeded = SucceededBefore(step) /\ spawns = succeeded \cup {step}
  BY <1>1 DEF RunsTellTheStep, ProcessSteps, Ended
<1>4. step \notin succeeded /\ "boot" \notin succeeded /\ output = {}
  BY <1>3 DEF RunsTellTheStep, SucceededBefore, ProcessSteps
<1>5. succeeded \subseteq succeeded' /\ succeeded' \subseteq spawns
  BY <1>2, <1>3
<1>6. WorkerTypeOK'
  <2>1. output' \subseteq Markers
    BY <1>2 DEF WorkerTypeOK
  <2> QED BY <1>1, <1>2, <1>5, <2>1 DEF WorkerTypeOK
<1>7. PassedIsProven'
  <2>1. /\ ledger["boot"] # "passed" /\ ledger["visibility"] # "passed"
        /\ ledger["behavior"] # "passed"
    BY <1>3, LedgerOnTheWay
  <2> QED BY <1>1, <1>5, <2>1 DEF PassedIsProven
<1>8. LedgerAgrees' /\ LedgerTellsTheStep' /\ EndTellsTheLedger'
  BY <1>1, <1>3 DEF LedgerAgrees, LedgerTellsTheStep, EndTellsTheLedger, Ended
<1>9. ConclusionHasItsCause'
  BY <1>1, <1>3 DEF ConclusionHasItsCause, LedgerTellsTheStep
<1>10. RunsTellTheStep'
  <2>1. succeeded' = SucceededBefore(step) \cup (IF run' = "exitedZero" THEN {step} ELSE {})
    BY <1>2, <1>3
  <2>2. "boot" \notin succeeded' => output' = {}
    BY <1>2, <1>4
  <2>3. run' # "none"
    BY <1>2 DEF RunOutcomes, Promise!Outcomes, Promise!OwnEnd, Promise!Forced
  <2> QED BY <1>1, <1>2, <1>3, <2>1, <2>2, <2>3 DEF RunsTellTheStep
<1>11. RootAndCopy'
  BY <1>1 DEF RootAndCopy
<1> QED BY <1>6, <1>7, <1>8, <1>9, <1>10, <1>11

\* A process failed, and its stage with it.
LEMMA ProcessFailedStep == ASSUME WorkerInv, ProcessFailed PROVE WorkerInv'
<1> USE DEF WorkerInv
<1>1. /\ run \in RunOutcomes \ {"exitedZero"}
      /\ Stop(StageOf[step], CodeOf(run, StageOf[step]), TerminalOf(run))
      /\ UNCHANGED <<request, aborted, cleanup, root, source, artifact, copy,
                     spawns, succeeded, output>>
  BY DEF ProcessFailed, history
<1>2. step \in ProcessSteps /\ step \notin Ended /\ step # "idle"
  BY <1>1 DEF RunsTellTheStep, RunOutcomes, Promise!Outcomes, Promise!OwnEnd, Promise!Forced,
              ProcessSteps, Ended
<1> DEFINE stage == StageOf[step]
           code == CodeOf(run, StageOf[step])
           how == TerminalOf(run)
<1>3. stage \in {"install", "compose", "boot"}
  BY <1>2 DEF StageOf, ProcessSteps
<1>4. ledger[stage] # "passed"
  <2>1. /\ step \in {"installDsh", "installCandidate"} => stage = "install"
        /\ step = "compose" => stage = "compose"
        /\ step \in {"installProbe", "boot"} => stage = "boot"
    BY DEF StageOf
  <2> QED BY <1>2, <2>1, LedgerOnTheWay DEF ProcessSteps
<1> HIDE DEF stage
<1>5. StageFailureCode[stage] \in {"VERIFY_INSTALL_FAILED", "VERIFY_COMPOSE_FAILED",
                                  "VERIFY_BOOT_FAILED"}
  BY <1>3 DEF StageFailureCode
<1>6. /\ code \in Codes
      /\ how \in {"failed", "cancelled"}
      /\ how = "cancelled" => run = "cancelled" /\ code = "VERIFY_PROCESS_CANCELLED"
      /\ code = "VERIFY_WORKER_FAILED" => run = "rejected" /\ how = "failed"
  <2> HIDE DEF how, code
  <2>1. how = IF run = "cancelled" THEN "cancelled" ELSE "failed"
    BY DEF how, TerminalOf
  <2>2. run \in {"exitedNonzero", "signalled", "timeout", "cancelled", "stdoutLimit",
                 "stderrLimit", "startFailed", "rejected"}
    BY <1>1 DEF RunOutcomes, Promise!Outcomes, Promise!OwnEnd, Promise!Forced
  <2>3. code = IF run = "exitedNonzero" THEN StageFailureCode[stage]
               ELSE IF run = "signalled" THEN "VERIFY_PROCESS_EXIT_FAILED"
               ELSE IF run = "timeout" THEN "VERIFY_PROCESS_TIMEOUT"
               ELSE IF run = "cancelled" THEN "VERIFY_PROCESS_CANCELLED"
               ELSE IF run = "startFailed" THEN "VERIFY_PROCESS_START_FAILED"
               ELSE IF run = "rejected" THEN "VERIFY_WORKER_FAILED"
               ELSE "VERIFY_PROCESS_OUTPUT_LIMIT_EXCEEDED"
    BY <2>2 DEF code, stage, CodeOf
  <2> QED BY <1>5, <2>1, <2>2, <2>3 DEF Codes
<1>7. run = "rejected" => spawns # succeeded
  <2> SUFFICES ASSUME run = "rejected" PROVE spawns # succeeded
    OBVIOUS
  <2>1. succeeded = SucceededBefore(step) /\ spawns = SucceededBefore(step) \cup {step}
    BY <1>2 DEF RunsTellTheStep
  <2>2. step \notin SucceededBefore(step)
    BY <1>2 DEF SucceededBefore, ProcessSteps
  <2> QED BY <2>1, <2>2
<1>8. run = "cancelled" => aborted
  BY DEF RunsTellTheStep
<1>9. artifact' \in {"none", "bound"} /\ copy' \in {"none", "bound", "damaged"}
  BY <1>1 DEF RootAndCopy, WorkerTypeOK
<1>10. Stop(stage, code, how)
  BY <1>1 DEF stage
<1> HIDE DEF code, how
<1> QED BY <1>1, <1>2, <1>3, <1>4, <1>6, <1>7, <1>8, <1>9, <1>10, StopKeepsInv
\* A process succeeded, and with the last of its processes the stage.
LEMMA ProcessSucceededStep == ASSUME WorkerInv, ProcessSucceeded PROVE WorkerInv'
<1> USE DEF WorkerInv
<1>1. /\ run = "exitedZero" /\ step # "boot"
      /\ UNCHANGED <<request, aborted, cleanup, root, source, artifact, copy,
                     spawns, succeeded, output>>
  BY DEF ProcessSucceeded, history
<1>2. /\ step \in {"installDsh", "installCandidate", "compose", "installProbe"}
      /\ step \notin Ended /\ step \notin Preparing
      /\ artifact = "bound" /\ copy = "bound" /\ root = "present"
  BY <1>1 DEF RunsTellTheStep, RootAndCopy, ProcessSteps, Ended, Preparing
<1>3. succeeded = SucceededBefore(step) \cup {step} /\ spawns = succeeded
  BY <1>1, <1>2 DEF RunsTellTheStep
<1>4. ASSUME NEW next \in {"installCandidate", "boot"}, GoTo(next),
             PassedBefore(next) = PassedBefore(step), SucceededBefore(next) = succeeded
      PROVE  WorkerInv'
  <2>1. next \in Steps \ (Ended \cup {"idle"}) /\ next \notin Preparing
    BY DEF Steps, Ended, Preparing, ProcessSteps
  <2> QED BY <1>1, <1>2, <1>4, <2>1, GoToKeepsInv
<1>5. ASSUME NEW next \in {"compose", "probe"}, NEW stage \in {"install", "compose"},
             ledger' = Pass(ledger, stage), step' = next, run' = "none",
             UNCHANGED <<diagnostics, terminal>>,
             PassedBefore(next) = PassedBefore(step) \cup {stage},
             SucceededBefore(next) = succeeded
      PROVE  WorkerInv'
  <2>1. next \in Steps \ (Ended \cup {"idle"}) /\ next \notin Preparing
    BY DEF Steps, Ended, Preparing, ProcessSteps
  <2>2. ledger' \in [RuntimeStages -> Marks]
    BY <1>5 DEF Pass, WorkerTypeOK, Marks
  <2>3. \A other \in RuntimeStages :
            ledger'[other] = IF other \in PassedBefore(next) THEN "passed"
                             ELSE InitialLedger[other]
    BY <1>2, <1>5 DEF Pass, WorkerTypeOK, LedgerTellsTheStep
  <2> QED BY <1>1, <1>2, <1>3, <1>5, <2>1, <2>2, <2>3, AdvanceKeepsInv
<1>6. CASE step = "installDsh"
  <2>1. GoTo("installCandidate")
    BY <1>6 DEF ProcessSucceeded, Passes, NextStep
  <2>2. PassedBefore("installCandidate") = PassedBefore(step)
    BY <1>6 DEF PassedBefore
  <2>3. SucceededBefore("installCandidate") = succeeded
    BY <1>3, <1>6 DEF SucceededBefore
  <2> QED BY <1>4, <2>1, <2>2, <2>3
<1>7. CASE step = "installProbe"
  <2>1. GoTo("boot")
    BY <1>7 DEF ProcessSucceeded, Passes, NextStep
  <2>2. PassedBefore("boot") = PassedBefore(step)
    BY <1>7 DEF PassedBefore
  <2>3. SucceededBefore("boot") = succeeded
    BY <1>3, <1>7 DEF SucceededBefore
  <2> QED BY <1>4, <2>1, <2>2, <2>3
<1>8. CASE step = "installCandidate"
  <2>1. CanPass(ledger, "install")
    BY <1>2, <1>8, LedgerOnTheWay DEF CanPass, Prerequisite
  <2>2. StageOf[step] = "install" /\ NextStep[step] = "compose" /\ Passes(step)
    BY <1>8 DEF StageOf, NextStep, Passes
  <2>3. /\ ledger' = Pass(ledger, "install") /\ step' = "compose" /\ run' = "none"
        /\ UNCHANGED <<diagnostics, terminal>>
    BY <2>1, <2>2 DEF ProcessSucceeded
  <2>4. PassedBefore("compose") = PassedBefore(step) \cup {"install"}
    BY <1>8 DEF PassedBefore
  <2>5. SucceededBefore("compose") = succeeded
    BY <1>3, <1>8 DEF SucceededBefore
  <2> QED BY <1>5, <2>3, <2>4, <2>5
<1>9. CASE step = "compose"
  <2>1. CanPass(ledger, "compose")
    BY <1>2, <1>9, LedgerOnTheWay DEF CanPass, Prerequisite
  <2>2. StageOf[step] = "compose" /\ NextStep[step] = "probe" /\ Passes(step)
    BY <1>9 DEF StageOf, NextStep, Passes
  <2>3. /\ ledger' = Pass(ledger, "compose") /\ step' = "probe" /\ run' = "none"
        /\ UNCHANGED <<diagnostics, terminal>>
    BY <2>1, <2>2 DEF ProcessSucceeded
  <2>4. PassedBefore("probe") = PassedBefore(step) \cup {"compose"}
    BY <1>9 DEF PassedBefore
  <2>5. SucceededBefore("probe") = succeeded
    BY <1>3, <1>9 DEF SucceededBefore
  <2> QED BY <1>5, <2>3, <2>4, <2>5
<1> QED BY <1>2, <1>6, <1>7, <1>8, <1>9

\* What the markers make of a ledger whose boot has passed.
LEMMA JudgedMarks ==
    ASSUME NEW marks \in [RuntimeStages -> Marks],
           marks["visibility"] = "notRequested", marks["behavior"] = "notRequested",
           NEW judged, judged = WithBehavior(WithVisibility(marks))
    PROVE  /\ judged \in [RuntimeStages -> Marks]
           /\ \A stage \in {"package", "install", "compose", "boot"} :
                  judged[stage] = marks[stage]
           /\ judged["visibility"] = "passed" =>
                  request.visibility /\ "visible" \in output /\ "invisible" \notin output
           /\ judged["behavior"] = "passed" =>
                  /\ request.behavior /\ "behaved" \in output /\ "misbehaved" \notin output
                  /\ request.visibility => judged["visibility"] = "passed"
           /\ judged["visibility"] = "failed" => judged["behavior"] = "blocked"
           /\ request.visibility => judged["visibility"] \in {"passed", "failed", "unproven"}
           /\ request.behavior => \/ judged["behavior"] \in {"passed", "failed", "unproven"}
                                   \/ judged["visibility"] = "failed"
<1> DEFINE seen == WithVisibility(marks)
<1>1. /\ Judged("visible", "invisible") \in {"passed", "failed", "unproven"}
      /\ Judged("visible", "invisible") = "passed" =>
             "visible" \in output /\ "invisible" \notin output
      /\ Judged("behaved", "misbehaved") \in {"passed", "failed", "unproven"}
      /\ Judged("behaved", "misbehaved") = "passed" =>
             "behaved" \in output /\ "misbehaved" \notin output
  BY DEF Judged
<1>2. ASSUME NEW m \in [RuntimeStages -> Marks], NEW stage \in {"visibility", "behavior"},
             NEW verdict \in {"passed", "failed", "unproven"}
      PROVE  /\ Record(m, stage, verdict) \in [RuntimeStages -> Marks]
             /\ Record(m, stage, verdict)[stage] = verdict
             /\ \A other \in RuntimeStages \ {stage} :
                    Record(m, stage, verdict)[other] =
                        IF verdict = "failed" /\ stage = "visibility" /\ other = "behavior"
                        THEN "blocked" ELSE m[other]
  <2>1. /\ stage = "visibility" => Downstream[stage] = {"behavior"}
        /\ stage = "behavior" => Downstream[stage] = {}
    BY DEF Downstream
  <2>2. stage \in RuntimeStages
    BY DEF RuntimeStages
  <2>3. CASE verdict = "passed"
    BY <2>2, <2>3 DEF Record, Pass, Marks
  <2>4. CASE verdict = "failed"
    <3>1. Record(m, stage, verdict) = Fail(m, stage)
      BY <2>4 DEF Record
    <3> QED BY <2>1, <2>2, <2>4, <3>1 DEF Fail, Marks
  <2>5. CASE verdict = "unproven"
    BY <2>2, <2>5 DEF Record, Marks
  <2> QED BY <2>3, <2>4, <2>5
<1>3. /\ seen \in [RuntimeStages -> Marks]
      /\ \A stage \in {"package", "install", "compose", "boot"} : seen[stage] = marks[stage]
      /\ seen["visibility"] = "passed" =>
             request.visibility /\ "visible" \in output /\ "invisible" \notin output
      /\ seen["behavior"] = IF seen["visibility"] = "failed" THEN "blocked" ELSE "notRequested"
      /\ ~request.visibility => seen["visibility"] = "notRequested"
      /\ request.visibility => seen["visibility"] \in {"passed", "failed", "unproven"}
  <2>1. CASE request.visibility
    <3>1. seen = Record(marks, "visibility", Judged("visible", "invisible"))
      BY <2>1 DEF WithVisibility
    <3> QED BY <1>1, <1>2, <2>1, <3>1 DEF RuntimeStages
  <2>2. CASE ~request.visibility
    BY <2>2 DEF WithVisibility
  <2> QED BY <2>1, <2>2
<1> HIDE DEF seen
<1>4. judged = WithBehavior(seen)
  BY DEF seen
<1>5. CASE ~request.behavior
  BY <1>3, <1>4, <1>5 DEF WithBehavior
<1>6. CASE request.behavior /\ BehaviorJudgeable(seen)
  <2>1. judged = Record(seen, "behavior", Judged("behaved", "misbehaved"))
    BY <1>4, <1>6 DEF WithBehavior
  <2>2. request.visibility => seen["visibility"] = "passed"
    BY <1>6 DEF BehaviorJudgeable
  <2> QED BY <1>1, <1>2, <1>3, <1>6, <2>1, <2>2 DEF RuntimeStages
<1>7. CASE request.behavior /\ ~BehaviorJudgeable(seen)
  <2>1. judged = IF seen["visibility"] # "failed" THEN [seen EXCEPT !["behavior"] = "unproven"]
                 ELSE seen
    BY <1>4, <1>7 DEF WithBehavior
  <2> QED BY <1>3, <1>7, <2>1 DEF RuntimeStages, Marks
<1> QED BY <1>5, <1>6, <1>7
\* The booted process exited with code 0: the worker completes on the exact
\* marker, with what the others say of the assertions, or the boot failed.
LEMMA BootSucceededStep == ASSUME WorkerInv, BootSucceeded PROVE WorkerInv'
<1> USE DEF WorkerInv
<1>1. /\ run = "exitedZero" /\ step = "boot" /\ step \notin Ended
      /\ UNCHANGED <<request, aborted, cleanup, root, source, artifact, copy,
                     spawns, succeeded, output>>
  BY DEF BootSucceeded, history, Ended
<1>2. /\ artifact = "bound" /\ copy = "bound" /\ root = "present"
      /\ cleanup = "not-required" /\ diagnostics = {}
  BY <1>1 DEF RootAndCopy, LedgerTellsTheStep, ProcessSteps
<1>3. /\ ledger["package"] = "passed" /\ ledger["install"] = "passed"
      /\ ledger["compose"] = "passed" /\ ledger["boot"] = "notExecuted"
      /\ ledger["visibility"] = "notRequested" /\ ledger["behavior"] = "notRequested"
  BY <1>1, LedgerOnTheWay DEF Preparing
<1>4. spawns = succeeded /\ ProcessSteps \subseteq succeeded
  BY <1>1 DEF RunsTellTheStep, SucceededBefore, ProcessSteps
<1>5. CASE ~BootProven
  <2>1. Stop("boot", "VERIFY_BOOT_FAILED", "failed")
    BY <1>5 DEF BootSucceeded
  <2>2. "VERIFY_BOOT_FAILED" \in Codes
    BY DEF Codes
  <2> QED BY <1>1, <1>2, <1>3, <2>1, <2>2, StopKeepsInv
<1>6. CASE BootProven
  <2> DEFINE marks == Pass(ledger, "boot")
             judged == WithBehavior(WithVisibility(marks))
  <2>1. CanPass(ledger, "boot")
    BY <1>3 DEF CanPass, Prerequisite
  <2>2. /\ ledger' = judged
        /\ terminal' = "completed" /\ step' = Leave /\ run' = "none"
        /\ diagnostics' = (IF judged["visibility"] = "failed"
                           THEN {"VERIFY_VISIBILITY_FAILED"} ELSE {})
                          \cup (IF judged["behavior"] = "failed"
                                THEN {"VERIFY_BEHAVIOR_FAILED"} ELSE {})
    BY <1>2, <1>6, <2>1 DEF BootSucceeded
  <2>3. /\ marks \in [RuntimeStages -> Marks]
        /\ \A stage \in {"package", "install", "compose", "boot"} : marks[stage] = "passed"
        /\ marks["visibility"] = "notRequested" /\ marks["behavior"] = "notRequested"
    BY <1>3 DEF Pass, WorkerTypeOK, RuntimeStages, Marks
  <2> HIDE DEF marks
  <2>4. /\ judged \in [RuntimeStages -> Marks]
        /\ \A stage \in {"package", "install", "compose", "boot"} :
               judged[stage] = marks[stage]
        /\ judged["visibility"] = "passed" =>
               request.visibility /\ "visible" \in output /\ "invisible" \notin output
        /\ judged["behavior"] = "passed" =>
               /\ request.behavior /\ "behaved" \in output /\ "misbehaved" \notin output
               /\ request.visibility => judged["visibility"] = "passed"
        /\ judged["visibility"] = "failed" => judged["behavior"] = "blocked"
    BY <2>3, JudgedMarks
  <2> HIDE DEF judged
  <2>5. step' = "cleanup"
    BY <1>2, <2>2 DEF Leave
  <2>6. WorkerTypeOK'
    <3>1. diagnostics' \subseteq Codes
      BY <2>2 DEF Codes
    <3> QED BY <1>1, <2>2, <2>4, <2>5, <3>1 DEF WorkerTypeOK, Steps
  <2>7. PassedIsProven'
    <3>1. "booted" \in output
      BY <1>6 DEF BootProven
    <3> QED BY <1>1, <1>2, <1>4, <2>2, <2>4, <3>1 DEF PassedIsProven, ProcessSteps
  <2>8. LedgerAgrees'
    <3>1. \A stage \in DOMAIN Prerequisite :
              ledger'[stage] = "passed" => ledger'[Prerequisite[stage]] = "passed"
      BY <2>2, <2>3, <2>4, Prerequisites
    <3>2. \A stage \in RuntimeStages : ledger'[stage] = "failed" =>
              /\ diagnostics' # {}
              /\ \A below \in Downstream[stage] : ledger'[below] = "blocked"
      <4>1. Downstream["visibility"] = {"behavior"} /\ Downstream["behavior"] = {}
        BY DEF Downstream
      <4>2. \A stage \in RuntimeStages :
                ledger'[stage] = "failed" => stage \in {"visibility", "behavior"}
        BY <2>2, <2>3, <2>4 DEF RuntimeStages
      <4> QED BY <2>2, <2>4, <4>1, <4>2
    <3> QED BY <2>5, <3>1, <3>2 DEF LedgerAgrees
  <2>9. ConclusionHasItsCause'
    BY <2>2 DEF ConclusionHasItsCause
  <2>10. LedgerTellsTheStep' /\ RunsTellTheStep'
    BY <1>1, <1>4, <2>2, <2>5 DEF LedgerTellsTheStep, RunsTellTheStep, Ended, ProcessSteps
  <2>11. RootAndCopy'
    BY <1>1, <1>2, <2>5 DEF RootAndCopy, Preparing, Ended, ProcessSteps
  <2>12. EndTellsTheLedger'
    BY <2>2, <2>3, <2>4 DEF EndTellsTheLedger
  <2> QED BY <2>6, <2>7, <2>8, <2>9, <2>10, <2>11, <2>12
<1> QED BY <1>5, <1>6

\* The root is removed, or that it was not is on record.
LEMMA CleanUpStep == ASSUME WorkerInv, CleanUp PROVE WorkerInv'
<1> USE DEF WorkerInv
<1>1. /\ step = "cleanup" /\ step \in Ended /\ step' = "returned"
      /\ \/ cleanup' = "succeeded" /\ root' = "removed" /\ diagnostics' = diagnostics
         \/ /\ cleanup' = "failed" /\ root' = root
            /\ diagnostics' = diagnostics \cup {"VERIFY_CLEANUP_FAILED"}
      /\ UNCHANGED <<request, aborted, run, ledger, terminal, source, artifact, copy,
                     spawns, succeeded, output>>
  BY DEF CleanUp, history, Ended
<1>2. WorkerTypeOK'
  <2>1. "VERIFY_CLEANUP_FAILED" \in Codes
    BY DEF Codes
  <2>2. diagnostics' \subseteq Codes
    BY <1>1, <2>1 DEF WorkerTypeOK
  <2> QED BY <1>1, <2>2 DEF WorkerTypeOK, Steps
<1>3. PassedIsProven'
  BY <1>1 DEF PassedIsProven
<1>4. LedgerAgrees'
  BY <1>1 DEF LedgerAgrees, EndTellsTheLedger
<1>5. ConclusionHasItsCause'
  BY <1>1 DEF ConclusionHasItsCause
<1>6. LedgerTellsTheStep' /\ EndTellsTheLedger'
  BY <1>1 DEF LedgerTellsTheStep, EndTellsTheLedger, Ended
<1>7. RunsTellTheStep'
  BY <1>1 DEF RunsTellTheStep, Ended, ProcessSteps
<1>8. RootAndCopy'
  BY <1>1 DEF RootAndCopy, Preparing, Ended, ProcessSteps
<1> QED BY <1>2, <1>3, <1>4, <1>5, <1>6, <1>7, <1>8

\* An abort, and a change of the artifact at the caller's path, take nothing
\* from what the worker has proven.
LEMMA OutsideStep == ASSUME WorkerInv, Abort \/ Drift PROVE WorkerInv'
<1> USE DEF WorkerInv
<1>1. /\ UNCHANGED <<request, step, run, ledger, diagnostics, terminal, cleanup, artifact,
                     root, copy, spawns, succeeded, output>>
      /\ aborted => aborted'
      /\ aborted' \in BOOLEAN /\ source' \in {"bound", "drifted", "missing"}
  BY DEF Abort, Drift, worker, history, WorkerTypeOK
<1>2. WorkerTypeOK'
  BY <1>1 DEF WorkerTypeOK
<1>3. PassedIsProven'
  BY <1>1 DEF PassedIsProven
<1>4. LedgerAgrees'
  BY <1>1 DEF LedgerAgrees
<1>5. ConclusionHasItsCause' /\ LedgerTellsTheStep' /\ RunsTellTheStep'
  BY <1>1 DEF ConclusionHasItsCause, LedgerTellsTheStep, RunsTellTheStep
<1>6. RootAndCopy' /\ EndTellsTheLedger'
  BY <1>1 DEF RootAndCopy, EndTellsTheLedger
<1> QED BY <1>2, <1>3, <1>4, <1>5, <1>6

\* Every step keeps the invariant.
LEMMA NextWorkerInv == WorkerInv /\ [WorkerNext]_workerVars => WorkerInv'
<1> SUFFICES ASSUME WorkerInv, [WorkerNext]_workerVars PROVE WorkerInv'
  OBVIOUS
<1>1. CASE UNCHANGED workerVars
  <2> USE <1>1 DEF workerVars, WorkerInv
  <2>1. WorkerTypeOK'
    BY DEF WorkerTypeOK
  <2>2. PassedIsProven'
    BY DEF PassedIsProven
  <2>3. LedgerAgrees'
    BY DEF LedgerAgrees
  <2>4. ConclusionHasItsCause' /\ LedgerTellsTheStep' /\ RunsTellTheStep'
    BY DEF ConclusionHasItsCause, LedgerTellsTheStep, RunsTellTheStep
  <2>5. RootAndCopy' /\ EndTellsTheLedger'
    BY DEF RootAndCopy, EndTellsTheLedger
  <2> QED BY <2>1, <2>2, <2>3, <2>4, <2>5
<1> QED BY <1>1, CallStep, CreateRootStep, LayoutStep, ReadArtifactStep, StageArtifactStep,
           PrepareProbeStep, StartProcessStep, ProcessSettlesStep, ProcessFailedStep,
           ProcessSucceededStep, BootSucceededStep, CleanUpStep, OutsideStep
        DEF WorkerNext, WorkerStep

LEMMA InitStory == WorkerInit => StoryIsWhole
<1> SUFFICES ASSUME WorkerInit PROVE StoryIsWhole
  OBVIOUS
<1>1. ledger["boot"] = "notExecuted"
  BY DEF WorkerInit, InitialLedger, RuntimeStages
<1> QED BY <1>1 DEF WorkerInit, StoryIsWhole, RequestedIsJudged, Ended

\* A worker ends by completing, with what was requested judged, or with a
\* diagnostic of what went wrong.
LEMMA HowItEnds ==
    ASSUME WorkerInv, WorkerNext, step \notin Ended, step' \in Ended
    PROVE  /\ UNCHANGED <<root, copy>> \/ root' = "present"
           /\ \/ terminal' = "completed" /\ RequestedIsJudged'
              \/ /\ terminal' # "completed" /\ diagnostics' # {}
                 /\ terminal' = "cancelled" => run = "cancelled" /\ UNCHANGED succeeded
<1> USE DEF WorkerInv
<1>1. CASE WorkerFailure /\ UNCHANGED <<root, copy>>
  BY <1>1 DEF WorkerFailure
<1>2. ASSUME NEW stage, NEW code, Stop(stage, code, "failed") PROVE
          terminal' # "completed" /\ diagnostics' # {} /\ terminal' # "cancelled"
  BY <1>2 DEF Stop
<1>3. CASE Call \/ CreateRoot \/ Layout
  BY <1>1, <1>3 DEF Call, CreateRoot, Layout, GoTo, Ended, WorkerFailure
<1>4. CASE ReadArtifact
  BY <1>2, <1>4 DEF ReadArtifact, GoTo, Ended
<1>5. CASE StageArtifact
  <2>1. root' = "present"
    BY <1>5 DEF StageArtifact, RootAndCopy, Ended
  <2> QED BY <1>2, <1>5, <2>1 DEF StageArtifact, Ended
<1>6. CASE PrepareProbe
  BY <1>2, <1>6 DEF PrepareProbe, GoTo, Ended
<1>7. CASE StartProcess \/ ProcessSettles \/ Abort \/ Drift
  BY <1>7 DEF StartProcess, ProcessSettles, Abort, Drift, worker
<1>8. CASE ProcessFailed
  <2>1. /\ terminal' = (IF run = "cancelled" THEN "cancelled" ELSE "failed")
        /\ diagnostics' # {}
        /\ UNCHANGED <<root, copy, succeeded>>
    BY <1>8 DEF ProcessFailed, Stop, TerminalOf, history
  <2> QED BY <2>1
<1>9. CASE ProcessSucceeded
  <2>1. step \in {"installDsh", "installCandidate", "compose", "installProbe"}
    BY <1>9 DEF ProcessSucceeded, RunsTellTheStep, ProcessSteps
  <2>2. NextStep[step] \notin Ended
    BY <2>1 DEF NextStep, Ended
  <2> QED BY <1>1, <1>9, <2>2 DEF ProcessSucceeded, GoTo
<1>10. CASE BootSucceeded
  <2> DEFINE marks == Pass(ledger, "boot")
             judged == WithBehavior(WithVisibility(marks))
  <2>1. UNCHANGED <<root, copy, request>>
    BY <1>10 DEF BootSucceeded
  <2>2. CASE terminal' = "completed"
    <3>1. ledger' = judged
      BY <1>10, <2>2 DEF BootSucceeded, Stop, WorkerFailure
    <3>2. step = "boot"
      BY <1>10 DEF BootSucceeded
    <3>3. /\ marks \in [RuntimeStages -> Marks]
          /\ marks["visibility"] = "notRequested" /\ marks["behavior"] = "notRequested"
      BY <3>2, LedgerOnTheWay DEF Pass, WorkerTypeOK, RuntimeStages, Marks, Ended
    <3> HIDE DEF marks
    <3>4. /\ request.visibility => judged["visibility"] \in {"passed", "failed", "unproven"}
          /\ request.behavior => \/ judged["behavior"] \in {"passed", "failed", "unproven"}
                                  \/ judged["visibility"] = "failed"
      BY <3>3, JudgedMarks
    <3> HIDE DEF judged
    <3> QED BY <2>1, <2>2, <3>1, <3>4 DEF RequestedIsJudged
  <2>3. CASE terminal' # "completed"
    BY <1>2, <1>10, <2>1, <2>3 DEF BootSucceeded, WorkerFailure
  <2> QED BY <2>2, <2>3
<1>11. ~CleanUp
  BY DEF CleanUp, Ended
<1> QED BY <1>3, <1>4, <1>5, <1>6, <1>7, <1>8, <1>9, <1>10, <1>11 DEF WorkerNext, WorkerStep

\* A worker that has ended only cleans up.
LEMMA AfterTheEnd ==
    ASSUME WorkerInv, [WorkerNext]_workerVars, step \in Ended
    PROVE  /\ UNCHANGED <<request, ledger, terminal, succeeded, copy>>
           /\ diagnostics \subseteq diagnostics'
           /\ root' = "absent" => root = "absent"
<1> USE DEF WorkerInv
<1>1. run = "none" /\ step \notin ProcessSteps
  BY DEF RunsTellTheStep, Ended, ProcessSteps
<1>2. "none" \notin RunOutcomes
  BY DEF RunOutcomes, Promise!Outcomes, Promise!OwnEnd, Promise!Forced
<1>3. CASE CleanUp
  BY <1>3 DEF CleanUp, history
<1>4. CASE Abort \/ Drift \/ UNCHANGED workerVars
  BY <1>4 DEF Abort, Drift, worker, history, workerVars
<1>5. CASE Call \/ CreateRoot \/ Layout \/ ReadArtifact \/ StageArtifact \/ PrepareProbe
  BY <1>5 DEF Call, CreateRoot, Layout, ReadArtifact, StageArtifact, PrepareProbe, Ended
<1>6. CASE StartProcess \/ ProcessFailed \/ ProcessSucceeded \/ BootSucceeded \/ ProcessSettles
  BY <1>1, <1>2, <1>6 DEF StartProcess, ProcessFailed, ProcessSucceeded, BootSucceeded,
                          ProcessSettles
<1> QED BY <1>3, <1>4, <1>5, <1>6 DEF WorkerNext, WorkerStep

LEMMA NextStory == WorkerInv /\ StoryIsWhole /\ [WorkerNext]_workerVars => StoryIsWhole'
<1> SUFFICES ASSUME WorkerInv, StoryIsWhole, [WorkerNext]_workerVars PROVE StoryIsWhole'
  OBVIOUS
<1> USE DEF StoryIsWhole
<1>1. WorkerInv'
  BY NextWorkerInv
<1>2. CASE step' \notin Ended
  <2>1. ledger'["boot"] = "notExecuted" /\ terminal' = "failed"
    <3>1. "boot" \in RuntimeStages /\ "boot" \notin PassedBefore(step')
      BY DEF RuntimeStages, PassedBefore
    <3> QED BY <1>1, <1>2, <3>1 DEF WorkerInv, LedgerTellsTheStep, InitialLedger
  <2>2. root' = "absent" => copy' = "none"
    BY <1>1, <1>2 DEF WorkerInv, RootAndCopy, Ended, Preparing
  <2> QED BY <1>2, <2>1, <2>2 DEF RequestedIsJudged
<1>3. CASE step \in Ended
  BY <1>3, AfterTheEnd DEF RequestedIsJudged
<1>4. CASE step \notin Ended /\ step' \in Ended
  <2>1. WorkerNext
    BY <1>4 DEF workerVars
  <2>2. root' = "absent" => copy' = "none"
    BY <1>4, <2>1, HowItEnds
  <2>3. CASE terminal' = "completed"
    BY <1>4, <2>1, <2>2, <2>3, HowItEnds
  <2>4. CASE terminal' # "completed"
    <3>1. ledger'["boot"] # "passed"
      <4>1. ASSUME ledger'["boot"] = "passed"
            PROVE  /\ ledger'["compose"] = "passed" /\ ledger'["install"] = "passed"
                   /\ ledger'["package"] = "passed"
        <5>1. \A stage \in DOMAIN Prerequisite :
                  ledger'[stage] = "passed" => ledger'[Prerequisite[stage]] = "passed"
          BY <1>1 DEF WorkerInv, LedgerAgrees
        <5> QED BY <4>1, <5>1, Prerequisites
      <4> QED BY <1>1, <1>4, <2>4, <4>1 DEF WorkerInv, EndTellsTheLedger
    <3>2. ASSUME terminal' = "cancelled" PROVE ~(ProcessSteps \subseteq succeeded')
      <4>1. run = "cancelled" /\ succeeded' = succeeded
        BY <1>4, <2>1, <3>2, HowItEnds
      <4>2. step \in ProcessSteps /\ succeeded = SucceededBefore(step)
        BY <1>4, <4>1 DEF WorkerInv, RunsTellTheStep
      <4>3. step \notin SucceededBefore(step)
        BY DEF SucceededBefore
      <4> QED BY <4>1, <4>2, <4>3
    <3>3. diagnostics' # {}
      BY <1>4, <2>1, <2>4, HowItEnds
    <3> QED BY <2>2, <3>1, <3>2, <3>3 DEF RequestedIsJudged
  <2> QED BY <2>3, <2>4
<1> QED BY <1>2, <1>3, <1>4

\* The invariant holds throughout.
THEOREM WorkerInvariance == WorkerSpec => []WorkerInv
<1> QED BY InitWorkerInv, NextWorkerInv, PTL DEF WorkerSpec

\* Every variable keeps to its type.
THEOREM WorkerTypeCorrect == WorkerSpec => []WorkerTypeOK
<1>1. WorkerInv => WorkerTypeOK
  BY DEF WorkerInv
<1> QED BY <1>1, WorkerInvariance, PTL

\* A stage marked passed was proven: by the bytes that were acquired, by all of
\* its processes and by the markers (passVerificationStage and its callers in
\* packed-worker.ts).
THEOREM PassesAreProven == WorkerSpec => []PassedIsProven
<1>1. WorkerInv => PassedIsProven
  BY DEF WorkerInv
<1> QED BY <1>1, WorkerInvariance, PTL

\* What the worker returns is one story: ledger, conclusion, diagnostics and
\* the fate of its root agree (the catch and finally clauses of
\* runPackedPluginVerification).
THEOREM ConclusionsAreHonest == WorkerSpec => []ConclusionIsHonest
<1>1. WorkerInv => ConclusionIsHonest
  <2> SUFFICES ASSUME WorkerInv PROVE RootAccountedFor
    BY DEF WorkerInv, ConclusionIsHonest
  <2> QED BY DEF WorkerInv, RootAccountedFor, RootAndCopy, RunsTellTheStep, ProcessSteps, Ended
<1> QED BY <1>1, WorkerInvariance, PTL

\* Under an aborted signal no child is spawned and none succeeds any more
\* (runVerificationProcess as the worker calls it).
THEOREM AbortsStopWork == WorkerSpec => AbortStopsWork
<1> DEFINE Stopped == aborted => spawns' = spawns /\ succeeded' = succeeded
<1>1. ASSUME WorkerNext, aborted PROVE spawns' = spawns /\ succeeded' = succeeded
  <2> USE <1>1
  <2>1. ASSUME StartProcess PROVE spawns' = spawns /\ succeeded' = succeeded
    BY <2>1 DEF StartProcess, SpawnAllowed
  <2>2. ASSUME ProcessSettles PROVE spawns' = spawns /\ succeeded' = succeeded
    <3>1. run' # "exitedZero"
      BY <2>2 DEF ProcessSettles, Promise!Possible, Promise!Forced
    <3> QED BY <2>2, <3>1 DEF ProcessSettles
  <2> QED BY <2>1, <2>2 DEF WorkerNext, WorkerStep, Call, CreateRoot, Layout, ReadArtifact,
                            StageArtifact, PrepareProbe, ProcessFailed, ProcessSucceeded,
                            BootSucceeded, CleanUp, Abort, Drift, history
<1>2. [WorkerNext]_workerVars => [Stopped]_workerVars
  BY <1>1
<1> QED BY <1>2, PTL DEF WorkerSpec, AbortStopsWork

-----------------------------------------------------------------------------
(***************************************************************************)
(* verifyPlugin around its worker.                                         *)
(***************************************************************************)

\* The fingerprints are those of the worlds that were read: the first pair
\* from the start, the index once it is built.
ReadsAreOfTheirWorlds ==
    /\ initial = [target |-> seenFirst["target"], lifecycle |-> seenFirst["lifecycle"]]
    /\ final = [target |-> seenLast["target"], lifecycle |-> seenLast["lifecycle"]]
    /\ phase \in {"indexed", "executing", "refreshed", "reported"} =>
           index = <<seenFirst["target"], seenFirst["evidence"]>>

\* The worker runs within the execution and has returned when it is over.
WorkerRunsWithin ==
    /\ phase \in {"refreshed", "reported"} => step = "returned"
    /\ phase = "resolved" \/ phase = "indexed" \/ phase = "idle" => step = "idle"

\* What was answered is what the reducer says of the state it was answered in.
LastIndex == IndexFingerprint(final, seenLast["evidence"])

ResponseIsOfTheState ==
    /\ phase \notin {"reported", "rejected"} => response.outcome = "none"
    /\ phase = "rejected" =>
           \/ response.outcome = "thrown"
           \/ response.outcome = "failedResponse" /\ response.diagnostics # {}
    /\ phase = "reported" =>
           \E finalIndex \in {LastIndex} :
               /\ response.outcome = Status(finalIndex)
               /\ response.diagnostics = ReportDiagnostics(finalIndex)

VerifyInv ==
    /\ TypeOK
    /\ WorkerInv
    /\ StoryIsWhole
    /\ ReadsAreOfTheirWorlds
    /\ WorkerRunsWithin
    /\ ResponseIsOfTheState

-----------------------------------------------------------------------------
\* Whatever the kernel, others or the worker do is a step of the worker or
\* leaves it alone.
LEMMA StepsOfTheWorker == [Next]_vars => [WorkerNext]_workerVars
BY DEF Next, KernelStep, ResolveInitial, BuildInitialIndex, CheckAndBind, ResolveFinal,
       BuildFinalIndex, Execute, ChangeWorld, Interfere, WorkerNext, vars

\* The reducer reads nothing but what the kernel and the worker hold.
LEMMA SameVerdict ==
    ASSUME UNCHANGED <<terminal, cleanup, artifact, ledger, diagnostics, initial, index,
                       final, findings>>,
           NEW finalIndex
    PROVE  /\ Status(finalIndex)' = Status(finalIndex)
           /\ ReportDiagnostics(finalIndex)' = ReportDiagnostics(finalIndex)
BY DEF Status, ReportDiagnostics, ReducerDiagnostics, StaticDiagnostics, Stale, TargetStale,
       LifecycleStale, ContractIndexStale, StaticUnproven, Failed, Incomplete, ArtifactMismatch,
       RequiredMarks, StaticMarks, Verdict

LEMMA VerdictTypes ==
    ASSUME diagnostics \subseteq Codes, NEW finalIndex
    PROVE  /\ Status(finalIndex) \in ReportStatuses
           /\ ReportDiagnostics(finalIndex) \subseteq Codes \cup StaticCodes \cup ReducerCodes
<1>1. Status(finalIndex) \in ReportStatuses
  BY DEF Status, ReportStatuses
<1>2. StaticDiagnostics \subseteq StaticCodes
  BY DEF StaticDiagnostics, StaticCodes
<1>3. ReducerDiagnostics(finalIndex) \subseteq ReducerCodes
  BY DEF ReducerDiagnostics, ReducerCodes
<1> QED BY <1>1, <1>2, <1>3 DEF ReportDiagnostics

\* The types of what the kernel holds besides the worker.
KernelTypeOK ==
    /\ phase \in {"idle", "resolved", "indexed", "executing", "refreshed", "reported",
                  "rejected"}
    /\ world \in Worlds
    /\ changes \in 0..MaxChanges
    /\ initial \in Snapshots
    /\ index \in Epochs \X Epochs
    /\ final \in Snapshots
    /\ findings \subseteq RequirementStatuses
    /\ response \in [outcome : {"none", "failedResponse", "thrown"} \cup ReportStatuses,
                     diagnostics : SUBSET (Codes \cup StaticCodes \cup ReducerCodes
                                               \cup FailureCodes)]
    /\ seenFirst \in Worlds
    /\ seenLast \in Worlds

KernelInv == KernelTypeOK /\ ReadsAreOfTheirWorlds /\ WorkerRunsWithin /\ ResponseIsOfTheState

LEMMA InitKernelInv == Init => KernelInv
<1> SUFFICES ASSUME Init PROVE KernelInv
  OBVIOUS
<1>1. 0 \in Epochs /\ 1 \in Epochs /\ 0 \in 0..MaxChanges
  BY VerifyAssumption DEF Epochs
<1>2. world \in Worlds
  BY <1>1 DEF Init, Worlds, Axes
<1>3. seenFirst \in Worlds /\ seenLast \in Worlds
  BY <1>1 DEF Init, Worlds, Axes
<1>4. initial \in Snapshots /\ final \in Snapshots /\ index \in Epochs \X Epochs
  BY <1>1 DEF Init, Snapshots
<1>5. KernelTypeOK
  BY <1>1, <1>2, <1>3, <1>4 DEF Init, KernelTypeOK
<1>6. ReadsAreOfTheirWorlds /\ WorkerRunsWithin /\ ResponseIsOfTheState
  BY DEF Init, WorkerInit, ReadsAreOfTheirWorlds, WorkerRunsWithin, ResponseIsOfTheState, Axes
<1> QED BY <1>5, <1>6 DEF KernelInv

\* An error answers with what it is, and everything else is left as it was.
LEMMA RejectKeepsInv ==
    ASSUME KernelInv, NEW code \in FailureCodes, Reject(code) \/ Throw,
           UNCHANGED <<workerVars, world, changes, initial, index, final, findings,
                       seenFirst, seenLast>>
    PROVE  KernelInv'
<1>1. phase' = "rejected"
  BY DEF Reject, Throw
<1>2. \/ response' = [outcome |-> "thrown", diagnostics |-> {}]
      \/ response' = [outcome |-> "failedResponse", diagnostics |-> {code}]
  BY DEF Reject, Throw
<1>3. KernelTypeOK'
  BY <1>1, <1>2 DEF KernelInv, KernelTypeOK
<1>4. ResponseIsOfTheState'
  BY <1>1, <1>2 DEF ResponseIsOfTheState
<1> QED BY <1>1, <1>3, <1>4 DEF KernelInv, ReadsAreOfTheirWorlds, WorkerRunsWithin

LEMMA ErrorCodes == {"TARGET_ACQUISITION", "CONTRACT_ACQUISITION", "CONTRACT_EVIDENCE_STALE",
                     "VERIFY_ARTIFACT_UNPROVEN"} \subseteq FailureCodes
BY DEF FailureCodes

LEMMA SnapshotTypes ==
    ASSUME world \in Worlds
    PROVE  /\ world["target"] \in Epochs /\ world["lifecycle"] \in Epochs
           /\ world["evidence"] \in Epochs
           /\ Snapshot \in Snapshots
BY DEF Worlds, Axes, Snapshot, Snapshots

\* The first reads.
LEMMA ResolveInitialStep == ASSUME KernelInv, ResolveInitial PROVE KernelInv'
<1> USE DEF KernelInv
<1>1. CASE Reject("TARGET_ACQUISITION") \/ Throw
  BY <1>1, ErrorCodes, RejectKeepsInv DEF ResolveInitial, Reject, Throw
<1>2. CASE phase' = "resolved"
  <2>1. /\ phase = "idle" /\ initial' = Snapshot
        /\ seenFirst' = [seenFirst EXCEPT !["target"] = world["target"],
                                          !["lifecycle"] = world["lifecycle"]]
        /\ UNCHANGED <<step, world, changes, index, final, findings, response, seenLast>>
    BY <1>2 DEF ResolveInitial, Reject, Throw, workerVars
  <2>2. seenFirst' \in Worlds
    BY <2>1, SnapshotTypes DEF KernelTypeOK, Worlds
  <2>3. /\ seenFirst'["target"] = world["target"]
        /\ seenFirst'["lifecycle"] = world["lifecycle"]
    BY <2>1 DEF KernelTypeOK, Worlds, Axes
  <2>4. KernelTypeOK'
    BY <1>2, <2>1, <2>2, SnapshotTypes DEF KernelTypeOK
  <2>5. ReadsAreOfTheirWorlds'
    BY <1>2, <2>1, <2>3 DEF ReadsAreOfTheirWorlds, Snapshot
  <2>6. WorkerRunsWithin' /\ ResponseIsOfTheState'
    BY <1>2, <2>1 DEF WorkerRunsWithin, ResponseIsOfTheState
  <2> QED BY <2>4, <2>5, <2>6
<1> QED BY <1>1, <1>2 DEF ResolveInitial

LEMMA BuildInitialIndexStep == ASSUME KernelInv, BuildInitialIndex PROVE KernelInv'
<1> USE DEF KernelInv
<1>1. CASE \E code \in FailureCodes :
               (Reject(code) \/ Throw) /\ UNCHANGED <<index, seenFirst>>
  BY <1>1, RejectKeepsInv DEF BuildInitialIndex
<1>2. CASE phase' = "indexed"
  <2>1. /\ phase = "resolved" /\ index' = IndexFingerprint(initial, world["evidence"])
        /\ seenFirst' = [seenFirst EXCEPT !["evidence"] = world["evidence"]]
        /\ UNCHANGED <<step, world, changes, initial, final, findings, response, seenLast>>
    BY <1>2 DEF BuildInitialIndex, Reject, Throw, workerVars
  <2>2. /\ seenFirst' \in Worlds
        /\ seenFirst'["evidence"] = world["evidence"]
        /\ seenFirst'["target"] = seenFirst["target"]
        /\ seenFirst'["lifecycle"] = seenFirst["lifecycle"]
    BY <2>1, SnapshotTypes DEF KernelTypeOK, Worlds, Axes
  <2>3. index' = <<initial.target, world["evidence"]>>
    BY <2>1 DEF IndexFingerprint
  <2>4. index' \in Epochs \X Epochs
    BY <2>3, SnapshotTypes DEF KernelTypeOK, Snapshots
  <2>5. KernelTypeOK'
    BY <1>2, <2>1, <2>2, <2>4 DEF KernelTypeOK
  <2>6. ReadsAreOfTheirWorlds'
    BY <2>1, <2>2, <2>3 DEF ReadsAreOfTheirWorlds
  <2>7. WorkerRunsWithin' /\ ResponseIsOfTheState'
    BY <1>2, <2>1 DEF WorkerRunsWithin, ResponseIsOfTheState
  <2> QED BY <2>5, <2>6, <2>7
<1> QED BY <1>1, <1>2, ErrorCodes DEF BuildInitialIndex

\* The check against the index, and the execution.
LEMMA CheckAndBindStep == ASSUME KernelInv, CheckAndBind PROVE KernelInv'
<1> USE DEF KernelInv
<1>1. CASE (Reject("VERIFY_ARTIFACT_UNPROVEN") \/ Throw) /\ UNCHANGED findings
  BY <1>1, ErrorCodes, RejectKeepsInv DEF CheckAndBind
<1>2. CASE phase' = "executing"
  <2>1. /\ phase = "indexed" /\ findings' \subseteq RequirementStatuses
        /\ UNCHANGED <<step, world, changes, initial, index, final, response, seenFirst,
                       seenLast>>
    BY <1>2 DEF CheckAndBind, Reject, Throw, workerVars
  <2>2. KernelTypeOK'
    BY <1>2, <2>1 DEF KernelTypeOK
  <2>3. ReadsAreOfTheirWorlds' /\ WorkerRunsWithin' /\ ResponseIsOfTheState'
    BY <1>2, <2>1 DEF ReadsAreOfTheirWorlds, WorkerRunsWithin, ResponseIsOfTheState
  <2> QED BY <2>2, <2>3
<1> QED BY <1>1, <1>2 DEF CheckAndBind

LEMMA ExecuteStep == ASSUME KernelInv, Execute PROVE KernelInv'
<1> USE DEF KernelInv
<1>1. /\ phase = "executing"
      /\ UNCHANGED <<phase, world, changes, initial, index, final, findings, response,
                     seenFirst, seenLast>>
  BY DEF Execute, kernel
<1>2. KernelTypeOK'
  BY <1>1 DEF KernelTypeOK
<1>3. ReadsAreOfTheirWorlds' /\ WorkerRunsWithin' /\ ResponseIsOfTheState'
  BY <1>1 DEF ReadsAreOfTheirWorlds, WorkerRunsWithin, ResponseIsOfTheState
<1> QED BY <1>2, <1>3

\* The last reads.
LEMMA ResolveFinalStep == ASSUME KernelInv, ResolveFinal PROVE KernelInv'
<1> USE DEF KernelInv
<1>1. CASE (Reject("TARGET_ACQUISITION") \/ Throw) /\ UNCHANGED <<final, seenLast>>
  BY <1>1, ErrorCodes, RejectKeepsInv DEF ResolveFinal
<1>2. CASE phase' = "refreshed"
  <2>1. /\ phase = "executing" /\ step = "returned" /\ final' = Snapshot
        /\ seenLast' = [seenLast EXCEPT !["target"] = world["target"],
                                        !["lifecycle"] = world["lifecycle"]]
        /\ UNCHANGED <<step, world, changes, initial, index, findings, response, seenFirst>>
    BY <1>2 DEF ResolveFinal, Reject, Throw, workerVars
  <2>2. /\ seenLast' \in Worlds
        /\ seenLast'["target"] = world["target"]
        /\ seenLast'["lifecycle"] = world["lifecycle"]
    BY <2>1, SnapshotTypes DEF KernelTypeOK, Worlds, Axes
  <2>3. KernelTypeOK'
    BY <1>2, <2>1, <2>2, SnapshotTypes DEF KernelTypeOK
  <2>4. ReadsAreOfTheirWorlds'
    BY <1>2, <2>1, <2>2 DEF ReadsAreOfTheirWorlds, Snapshot
  <2>5. WorkerRunsWithin' /\ ResponseIsOfTheState'
    BY <1>2, <2>1 DEF WorkerRunsWithin, ResponseIsOfTheState
  <2> QED BY <2>3, <2>4, <2>5
<1> QED BY <1>1, <1>2 DEF ResolveFinal

\* The report is reduced from what was read and from the ledger, and nothing
\* it was reduced from changes with it.
LEMMA BuildFinalIndexStep ==
    ASSUME KernelInv, diagnostics \subseteq Codes, BuildFinalIndex PROVE KernelInv'
<1> USE DEF KernelInv
<1>1. CASE \E code \in FailureCodes : (Reject(code) \/ Throw) /\ UNCHANGED seenLast
  BY <1>1, RejectKeepsInv DEF BuildFinalIndex
<1>2. CASE phase' = "reported"
  <2>1. PICK finalIndex \in {IndexFingerprint(final, world["evidence"])} :
            /\ response' = [outcome |-> Status(finalIndex),
                            diagnostics |-> ReportDiagnostics(finalIndex)]
            /\ seenLast' = [seenLast EXCEPT !["evidence"] = world["evidence"]]
    BY <1>2 DEF BuildFinalIndex, Reject, Throw
  <2>2. /\ phase = "refreshed"
        /\ UNCHANGED <<workerVars, world, changes, initial, index, final, findings, seenFirst>>
    BY <1>2 DEF BuildFinalIndex
  <2>3. /\ seenLast' \in Worlds
        /\ seenLast'["evidence"] = world["evidence"]
        /\ seenLast'["target"] = seenLast["target"]
        /\ seenLast'["lifecycle"] = seenLast["lifecycle"]
    BY <2>1, SnapshotTypes DEF KernelTypeOK, Worlds, Axes
  <2>4. KernelTypeOK'
    <3>1. /\ Status(finalIndex) \in ReportStatuses
          /\ ReportDiagnostics(finalIndex) \subseteq Codes \cup StaticCodes \cup ReducerCodes
      BY VerdictTypes
    <3>2. response' \in [outcome : {"none", "failedResponse", "thrown"} \cup ReportStatuses,
                         diagnostics : SUBSET (Codes \cup StaticCodes \cup ReducerCodes
                                                   \cup FailureCodes)]
      BY <2>1, <3>1
    <3> QED BY <1>2, <2>2, <2>3, <3>2 DEF KernelTypeOK
  <2>5. ReadsAreOfTheirWorlds'
    BY <2>2, <2>3 DEF ReadsAreOfTheirWorlds
  <2>6. WorkerRunsWithin'
    BY <1>2, <2>2 DEF WorkerRunsWithin, workerVars
  <2>7. ResponseIsOfTheState'
    <3>1. finalIndex = LastIndex'
      BY <2>1, <2>2, <2>3 DEF LastIndex, IndexFingerprint
    <3>2. /\ Status(finalIndex)' = Status(finalIndex)
          /\ ReportDiagnostics(finalIndex)' = ReportDiagnostics(finalIndex)
      BY <2>2, SameVerdict DEF workerVars
    <3>3. /\ response'.outcome = Status(finalIndex)'
          /\ response'.diagnostics = ReportDiagnostics(finalIndex)'
      BY <2>1, <3>2
    <3> QED BY <1>2, <3>1, <3>3 DEF ResponseIsOfTheState
  <2> QED BY <2>4, <2>5, <2>6, <2>7
<1> QED BY <1>1, <1>2, ErrorCodes DEF BuildFinalIndex

\* The world, the artifact and the signal change under the kernel: nothing it
\* holds is theirs.
LEMMA InterferenceStep ==
    ASSUME KernelInv, (\E axis \in Axes : ChangeWorld(axis)) \/ Interfere PROVE KernelInv'
<1> USE DEF KernelInv
<1>1. /\ phase \notin {"reported", "rejected"}
      /\ UNCHANGED <<step, phase, initial, index, final, findings, response,
                     seenFirst, seenLast>>
  BY DEF ChangeWorld, Interfere, Answered, Abort, Drift, kernel, worker, workerVars
<1>2. world' \in Worlds /\ changes' \in 0..MaxChanges
  <2>1. CASE Interfere
    BY <2>1 DEF Interfere, KernelTypeOK
  <2>2. CASE \E axis \in Axes : ChangeWorld(axis)
    BY <2>2, VerifyAssumption DEF ChangeWorld, KernelTypeOK, Worlds
  <2> QED BY <2>1, <2>2
<1>3. KernelTypeOK'
  BY <1>1, <1>2 DEF KernelTypeOK
<1>4. ReadsAreOfTheirWorlds' /\ WorkerRunsWithin' /\ ResponseIsOfTheState'
  BY <1>1 DEF ReadsAreOfTheirWorlds, WorkerRunsWithin, ResponseIsOfTheState
<1> QED BY <1>3, <1>4

LEMMA StutterKeepsKernelInv == ASSUME KernelInv, UNCHANGED vars PROVE KernelInv'
<1> USE DEF KernelInv
<1>1. UNCHANGED <<step, phase, world, changes, initial, index, final, findings, response,
                  seenFirst, seenLast, terminal, cleanup, artifact, ledger, diagnostics>>
  BY DEF vars, workerVars
<1>2. KernelTypeOK'
  BY <1>1 DEF KernelTypeOK
<1>3. ReadsAreOfTheirWorlds' /\ WorkerRunsWithin'
  BY <1>1 DEF ReadsAreOfTheirWorlds, WorkerRunsWithin
<1>4. ResponseIsOfTheState'
  <2>1. CASE phase # "reported"
    BY <1>1, <2>1 DEF ResponseIsOfTheState
  <2>2. CASE phase = "reported"
    <3>1. PICK finalIndex \in {LastIndex} : /\ response.outcome = Status(finalIndex)
                                            /\ response.diagnostics = ReportDiagnostics(finalIndex)
      BY <2>2 DEF ResponseIsOfTheState
    <3>2. finalIndex = LastIndex'
      BY <1>1, <3>1 DEF LastIndex, IndexFingerprint
    <3>3. /\ response'.outcome = Status(finalIndex)'
          /\ response'.diagnostics = ReportDiagnostics(finalIndex)'
      BY <1>1, <3>1, SameVerdict
    <3> QED BY <1>1, <2>2, <3>2, <3>3 DEF ResponseIsOfTheState
  <2> QED BY <2>1, <2>2
<1> QED BY <1>2, <1>3, <1>4

LEMMA InitVerifyInv == Init => VerifyInv
<1> SUFFICES ASSUME Init PROVE VerifyInv
  OBVIOUS
<1>1. WorkerInv /\ StoryIsWhole
  BY InitWorkerInv, InitStory DEF Init
<1>2. KernelInv
  BY InitKernelInv
<1> QED BY <1>1, <1>2 DEF VerifyInv, KernelInv, KernelTypeOK, TypeOK, WorkerInv

LEMMA NextVerifyInv == VerifyInv /\ [Next]_vars => VerifyInv'
<1> SUFFICES ASSUME VerifyInv, [Next]_vars PROVE VerifyInv'
  OBVIOUS
<1>1. KernelInv /\ diagnostics \subseteq Codes
  BY DEF VerifyInv, KernelInv, KernelTypeOK, TypeOK, WorkerTypeOK
<1>2. WorkerInv' /\ StoryIsWhole'
  BY StepsOfTheWorker, NextWorkerInv, NextStory DEF VerifyInv
<1>3. KernelInv'
  BY <1>1, ResolveInitialStep, BuildInitialIndexStep, CheckAndBindStep, ExecuteStep,
     ResolveFinalStep, BuildFinalIndexStep, InterferenceStep, StutterKeepsKernelInv
  DEF Next, KernelStep
<1> QED BY <1>2, <1>3 DEF VerifyInv, KernelInv, KernelTypeOK, TypeOK, WorkerInv

\* The invariant holds throughout.
THEOREM VerifyInvariance == Spec => []VerifyInv
<1> QED BY InitVerifyInv, NextVerifyInv, PTL DEF Spec

\* Every variable keeps to its type.
THEOREM VerifyTypeCorrect == Spec => []TypeOK
<1>1. VerifyInv => TypeOK
  BY DEF VerifyInv
<1> QED BY <1>1, VerifyInvariance, PTL

-----------------------------------------------------------------------------
\* What a report of each status rests on, at the moment it is made.
LEMMA VerdictIsOfTheReport ==
    ASSUME VerifyInv, response.outcome \in ReportStatuses
    PROVE  /\ step = "returned"
           /\ response.outcome = Status(LastIndex)
           /\ response.diagnostics = ReportDiagnostics(LastIndex)
BY DEF VerifyInv, TypeOK, ResponseIsOfTheState, WorkerRunsWithin, ReportStatuses

\* A worker that completed has its five processes and its copy behind it.
LEMMA CompletedIsProven ==
    ASSUME VerifyInv, step = "returned", terminal = "completed"
    PROVE  /\ \A stage \in {"package", "install", "compose", "boot"} : ledger[stage] = "passed"
           /\ copy = "bound" /\ ProcessSteps \subseteq succeeded /\ "booted" \in output
<1>1. \A stage \in {"package", "install", "compose", "boot"} : ledger[stage] = "passed"
  BY DEF VerifyInv, WorkerInv, EndTellsTheLedger, Ended
<1> QED BY <1>1 DEF VerifyInv, WorkerInv, PassedIsProven, ProcessSteps

\* What is not stale was read from the same world twice.
LEMMA NotStaleIsFresh ==
    ASSUME VerifyInv, phase = "reported", ~Stale(LastIndex)
    PROVE  seenLast = seenFirst
<1>1. /\ final.target = initial.target /\ final.lifecycle = initial.lifecycle
      /\ LastIndex = index
  BY DEF Stale, TargetStale, LifecycleStale, ContractIndexStale
<1>2. \A axis \in Axes : seenLast[axis] = seenFirst[axis]
  BY <1>1 DEF VerifyInv, ReadsAreOfTheirWorlds, LastIndex, IndexFingerprint, Axes
<1> QED BY <1>2 DEF VerifyInv, TypeOK, Worlds

\* A verification that was not failed for its findings found nothing that fails.
LEMMA FindingsOfAVerdict ==
    ASSUME findings \subseteq RequirementStatuses
    PROVE  /\ Verdict # "incompatible" => findings \cap {"missing", "version-mismatch"} = {}
           /\ Verdict # "incompatible" /\ ~StaticUnproven => findings = {}
BY DEF Verdict, StaticUnproven, RequirementStatuses

\* What is called verified was executed on the acquired bytes, proven by its
\* processes and markers, and met every static requirement
\* (reducePluginVerification on the ledger of the worker).
THEOREM VerifiedHasBeenEarned == Spec => []VerifiedIsEarned
<1>1. VerifyInv => VerifiedIsEarned
  <2> SUFFICES ASSUME VerifyInv, response.outcome = "verified"
               PROVE  /\ copy = "bound" /\ root = "removed"
                      /\ ProcessSteps \subseteq succeeded
                      /\ "booted" \in output
                      /\ request.visibility => "visible" \in output /\ "invisible" \notin output
                      /\ request.behavior => "behaved" \in output /\ "misbehaved" \notin output
                      /\ findings = {}
    BY DEF VerifiedIsEarned
  <2>1. step = "returned" /\ Status(LastIndex) = "verified"
    BY VerdictIsOfTheReport DEF ReportStatuses
  <2>2. terminal # "cancelled" /\ ~Failed /\ ~Incomplete
    BY <2>1 DEF Status
  <2>3. terminal = "completed"
    BY <2>2 DEF Failed, VerifyInv, WorkerInv, WorkerTypeOK
  <2>4. /\ \A stage \in {"package", "install", "compose", "boot"} : ledger[stage] = "passed"
        /\ copy = "bound" /\ ProcessSteps \subseteq succeeded /\ "booted" \in output
    BY <2>1, <2>3, CompletedIsProven
  <2>5. root = "removed"
    BY <2>2 DEF Incomplete, VerifyInv, WorkerInv, RootAndCopy
  <2>6. findings = {}
    BY <2>2, FindingsOfAVerdict DEF Failed, Incomplete, VerifyInv, TypeOK
  <2>7. /\ ledger["visibility"] \notin {"failed", "unproven"}
        /\ ledger["behavior"] \notin {"failed", "unproven"}
    BY <2>2 DEF Failed, Incomplete
  <2>8. /\ request.visibility => ledger["visibility"] = "passed"
        /\ request.behavior => ledger["behavior"] = "passed"
    BY <2>4, <2>7 DEF VerifyInv, StoryIsWhole, RequestedIsJudged
  <2> QED BY <2>4, <2>5, <2>6, <2>8 DEF VerifyInv, WorkerInv, PassedIsProven
<1> QED BY <1>1, VerifyInvariance, PTL

\* What is called verified is true of the world of the last reads, which is
\* that of the first (the staleness conditions of reducePluginVerification).
THEOREM VerifiedStaysFresh == Spec => []VerifiedIsFresh
<1>1. VerifyInv => VerifiedIsFresh
  <2> SUFFICES ASSUME VerifyInv, response.outcome = "verified" PROVE seenLast = seenFirst
    BY DEF VerifiedIsFresh
  <2>1. phase = "reported"
    BY DEF VerifyInv, TypeOK, ResponseIsOfTheState
  <2>2. ~Stale(LastIndex)
    BY VerdictIsOfTheReport DEF Status, ReportStatuses
  <2> QED BY <2>1, <2>2, NotStaleIsFresh
<1> QED BY <1>1, VerifyInvariance, PTL

\* A partial report hides no failure: nothing failed and the worker completed
\* (the order of the conditions in reducePluginVerification).
THEOREM FailuresStand == Spec => []FailureStands
<1>1. VerifyInv => FailureStands
  <2> SUFFICES ASSUME VerifyInv, response.outcome = "partial"
               PROVE  /\ \A stage \in RuntimeStages : ledger[stage] # "failed"
                      /\ findings \cap {"missing", "version-mismatch"} = {}
                      /\ ProcessSteps \subseteq succeeded
    BY DEF FailureStands
  <2>1. step = "returned" /\ Status(LastIndex) = "partial"
    BY VerdictIsOfTheReport DEF ReportStatuses
  <2>2. terminal # "cancelled" /\ ~Failed
    BY <2>1 DEF Status
  <2>3. terminal = "completed"
    BY <2>2 DEF Failed, VerifyInv, WorkerInv, WorkerTypeOK
  <2>4. /\ \A stage \in {"package", "install", "compose", "boot"} : ledger[stage] = "passed"
        /\ ProcessSteps \subseteq succeeded
    BY <2>1, <2>3, CompletedIsProven
  <2>5. \A stage \in RuntimeStages : ledger[stage] # "failed"
    BY <2>2, <2>4 DEF Failed, RuntimeStages
  <2>6. findings \cap {"missing", "version-mismatch"} = {}
    BY <2>2, FindingsOfAVerdict DEF Failed, VerifyInv, TypeOK
  <2> QED BY <2>4, <2>5, <2>6
<1> QED BY <1>1, VerifyInvariance, PTL

\* What the static checks and the ledger fail or leave open has a diagnostic.
LEMMA StaticFailuresAreTold ==
    ASSUME findings \subseteq RequirementStatuses, findings # {}
    PROVE  StaticDiagnostics # {}
BY DEF StaticDiagnostics, RequirementStatuses

LEMMA StaticMarksOfFindings ==
    ASSUME findings = {}
    PROVE  /\ Verdict = "compatible-in-scope"
           /\ \A check \in DOMAIN StaticMarks : StaticMarks[check] = "passed"
           /\ ~StaticUnproven
<1>1. Verdict = "compatible-in-scope"
  BY DEF Verdict
<1>2. DOMAIN StaticMarks = {"structure", "manifest", "dependency", "contract"}
  BY DEF StaticMarks
<1>3. /\ StaticMarks["structure"] = "passed" /\ StaticMarks["manifest"] = "passed"
      /\ StaticMarks["dependency"] = "passed" /\ StaticMarks["contract"] = "passed"
  BY <1>1 DEF StaticMarks
<1> QED BY <1>1, <1>2, <1>3 DEF StaticUnproven

\* A report other than verified carries a diagnostic.
LEMMA ReportsAreExplained ==
    ASSUME VerifyInv, response.outcome \in ReportStatuses, response.outcome # "verified"
    PROVE  response.diagnostics # {}
<1>1. /\ step = "returned" /\ response.outcome = Status(LastIndex)
      /\ response.diagnostics = ReportDiagnostics(LastIndex)
  BY VerdictIsOfTheReport
<1> SUFFICES ASSUME ReportDiagnostics(LastIndex) = {} PROVE Status(LastIndex) = "verified"
  BY <1>1
<1>2. StaticDiagnostics = {} /\ diagnostics = {} /\ ReducerDiagnostics(LastIndex) = {}
  BY DEF ReportDiagnostics
<1>3. /\ ~ArtifactMismatch /\ ~TargetStale /\ ~LifecycleStale /\ ~ContractIndexStale(LastIndex)
      /\ ledger["visibility"] # "unproven" /\ ledger["behavior"] # "unproven"
  BY <1>2 DEF ReducerDiagnostics
<1>4. terminal = "completed"
  BY <1>1, <1>2 DEF VerifyInv, StoryIsWhole, Ended
<1>5. /\ \A stage \in {"package", "install", "compose", "boot"} : ledger[stage] = "passed"
      /\ copy = "bound"
  BY <1>1, <1>4, CompletedIsProven
<1>6. \A stage \in RuntimeStages : ledger[stage] # "failed"
  BY <1>2 DEF VerifyInv, WorkerInv, LedgerAgrees
<1>7. cleanup = "succeeded"
  <2>1. root # "absent" /\ root # "present"
    BY <1>1, <1>2, <1>5 DEF VerifyInv, StoryIsWhole, WorkerInv, RootAndCopy
  <2> QED BY <2>1 DEF VerifyInv, WorkerInv, WorkerTypeOK, RootAndCopy
<1>8. findings = {}
  BY <1>2, StaticFailuresAreTold DEF VerifyInv, TypeOK
<1>9. RequiredMarks = {"passed"}
  <2>1. \A check \in DOMAIN StaticMarks : StaticMarks[check] = "passed"
    BY <1>8, StaticMarksOfFindings
  <2> QED BY <1>5, <2>1 DEF RequiredMarks
<1>10. ~Failed
  <2>1. Verdict # "incompatible"
    BY <1>8, StaticMarksOfFindings
  <2> QED BY <1>3, <1>4, <1>6, <1>9, <2>1 DEF Failed, RuntimeStages
<1>11. ~Incomplete
  BY <1>3, <1>7, <1>8, <1>9, StaticMarksOfFindings DEF Incomplete
<1> QED BY <1>3, <1>4, <1>10, <1>11 DEF Status, Stale

\* Whatever is answered has a cause: a cancelled report had its abort and cut
\* the work short, and an answer other than verified has a diagnostic or is an
\* error (verifyPluginResponse and the diagnostics it reduces).
THEOREM AnswersHaveACause == Spec => []AnswersHaveTheirCause
<1>1. VerifyInv => CancelledWasRequested
  <2> SUFFICES ASSUME VerifyInv, response.outcome = "cancelled"
               PROVE  aborted /\ ~(ProcessSteps \subseteq succeeded)
    BY DEF CancelledWasRequested
  <2>1. Status(LastIndex) = "cancelled"
    BY VerdictIsOfTheReport DEF ReportStatuses
  <2>2. terminal = "cancelled"
    BY <2>1 DEF Status
  <2> QED BY <2>2 DEF VerifyInv, StoryIsWhole, WorkerInv, ConclusionHasItsCause
<1>2. VerifyInv => EveryAnswerExplained
  <2> SUFFICES ASSUME VerifyInv, Answered, response.outcome \notin {"verified", "thrown"}
               PROVE  response.diagnostics # {}
    BY DEF EveryAnswerExplained
  <2>1. CASE phase = "rejected"
    BY <2>1 DEF VerifyInv, ResponseIsOfTheState
  <2>2. CASE phase = "reported"
    <3>1. response.outcome \in ReportStatuses
      BY <2>2, VerdictTypes DEF VerifyInv, ResponseIsOfTheState, TypeOK, WorkerTypeOK
    <3> QED BY <3>1, ReportsAreExplained
  <2> QED BY <2>1, <2>2 DEF Answered
<1>3. VerifyInv => AnswersHaveTheirCause
  BY <1>1, <1>2 DEF AnswersHaveTheirCause
<1> QED BY <1>3, VerifyInvariance, PTL

-----------------------------------------------------------------------------
(***************************************************************************)
(* One child process of the worker, for any limits, any number of bytes    *)
(* written, and with or without process groups and descendants that        *)
(* escape: the runner keeps the promise that the worker above relies on.   *)
(***************************************************************************)
\* What a run is at rest from: after its close event nobody is left to end
\* or to write.
CloseInv ==
    /\ spawnError # "none" => spawned
    /\ ~spawned => alive = {} /\ written = [s \in Streams |-> 0]
    /\ closeEmitted => spawned /\ "child" \notin alive /\ holding = {} /\ read = written

\* What is captured and what was written, up to the forced outcome: until
\* then all that was read is captured, and afterwards the cause stands.
CaptureInv ==
    /\ \A s \in Streams : read[s] <= written[s] /\ captured[s] <= MaxBytes(s)
    /\ forced = "none" => captured = read
    /\ forced = "cancelled" => signalAborted
    /\ forced # "none" => spawned
    /\ \A s \in Streams : forced = LimitOf(s) => written[s] > MaxBytes(s)

\* Where the outcome comes from.  A run that has settled is out of reach of its
\* timer and its signal, and one that has not learns of an abort at once.
OutcomeInv ==
    /\ Settled => timer # "armed" /\ ~listening
    /\ spawned /\ ~Settled /\ signalAborted => forced # "none"
    /\ spawned /\ ~Settled /\ ~signalAborted => listening
    /\ listening => spawned
    /\ timer = "armed" => spawned
    /\ outcome = "cancelled" => signalAborted
    /\ outcome \in {"timeout", "stdoutLimit", "stderrLimit"} => forced = outcome
    /\ outcome \in {"exitedZero", "exitedNonzero", "signalled"} =>
           closeEmitted /\ forced = "none"
    /\ outcome = "exitedZero" => exit = "zero"
    /\ ~spawned => outcome \in {"pending", "cancelled", "startFailed"}

ProcessInv == ProcessTypeOK /\ CloseInv /\ CaptureInv /\ OutcomeInv

LEMMA ProcessStartsSound == ProcessInit => ProcessInv
<1> SUFFICES ASSUME ProcessInit PROVE ProcessInv
  OBVIOUS
<1>1. ProcessTypeOK
  <2>1. /\ captured \in [Streams -> Nat]
        /\ written \in [Streams -> 0..MaxWritten]
        /\ read \in [Streams -> 0..MaxWritten]
    BY ProcessAssumption DEF ProcessInit
  <2> QED BY <2>1 DEF ProcessInit, ProcessTypeOK
<1>2. CloseInv
  BY DEF ProcessInit, CloseInv
<1>3. CaptureInv
  BY ProcessAssumption DEF ProcessInit, CaptureInv, MaxBytes, LimitOf, Streams
<1>4. OutcomeInv
  BY DEF ProcessInit, OutcomeInv, Settled
<1> QED BY <1>1, <1>2, <1>3, <1>4 DEF ProcessInv

\* forceTermination keeps the types of the two variables it assigns, and of
\* a kill that is under way it makes no other.
LEMMA ForceTerminationTypes ==
    ASSUME ProcessTypeOK, NEW cause \in ForcedOutcomes, ForceTermination(cause)
    PROVE  /\ forced' \in {"none"} \cup ForcedOutcomes
           /\ terminating' \in BOOLEAN
<1>1. CASE forced # "none"
  BY <1>1 DEF ProcessTypeOK, ForceTermination
<1>2. CASE forced = "none"
  <2>1. forced' = cause /\ terminating' = (spawnError = "none")
    BY <1>2 DEF ForceTermination
  <2>2. (spawnError = "none") \in BOOLEAN
    OBVIOUS
  <2> QED BY <2>1, <2>2
<1> QED BY <1>1, <1>2

\* finish, whether or not the run has settled before, keeps the types of what
\* it assigns.
LEMMA FinishTypes ==
    ASSUME ProcessTypeOK, NEW kind \in OwnOutcomes \cup ForcedOutcomes, Finish(kind)
    PROVE  /\ outcome' \in {"pending"} \cup OwnOutcomes \cup ForcedOutcomes
           /\ timer' \in {"off", "armed", "fired"}
           /\ listening' \in BOOLEAN
<1>1. CASE Settled
  BY <1>1 DEF ProcessTypeOK, Finish
<1>2. CASE ~Settled
  BY <1>2 DEF Finish
<1> QED BY <1>1, <1>2

LEMMA ProcessStaysSound == ProcessInv /\ [ProcessNext]_processVars => ProcessInv'
<1> SUFFICES ASSUME ProcessInv, [ProcessNext]_processVars PROVE ProcessInv'
  OBVIOUS
<1> USE ProcessAssumption DEF ProcessInv, Settled, runner, processes, pipes
<1>1. ASSUME Run PROVE ProcessInv'
  <2> USE <1>1
  <2>1. ProcessTypeOK'
    <3>1. CASE spawned'
      BY <3>1 DEF Run, ProcessTypeOK, Processes
    <3>2. CASE ~spawned'
      BY <3>2 DEF Run, ProcessTypeOK, OwnOutcomes, ForcedOutcomes
    <3> QED BY <3>1, <3>2
  <2>2. CloseInv'
    BY DEF Run, StartsUnderSignal, ProcessTypeOK, CloseInv
  <2>3. CaptureInv'
    BY DEF Run, StartsUnderSignal, ProcessTypeOK, CaptureInv, CloseInv, OutcomeInv, MaxBytes, LimitOf, Streams
  <2>4. OutcomeInv'
    BY DEF Run, StartsUnderSignal, ProcessTypeOK, CloseInv, CaptureInv, OutcomeInv, LimitOf, Streams, ForcedOutcomes
  <2> QED BY <2>1, <2>2, <2>3, <2>4
<1>2. ASSUME AbortRun PROVE ProcessInv'
  <2> USE <1>2
  <2>1. ProcessTypeOK'
    <3>1. /\ forced' \in {"none"} \cup ForcedOutcomes
          /\ terminating' \in BOOLEAN
      BY ForceTerminationTypes DEF AbortRun, ProcessTypeOK, ForcedOutcomes
    <3> QED BY <3>1 DEF AbortRun, ProcessTypeOK
  <2>2. CloseInv'
    BY DEF AbortRun, ForceTermination, ProcessTypeOK, CloseInv
  <2>3. CaptureInv'
    BY DEF AbortRun, ForceTermination, ProcessTypeOK, CaptureInv, CloseInv, OutcomeInv, MaxBytes, LimitOf, Streams
  <2>4. OutcomeInv'
    BY DEF AbortRun, ForceTermination, ProcessTypeOK, CloseInv, CaptureInv, OutcomeInv, LimitOf, Streams, ForcedOutcomes
  <2> QED BY <2>1, <2>2, <2>3, <2>4
<1>3. ASSUME Timeout PROVE ProcessInv'
  <2> USE <1>3
  <2>1. ProcessTypeOK'
    <3>1. /\ forced' \in {"none"} \cup ForcedOutcomes
          /\ terminating' \in BOOLEAN
      BY ForceTerminationTypes DEF Timeout, ProcessTypeOK, ForcedOutcomes
    <3> QED BY <3>1 DEF Timeout, ProcessTypeOK
  <2>2. CloseInv'
    BY DEF Timeout, ForceTermination, ProcessTypeOK, CloseInv
  <2>3. CaptureInv'
    BY DEF Timeout, ForceTermination, ProcessTypeOK, CaptureInv, CloseInv, OutcomeInv, MaxBytes, LimitOf, Streams
  <2>4. OutcomeInv'
    BY DEF Timeout, ForceTermination, ProcessTypeOK, CloseInv, CaptureInv, OutcomeInv, LimitOf, Streams, ForcedOutcomes
  <2> QED BY <2>1, <2>2, <2>3, <2>4
<1>4. ASSUME NEW s \in Streams, NEW n \in 1..MaxWritten, Data(s, n) PROVE ProcessInv'
  <2> USE <1>4
  <2>1. ProcessTypeOK'
    <3>1. /\ forced' \in {"none"} \cup ForcedOutcomes
          /\ terminating' \in BOOLEAN
      BY ForceTerminationTypes DEF Data, ProcessTypeOK, ForcedOutcomes, LimitOf
    <3> QED BY <3>1 DEF Data, ProcessTypeOK, CaptureInv, Streams
  <2>2. CloseInv'
    BY DEF Data, ForceTermination, Exceeds, ProcessTypeOK, CloseInv
  <2>3. CaptureInv'
    BY DEF Data, ForceTermination, Exceeds, ProcessTypeOK, CaptureInv, CloseInv, OutcomeInv, MaxBytes, LimitOf, Streams
  <2>4. OutcomeInv'
    BY DEF Data, ForceTermination, Exceeds, ProcessTypeOK, CloseInv, CaptureInv, OutcomeInv, LimitOf, Streams, ForcedOutcomes
  <2> QED BY <2>1, <2>2, <2>3, <2>4
<1>5. ASSUME ErrorEvent PROVE ProcessInv'
  <2> USE <1>5
  <2>1. ProcessTypeOK'
    <3>1. CASE forced # "none"
      BY <3>1 DEF ErrorEvent, ProcessTypeOK
    <3>2. CASE forced = "none"
      BY <3>2, FinishTypes DEF ErrorEvent, ProcessTypeOK, OwnOutcomes
    <3> QED BY <3>1, <3>2
  <2>2. CloseInv'
    BY DEF ErrorEvent, Finish, ProcessTypeOK, CloseInv
  <2>3. CaptureInv'
    BY DEF ErrorEvent, Finish, ProcessTypeOK, CaptureInv, CloseInv, OutcomeInv, MaxBytes, LimitOf, Streams
  <2>4. OutcomeInv'
    BY DEF ErrorEvent, Finish, ProcessTypeOK, CloseInv, CaptureInv, OutcomeInv, LimitOf, Streams, ForcedOutcomes
  <2> QED BY <2>1, <2>2, <2>3, <2>4
<1>6. ASSUME CloseEvent PROVE ProcessInv'
  <2> USE <1>6
  <2>1. ProcessTypeOK'
    <3>1. Reported \in OwnOutcomes \cup ForcedOutcomes
      BY DEF ProcessTypeOK, Reported, OwnOutcomes
    <3> QED BY <3>1, FinishTypes DEF CloseEvent, ProcessTypeOK
  <2>2. CloseInv'
    BY DEF CloseEvent, Finish, Reported, ProcessTypeOK, CloseInv
  <2>3. CaptureInv'
    BY DEF CloseEvent, Finish, Reported, ProcessTypeOK, CaptureInv, CloseInv, OutcomeInv, MaxBytes, LimitOf, Streams
  <2>4. OutcomeInv'
    BY DEF CloseEvent, Finish, Reported, ProcessTypeOK, CloseInv, CaptureInv, OutcomeInv, LimitOf, Streams, ForcedOutcomes
  <2> QED BY <2>1, <2>2, <2>3, <2>4
<1>7. ASSUME NEW s \in Streams, Write(s) PROVE ProcessInv'
  <2> USE <1>7
  <2>1. ProcessTypeOK'
    BY DEF Write, ProcessTypeOK, ForcedOutcomes, OwnOutcomes, Streams, Processes, Descendants
  <2>2. CloseInv'
    BY DEF Write, ProcessTypeOK, CloseInv
  <2>3. CaptureInv'
    BY DEF Write, ProcessTypeOK, CaptureInv, CloseInv, OutcomeInv, MaxBytes, LimitOf, Streams
  <2>4. OutcomeInv'
    BY DEF Write, ProcessTypeOK, CloseInv, CaptureInv, OutcomeInv, LimitOf, Streams, ForcedOutcomes
  <2> QED BY <2>1, <2>2, <2>3, <2>4
<1>8. ASSUME NEW p \in Descendants, Fork(p) PROVE ProcessInv'
  <2> USE <1>8
  <2>1. ProcessTypeOK'
    BY DEF Fork, ProcessTypeOK, ForcedOutcomes, OwnOutcomes, Streams, Processes, Descendants
  <2>2. CloseInv'
    BY DEF Fork, ProcessTypeOK, CloseInv
  <2>3. CaptureInv'
    BY DEF Fork, ProcessTypeOK, CaptureInv, CloseInv, OutcomeInv, MaxBytes, LimitOf, Streams
  <2>4. OutcomeInv'
    BY DEF Fork, ProcessTypeOK, CloseInv, CaptureInv, OutcomeInv, LimitOf, Streams, ForcedOutcomes
  <2> QED BY <2>1, <2>2, <2>3, <2>4
<1>9. ASSUME NEW p \in Processes, LetGo(p) PROVE ProcessInv'
  <2> USE <1>9
  <2>1. ProcessTypeOK'
    BY DEF LetGo, ProcessTypeOK, ForcedOutcomes, OwnOutcomes, Streams, Processes, Descendants
  <2>2. CloseInv'
    BY DEF LetGo, ProcessTypeOK, CloseInv
  <2>3. CaptureInv'
    BY DEF LetGo, ProcessTypeOK, CaptureInv, CloseInv, OutcomeInv, MaxBytes, LimitOf, Streams
  <2>4. OutcomeInv'
    BY DEF LetGo, ProcessTypeOK, CloseInv, CaptureInv, OutcomeInv, LimitOf, Streams, ForcedOutcomes
  <2> QED BY <2>1, <2>2, <2>3, <2>4
<1>10. ASSUME NEW p \in Processes, NEW how \in {"zero", "nonzero", "signal"}, Exit(p, how) PROVE ProcessInv'
  <2> USE <1>10
  <2>1. ProcessTypeOK'
    BY DEF Exit, ProcessTypeOK, ForcedOutcomes, OwnOutcomes, Streams, Processes, Descendants
  <2>2. CloseInv'
    BY DEF Exit, ProcessTypeOK, CloseInv
  <2>3. CaptureInv'
    BY DEF Exit, ProcessTypeOK, CaptureInv, CloseInv, OutcomeInv, MaxBytes, LimitOf, Streams
  <2>4. OutcomeInv'
    BY DEF Exit, ProcessTypeOK, CloseInv, CaptureInv, OutcomeInv, LimitOf, Streams, ForcedOutcomes
  <2> QED BY <2>1, <2>2, <2>3, <2>4
<1>11. ASSUME Killed PROVE ProcessInv'
  <2> USE <1>11
  <2>1. ProcessTypeOK'
    <3>1. alive' \subseteq Processes /\ holding' \subseteq alive'
      BY DEF Killed, ProcessTypeOK
    <3>2. exit' \in {"none", "zero", "nonzero", "signal"}
      BY DEF Killed, ProcessTypeOK
    <3> QED BY <3>1, <3>2 DEF Killed, ProcessTypeOK
  <2>2. CloseInv'
    BY DEF Killed, Reach, ProcessTypeOK, CloseInv
  <2>3. CaptureInv'
    BY DEF Killed, Reach, ProcessTypeOK, CaptureInv, CloseInv, OutcomeInv, MaxBytes, LimitOf, Streams
  <2>4. OutcomeInv'
    BY DEF Killed, Reach, ProcessTypeOK, CloseInv, CaptureInv, OutcomeInv, LimitOf, Streams, ForcedOutcomes
  <2> QED BY <2>1, <2>2, <2>3, <2>4
<1>12. CASE UNCHANGED processVars
  BY <1>12 DEF processVars, ProcessTypeOK, CloseInv, CaptureInv, OutcomeInv
<1> QED BY <1>1, <1>2, <1>3, <1>4, <1>5, <1>6, <1>7, <1>8, <1>9, <1>10, <1>11, <1>12 DEF ProcessNext

\* The invariant holds in every state of a run.
THEOREM ProcessInvariance == ProcessSpec => []ProcessInv
<1> QED BY ProcessStartsSound, ProcessStaysSound, PTL DEF ProcessSpec

-----------------------------------------------------------------------------
\* Every variable of the runner holds a value of its type.
THEOREM ProcessTypeCorrect == ProcessSpec => []ProcessTypeOK
<1>1. ProcessInv => ProcessTypeOK
  BY DEF ProcessInv
<1> QED BY <1>1, ProcessInvariance, PTL

\* An outcome names its cause and its output is whole, in every state.
LEMMA SoundOutcomesAreHonest == ProcessInv => OutputWholeOrRefused /\ OutcomeHasItsCause
<1> SUFFICES ASSUME ProcessInv PROVE OutputWholeOrRefused /\ OutcomeHasItsCause
  OBVIOUS
<1>1. OutputWholeOrRefused
  BY DEF ProcessInv, CloseInv, CaptureInv, OutcomeInv, OutputWholeOrRefused
<1>2. OutcomeHasItsCause
  BY DEF ProcessInv, CaptureInv, OutcomeInv, OutcomeHasItsCause, LimitOf, Streams
<1> QED BY <1>1, <1>2

\* No event revises the first cause of a termination, nor an outcome.
LEMMA NextKeepsTheFirst ==
    ASSUME ProcessInv, [ProcessNext]_processVars
    PROVE  /\ forced # "none" => forced' = forced
           /\ Settled => outcome' = outcome
BY DEF ProcessInv, OutcomeInv, ProcessNext, processVars, runner, Settled, Run, AbortRun, Timeout, Data, ErrorEvent,
       CloseEvent, Write, Fork, LetGo, Exit, Killed, ForceTermination, Finish

\* Whatever the order of data, errors, close, timer, signal and kill, the
\* outcome a run resolves with is the first one there was, names its cause,
\* and comes with output that is whole and within the limits (the listeners
\* of runVerificationProcess).
THEOREM OutcomesAreHonest == ProcessSpec => OutcomeIsHonest
<1> DEFINE First == /\ forced # "none" => forced' = forced
                    /\ Settled => outcome' = outcome
<1>1. ProcessInv /\ [ProcessNext]_processVars => [First]_processVars
  BY NextKeepsTheFirst
<1>2. ProcessSpec => [](OutputWholeOrRefused /\ OutcomeHasItsCause)
  BY SoundOutcomesAreHonest, ProcessInvariance, PTL
<1>3. ProcessSpec => FirstCauseStands
  BY <1>1, ProcessInvariance, PTL DEF ProcessSpec, FirstCauseStands
<1> QED BY <1>2, <1>3, PTL DEF OutcomeIsHonest

-----------------------------------------------------------------------------
\* The runner keeps what ProcessRun promises the worker: under an aborted
\* signal no child is spawned and none is reported to have ended by itself.
THEOREM RunnerKeepsItsPromise == ProcessSpec => ImplementsProcessRun
<1>1. ProcessInit => Promised!Init
  BY DEF ProcessInit, Promised!Init
<1>2. ASSUME ProcessInv, [ProcessNext]_processVars PROVE [Promised!Next]_(Promised!vars)
  <2> USE <1>2 DEF ProcessInv, Settled
  <2>1. CASE Run
    <3>1. CASE ~StartsUnderSignal
      BY <2>1, <3>1 DEF Run, StartsUnderSignal, Promised!Next, Promised!Settle, Promised!Possible, ProcessTypeOK
    <3>2. CASE StartsUnderSignal
      BY <2>1, <3>2 DEF Run, StartsUnderSignal, Promised!Next, Promised!Settle, Promised!Spawn,
                        Promised!Possible, ProcessTypeOK
    <3> QED BY <3>1, <3>2
  <2>2. CASE AbortRun
    BY <2>2 DEF AbortRun, Promised!Next, Promised!Abort
  <2>3. CASE ErrorEvent
    BY <2>3 DEF ErrorEvent, Finish, Promised!Next, Promised!Settle, Promised!Possible, Promised!vars,
                Promised!Outcomes, Promised!OwnEnd, ProcessTypeOK, CloseInv, OutcomeInv
  <2>4. CASE CloseEvent
    <3>1. CASE Settled
      BY <2>4, <3>1 DEF CloseEvent, Finish, Promised!vars
    <3>2. CASE ~Settled
      <4>1. spawned /\ outcome = "pending" /\ outcome' = Reported
        BY <2>4, <3>2 DEF CloseEvent, Finish
      <4>2. Reported \in Promised!Possible(signalAborted, spawned)
        BY <4>1, <3>2 DEF Reported, Promised!Possible, Promised!Outcomes, Promised!OwnEnd,
                         Promised!Forced, ProcessTypeOK, ForcedOutcomes, CaptureInv, OutcomeInv
      <4> QED BY <2>4, <4>1, <4>2 DEF CloseEvent, Promised!Next, Promised!Settle
    <3> QED BY <3>1, <3>2
  <2>5. CASE UNCHANGED <<signalAborted, spawned, outcome>>
    BY <2>5 DEF Promised!vars
  <2> QED
    BY <2>1, <2>2, <2>3, <2>4, <2>5
       DEF ProcessNext, processVars, runner, Timeout, Data, Write, Fork, LetGo, Exit, Killed
<1> QED BY <1>1, <1>2, ProcessInvariance, PTL DEF ProcessSpec, ImplementsProcessRun, Promised!Spec
=============================================================================
