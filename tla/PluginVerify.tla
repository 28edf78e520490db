---------------------------- MODULE PluginVerify ----------------------------
(***************************************************************************)
(* verifyPlugin of the application kernel (src/kernel/index.ts) around the *)
(* packed worker, with the reducer of src/model/plugin-verify.ts: the      *)
(* target and its Contract Index are read, the subject is acquired and     *)
(* checked against them, the worker runs for minutes, and both are read    *)
(* again before anything is claimed.                                       *)
(*                                                                         *)
(* What may change while the operation awaits is the world it reads: the   *)
(* startup composition of the target, its reload policy (lifecycle), and   *)
(* the declarations contracts are read from.  An epoch stands for the      *)
(* content that a fingerprint identifies; it may return.                   *)
(***************************************************************************)
EXTENDS PackedWorker

CONSTANTS
    MaxEpoch,    \* bound of the model: epochs of each axis
    MaxChanges,  \* bound of the model: changes of the world
    MaxFindings  \* bound of the model: distinct requirement statuses found

ASSUME VerifyAssumption == MaxEpoch \in Nat \ {0} /\ MaxChanges \in Nat /\ MaxFindings \in Nat

VARIABLES
    phase,       \* where verifyPlugin is
    world,       \* the epoch of each axis, now
    changes,     \* how often the world has changed
    initial,     \* snapshot: fingerprints of target and lifecycle
    index,       \* index.fingerprint
    final,       \* finalSnapshot
    findings,    \* the requirement statuses found other than satisfied
    response,    \* what verifyPluginResponse answered, with its diagnostics
    seenFirst,   \* history: the world as the initial reads found it
    seenLast     \* history: the world as the final reads found it

kernel == <<phase, initial, index, final, findings, response, seenFirst, seenLast>>
vars == <<workerVars, phase, world, changes, initial, index, final, findings, response,
          seenFirst, seenLast>>

Epochs == 0..MaxEpoch
Axes == {"target", "lifecycle", "evidence"}

\* Lifecycle 0 is a train without reload metadata: no fingerprint at all.
Snapshots == [target : Epochs, lifecycle : Epochs]
Worlds == [Axes -> Epochs]
RequirementStatuses == {"missing", "version-mismatch", "unproven"}

\* The Contract Index fingerprint binds the target's and the evidence.
IndexFingerprint(snapshot, evidence) == <<snapshot.target, evidence>>

ReportStatuses == {"verified", "failed", "partial", "stale", "cancelled"}
StaticCodes == {"PLUGIN_DSH_PACKAGE_MISSING", "PLUGIN_DSH_VERSION_MISMATCH",
                "PLUGIN_DSH_VERSION_UNPROVEN"}
ReducerCodes == {"VERIFY_ARTIFACT_IDENTITY_MISMATCH", "VERIFY_TARGET_STALE",
                 "VERIFY_LIFECYCLE_STALE", "VERIFY_CONTRACT_INDEX_STALE",
                 "VERIFY_STATIC_UNPROVEN", "VERIFY_VISIBILITY_UNPROVEN",
                 "VERIFY_BEHAVIOR_UNPROVEN"}
FailureCodes == {"TARGET_ACQUISITION", "CONTRACT_ACQUISITION", "CONTRACT_EVIDENCE_STALE",
                 "VERIFY_ARTIFACT_UNPROVEN"}

Init ==
    /\ WorkerInit
    /\ phase = "idle"
    /\ world \in [Axes -> {0}] \cup [Axes -> {1}]
    /\ changes = 0
    /\ initial = [target |-> 0, lifecycle |-> 0]
    /\ index = <<0, 0>>
    /\ final = [target |-> 0, lifecycle |-> 0]
    /\ findings = {}
    /\ response = [outcome |-> "none", diagnostics |-> {}]
    /\ seenFirst = [axis \in Axes |-> 0]
    /\ seenLast = [axis \in Axes |-> 0]

-----------------------------------------------------------------------------
\* verifyPluginResponse turns what verifyPlugin throws into a failed response
\* that carries the one diagnostic of the error.
Reject(code) ==
    /\ phase' = "rejected"
    /\ response' = [outcome |-> "failedResponse", diagnostics |-> {code}]

\* An error of no class it knows is thrown on, to whoever called.
Throw ==
    /\ phase' = "rejected"
    /\ response' = [outcome |-> "thrown", diagnostics |-> {}]

\* resolveTarget: one snapshot of target and lifecycle, or a TARGET_* error.
Snapshot == [target |-> world["target"], lifecycle |-> world["lifecycle"]]

ResolveInitial ==
    /\ phase = "idle"
    /\ \/ /\ initial' = Snapshot
          /\ seenFirst' = [seenFirst EXCEPT !["target"] = world["target"],
                                            !["lifecycle"] = world["lifecycle"]]
          /\ phase' = "resolved"
          /\ UNCHANGED response
       \/ (Reject("TARGET_ACQUISITION") \/ Throw) /\ UNCHANGED <<initial, seenFirst>>
    /\ UNCHANGED <<workerVars, world, changes, index, final, findings, seenLast>>

\* contractAcquisition.acquire and createContractIndex.  Captured manifests
\* are checked again, so a target that has changed since may be noticed.
Noticed(snapshot) == snapshot.target # world["target"]

BuildInitialIndex ==
    /\ phase = "resolved"
    /\ \/ /\ index' = IndexFingerprint(initial, world["evidence"])
          /\ seenFirst' = [seenFirst EXCEPT !["evidence"] = world["evidence"]]
          /\ phase' = "indexed"
          /\ UNCHANGED response
       \/ /\ \/ Reject("CONTRACT_ACQUISITION") \/ Throw
             \/ Noticed(initial) /\ Reject("CONTRACT_EVIDENCE_STALE")
          /\ UNCHANGED <<index, seenFirst>>
    /\ UNCHANGED <<workerVars, world, changes, initial, final, findings, seenLast>>

\* The subject is acquired, analysed against the index, and bound: one that
\* is not complete is no artifact that can be executed.
CheckAndBind ==
    /\ phase = "indexed"
    /\ \/ /\ findings' \in {found \in SUBSET RequirementStatuses :
                                Cardinality(found) <= MaxFindings}
          /\ phase' = "executing"
          /\ UNCHANGED response
       \/ (Reject("VERIFY_ARTIFACT_UNPROVEN") \/ Throw) /\ UNCHANGED findings
    /\ UNCHANGED <<workerVars, world, changes, initial, index, final, seenFirst, seenLast>>

\* The worker runs within the await of execution.verify.
Execute ==
    /\ phase = "executing"
    /\ Call \/ WorkerStep \/ ProcessSettles
    /\ UNCHANGED <<kernel, world, changes>>

\* The same request is resolved again, after the execution.
ResolveFinal ==
    /\ phase = "executing"
    /\ step = "returned"
    /\ \/ /\ final' = Snapshot
          /\ seenLast' = [seenLast EXCEPT !["target"] = world["target"],
                                          !["lifecycle"] = world["lifecycle"]]
          /\ phase' = "refreshed"
          /\ UNCHANGED response
       \/ (Reject("TARGET_ACQUISITION") \/ Throw) /\ UNCHANGED <<final, seenLast>>
    /\ UNCHANGED <<workerVars, world, changes, initial, index, findings, seenFirst>>

-----------------------------------------------------------------------------
\* analyzePluginCompatibility of a complete subject, and staticChecks.
Verdict == IF findings \cap {"missing", "version-mismatch"} # {} THEN "incompatible"
           ELSE IF "unproven" \in findings THEN "unproven"
           ELSE "compatible-in-scope"

StaticMarks ==
    [structure |-> "passed",
     manifest |-> "passed",
     dependency |-> IF findings \cap {"missing", "version-mismatch"} # {} THEN "failed"
                    ELSE IF "unproven" \in findings THEN "unproven" ELSE "passed",
     contract |-> IF Verdict = "incompatible" THEN "failed"
                  ELSE IF Verdict = "unproven" THEN "unproven" ELSE "passed"]

StaticDiagnostics ==
    (IF "missing" \in findings THEN {"PLUGIN_DSH_PACKAGE_MISSING"} ELSE {}) \cup
    (IF "version-mismatch" \in findings THEN {"PLUGIN_DSH_VERSION_MISMATCH"} ELSE {}) \cup
    (IF "unproven" \in findings THEN {"PLUGIN_DSH_VERSION_UNPROVEN"} ELSE {})

RequiredMarks ==
    {StaticMarks[check] : check \in DOMAIN StaticMarks} \cup
    {ledger[stage] : stage \in {"package", "install", "compose", "boot"}}

\* The conditions reducePluginVerification derives.  The worker echoes the
\* snapshot it was given, so its target and lifecycle bindings agree.
ArtifactMismatch == artifact \notin {"none", "bound"}
TargetStale == final.target # initial.target
LifecycleStale_WhenStillPresent ==
    final.lifecycle # 0 /\ initial.lifecycle # 0 /\ final.lifecycle # initial.lifecycle
LifecycleStale == final.lifecycle # initial.lifecycle
ContractIndexStale(finalIndex) ==
    ~TargetStale /\ ~LifecycleStale /\ finalIndex # index
StaticUnproven == Verdict = "unproven" \/ "unproven" \in findings

Stale(finalIndex) == TargetStale \/ LifecycleStale \/ ContractIndexStale(finalIndex)

Failed_OptionalIgnored ==
    ArtifactMismatch \/ terminal = "failed" \/ Verdict = "incompatible"
        \/ "failed" \in RequiredMarks
Failed ==
    \/ ArtifactMismatch
    \/ terminal = "failed"
    \/ Verdict = "incompatible"
    \/ "failed" \in RequiredMarks
    \/ ledger["visibility"] = "failed"
    \/ ledger["behavior"] = "failed"

Incomplete_CleanupIgnored ==
    \/ StaticUnproven
    \/ RequiredMarks # {"passed"}
    \/ ledger["visibility"] = "unproven"
    \/ ledger["behavior"] = "unproven"
Incomplete ==
    \/ cleanup # "succeeded"
    \/ StaticUnproven
    \/ RequiredMarks # {"passed"}
    \/ ledger["visibility"] = "unproven"
    \/ ledger["behavior"] = "unproven"

Status_FailedIsCancelled(finalIndex) ==
    IF terminal = "cancelled" \/ (aborted /\ terminal = "failed") THEN "cancelled"
    ELSE IF Stale(finalIndex) THEN "stale"
    ELSE IF Failed THEN "failed"
    ELSE IF Incomplete THEN "partial"
    ELSE "verified"
Status(finalIndex) ==
    IF terminal = "cancelled" THEN "cancelled"
    ELSE IF Stale(finalIndex) THEN "stale"
    ELSE IF Failed THEN "failed"
    ELSE IF Incomplete THEN "partial"
    ELSE "verified"

ReducerDiagnostics(finalIndex) ==
    (IF ArtifactMismatch THEN {"VERIFY_ARTIFACT_IDENTITY_MISMATCH"} ELSE {}) \cup
    (IF TargetStale THEN {"VERIFY_TARGET_STALE"} ELSE {}) \cup
    (IF LifecycleStale THEN {"VERIFY_LIFECYCLE_STALE"} ELSE {}) \cup
    (IF ContractIndexStale(finalIndex) THEN {"VERIFY_CONTRACT_INDEX_STALE"} ELSE {}) \cup
    (IF StaticUnproven THEN {"VERIFY_STATIC_UNPROVEN"} ELSE {}) \cup
    (IF ledger["visibility"] = "unproven" THEN {"VERIFY_VISIBILITY_UNPROVEN"} ELSE {}) \cup
    (IF ledger["behavior"] = "unproven" THEN {"VERIFY_BEHAVIOR_UNPROVEN"} ELSE {})

ReportDiagnostics(finalIndex) ==
    StaticDiagnostics \cup diagnostics \cup ReducerDiagnostics(finalIndex)

\* The final index is built and the report reduced from it.
BuildFinalIndex ==
    /\ phase = "refreshed"
    /\ \/ LET finalIndex == IndexFingerprint(final, world["evidence"])
          IN  /\ phase' = "reported"
              /\ response' = [outcome |-> Status(finalIndex),
                              diagnostics |-> ReportDiagnostics(finalIndex)]
              /\ seenLast' = [seenLast EXCEPT !["evidence"] = world["evidence"]]
       \/ /\ \/ Reject("CONTRACT_ACQUISITION") \/ Throw
             \/ Noticed(final) /\ Reject("CONTRACT_EVIDENCE_STALE")
          /\ UNCHANGED seenLast
    /\ UNCHANGED <<workerVars, world, changes, initial, index, final, findings, seenFirst>>

-----------------------------------------------------------------------------
Answered == phase \in {"reported", "rejected"}

\* Others change the world or the artifact, or abort the signal, at any time
\* until the answer.  The worker reads nothing of the world, so a change while
\* it runs is one before it starts; and the artifact is relative to the bytes
\* acquired, so it drifts only after.
ChangeWorld(axis) ==
    /\ ~Answered
    /\ phase = "executing" => step = "idle"
    /\ changes < MaxChanges
    /\ changes' = changes + 1
    /\ \E epoch \in Epochs \ {world[axis]} : world' = [world EXCEPT ![axis] = epoch]
    /\ UNCHANGED <<workerVars, kernel>>

Interfere ==
    /\ ~Answered
    /\ Abort \/ (phase = "executing" /\ Drift)
    /\ UNCHANGED <<kernel, world, changes>>

KernelStep ==
    ResolveInitial \/ BuildInitialIndex \/ CheckAndBind \/ ResolveFinal \/ BuildFinalIndex

Next == KernelStep \/ Execute \/ (\E axis \in Axes : ChangeWorld(axis)) \/ Interfere

Spec == Init /\ [][Next]_vars

\* Promises resolve, and a process settles as VerificationProcess shows.
FairSpec == Spec /\ WF_vars(Execute /\ (WorkerStep \/ ProcessSettles))

-----------------------------------------------------------------------------
\* Every variable holds a value of its type.
TypeOK ==
    /\ WorkerTypeOK
    /\ phase \in {"idle", "resolved", "indexed", "executing", "refreshed", "reported",
                  "rejected"}
    /\ world \in Worlds
    /\ changes \in 0..MaxChanges
    /\ initial \in Snapshots
    /\ index \in Epochs \X Epochs
    /\ final \in Snapshots
    /\ findings \subseteq RequirementStatuses
    /\ response \in [outcome : {"none", "failedResponse", "thrown"} \cup ReportStatuses,
                     diagnostics : SUBSET (Codes \cup StaticCodes \cup ReducerCodes
                                               \cup FailureCodes)]
    /\ seenFirst \in Worlds
    /\ seenLast \in Worlds

\* What is called verified was executed: the acquired bytes, in five child
\* processes that all exited with code 0, to the exact marker of the probe,
\* with every requested assertion passed and every static requirement met,
\* and nothing of it is left on the disk.
VerifiedIsEarned ==
    response.outcome = "verified" =>
        /\ copy = "bound" /\ root = "removed"
        /\ ProcessSteps \subseteq succeeded
        /\ "booted" \in output
        /\ request.visibility => "visible" \in output /\ "invisible" \notin output
        /\ request.behavior => "behaved" \in output /\ "misbehaved" \notin output
        /\ findings = {}

\* What is called verified is true of the world the last reads found, not of
\* one that changed while the worker ran: target, lifecycle and evidence are
\* those of the first reads.
VerifiedIsFresh == response.outcome = "verified" => seenLast = seenFirst

\* A report is cancelled only if someone aborted the signal and the worker
\* really stopped short for it.
CancelledWasRequested ==
    response.outcome = "cancelled" => aborted /\ ~(ProcessSteps \subseteq succeeded)

\* Nothing that failed is softened to partial, whatever the cleanup does.
FailureStands ==
    response.outcome = "partial" =>
        /\ \A stage \in RuntimeStages : ledger[stage] # "failed"
        /\ findings \cap {"missing", "version-mismatch"} = {}
        /\ ProcessSteps \subseteq succeeded

\* An answer other than verified says why, in a diagnostic or by an error.
EveryAnswerExplained ==
    Answered /\ response.outcome \notin {"verified", "thrown"} => response.diagnostics # {}

\* Whatever is answered has a cause the caller can see.
AnswersHaveTheirCause == CancelledWasRequested /\ EveryAnswerExplained
=============================================================================
