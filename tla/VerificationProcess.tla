------------------------- MODULE VerificationProcess -------------------------
(***************************************************************************)
(* runVerificationProcess (src/verification/process.ts): one child process *)
(* of the verification worker under a timeout, an AbortSignal and a limit  *)
(* on each output stream.                                                  *)
(*                                                                         *)
(* Each event the runner subscribes to is one action: the code of a        *)
(* listener runs without interruption.  What interleaves is the child and  *)
(* its descendants, which write, fork, let go of their pipes and exit as   *)
(* they like; the order in which Node delivers data, error and close; the  *)
(* timer; and the signal.  A descendant is a member of the child's process *)
(* group, or has escaped from it (setsid).                                 *)
(*                                                                         *)
(* An operator named X_Defect is X with a plausible slip of the code; no   *)
(* definition uses it.                                                     *)
(***************************************************************************)
EXTENDS Naturals, FiniteSets

CONSTANTS
    MaxStdoutBytes,  \* request.maxStdoutBytes
    MaxStderrBytes,  \* request.maxStderrBytes
    MaxWritten,      \* bound of the model: bytes written to each stream
    CanEscape,       \* descendants may leave the process group
    ProcessGroups    \* the platform signals a whole group (not win32)

\* assertPositiveInteger on both limits.
ASSUME ProcessAssumption ==
    /\ MaxStdoutBytes \in Nat \ {0}
    /\ MaxStderrBytes \in Nat \ {0}
    /\ MaxWritten \in Nat
    /\ CanEscape \in BOOLEAN
    /\ ProcessGroups \in BOOLEAN

VARIABLES
    signalAborted,  \* signal.aborted
    spawned,      \* spawn was called
    outcome,      \* what the promise resolved with, "pending" before
    forced,       \* the variable forced, "none" when undefined
    timer,        \* the timeout: "off", "armed", "fired"
    listening,    \* onAbort is registered with the signal
    captured,     \* stdoutBytes and stderrBytes
    terminating,  \* a kill of the process tree is under way
    alive,        \* the processes that live
    holding,      \* those that hold the write end of the pipes
    exit,         \* how the child ended: "none", "zero", "nonzero", "signal"
    written,      \* bytes written to each stream
    read,         \* bytes of each stream delivered by data events
    spawnError,   \* the child could not be started: "none", "due", "emitted"
    closeEmitted  \* the close event has been delivered

runner == <<outcome, forced, timer, listening, captured>>
processes == <<terminating, alive, holding, exit>>
pipes == <<written, read>>
processVars == <<signalAborted, spawned, outcome, forced, timer, listening, captured,
          terminating, alive, holding, exit, written, read, spawnError,
          closeEmitted>>

Streams == {"stdout", "stderr"}
Descendants == {"member"} \cup (IF CanEscape THEN {"escaped"} ELSE {})
Processes == {"child"} \cup Descendants
MaxBytes(stream) == IF stream = "stdout" THEN MaxStdoutBytes ELSE MaxStderrBytes
LimitOf(stream) == IF stream = "stdout" THEN "stdoutLimit" ELSE "stderrLimit"

ForcedOutcomes == {"timeout", "cancelled", "stdoutLimit", "stderrLimit"}
OwnOutcomes == {"exitedZero", "exitedNonzero", "signalled", "startFailed"}

Settled == outcome # "pending"

-----------------------------------------------------------------------------
ProcessInit ==
    /\ signalAborted \in BOOLEAN
    /\ spawned = FALSE
    /\ outcome = "pending"
    /\ forced = "none"
    /\ timer = "off"
    /\ listening = FALSE
    /\ captured = [s \in Streams |-> 0]
    /\ terminating = FALSE
    /\ alive = {}
    /\ holding = {}
    /\ exit = "none"
    /\ written = [s \in Streams |-> 0]
    /\ read = [s \in Streams |-> 0]
    /\ spawnError = "none"
    /\ closeEmitted = FALSE

\* finish: only the first outcome counts, and cleanup disarms the timeout
\* and leaves the signal.
Finish(kind) ==
    IF Settled THEN UNCHANGED <<outcome, timer, listening>>
    ELSE outcome' = kind /\ timer' = "off" /\ listening' = FALSE

\* forceTermination: only the first cause counts; it starts the kill of the
\* process tree, of which there is none when the child has no pid.
ForceTermination_LastWins(cause) ==
    /\ forced' = cause
    /\ terminating' = (spawnError = "none")
ForceTermination_NoKill(cause) ==
    /\ forced' = IF forced = "none" THEN cause ELSE forced
    /\ UNCHANGED terminating
ForceTermination(cause) ==
    IF forced # "none" THEN UNCHANGED <<forced, terminating>>
    ELSE forced' = cause /\ terminating' = (spawnError = "none")

\* The call.  An aborted signal and a spawn that throws settle it at once; a
\* child that cannot be started is only reported by an error event.
StartsUnderSignal_Always == TRUE
StartsUnderSignal == ~signalAborted

Run ==
    /\ ~spawned /\ ~Settled
    /\ IF ~StartsUnderSignal
       THEN /\ outcome' = "cancelled"
            /\ UNCHANGED <<spawned, timer, listening, alive, holding, spawnError>>
       ELSE \/ /\ outcome' = "startFailed"
               /\ UNCHANGED <<spawned, timer, listening, alive, holding, spawnError>>
            \/ /\ spawned' = TRUE
               /\ timer' = "armed"
               /\ listening' = TRUE
               /\ \/ alive' = {"child"} /\ holding' = {"child"} /\ UNCHANGED spawnError
                  \/ spawnError' = "due" /\ UNCHANGED <<alive, holding>>
               /\ UNCHANGED outcome
    /\ UNCHANGED <<signalAborted, forced, captured, terminating, exit, pipes, closeEmitted>>

\* controller.abort(), and onAbort when it is registered ({once: true}).
AbortRun ==
    /\ ~signalAborted
    /\ signalAborted' = TRUE
    /\ IF listening
       THEN ForceTermination("cancelled") /\ listening' = FALSE
       ELSE UNCHANGED <<forced, terminating, listening>>
    /\ UNCHANGED <<spawned, outcome, timer, captured, alive, holding, exit, pipes,
                   spawnError, closeEmitted>>

Timeout ==
    /\ timer = "armed"
    /\ timer' = "fired"
    /\ ForceTermination("timeout")
    /\ UNCHANGED <<signalAborted, spawned, outcome, listening, captured, alive, holding,
                   exit, pipes, spawnError, closeEmitted>>

\* A data event with n bytes.  What comes after the termination was forced
\* is dropped; a chunk that exceeds the limit forces it and is dropped.
Exceeds(stream, n) == captured[stream] + n > MaxBytes(stream)

Data(stream, n) ==
    /\ spawned
    /\ n <= written[stream] - read[stream]
    /\ read' = [read EXCEPT ![stream] = @ + n]
    /\ IF forced # "none" THEN UNCHANGED <<forced, terminating, captured>>
       ELSE IF Exceeds(stream, n)
       THEN ForceTermination(LimitOf(stream)) /\ UNCHANGED captured
       ELSE /\ captured' = [captured EXCEPT ![stream] = @ + n]
            /\ UNCHANGED <<forced, terminating>>
    /\ UNCHANGED <<signalAborted, spawned, outcome, timer, listening, alive, holding, exit,
                   written, spawnError, closeEmitted>>

\* The error event of a child that could not be started.
ErrorEvent ==
    /\ spawnError = "due"
    /\ spawnError' = "emitted"
    /\ IF forced # "none" THEN UNCHANGED <<outcome, timer, listening>>
       ELSE Finish("startFailed")
    /\ UNCHANGED <<signalAborted, spawned, forced, captured, processes, pipes, closeEmitted>>

\* What the close listener reports: the forced outcome before the child's.
\* A child that was never started closes with a negative exit code.
Reported ==
    IF forced # "none" THEN forced
    ELSE CASE exit = "zero" -> "exitedZero"
           [] exit = "signal" -> "signalled"
           [] OTHER -> "exitedNonzero"

\* The close event: the child has ended, nobody holds its pipes any more,
\* and what they carried has been read.
CloseEvent ==
    /\ spawned /\ ~closeEmitted
    /\ "child" \notin alive /\ holding = {} /\ read = written
    /\ spawnError # "due"
    /\ closeEmitted' = TRUE
    /\ Finish(Reported)
    /\ UNCHANGED <<signalAborted, spawned, forced, captured, processes, pipes, spawnError>>

-----------------------------------------------------------------------------
\* The child and its descendants.  Those that hold the pipes may write.
Write(stream) ==
    /\ holding # {}
    /\ written[stream] < MaxWritten
    /\ written' = [written EXCEPT ![stream] = @ + 1]
    /\ UNCHANGED <<signalAborted, spawned, runner, processes, read, spawnError, closeEmitted>>

\* A descendant, one of each kind at most, is forked and inherits the pipes.
Fork(process) ==
    /\ "child" \in holding
    /\ process \in Descendants \ alive
    /\ alive' = alive \cup {process}
    /\ holding' = holding \cup {process}
    /\ UNCHANGED <<signalAborted, spawned, runner, terminating, exit, pipes, spawnError,
                   closeEmitted>>

\* A process closes its ends of the pipes, as a daemon does.
LetGo(process) ==
    /\ process \in holding
    /\ holding' = holding \ {process}
    /\ UNCHANGED <<signalAborted, spawned, runner, terminating, alive, exit, pipes,
                   spawnError, closeEmitted>>

\* A process ends by itself.
Exit(process, how) ==
    /\ process \in alive
    /\ alive' = alive \ {process}
    /\ holding' = holding \ {process}
    /\ exit' = IF process = "child" THEN how ELSE exit
    /\ UNCHANGED <<signalAborted, spawned, runner, terminating, pipes, spawnError,
                   closeEmitted>>

\* What terminateProcessTree reaches: the process group, whether or not its
\* leader still lives; without groups, the tree below a child that lives.
Reach_ChildOnly == {"child"}
Reach == IF ProcessGroups \/ "child" \in alive THEN {"child", "member"} ELSE {}

\* The kill takes effect.
Killed ==
    /\ terminating
    /\ terminating' = FALSE
    /\ alive' = alive \ Reach
    /\ holding' = holding \ Reach
    /\ exit' = IF "child" \in alive THEN "signal" ELSE exit
    /\ UNCHANGED <<signalAborted, spawned, runner, pipes, spawnError, closeEmitted>>

ProcessNext ==
    \/ Run
    \/ AbortRun
    \/ Timeout
    \/ \E s \in Streams : \E n \in 1..MaxWritten : Data(s, n)
    \/ ErrorEvent
    \/ CloseEvent
    \/ \E s \in Streams : Write(s)
    \/ \E p \in Descendants : Fork(p)
    \/ \E p \in Processes : LetGo(p)
    \/ \E p \in Processes : \E how \in {"zero", "nonzero", "signal"} : Exit(p, how)
    \/ Killed

ProcessSpec == ProcessInit /\ [][ProcessNext]_processVars

\* Node delivers events and fires timers, the kernel delivers SIGKILL, and
\* the call is made.  A process owes nothing: it may run for ever.
ProcessFairness ==
    /\ WF_processVars(Run)
    /\ WF_processVars(Timeout)
    /\ \A s \in Streams : WF_processVars(\E n \in 1..MaxWritten : Data(s, n))
    /\ WF_processVars(ErrorEvent)
    /\ WF_processVars(CloseEvent)
    /\ WF_processVars(Killed)

FairProcessSpec == ProcessSpec /\ ProcessFairness

-----------------------------------------------------------------------------
\* Every variable holds a value of its type.
ProcessTypeOK ==
    /\ signalAborted \in BOOLEAN
    /\ spawned \in BOOLEAN
    /\ outcome \in {"pending"} \cup OwnOutcomes \cup ForcedOutcomes
    /\ forced \in {"none"} \cup ForcedOutcomes
    /\ timer \in {"off", "armed", "fired"}
    /\ listening \in BOOLEAN
    /\ captured \in [Streams -> Nat]
    /\ terminating \in BOOLEAN
    /\ alive \subseteq Processes
    /\ holding \subseteq alive
    /\ exit \in {"none", "zero", "nonzero", "signal"}
    /\ written \in [Streams -> 0..MaxWritten]
    /\ read \in [Streams -> 0..MaxWritten]
    /\ spawnError \in {"none", "due", "emitted"}
    /\ closeEmitted \in BOOLEAN

\* The worker looks for markers in the output of a child that exited: such
\* an outcome carries every byte that was written, and never more than the
\* limits whatever the outcome.
OutputWholeOrRefused ==
    /\ outcome \in {"exitedZero", "exitedNonzero", "signalled"} => captured = written
    /\ \A s \in Streams : captured[s] <= MaxBytes(s)

\* An outcome has the cause it names, and the causes of an outcome that is
\* the child's own exclude those of a forced one.
OutcomeHasItsCause ==
    /\ outcome = "cancelled" => signalAborted
    /\ outcome = "timeout" => spawned
    /\ \A s \in Streams : outcome = LimitOf(s) => written[s] > MaxBytes(s)
    /\ outcome = "exitedZero" => exit = "zero" /\ forced = "none"
    /\ outcome \in {"exitedNonzero", "signalled"} => forced = "none"

\* The first cause of a termination stays the cause, and an outcome stays
\* the outcome, whatever event comes later.
FirstCauseStands ==
    [][/\ forced # "none" => forced' = forced
       /\ Settled => outcome' = outcome]_processVars

\* An outcome can be trusted: it names its cause, the first one there was, and
\* its output is whole.
OutcomeIsHonest ==
    /\ [][OutputWholeOrRefused' /\ OutcomeHasItsCause']_processVars
    /\ FirstCauseStands

Promised == INSTANCE ProcessRun WITH aborted <- signalAborted

\* Once the signal is aborted no child is spawned, and a run that has not
\* settled yet never reports that its child came to its own end.
ImplementsProcessRun == Promised!Spec

\* A run under way settles, even when the child would run for ever, unless a
\* descendant that the kill cannot reach holds its pipes.
RunSettles == spawned ~> Settled \/ holding \ Reach # {}

\* A termination that is forced leaves no process of the group alive.
ForcedTerminationEndsGroup ==
    forced # "none" ~> alive \cap {"child", "member"} = {}
=============================================================================
