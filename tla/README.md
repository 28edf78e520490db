# dsh-toolchain: TLA+ models, checks and proofs

dsh-toolchain answers questions about an installed DSH (which target is
installed, which contracts it offers, whether a plugin fits it) and verifies a
packed plugin by installing, composing and booting it in a temporary DSH. Beside
the program the repository keeps the H2 evaluation, a controller that measures
whether agents solve tasks better with it. This directory models both,
model-checks the models with TLC, and proves with TLAPS, for every value of the
constants, every safety property that the passing runs check on small instances. Two runs
show the code doing something else than a document says; section 5 tells of them
and of the other places where the two part.

Line numbers refer to the files under `src/`; `PROJECT.json` maps every
definition to the lines it translates.

## 1. Inventory

| Component | Source | State it keeps | Hard behaviour |
| --- | --- | --- | --- |
| Operation manager | `kernel/operation.ts` | registry, completion order, running tasks, closed flag | reused ids, cancel against completion, eviction, shutdown with work under way |
| Hosts of the manager | `integrations/dsh/index.ts`, `frontends/mcp/index.ts` | one manager each | who closes it, and what is not covered by closing it |
| Native tools and agent surface | `integrations/dsh/*-tool.ts`, `agent-surface-policy.ts` | disposers of tools | one registration of several throws, and the others are taken back; the tools service comes and goes |
| Child process runner | `verification/process.ts` | forced outcome, settled flag, timer, listener, captured bytes | timer, signal, limit, error and close in any order; descendants that keep pipes open |
| Packed worker | `verification/packed-worker.ts`, `stages.ts`, `diagnostics.ts` | ledger of checks, diagnostics, temporary root | abort between processes, partial failure, cleanup, drift of the artifact |
| Verification inputs | `verification/artifact.ts`, `packed-artifact-inspection.ts`, `environment.ts`, `boot-probe.ts` | none | the artifact changes between acquisition and use |
| verifyPlugin, report reduction | `kernel/index.ts`, `model/plugin-verify.ts` | none | all that is read before the worker may be stale after it; which of several bad news wins |
| Static analysis | `model/plugin-check.ts` | none | what may be called compatible |
| Target binding of the DSH integration | `integrations/dsh/runtime-target-binding.ts`, `live-inspect.ts` | identity at the start | proven by one read, used by another |
| Target acquisition | `acquisition/dsh-filesystem.ts` | none between calls | one snapshot made of many reads |
| Contract acquisition | `acquisition/dsh-contract-filesystem.ts`, `typescript-declaration-syntax.ts` | budgets of one acquisition | changes between capture and use; cyclic graphs under budgets |
| Contract model and search, live enrichment | `model/contract*.ts`, `integrations/dsh/live-inspect.ts` | cache of search indexes | references without evidence; pruned against exhaustive search; limits; catalogs of others |
| Plugin subjects, packed archive | `acquisition/plugin-*.ts`, `model/plugin.ts`, `runtime/packed-archive.ts` | none | two reads of a directory; names pending between headers |
| Requests, command line, MCP tools | `protocol/request-validation.ts`, `frontends/` | none | what one surface accepts and another refuses; exit codes |
| H2 evaluation | `scripts/eval/h2/` | run directory, ledger, receipts | watchdog, timeouts and process death in any order; evidence of one arm readable in the other; an agent that outlives its launcher; errors that nothing catches |
| Target model, digests, protocol types | `model/target.ts`, `protocol/` | none | no order of events |
| Build, smoke, performance and M2 scripts | `scripts/` | none | straight-line programs |

How they interact. A frontend parses a request and calls the kernel directly or
starts an operation; the manager runs `verifyPluginResponse` under the signal
of the entry; the kernel reads target and evidence, calls the worker with that
signal, reads them again and reduces a report; the worker calls the process
runner five times with the same signal; a host's unload closes the manager,
which aborts the signals and awaits the tasks. A native contract tool first
turns its arguments into a request (the target binding), then calls the kernel
with an enrichment port that asks the live Host. A search acquires the target,
then the packages, then the declarations of each package, merges what providers
of the live Host list, and searches the index. The evaluation starts an agent
per task and arm, watches the log of its session, grades its workspace and
removes everything before the next.

What makes each part correct:

* operation manager: an id leads to one operation, a terminal receipt is final
  and honest, capacity and retention are exact, and close() leaves nothing
  running;
* service and tools: an agent sees the tools of the policy or none, whatever
  fails and whatever goes; what was accepted ends;
* process runner: one outcome, with the cause it names, and no output beyond
  the limits or short of what was written; nothing of the group outlives it;
* worker: passed means proven, the ledger, the conclusion and the diagnostics
  agree, an abort stops the work, the temporary root is accounted for;
* verifyPlugin: verified means executed, complete and fresh; a failure is never
  softened; every other answer says why;
* target binding: nothing is claimed about a Host that was not proven;
* acquisition: what was captured and compared was on the disk together, the
  answer is complete, or it is an error that names what is true;
* contracts: nothing that was listed is lost, pruning changes no answer, every
  answer carries the evidence of its words;
* subjects and frontends: a request says what was given, files keep their names,
  compatible is proven, exit codes tell the truth;
* evaluation: a report claims what was earned, no agent reads what the run has
  of another cell, nothing is deleted but what it owns, and a run ends with its
  evidence on disk.

The hazards behind these statements are listed with their lines in
`PROJECT.json`.

## 2. Modules

In all modules an operator named `X_Defect` is `X` with a plausible slip of the
code. No definition uses it; it shows that the property named with it in
`PROJECT.json` can fail. Everything between two awaits is one action, because
JavaScript runs it without interruption. A module `MProofs` holds the theorems
about `M` and the invariant they are proved from (section 4). What runs in no
particular order is a set, a refusal that is decided by the first of several
conditions a chain of IF in the code's order, and what reads a list a recursive
function, so that the modules can be reasoned about. An order is a set of pairs,
and `InOrder` lists a finite set by it, as a comparator and a sort do.

### OperationManager, OperationLifecycle, OperationHost, ToolchainService

`OperationManager` is `createVerificationOperationManager`. An operation is an
element of `Ops`, numbered by the order of acceptance, and takes an id from
`Ids` that the generator may repeat. `Start`, `Cancel`, `Close` are the calls;
`RunMicrotask` is the queued microtask up to the call of execute; `Settle` is
the settlement of execute with the continuation that commits the terminal
state and prunes; `FinallyTask` is `task.finally`; `CloseReturns` is the
continuation of `Promise.all`.

`OperationLifecycle` is the abstract life of an operation (accepted, begun,
complete, the last completed ones visible). `ImplementsLifecycle` checks that
the manager implements it under the identity mapping of the visible parts.

`OperationHost` adds the host: the DSH service closes the manager when it is
unloaded (`ctx.effect`, index.ts 257), the MCP server never does
(mcp/index.ts 404-420). `ToolchainService` extends the first of the two with the
tools it mounts on the host's tools service, which refuses names that another
plugin has and may go and come back, and with verifications called directly,
which are no operations. The loops of `registerNativeTools` are unrolled:
`RegisterTools` takes one definition in order, `DisposeTools` gives back the last
one whose disposer is `held`, and since they are synchronous nothing else happens
while one of them runs (`Looping`).

### ProcessRun, VerificationProcess

`VerificationProcess` is `runVerificationProcess`: one action per listener,
the timer, the abort of the signal and the kill of the process tree, and, as
the environment, what the child and its descendants may do: write, fork, close
their pipes, end, leave the process group. `ProcessRun` is what the worker
relies on: an aborted signal spawns nothing, and no run that was aborted
before it settled reports the child's own end. The first implements the second
(`ImplementsProcessRun`), the worker's model uses the second. The names of the
first begin with `Process` where the worker has them too, so that one module can
hold the theorems about both.

### PackedWorker, PluginVerify

`PackedWorker` is `runPackedPluginVerification` between its awaits: creating the
root, laying it out, reading and copying the artifact, the five processes, the
probe, the judgement of markers, the catch and the finally clause. `ledger` is
the record of checks of `stages.ts`, with one mark for the status and reason
that the reducer tells apart. The bytes of the artifact are `bound` (those
acquired), `drifted`, `missing` or, for the copy, `damaged`. `spawns`,
`succeeded` and `output` are history, against which the ledger is judged. The
booted child prints any set of markers.

`PluginVerify` is `verifyPlugin` around the worker, extended with the world it
reads (target, lifecycle, contract evidence) and the reducer
`reducePluginVerification`. `seenFirst` and `seenLast` are history. Two
simplifications are explicit: a snapshot is read in one step (torn reads are
the subject of `ContractAcquisition`), and the worker, which reads nothing of
the world, runs with the world fixed: a change while it runs is equivalent to
one before it starts.

### RunningTarget, AgentTargetBinding

`RunningTarget` reads the launcher's arguments token by token and compares
installations; `Frontends` uses it for the tools of a host. `AgentTargetBinding`
has the capture of the mount epoch (`captureStartupTargetBindingIdentity`), the
proof of a call without a profile (`targetRequest`), the four awaits of
`buildContractIndex` with the guard of live enrichment (`matches`), the cache
of search indexes and the fingerprint check of an inspection. The target is
resolved twice, for the proof and for the answer, and the disk may change
between the two.

### TargetAcquisition, ContractAcquisition

`TargetAcquisition` reads a profile, its manifest and the packages it is
composed of: a read has a role and candidate files; those of one stage run
concurrently. `ContractAcquisition` extends it with what follows: comparing
the captured manifests of the packages (`PackageRoles`) with the disk, the search
for the packages DSH depends on along a graph with a cycle and packages that are
not installed, and the packages of declarations. As in the code the profile's
manifest is not compared, and those found by the search are read once. Files
change at any time between two reads; `before` (the disk when the target was
resolved) and `absent` are history.

### ExportSurfaces, DeclarationWalk

A declaration file is a number and its text a set of statements.
`ExportSurfaces` has the operators: the names of a file, what a star passes on,
what one re-export adds to the surface of its file, witnesses in their order.
`DeclarationWalk` is the walk: a queue of files with depth; taking an item and
passing over one that was read already (`SkipRecorded`); reading a file;
following its references, which are a set and may be met in any order; the
budgets of the package and the totals of the acquisition; then the fixed point
of the surfaces, one re-export at a time, and the facts. What it is judged by
knows neither queue nor caps: the closure of the references and the closure of
the exports, each in rounds (`Within`, `ReachableOrigins`).

### ContractModel, ContractSearch, ContractAnswers

`ContractModel` merges contracts, sorts them by id and checks the integrity of
references; the id of evidence is a tuple of what the source's string is made
of. `ContractSearch` is the search: the strict lane, the intent lane with its
pruning by rare words, ranking, witnesses, compaction. Text is a set of words of
the `Vocabulary`, `InverseFrequency` the table of logarithms by size of the index
and number of contracts, in whole numbers in the order of the source's.
`Weighted` is what the words are worth in a contract, `Visits` how many postings a
lookup of words visits: when there are as many as contracts in scope, nothing is
pruned. `ContractAnswers` is one call of a given set `Calls`: providers are asked in
order, catalogs are normalized under limits and merged, the index is built,
searched or inspected, answered. `MCContractAnswers` has the calls and the table
that TLC looks at.

### PackedArchive, PluginSubjects, Requests, Frontends

`PackedArchive` is the loop over tar headers with the pending PAX and GNU names.
`PluginSubjects` acquires a plugin from a directory that may change between its
two reads, or from the archive, projects it and checks it against the packages
of the target. `Requests` holds the parsers of requests. `Frontends` composes
them: one call through the command line, an MCP tool or a native tool to the
response of the kernel and the exit code.

### Observation, Campaign, MCCampaign

`Observation` is `runObservation`: creating trees, starting the agent, the
handshake, the prompt, the watchdog that polls the session log, the clock of
the guard, termination with its grace, the last reading of the log, the grader,
the removal. The agent is the environment: it completes turns, answers, fails,
dies, writes other models into its log, or goes on for ever. What the controller
starts, kills and awaits is its launcher, pnpm (h2-dsh-env.mjs 96), and on
POSIX, where the scoring run takes place, the kill reaches no further: at the
end of the launcher the agent has `exited` too, or is `orphaned` and goes on. Once
its observation has returned it is one of the `survivors`, which may write to
their workspaces at any time (`Linger`). `Campaign` is the scoring run: the loop
over the schedule, the ledger with the reason it stopped, the flush, the report
with the exact test, and `finalize`; `Crash` is an error that nothing in the
controller catches (`Uncaught`). The run is at its last task; the tasks before it
enter as the table of their outcomes.

## 3. Runs

| Run | Module, configuration | What it shows | Bounds |
| --- | --- | --- | --- |
| operation_manager | MCOperationManager, OperationManager.cfg | registry, receipts, shutdown, history; implements the abstract life | three operations over three ids, retention one, capacity two, two close() calls |
| toolchain_service | ToolchainService, ToolchainService.cfg | the surface is the policy, unload ends operations, accepted work ends | two operations over two ids, one direct call, two names of others |
| mcp_host | OperationHost, McpHost.cfg | finding: the MCP host leaves operations behind | three operations over two ids |
| verification_process | VerificationProcess, VerificationProcess.cfg | honest outcome, refinement of ProcessRun, the run settles, the group ends | three bytes per stream, limits two and one, a descendant in the group and one that escapes |
| plugin_verify | PluginVerify, PluginVerify.cfg | of the worker: passed is proven, conclusion, abort, return; of the kernel around it: verified is earned and fresh, failures stand, answers have causes | the worker is finite; one change of the world over two epochs per axis, one finding at a time |
| agent_target_binding | MCAgentTargetBinding, AgentTargetBinding.cfg | live evidence, inspection after search | two calls, two changes, a cache of one |
| agent_rebinding | MCAgentTargetBinding, AgentRebinding.cfg | finding: an implicit call is answered from an epoch it was not proven for | two calls, one change |
| contract_acquisition | ContractAcquisition, ContractAcquisition.cfg | packages' manifests of one moment, complete closure, a disk at rest raises no alarm | two changes, at most four packages |
| declaration_walk | DeclarationWalk, DeclarationWalk.cfg | closure within budgets, limits are real, exports are proven | three files, three references between them, every limit at one to three |
| contract_answers | MCContractAnswers, ContractAnswers.cfg | nothing lost in a merge, pruning is exact, answers carry evidence | three packages, or one and three live providers under ample and tight limits |
| frontends | Frontends, Frontends.cfg | files, compatibility, requests, exit codes | up to two arguments changed, three tokens of a launcher, four headers of an archive |
| evaluation | MCCampaign, Campaign.cfg | the report is earned, isolation of cells, only owned trees are removed, the run ends with its evidence on disk | a limit of one completion and agents that ask for two; earlier tasks 1:6 |

Why the bounds are enough. With three operations an id is reused after eviction
while a later operation is queued or runs; retention one makes every completion
after the first evict; capacity two is reached, and with three ids it is the
capacity, not the lack of a free id, that refuses the third operation. Three
bytes against a limit of two exceed it by accumulation, by one chunk and
exactly meet it. One change of one axis, before, between or after the reads of
`verifyPlugin`, already tells stale from fresh, and lets lifecycle metadata appear
or vanish; several axes that change, or change and return, are covered by the
theorems, which bound nothing. Two changes let a disk that a call is bound to
change and return (the case a comparison of fingerprints cannot see, and does
not claim to). A cache of one evicts at the second index. Two
changes of files put one before and one after any read, or change a file and
its neighbour; four packages are one fewer than the graph has, so that the
limit is met. Three files make a cycle with an entry and every ambiguity of two
stars; each budget is exhausted alone. Three packages let the rarest word of a
query be in one, two or all of them. After
seven tasks at 1:6 the last pair decides the exact test: 1:7 is significant, and
neither 1:6 nor 2:6 is. A second completion is one more than the
watchdog allows, and may be logged before or after it looks.

Deadlock is checked in `contract_acquisition`, `declaration_walk`,
`contract_answers` and `frontends`, where an answered call stutters explicitly:
every call is answered. The other runs disable the check: an operation manager
without calls, a settled process, an answered request and an ended run may stop.

### Fairness

* `OperationManager`: microtasks run, continuations of settled promises run,
  and execute settles. The first two are the JavaScript event loop. The third
  rests on the worker's return (`WorkerReturns`) and on the kernel's reads.
  Nothing is assumed about callers: no call needs to happen.
* `ToolchainService`: that of the manager, and a loop over tools that has begun
  ends. Nothing makes a direct verification return, nothing makes the host
  unload.
* `VerificationProcess`: events are delivered, the timer fires, a kill takes
  effect. A child owes nothing and may run for ever.
* `PluginVerify`: the awaits of the worker resolve, and a process it spawned settles, which is
  `RunSettles`. That property has one exception: a descendant out of reach of
  the kill (outside the process group) that holds the pipes delays the close
  event for as long as it lives. `WorkerReturns` inherits the exception.
* `Campaign`: the controller goes on, and its timers expire. Nothing is asked of
  the agent. `CampaignEnds` has two exceptions. `Unanswered`: the requests of the
  handshake (h2-runner.mjs 214-225) and of closing the session (283) have no
  timeout, so an agent that lives and never answers one of them holds the run.
  `crashed`: an error that nothing catches ends it where it is (section 5).

## 4. Proofs

Every theorem is of the module's specification and holds for all values of its
constants under the assumptions of section 4.11. A property that a run checks is
seldom inductive. Each proof module states the invariant it is proved from,
with one lemma per action that shows it preserved. TLC has checked these
invariants on the instances of the runs, as far as it can evaluate them: not a
conjunct that ranges over all texts or numbers.

| Proof module | Properties of the runs that are theorems |
| --- | --- |
| OperationManagerProofs | TypeOK, RegistryIsExact, ReceiptsTellTheTruth, ShutdownQuiescent, HistoryStands, ImplementsLifecycle; of the service SurfaceIsPolicy, and those of the manager for it |
| PluginVerifyProofs | of a child process OutcomeIsHonest, ImplementsProcessRun; of the worker PassedIsProven, ConclusionIsHonest, AbortStopsWork; of verifyPlugin VerifiedIsEarned, VerifiedIsFresh, FailureStands, AnswersHaveTheirCause |
| AgentTargetBindingProofs | LiveIsOfTheMountEpoch, SearchIsContinued |
| ContractAcquisitionProofs | ComparedManifestsAreOfOneMoment, ClosureIsComplete, QuietDiskIsRead |
| DeclarationWalkProofs | ClosureIsReadWithinBudgets, LimitsAreReal, ExportsAreProven |
| ContractAnswersProofs | MergedFactsAreKept, PruningLosesNothing, AnswersCarryTheirEvidence |
| FrontendsProofs | ExitTellsTheTruth, CompatibleIsProven, FilesAreUnderstood, RequestsAreAsGiven |
| CampaignProofs | NothingOfOthersIsReadable, OnlyOwnedTreesAreRemoved, ReportIsEarned |

The library's theorems of induction take an operator as a parameter, which the
provers cannot instantiate. Where the value of a recursive function matters, the
induction is done with sets instead: the numbers a statement fails for, were
there any, would have a least one (`AllNumbers`).

### 4.1 Operation manager

That a shut down manager is at rest needs every running operation to be among
the tasks that a waiting close() awaits. `IInv` joins `TypeOK` and the six
state properties with `TasksInv`, which ties an entry to the microtask queue,
the Set of tasks and the calls of close(): an unborn operation has no id, no
task and no request; a queued one has its microtask; a running one has its task
and was executed once; a scheduled one was not executed yet; a close() call
exists only when closed, and one that waits awaits every running operation.
Registry, completion order and receipts depend on each other only through
these. The lemmas are about sequences and finite sets: what pruning keeps of the
completion order, that committing a batch of distinct operations keeps registry
and order exact, and how the number of active operations changes.

`ImplementsTheLifecycle` maps every step to a step of `OperationLifecycle` or a
stutter: `Start` accepts, `RunMicrotask` begins, `Settle` completes, `Cancel`
requests, the first `Close` shuts down. The completed operations that stay in
the registry are the last ones of the abstract completion order, by the lemmas
on pruning.

### 4.2 Service

This part is in `OperationManagerProofs`. The service adds nothing to what its
manager does: `ServiceIsAManager` proves
`ServiceSpec => FairSpec`, fairness included, so that all theorems of the
manager carry over (`ServiceKeepsThePromises`). The surface is proved from the
disposers: the tools of the service are those whose disposer is held
(`HeldAreTheSurface`), and what is held is always the first so many that the
policy lets through (`HeldAreOurs`), because registration goes up in order and
disposal down. A mounted service holds all of them, a loop of disposal ends when
it holds none.

### 4.3 Process runner

`CloseInv` says what the close event leaves (nobody in the group, everything
written is read), `CaptureInv` that everything read is captured until an outcome
is forced, and `OutcomeInv` that a settled run is out of reach of its timer
and its signal, while one that has not settled learns of an abort at once.
`RunnerKeepsItsPromise` is the refinement of `ProcessRun`. This part is in
`PluginVerifyProofs`.

### 4.4 Worker and verifyPlugin

`WorkerInv` says what lies behind a worker that has come to a step: the ledger
is a function of the step until the worker ends (`LedgerTellsTheStep`), and so
are the processes that have succeeded (`RunsTellTheStep`); the copy holds the
bytes acquired (`RootAndCopy`). What follows builds on it, because each
step of `PluginVerify` is one of the worker or leaves it alone
(`StepsOfTheWorker`). It adds `StoryIsWhole`, which the reducer relies on:
requested assertions were judged, a cancelled worker stopped short, one that
did not complete says why. The reads are tied to their worlds and the response
to the reducer; the four properties follow from what `Status` says in each case.

### 4.5 Target binding

The invariant has a part for each call (`CallIsSound`) and two that relate
calls: an inspection asks for the index of an answered search, and a cache entry
is found under the fingerprint it was built from. Since a step changes one call,
the invariant is preserved call by call. Of implicit calls nothing is proved:
what the protocol asks of them does not hold (section 5).

### 4.6 Target and contract acquisition

*One moment.* This is about the manifests of the packages of the composition,
which the code reads twice; of the profile's and of those found in the closure,
read once, nothing is claimed. `Reached` orders the contents of a file: bytes only move on. What
was read is reached by the disk of the resolution (`before`), and that by the disk
of now (`ReadsAreOfTheDisk`). When a comparison finds the content of the first
read again, all three are the same. The proof rests on the model's assumption
that a content which was left does not come back; a comparison of hashes could
not see that it did.

*The closure.* `WalkIsSound` is the loop invariant of the search over the graph
of packages: a name that needs no search any more is queued, or all of its
dependencies are visited or were searched and not found, or it is a root that
is still to be compared. At the end the queue is empty, so the set is closed.
`Budgeted` counts: what is found stays within the limit, and a package that
would go beyond it ends the acquisition before it is added.

*Quiet disks.* Without a change each read finds the first of its candidates with
the content of the start, stage by stage (`QuietReading`), so that no comparison
fails. This needs the candidates and contents of every role, which
the module states as lemmas.

*The walk over declarations* (`DeclarationWalkProofs`). `WalkInv` has three parts.
`CountsAreKept` says what each budget has been charged with: the files that were
read, their bytes, and the edges as a set of pairs. `WalkIsInOrder` is about the
queue: its depths never fall and span two levels at most, each item's file is at
its depth's distance from the entries or known, and when an item of depth d is
taken, all files within distance d have been met (`IsLevel`). So the depth an item
carries is the distance of its file, a refusal for depth is real, and a walk
whose queue is empty has read the least closed set, which is the reference
reached by rounds. `SurfacesAreProven` is about the fixed point of the exports: an
entry of a surface is in the reference, its witness suffices to derive it, and of
a name at most two origins are kept. When no re-export changes anything, a name
with one origin in the reference has that one. The argument is that the cap does
no harm: a name that has two origins stays ambiguous however many more are
forgotten, and a surface that has fewer than two refuses none. Which witness is
answered needs the order of witnesses to be strict and total.

### 4.7 Contract answers

`AnswerInv` relates what was collected to what the providers listed: a row
is *kept* by a list that has its id and all that its facts say. This is
transitive, so that it survives the merges to come. The ids of a merged list are
distinct and in order, because `InOrder`, for a strict total order of a finite
set, numbers each element by its rank. Merging cites nothing that was not there, so the
integrity check of an index never fails (`answer` is no internal error).

*Pruning.* Of n words of which m must match, the lane looks up the n - m + 1
rarest. Two sets of words of these sizes meet (`LargeSubsetsMeet`), so every
contract that matches m words has one that was looked up, whichever words the
order calls rare, and nothing is pruned at all when too many postings are visited. Ranking the candidates
is total because their ids differ, and the sum of a score does not depend on the
order it is added up in: sums are numbers of pairs (`Units`). Together, the first
of the ranking is at least as good as any contract in scope.

*Evidence.* What an answer cites is in the index, the table of its evidence lists
each id once, so that references are read back as they were, and a witness is
cited evidence of its own contract. That it backs the words goes lane by lane:
the strict lane takes for each word evidence of a place that has it, the intent lane for
each word it counted.

### 4.8 Frontends

`FrontInv` says how far a call has come: the kernel has a request before it has
an outcome, the outcome is one its operation can have, and that of a check is
the analysis of the subject acquired. The exit code follows by cases over
operations and outcomes. `SubjectInv` says what a complete subject of either form
stands for: the requirements of the one package that was read, which has no
problem, and the patch that was found.

*Archives.* For an archive this rests on the reader of headers. Its state
before each header is determined by the headers before it (the names pending are
those meant for the next entry), by induction over headers for archives of any
length. Hence every file is an entry under its own name, and a directory that is
packed gives the same subject, fingerprint and verdict as before.

*Requests.* An accepted command line asks exactly what its options say, and the
reading of the launcher's tokens, for any number of them, yields the profile
that the process runs. `RequestIsOfTheCall` is the invariant that carries both to
the kernel.

### 4.9 Evaluation

`AgentIsAlone`: while an agent is attended by its observation the run's directory
holds only what is of its cell, or a workspace that a survivor has written: an
observation makes its trees in a directory that it owns, ends with their removal,
and evidence is written only after the last one. That only a
judged tree is removed (`UnownedTreesStay`) needs that between two observations
nothing on disk is marked (`NothingIsMarked`), so that an observation finds nothing
it would delete where it begins. `KnowledgeIsTrue`, `KnowledgeComesInTime`:
what the runner knows of turn, budget and models is so. `ReceiptIsTold` turns
this into the truth of the receipt, and `RunInv` carries it through the ledger
to the report.

*The exact test.* The code computes each binomial coefficient by multiplying its
way along a row of Pascal's triangle, and divides their sum by a power of two. The
proof shows what these integers are: the
k-th is the number of sets of k tasks among n (Pascal's rule, a task is in a set
or not), so that the sum is the number of ways the pairs that differ could have
fallen at least as well for the toolchain, for any number of tasks.

### 4.10 Only model-checked

Every safety property of the passing runs is a theorem. What stays with TLC is
liveness, since fairness and ENABLED are out of the prover's reach:
`AcceptedWorkEnds`, `ShutdownEndsOperations`, `RunSettles`,
`ForcedTerminationEndsGroup`, `WorkerReturns`, `CampaignEnds`. Of the refinements
the steps are proved, and `ServiceIsAManager` proves fairness where the abstract
formula has the same actions.

### 4.11 Assumptions

Each is checked by TLC on every run that uses its module.

* `ManagerAssumption`: capacity and retention are positive (operation.ts 69
  refuses others), and the mark of an empty slot is not an id.
* `ServiceAssumption`: the host of this service closes its manager (the effect
  at index.ts 257). The MCP server does not, which is the finding of section 5.
* `ProcessAssumption`: the limits of output are positive.
* `VerifyAssumption`: the bound on epochs is positive and the other two are
  natural numbers.
* `BindingAssumption`: finitely many calls, a cache of one or more.
* `ScheduleAssumption`: cells are of arm B or C. `TablesAssumption`: the earlier
  tasks are counted by natural numbers. `BoundsAssumption`: an agent may
  complete more turns than it is allowed.
* `WalkAssumption`: at least one file; the other bounds are natural numbers.
* `WordsAssumption`: the vocabulary is a sequence of words; row n of the table of inverse
  frequencies has an entry for each number of contracts out of n, none
  negative, as `Math.log` of a quotient of at least one. Nothing is assumed
  about the values.
* `CallsAssumption`: a call has finitely many exports and rows, words of the
  vocabulary and a positive limit (request-validation.ts 249 refuses others), and the
  table is large enough for its index.
* `ChangesAssumption`, `PackagesAssumption`: the bounds are natural numbers.

## 5. Findings

* `mcp_host`: the MCP server creates the manager and nothing closes it
  (mcp/index.ts 410), although `spec/operation-lifecycle.md` 242-249 gives the
  shutdown duty to both hosts.
* `agent_rebinding`: an implicit call is proven on one resolution of the target
  (runtime-target-binding.ts 131-145) and answered from a second one
  (kernel/index.ts 569), which nothing compares with the mount epoch.
  `spec/protocol.md` 70 wants such a call to fail closed.

The models also show behaviour that a reader of the documents would not expect.
They follow the code in each case.

* A clean boot without a visibility marker is skipped and the answer partial;
  `spec/verification.md` 88 calls it a failure with `VERIFY_VISIBILITY_FAILED`.
* When the target or the index cannot be built again after the worker
  (kernel/index.ts 731), a failed cleanup of the worker is dropped from the
  answer; `spec/verification.md` 176 requires the report.
* A verification called directly on the DSH service has no signal and is not
  awaited by the unload.
* The manifest of the profile is captured with its hash (dsh-filesystem.ts 467) and
  never compared again, as those of the packages are (dsh-contract-filesystem.ts
  224-256), so that a fingerprint torn between it and them goes unnoticed, although
  `docs/development.md` 108 says "Every target-captured manifest hash is rechecked".
  The manifests of packages found in the closure are read once, after the target
  was resolved (495-511). `ComparedManifestsAreOfOneMoment` claims neither.
* On POSIX the kill of an observation reaches the launcher alone (h2-dsh.mjs 436),
  so that an agent which takes no notice of the end of its stdin works on beside
  the next observation; h2-runner.mjs 392 says "The agent process is already
  terminated here". On Windows `taskkill /T` ends the tree.
  `NothingOfOthersIsReadable` excepts what such an agent writes to its own
  workspace, and bounds what an attended agent can read: what one that nobody
  attends any more reads of later observations, no property bounds.
* Answering a request of an agent whose launcher has ended throws in a listener
  (h2-dsh.mjs 412), and the stdin of the child has no listener for errors: either
  ends the controller, and the receipts in memory are lost, although h2-cli.mjs
  882 says that "an unexpected throw still flushes what the run has already
  produced". `CampaignEnds` excepts it.
* A plugin whose patch is at `../<root>/p` is accepted as a directory and
  refused as an archive. A directory's manifest and patch are read at two
  moments, without a second look.
* Global PAX records (`g`) do not set a path, GNU `K` records become entries.
* In the closure of packages different versions found from different anchors
  are one. `maxContractPackages` is tested before a missing optional
  dependency is skipped. A file at the maximum depth that references itself is
  refused with `maxDeclarationDepth`.
* Compacting an inspected contract does not check `internable` as a search does.
* `verifyPluginResponse` maps a stale contract index to `failed`. The checks of
  an upstream failure overwrite the reason of checks nobody requested.
* An option of the command line that takes one value silently keeps the last
  one. `target.resolve` of the MCP server is validated by its schema alone; the
  parsers accept a blank subject path that the schemas refuse.
* Evaluation: the clock of the guard starts before plugins are installed, the
  limit of the prompt at the prompt; an error of the infrastructure replaces
  the reason of a spent budget; a grader that throws makes a failed but resolved
  task; an observation that throws loses its own receipt; the watchdog goes on
  after a rejected prompt (`ReportIsEarned` shows it does no harm). A run that
  was killed leaves its tree, and a fresh run looks for trees in its own
  directory only: `NothingOfOthersIsReadable` is about one run. A second dry
  run of one candidate refuses itself even with `--confirm-technical-rerun`,
  because writing evidence (h2-cli.mjs 217, 778) makes the directory again
  without the marker that owned-tree.mjs 241 asks for. `finalize` takes the
  latest run by name, not by time. An agent that lives on may
  leave a workspace where the next observation begins, which then refuses to
  delete it and ends the run (owned-tree.mjs 241).

## 6. Not modelled

* Projections of a target and digests: data without an order of events. A
  fingerprint is the content it identifies, so two contents never share one.
* Protocol types: no code runs.
* The path guard of the worker's cleanup, the construction of commands, the
  allow-list of environments: data without state.
* Libraries: the TypeScript parser, semver, gzip, `parseArgs`, the stdio
  transport of MCP. They enter by how the code uses them.
* Of the evaluation: corpus commands, freeze, preflight and dry run, the
  environment of a run and the journal of deletions. A crash of the controller
  is modelled by the two errors of section 5 (`Uncaught`) and no other; no command continues
  a run. An agent that lives on writes to its own workspace only, as its
  permission mode allows, and what it does to files outside of the run's
  directory is not modelled.
* A disposer of the host's tools service that throws: it would end the loop and
  leave the tools before it registered.
* Build, smoke and performance scripts, and the closed evaluation M2: they run
  the built package once, outside of the shipped program.
* An escaped descendant that keeps the pipes of a run for ever
  (process.ts 182): `RunSettles` excepts it, since without the exception the
  property does not hold and neither code nor documents promise it.

## 7. Plan

The components above are modelled, and every safety property the runs check is
proved. What is left, in this order:

1. `ContractAnswers` takes its declarations as given; composing it with
   `DeclarationWalk` and `ContractAcquisition` would carry a fact from the disk to
   the answer in one theorem.
2. Of the evaluation, corpus, freeze and preflight: what a run relies on when it
   begins is given.
