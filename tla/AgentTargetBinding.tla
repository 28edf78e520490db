------------------------- MODULE AgentTargetBinding -------------------------
(***************************************************************************)
(* The native contract tools of a DSH Host                                 *)
(* (src/integrations/dsh/): an Agent calls contract.search, and            *)
(* contract.inspect with the fingerprint a search returned, with an        *)
(* explicit profile or without one.  A call without a profile is bound to  *)
(* the target the Host runs in, which is proven against the epoch captured *)
(* when Toolchain mounted; evidence of the live Host is merged into an     *)
(* index of that epoch only.  The kernel then resolves the target by       *)
(* itself, acquires contracts and searches through a cache of search       *)
(* indexes (src/kernel/index.ts).                                          *)
(*                                                                         *)
(* The files of the target, the declarations contracts are read from and   *)
(* the catalog of the live Host may change between any two awaits.  An     *)
(* epoch stands for the content a fingerprint identifies.                  *)
(*                                                                         *)
(* An operator named X_Defect is X with a plausible slip of the code; no   *)
(* definition uses it.                                                     *)
(***************************************************************************)
EXTENDS RunningTarget, FiniteSets

CONSTANTS
    Calls,       \* the tool calls
    MaxCached,   \* MAX_CONTRACT_SEARCH_INDEX_CACHE
    MaxEpoch,    \* bound of the model: epochs of each axis
    MaxChanges   \* bound of the model: changes outside Toolchain

ASSUME BindingAssumption ==
    /\ IsFiniteSet(Calls)
    /\ MaxCached \in Nat \ {0}
    /\ MaxEpoch \in Nat
    /\ MaxChanges \in Nat

VARIABLES
    host,      \* what the Host exposes and how it was launched
    disk,      \* the epochs of the running profile on the disk, and of evidence
    catalog,   \* the epoch of the catalog Cordis Inspect answers from
    changes,   \* how often any of them has changed
    startup,   \* startupTargetIdentity: a set of at most one epoch pair
    captured,  \* the promise of startup has settled
    call,      \* the progress of each call
    cache      \* searchIndexes: the keys with the index they were built from

vars == <<host, disk, catalog, changes, startup, captured, call, cache>>
outside == <<host, disk, catalog, changes>>

Epochs == 0..MaxEpoch
Profiles == {"running", "other"}

\* home: dshHomePath is exposed; rooted: so is the root base URL; inspect: the
\* Inspect registry; argv, base and script: how and where the Host was started.
\* A Host that has all three was started in every way, one thing at a time.
NamedRun == <<"--profile", "running">>
OtherRuns == {<<"app">>, <<"--profile", "running", "--patch", "a">>}
HostsWith(exposed, argvs, bases, scripts) ==
    [home : exposed, rooted : exposed, inspect : exposed,
     argv : argvs, base : bases, script : scripts]
Hosts ==
    LET base == {"profile directory"}
        script == {"in this package"}
    IN  HostsWith(BOOLEAN, {NamedRun}, base, script)
            \cup HostsWith({TRUE}, OtherRuns, base, script)
            \cup HostsWith({TRUE}, {NamedRun}, Bases, script)
            \cup HostsWith({TRUE}, {NamedRun}, base, Scripts)
Launched == ProvenProfile(host.argv) # <<>>

\* The pair a binding is proven by.  Lifecycle 0 is a train without lifecycle
\* metadata: no fingerprint at all.
Identity(d) == [target |-> d.target, lifecycle |-> d.lifecycle]

\* A target fingerprint names the profile; a second profile never changes.
Snapshot(profile) ==
    IF profile = "running"
    THEN [profile |-> profile, target |-> disk.target, lifecycle |-> disk.lifecycle]
    ELSE [profile |-> profile, target |-> 0, lifecycle |-> 0]

\* The fingerprint of a Contract Index binds the target and all evidence, the
\* live part (none when it is {}) included; it does not bind the lifecycle.
IndexOf(snapshot, evidence, live) ==
    <<snapshot.profile, snapshot.target, evidence, live>>

NoSnapshot == [profile |-> "other", target |-> 0, lifecycle |-> 0]
NoIndex == <<"other", 0, 0, {}>>

Idle == [phase |-> "idle", op |-> "search", profile |-> "running", implicit |-> FALSE,
         executing |-> FALSE, wanted |-> NoIndex, snapshot |-> NoSnapshot,
         evidence |-> 0, live |-> {}, index |-> NoIndex, searched |-> NoIndex]

Init ==
    /\ host \in Hosts
    /\ disk \in [target : {0}, lifecycle : Epochs, evidence : {0}]
    /\ catalog = 0
    /\ changes = 0
    /\ startup = {}
    /\ captured = FALSE
    /\ call = [c \in Calls |-> Idle]
    /\ cache = <<>>

-----------------------------------------------------------------------------
\* captureStartupTargetBindingIdentity, called once by the constructor: one
\* resolution of the launched profile.  What cannot be proven is undefined.
Capture ==
    /\ ~captured
    /\ captured' = TRUE
    /\ \/ host.home /\ host.rooted /\ Launched /\ startup' = {Identity(disk)}
       \/ startup' = {}
    /\ UNCHANGED <<outside, call, cache>>

Reaches(c, phase) == call' = [call EXCEPT ![c].phase = phase]

\* The execute function of a tool.  An explicit profile needs no proof; an
\* omitted one needs a Host home and a launch that names a profile.
Asked(op, profile, implicit, executing, wanted) ==
    [Idle EXCEPT !.op = op, !.profile = profile, !.implicit = implicit,
         !.executing = executing, !.wanted = wanted,
         !.phase = IF ~implicit THEN "bound"
                   ELSE IF host.home /\ Launched THEN "proving"
                   ELSE "unavailable"]

\* The fingerprints an Agent has to ask with: those that searches returned.
Wanted(op) ==
    IF op = "search" THEN {NoIndex}
    ELSE {call[d].index : d \in {d \in Calls : call[d].op = "search" /\ call[d].phase = "ok"}}

Begin(c) ==
    /\ call[c].phase = "idle"
    /\ \E op \in {"search", "inspect"}, profile \in Profiles,
          implicit \in BOOLEAN, executing \in BOOLEAN :
          /\ implicit => profile = "running"
          /\ \E wanted \in Wanted(op) :
                call' = [call EXCEPT ![c] = Asked(op, profile, implicit, executing, wanted)]
    /\ UNCHANGED <<outside, startup, captured, cache>>

\* targetRequest of an omitted profile: the startup identity is awaited, the
\* running profile resolved and compared with it on both axes.  What has been
\* resolved for the proof is dropped: the request goes on with the profile.
Proves(identity) == identity = Identity(disk)

Prove(c) ==
    /\ call[c].phase = "proving"
    /\ captured
    /\ \/ Reaches(c, "unavailable")
       \/ \E identity \in startup :
              Reaches(c, IF Proves(identity) THEN "bound" ELSE "changed")
    /\ UNCHANGED <<outside, startup, captured, cache>>

-----------------------------------------------------------------------------
\* buildContractIndex: the kernel resolves the request it was given, which for
\* an implicit call is a second resolution...
ResolveTarget(c) ==
    /\ call[c].phase = "bound"
    /\ \/ call' = [call EXCEPT ![c].snapshot = Snapshot(call[c].profile),
                               ![c].phase = "resolved"]
       \/ Reaches(c, "failed")
    /\ UNCHANGED <<outside, startup, captured, cache>>

\* ...acquires contracts, with the manifests of the snapshot checked...
Acquire(c) ==
    /\ call[c].phase = "resolved"
    /\ \/ call' = [call EXCEPT ![c].evidence = disk.evidence, ![c].phase = "acquired"]
       \/ Reaches(c, "failed")
    /\ UNCHANGED <<outside, startup, captured, cache>>

\* ...and enriches them.  The port exists for a call with an Agent and a
\* signal, in a Host with an Inspect registry, home and base URL.
HasEnrichment(c) ==
    /\ call[c].executing
    /\ host.inspect /\ host.home /\ host.rooted

\* matches of the runtime target binding; what it compares of the runtime (the
\* version, platform and architecture of Node) may differ besides.
Matches_PathOnly(snapshot) == snapshot.profile = "running"
Matches(snapshot) ==
    /\ startup = {Identity(snapshot)}
    /\ Launched
    /\ <<snapshot.profile>> = Invocation(host.argv).profile
    /\ SameInstallation(host.base, host.script)

Enrich(c) ==
    /\ call[c].phase = "acquired"
    /\ HasEnrichment(c) => captured
    /\ \/ call' = [call EXCEPT ![c].live = {}, ![c].phase = "enriched"]
       \/ /\ HasEnrichment(c) /\ Matches(call[c].snapshot)
          /\ \/ call' = [call EXCEPT ![c].live = {catalog}, ![c].phase = "enriched"]
             \/ Reaches(c, "failed")
    /\ UNCHANGED <<outside, startup, captured, cache>>

\* cachedSearchIndex: the key is the fingerprint of the index; the oldest
\* entry is dropped when there are too many.
KeyOf_TargetOnly(index) == <<index[1], index[2]>>
KeyOf(index) == index

Trimmed(entries) == IF Len(entries) > MaxCached THEN Tail(entries) ELSE entries

\* The entries of the cache that a key leads to: one or none.
Cached(index) == {i \in DOMAIN cache : cache[i].key = KeyOf(index)}

\* createContractIndex, and the rest of searchContracts or inspectContract.
Search(c) ==
    LET index == IndexOf(call[c].snapshot, call[c].evidence, call[c].live)
        AnswersFrom(searched) ==
            call' = [call EXCEPT ![c].index = index, ![c].searched = searched, ![c].phase = "ok"]
    IN  /\ call[c].phase = "enriched"
        /\ call[c].op = "search"
        /\ \/ \E i \in Cached(index) : AnswersFrom(cache[i].index) /\ UNCHANGED cache
           \/ /\ Cached(index) = {}
              /\ AnswersFrom(index)
              /\ cache' = Trimmed(Append(cache, [key |-> KeyOf(index), index |-> index]))
        /\ UNCHANGED <<outside, startup, captured>>

Inspect(c) ==
    /\ call[c].phase = "enriched"
    /\ call[c].op = "inspect"
    /\ LET index == IndexOf(call[c].snapshot, call[c].evidence, call[c].live)
       IN  call' = [call EXCEPT ![c].index = index,
                   ![c].phase = IF index = call[c].wanted THEN "ok" ELSE "indexStale"]
    /\ UNCHANGED <<outside, startup, captured, cache>>

-----------------------------------------------------------------------------
\* The disk changes: the composition, the lifecycle policy or declarations.
ChangeDisk ==
    /\ changes < MaxChanges
    /\ changes' = changes + 1
    /\ \E axis \in {"target", "lifecycle", "evidence"} :
           \E epoch \in Epochs \ {disk[axis]} : disk' = [disk EXCEPT ![axis] = epoch]
    /\ UNCHANGED <<host, catalog, startup, captured, call, cache>>

\* The live Host registers or removes tools, services and events.
ChangeCatalog ==
    /\ changes < MaxChanges
    /\ changes' = changes + 1
    /\ catalog' \in Epochs \ {catalog}
    /\ UNCHANGED <<host, disk, startup, captured, call, cache>>

Next ==
    \/ Capture
    \/ \E c \in Calls : \/ Begin(c) \/ Prove(c) \/ ResolveTarget(c) \/ Acquire(c)
                        \/ Enrich(c) \/ Search(c) \/ Inspect(c)
    \/ ChangeDisk
    \/ ChangeCatalog

Spec == Init /\ [][Next]_vars

-----------------------------------------------------------------------------
Phases == {"idle", "proving", "bound", "resolved", "acquired", "enriched", "ok",
           "unavailable", "changed", "failed", "indexStale"}
Identities == [target : Epochs, lifecycle : Epochs]
Lives == {{}} \cup {{epoch} : epoch \in Epochs}
Indexes == {<<profile, target, evidence, live>> :
               profile \in Profiles, target \in Epochs, evidence \in Epochs, live \in Lives}
Progress ==
    [phase : Phases, op : {"search", "inspect"}, profile : Profiles, implicit : BOOLEAN,
     executing : BOOLEAN, wanted : Indexes,
     snapshot : [profile : Profiles, target : Epochs, lifecycle : Epochs],
     evidence : Epochs, live : Lives, index : Indexes, searched : Indexes]

\* Every variable holds a value of its type.
TypeOK ==
    /\ host \in Hosts
    /\ disk \in [target : Epochs, lifecycle : Epochs, evidence : Epochs]
    /\ catalog \in Epochs
    /\ changes \in 0..MaxChanges
    /\ startup \in {{}} \cup {{identity} : identity \in Identities}
    /\ captured \in BOOLEAN
    /\ call \in [Calls -> Progress]
    /\ cache \in Seq([key : Indexes, index : Indexes])
    /\ Len(cache) <= MaxCached

\* Live evidence is part of an answer only if the target the answer is about
\* is the one Toolchain saw at mount, on both axes; a Host that could not be
\* proven then answers offline for ever.
LiveIsOfTheMountEpoch ==
    \A c \in Calls : call[c].live # {} =>
        /\ startup = {Identity(call[c].snapshot)}
        /\ call[c].snapshot.profile = "running"

\* What spec/protocol.md:70 says of a call without a profile: one "whose current
\* resolution differs from the captured epoch MUST fail closed rather than
\* re-bind the newer epoch" (so does the comment above the binding,
\* runtime-target-binding.ts:82).  An answered one is about the captured epoch,
\* on both axes.  The code compares the resolution of the proof and answers
\* from the next one, with the disk free to change between the two.
ImplicitCallsKeepTheMountEpoch ==
    \A c \in Calls : call[c].implicit /\ call[c].phase = "ok" =>
        startup = {Identity(call[c].snapshot)}

\* An inspection that succeeds shows what the search it continues was about:
\* the same profile and composition, the same declarations, and the same
\* live catalog or none, whatever happened between the two calls.
InspectionContinuesSearch ==
    \A c \in Calls : call[c].op = "inspect" /\ call[c].phase = "ok" =>
        \E d \in Calls :
            /\ call[d].op = "search" /\ call[d].phase = "ok"
            /\ call[d].snapshot.profile = call[c].snapshot.profile
            /\ call[d].snapshot.target = call[c].snapshot.target
            /\ call[d].evidence = call[c].evidence
            /\ call[d].live = call[c].live

\* A search is answered from the search index of its own Contract Index, at
\* whatever point of the cache's life.
SearchesItsOwnIndex ==
    \A c \in Calls : call[c].op = "search" /\ call[c].phase = "ok" =>
        call[c].searched = call[c].index

\* A fingerprint is enough to continue a search, and the cache behind it never
\* hands out another index.
SearchIsContinued == InspectionContinuesSearch /\ SearchesItsOwnIndex
=============================================================================
