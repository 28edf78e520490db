----------------------- MODULE AgentTargetBindingProofs -----------------------
(***************************************************************************)
(* Theorems about the calls of an Agent, for any number of calls, any size *)
(* of the cache and any history of the disk and of the live Host: what     *)
(* live evidence may join, and what an inspection shows.                   *)
(***************************************************************************)
EXTENDS AgentTargetBinding, TLAPS

\* Live evidence comes last: a call that has not been enriched has none, and
\* only a Host whose startup has been captured gives any.
LiveComesLast ==
    \A c \in Calls : call[c].live # {} =>
        /\ captured
        /\ call[c].phase \in {"enriched", "ok", "indexStale"}

\* An answered call has the Contract Index of what it read.
IndexIsOfTheCall ==
    \A c \in Calls : call[c].phase = "ok" =>
        call[c].index = IndexOf(call[c].snapshot, call[c].evidence, call[c].live)

\* An inspection asks for the index of a search that has been answered, and an
\* answered one got what it asked for.
InspectionIsOfASearch ==
    \A c \in Calls : call[c].op = "inspect" =>
        /\ \E d \in Calls : /\ call[d].op = "search" /\ call[d].phase = "ok"
                            /\ call[c].wanted = call[d].index
        /\ call[c].phase = "ok" => call[c].index = call[c].wanted

\* An entry of the cache is found under the fingerprint it was built from.
CacheIsByFingerprint == \A i \in 1..Len(cache) : cache[i].key = cache[i].index

BindingInv ==
    /\ TypeOK
    /\ LiveComesLast
    /\ LiveIsOfTheMountEpoch
    /\ IndexIsOfTheCall
    /\ InspectionIsOfASearch
    /\ CacheIsByFingerprint
    /\ SearchesItsOwnIndex

(***************************************************************************)
(* The part of the invariant that is about one call, its progress p.       *)
(***************************************************************************)
CallIsSound(p) ==
    /\ p.live # {} => /\ captured
                      /\ p.phase \in {"enriched", "ok", "indexStale"}
                      /\ startup = {Identity(p.snapshot)}
                      /\ p.snapshot.profile = "running"
    /\ p.phase = "ok" => p.index = IndexOf(p.snapshot, p.evidence, p.live)
    /\ p.op = "inspect" /\ p.phase = "ok" => p.index = p.wanted
    /\ p.op = "search" /\ p.phase = "ok" => p.searched = p.index

\* What an inspection asks for is the index of an answered search.
IsOfASearch(index) ==
    \E d \in Calls : call[d].op = "search" /\ call[d].phase = "ok" /\ index = call[d].index

-----------------------------------------------------------------------------
\* The reader of launcher arguments, as far as the Hosts of the model need it:
\* the reader after a token is the one before it, having read the token.
LEMMA ReadingStepByStep ==
    ASSUME NEW start, NEW tokens, Len(tokens) \in 0..4
    PROVE  /\ Reading(start, tokens)[0] = start
           /\ \A i \in 1..Len(tokens) :
                  Reading(start, tokens)[i] = Read(Reading(start, tokens)[i - 1], tokens[i])
<1> DEFINE positions == 0..Len(tokens)
           r1 == Read(start, tokens[1])
           r2 == Read(r1, tokens[2])
           r3 == Read(r2, tokens[3])
           r4 == Read(r3, tokens[4])
           IsReader(f) == f = [i \in positions |->
                                  IF i = 0 THEN start ELSE Read(f[i - 1], tokens[i])]
           reader == [i \in positions |-> IF i = 0 THEN start ELSE IF i = 1 THEN r1
                          ELSE IF i = 2 THEN r2 ELSE IF i = 3 THEN r3 ELSE r4]
<1>1. \A i \in positions :
          reader[i] = IF i = 0 THEN start ELSE Read(reader[i - 1], tokens[i])
  <2> TAKE i \in positions
  <2> HIDE DEF r1, r2, r3, r4
  <2>0. i \in {0, 1, 2, 3, 4} /\ (i # 0 => i - 1 \in positions)
    <3> DEFINE n == Len(tokens)
    <3>1. n \in {0, 1, 2, 3, 4} /\ i \in 0..n
      OBVIOUS
    <3> HIDE DEF n
    <3>2. i \in Int /\ n \in Int /\ 0 <= i /\ i <= n /\ n <= 4
      BY <3>1
    <3>3. i \in {0, 1, 2, 3, 4} /\ (i # 0 => i - 1 \in 0..n)
      BY <3>2
    <3> QED BY <3>3 DEF n
  <2>1. CASE i = 0
    BY <2>1
  <2>2. CASE i = 1
    BY <2>0, <2>2 DEF r1
  <2>3. CASE i = 2
    BY <2>0, <2>3 DEF r2
  <2>4. CASE i = 3
    BY <2>0, <2>4 DEF r3
  <2>5. CASE i = 4
    BY <2>0, <2>5 DEF r4
  <2> QED BY <2>0, <2>1, <2>2, <2>3, <2>4, <2>5
<1>2. IsReader(reader)
  <2> HIDE DEF r1, r2, r3, r4
  <2> QED BY <1>1
<1>3. Reading(start, tokens) = CHOOSE f : IsReader(f)
  BY DEF Reading
<1>4. IsReader(Reading(start, tokens))
  <2> HIDE DEF IsReader, reader
  <2> QED BY <1>2, <1>3
<1> QED BY <1>4

\* A Host whose launch names a profile, and no overlay, runs that profile.
LEMMA LaunchedHostsRunTheProfile ==
    ASSUME NEW h \in Hosts, ProvenProfile(h.argv) # <<>>
    PROVE  Invocation(h.argv).profile = <<"running">>
<1> DEFINE start == [expects |-> "option", patches |-> <<>>, profile |-> <<>>]
           named == [expects |-> "option", patches |-> <<>>, profile |-> <<"running">>]
<1>0. h.argv \in {<<"--profile", "running">>, <<"app">>, <<"--profile", "running", "--patch", "a">>}
  <2>1. h.argv \in {NamedRun} \cup OtherRuns
    BY DEF Hosts, HostsWith
  <2> QED BY <2>1 DEF NamedRun, OtherRuns
<1>1. /\ Read(start, "--profile") = [start EXCEPT !.expects = "profile"]
      /\ Read([start EXCEPT !.expects = "profile"], "running") = named
      /\ Read(start, "app") = [start EXCEPT !.expects = "app"]
      /\ Read(named, "--patch") = [named EXCEPT !.expects = "patch"]
      /\ Read([named EXCEPT !.expects = "patch"], "a").profile = <<"running">>
  BY DEF Read, Named, ProfileValue, PatchValue, OtherCommands, Patched
<1>2. ASSUME NEW tokens, tokens # <<>>, tokens[1] # "web",
             NEW end, end = Reading(start, tokens)[Len(tokens)]
      PROVE  /\ end.expects \in {"option", "app"} /\ end.profile # <<>>
                    => Invocation(tokens).profile = end.profile
             /\ end.expects \notin {"option", "app"} \/ end.profile = <<>>
                    => Invocation(tokens) = NoInvocation
  BY <1>2 DEF Invocation
<1> HIDE DEF start, named
<1>3. CASE h.argv = <<"--profile", "running">>
  <2> DEFINE tokens == <<"--profile", "running">>
             reader == Reading(start, tokens)
  <2>1. Len(tokens) = 2 /\ tokens[1] = "--profile" /\ tokens[2] = "running" /\ tokens # <<>>
    OBVIOUS
  <2> HIDE DEF tokens
  <2>2. Len(tokens) \in 0..4 /\ 1 \in 1..Len(tokens) /\ 2 \in 1..Len(tokens)
    BY <2>1
  <2>3. /\ reader[0] = start
        /\ reader[1] = Read(reader[1 - 1], tokens[1])
        /\ reader[2] = Read(reader[2 - 1], tokens[2])
    BY <2>2, ReadingStepByStep
  <2>4. reader[2] = named
    BY <2>1, <2>3, <1>1
  <2>5. reader[2].expects = "option" /\ reader[2].profile = <<"running">> /\ <<"running">> # <<>>
    BY <2>4 DEF named
  <2>6. Invocation(tokens).profile = <<"running">>
    <3>1. reader[2] = Reading(start, tokens)[Len(tokens)] /\ tokens[1] # "web"
      BY <2>1
    <3> HIDE DEF reader
    <3> QED BY <2>1, <2>5, <3>1, <1>2
  <2> QED BY <1>3, <2>6 DEF tokens
<1>4. CASE h.argv = <<"app">>
  <2> DEFINE tokens == <<"app">>
             reader == Reading(start, tokens)
  <2>1. Len(tokens) = 1 /\ tokens[1] = "app" /\ tokens # <<>>
    OBVIOUS
  <2> HIDE DEF tokens
  <2>2. Len(tokens) \in 0..4 /\ 1 \in 1..Len(tokens)
    BY <2>1
  <2>3. reader[0] = start /\ reader[1] = Read(reader[1 - 1], tokens[1])
    BY <2>2, ReadingStepByStep
  <2>4. reader[1].profile = <<>>
    BY <2>1, <2>3, <1>1 DEF start
  <2>5. Invocation(tokens) = NoInvocation
    BY <2>1, <2>4, <1>2
  <2>6. ProvenProfile(tokens) = <<>>
    BY <2>5 DEF ProvenProfile, NoInvocation
  <2> QED BY <1>4, <2>6 DEF tokens
<1>5. CASE h.argv = <<"--profile", "running", "--patch", "a">>
  <2> DEFINE tokens == <<"--profile", "running", "--patch", "a">>
             reader == Reading(start, tokens)
  <2>1. /\ Len(tokens) = 4 /\ tokens # <<>>
        /\ tokens[1] = "--profile" /\ tokens[2] = "running"
        /\ tokens[3] = "--patch" /\ tokens[4] = "a"
    OBVIOUS
  <2> HIDE DEF tokens
  <2>2. /\ Len(tokens) \in 0..4 /\ 1 \in 1..Len(tokens) /\ 2 \in 1..Len(tokens)
        /\ 3 \in 1..Len(tokens) /\ 4 \in 1..Len(tokens)
    BY <2>1
  <2>3. /\ reader[0] = start
        /\ reader[1] = Read(reader[1 - 1], tokens[1])
        /\ reader[2] = Read(reader[2 - 1], tokens[2])
        /\ reader[3] = Read(reader[3 - 1], tokens[3])
        /\ reader[4] = Read(reader[4 - 1], tokens[4])
    BY <2>2, ReadingStepByStep
  <2>4. reader[2] = named
    BY <2>1, <2>3, <1>1
  <2>5. reader[4].profile = <<"running">>
    BY <2>1, <2>3, <2>4, <1>1
  <2>6. Invocation(tokens) = NoInvocation \/ Invocation(tokens).profile = <<"running">>
    <3>1. reader[4] = Reading(start, tokens)[Len(tokens)] /\ tokens[1] # "web"
      BY <2>1
    <3> HIDE DEF reader
    <3> QED BY <2>1, <2>5, <3>1, <1>2
  <2>7. Invocation(tokens) = NoInvocation => ProvenProfile(tokens) = <<>>
    BY DEF ProvenProfile, NoInvocation
  <2> QED BY <1>5, <2>6, <2>7 DEF tokens
<1> QED BY <1>0, <1>3, <1>4, <1>5

-----------------------------------------------------------------------------
\* The invariant, told call by call.
LEMMA SoundCallByCall ==
    /\ LiveComesLast /\ LiveIsOfTheMountEpoch /\ IndexIsOfTheCall
       /\ InspectionIsOfASearch /\ SearchesItsOwnIndex
    <=> \A c \in Calls : /\ CallIsSound(call[c])
                         /\ call[c].op = "inspect" => IsOfASearch(call[c].wanted)
BY DEF LiveComesLast, LiveIsOfTheMountEpoch, IndexIsOfTheCall, InspectionIsOfASearch,
       SearchesItsOwnIndex, CallIsSound, IsOfASearch

LEMMA IdleIsProgress == Idle \in Progress
<1>1. 0 \in Epochs
  BY BindingAssumption DEF Epochs
<1>2. {} \in Lives /\ "other" \in Profiles
  BY DEF Lives, Profiles
<1>3. NoIndex \in Indexes
  BY <1>1, <1>2 DEF NoIndex, Indexes
<1>4. NoSnapshot \in [profile : Profiles, target : Epochs, lifecycle : Epochs]
  BY <1>1 DEF NoSnapshot, Profiles
<1> QED BY <1>1, <1>2, <1>3, <1>4 DEF Idle, Progress, Phases, Profiles

LEMMA InitBindingInv == Init => BindingInv
<1> SUFFICES ASSUME Init PROVE BindingInv
  OBVIOUS
<1>0. 0 \in Epochs /\ 0 \in 0..MaxChanges /\ Len(cache) <= MaxCached
  BY BindingAssumption DEF Epochs, Init
<1>1. Idle \in Progress
  BY IdleIsProgress
<1>2. TypeOK
  <2>1. disk \in [target : Epochs, lifecycle : Epochs, evidence : Epochs]
    BY <1>0 DEF Init
  <2>2. call \in [Calls -> Progress] /\ cache \in Seq([key : Indexes, index : Indexes])
    BY <1>1 DEF Init
  <2> QED BY <1>0, <2>1, <2>2 DEF Init, TypeOK
<1>3. ASSUME NEW c \in Calls PROVE CallIsSound(call[c]) /\ call[c].op = "search"
  BY DEF Init, Idle, CallIsSound
<1>4. CacheIsByFingerprint
  BY DEF Init, CacheIsByFingerprint
<1> QED BY <1>2, <1>3, <1>4, SoundCallByCall DEF BindingInv

\* A step of one call that has not been answered, to a progress that is sound,
\* leaves the others what they were about.
LEMMA OneCallMoves ==
    ASSUME BindingInv, NEW c \in Calls, NEW p \in Progress, call[c].phase # "ok",
           call' = [call EXCEPT ![c] = p], CallIsSound(p),
           p.op = "inspect" => IsOfASearch(p.wanted),
           UNCHANGED <<outside, startup, captured>>,
           cache' \in Seq([key : Indexes, index : Indexes]), Len(cache') <= MaxCached,
           CacheIsByFingerprint'
    PROVE  BindingInv'
<1>1. TypeOK'
  BY DEF BindingInv, TypeOK, outside
<1>2. DOMAIN call = Calls
  BY DEF BindingInv, TypeOK
<1>3. \A d \in Calls : call'[d] = IF d = c THEN p ELSE call[d]
  BY <1>2
<1>4. disk' = disk /\ startup' = startup /\ captured' = captured
  BY DEF outside
<1>5. \A d \in Calls : /\ CallIsSound(call[d])
                       /\ call[d].op = "inspect" => IsOfASearch(call[d].wanted)
  BY SoundCallByCall DEF BindingInv
<1>6. \A index : IsOfASearch(index) =>
          \E d \in Calls : call'[d].op = "search" /\ call'[d].phase = "ok" /\ index = call'[d].index
  BY <1>3 DEF IsOfASearch
<1>7. ASSUME NEW d \in Calls
      PROVE  /\ CallIsSound(call[d])'
             /\ call'[d].op = "inspect" => IsOfASearch(call[d].wanted)'
  <2> DEFINE q == call'[d]
  <2>1. CallIsSound(q) /\ (q.op = "inspect" => IsOfASearch(q.wanted))
    BY <1>3, <1>5
  <2>2. CallIsSound(call[d])'
    BY <2>1, <1>4 DEF CallIsSound, Identity, IndexOf
  <2> QED BY <2>1, <2>2, <1>6 DEF IsOfASearch
<1> QED BY <1>1, <1>7 DEF BindingInv, LiveComesLast, LiveIsOfTheMountEpoch,
             IndexIsOfTheCall, InspectionIsOfASearch, SearchesItsOwnIndex, CallIsSound,
             IsOfASearch

-----------------------------------------------------------------------------
\* A call moves without touching the cache...
LEMMA OneCallMovesAlone ==
    ASSUME BindingInv, NEW c \in Calls, NEW p \in Progress, call[c].phase # "ok",
           call' = [call EXCEPT ![c] = p], CallIsSound(p),
           p.op = "inspect" => IsOfASearch(p.wanted),
           UNCHANGED <<outside, startup, captured, cache>>
    PROVE  BindingInv'
<1>1. /\ cache' \in Seq([key : Indexes, index : Indexes]) /\ Len(cache') <= MaxCached
      /\ CacheIsByFingerprint'
  BY DEF BindingInv, TypeOK, CacheIsByFingerprint
<1> QED BY <1>1, OneCallMoves

\* ...and keeps asking for what it asked for.
LEMMA CallGoesOn ==
    ASSUME BindingInv, NEW c \in Calls, NEW p \in Progress, call[c].phase # "ok",
           p.op = call[c].op, p.wanted = call[c].wanted,
           call' = [call EXCEPT ![c] = p], CallIsSound(p),
           UNCHANGED <<outside, startup, captured, cache>>
    PROVE  BindingInv'
<1>1. p.op = "inspect" => IsOfASearch(p.wanted)
  BY SoundCallByCall DEF BindingInv
<1> QED BY <1>1, OneCallMovesAlone

\* The same for a call of which nothing changes but the phase.
LEMMA PhaseMoves ==
    ASSUME BindingInv, NEW c \in Calls, NEW phase \in Phases, call[c].phase # "ok",
           Reaches(c, phase), CallIsSound([call[c] EXCEPT !.phase = phase]),
           UNCHANGED <<outside, startup, captured, cache>>
    PROVE  BindingInv'
<1> DEFINE p == [call[c] EXCEPT !.phase = phase]
<1>1. call[c] \in Progress
  BY DEF BindingInv, TypeOK
<1>2. p \in Progress /\ p.op = call[c].op /\ p.wanted = call[c].wanted
  BY <1>1 DEF Progress
<1>3. call' = [call EXCEPT ![c] = p]
  BY DEF Reaches
<1> HIDE DEF p
<1>4. CallIsSound(p)
  BY DEF p
<1> QED BY <1>2, <1>3, <1>4, CallGoesOn

LEMMA BeginStep ==
    ASSUME BindingInv, NEW c \in Calls, Begin(c)
    PROVE  BindingInv'
<1>1. PICK op \in {"search", "inspect"}, profile \in Profiles,
          implicit \in BOOLEAN, executing \in BOOLEAN :
          /\ implicit => profile = "running"
          /\ \E wanted \in Wanted(op) :
                call' = [call EXCEPT ![c] = Asked(op, profile, implicit, executing, wanted)]
  BY Zenon DEF Begin
<1>2. PICK wanted \in Wanted(op) :
          call' = [call EXCEPT ![c] = Asked(op, profile, implicit, executing, wanted)]
  BY <1>1
<1> DEFINE p == Asked(op, profile, implicit, executing, wanted)
<1>3. op = "inspect" => IsOfASearch(wanted)
  BY DEF IsOfASearch, Wanted
<1>4. wanted \in Indexes
  <2>1. \A d \in Calls : call[d].index \in Indexes
    BY DEF BindingInv, TypeOK, Progress
  <2>2. NoIndex \in Indexes
    BY IdleIsProgress DEF Idle, Progress
  <2> QED BY <2>1, <2>2 DEF Wanted
<1>5. /\ p.op = op /\ p.wanted = wanted /\ p.implicit = implicit /\ p.live = {}
      /\ p.phase \in {"bound", "proving", "unavailable"}
  BY DEF Idle, Asked
<1>6. p \in Progress
  BY <1>4, IdleIsProgress DEF Asked, Progress, Phases
<1> HIDE DEF p
<1>7. CallIsSound(p)
  BY <1>5 DEF CallIsSound
<1>8. call[c].phase # "ok" /\ UNCHANGED <<outside, startup, captured, cache>>
  BY DEF Begin
<1>9. call' = [call EXCEPT ![c] = p]
  BY <1>2 DEF p
<1> QED BY <1>3, <1>5, <1>6, <1>7, <1>8, <1>9, OneCallMovesAlone

LEMMA ProveStep ==
    ASSUME BindingInv, NEW c \in Calls, Prove(c)
    PROVE  BindingInv'
<1>1. /\ call[c].phase = "proving" /\ CallIsSound(call[c])
      /\ UNCHANGED <<outside, startup, captured, cache>>
  BY SoundCallByCall DEF BindingInv, Prove
<1>2. call[c] \in Progress /\ startup \in {{}} \cup {{identity} : identity \in Identities}
  BY DEF BindingInv, TypeOK
<1>3. PICK phase \in Phases :
          Reaches(c, phase) /\ phase \in {"unavailable", "changed", "bound"}
  BY DEF Prove, Phases
<1>4. CallIsSound([call[c] EXCEPT !.phase = phase])
  BY <1>1, <1>2, <1>3 DEF CallIsSound, Progress
<1> QED BY <1>1, <1>3, <1>4, PhaseMoves

LEMMA ResolveTargetStep ==
    ASSUME BindingInv, NEW c \in Calls, ResolveTarget(c)
    PROVE  BindingInv'
<1>1. /\ call[c].phase = "bound" /\ CallIsSound(call[c]) /\ call[c] \in Progress
      /\ UNCHANGED <<outside, startup, captured, cache>>
  BY SoundCallByCall DEF BindingInv, TypeOK, ResolveTarget
<1>2. CASE Reaches(c, "failed")
  <2>1. CallIsSound([call[c] EXCEPT !.phase = "failed"]) /\ "failed" \in Phases
    BY <1>1 DEF CallIsSound, Progress, Phases
  <2> QED BY <1>1, <1>2, <2>1, PhaseMoves
<1>3. CASE call' = [call EXCEPT ![c].snapshot = Snapshot(call[c].profile),
                                ![c].phase = "resolved"]
  <2> DEFINE snapshot == Snapshot(call[c].profile)
             p == [call[c] EXCEPT !.snapshot = snapshot, !.phase = "resolved"]
  <2>1. call' = [call EXCEPT ![c] = p]
    BY <1>3 DEF BindingInv, TypeOK
  <2>2. snapshot \in [profile : Profiles, target : Epochs, lifecycle : Epochs]
    BY <1>1, BindingAssumption DEF BindingInv, TypeOK, Progress, Snapshot, Profiles, Epochs
  <2> HIDE DEF snapshot
  <2>3. p \in Progress /\ p.op = call[c].op /\ p.wanted = call[c].wanted
    BY <1>1, <2>2 DEF Progress, Phases
  <2>4. CallIsSound(p)
    BY <1>1 DEF CallIsSound, Progress
  <2> HIDE DEF p
  <2> QED BY <1>1, <2>1, <2>3, <2>4, CallGoesOn
<1> QED BY <1>2, <1>3 DEF ResolveTarget

LEMMA AcquireStep ==
    ASSUME BindingInv, NEW c \in Calls, Acquire(c)
    PROVE  BindingInv'
<1>1. /\ call[c].phase = "resolved" /\ CallIsSound(call[c]) /\ call[c] \in Progress
      /\ UNCHANGED <<outside, startup, captured, cache>>
  BY SoundCallByCall DEF BindingInv, TypeOK, Acquire
<1>2. CASE Reaches(c, "failed")
  <2>1. CallIsSound([call[c] EXCEPT !.phase = "failed"]) /\ "failed" \in Phases
    BY <1>1 DEF CallIsSound, Progress, Phases
  <2> QED BY <1>1, <1>2, <2>1, PhaseMoves
<1>3. CASE call' = [call EXCEPT ![c].evidence = disk.evidence, ![c].phase = "acquired"]
  <2> DEFINE p == [call[c] EXCEPT !.evidence = disk.evidence, !.phase = "acquired"]
  <2>1. call' = [call EXCEPT ![c] = p]
    BY <1>3 DEF BindingInv, TypeOK
  <2>2. disk.evidence \in Epochs
    BY DEF BindingInv, TypeOK
  <2>3. p \in Progress /\ p.op = call[c].op /\ p.wanted = call[c].wanted
    BY <1>1, <2>2 DEF Progress, Phases
  <2>4. CallIsSound(p)
    BY <1>1 DEF CallIsSound, Progress
  <2> HIDE DEF p
  <2> QED BY <1>1, <2>1, <2>3, <2>4, CallGoesOn
<1> QED BY <1>2, <1>3 DEF Acquire

\* The catalog is read for a snapshot of the mount epoch only.
LEMMA EnrichStep ==
    ASSUME BindingInv, NEW c \in Calls, Enrich(c)
    PROVE  BindingInv'
<1>1. /\ call[c].phase = "acquired" /\ CallIsSound(call[c]) /\ call[c] \in Progress
      /\ UNCHANGED <<outside, startup, captured, cache>>
  BY SoundCallByCall DEF BindingInv, TypeOK, Enrich
<1>2. CASE Reaches(c, "failed")
  <2>1. CallIsSound([call[c] EXCEPT !.phase = "failed"]) /\ "failed" \in Phases
    BY <1>1 DEF CallIsSound, Progress, Phases
  <2> QED BY <1>1, <1>2, <2>1, PhaseMoves
<1>3. ASSUME NEW live \in Lives,
             call' = [call EXCEPT ![c].live = live, ![c].phase = "enriched"],
             live # {} => /\ captured /\ startup = {Identity(call[c].snapshot)}
                          /\ call[c].snapshot.profile = "running"
      PROVE  BindingInv'
  <2> DEFINE p == [call[c] EXCEPT !.live = live, !.phase = "enriched"]
  <2>1. call' = [call EXCEPT ![c] = p]
    BY <1>3 DEF BindingInv, TypeOK
  <2>2. p \in Progress /\ p.op = call[c].op /\ p.wanted = call[c].wanted
    BY <1>1 DEF Progress, Phases
  <2>3. CallIsSound(p)
    BY <1>1, <1>3 DEF CallIsSound, Progress
  <2> HIDE DEF p
  <2> QED BY <1>1, <2>1, <2>2, <2>3, CallGoesOn
<1>4. CASE call' = [call EXCEPT ![c].live = {}, ![c].phase = "enriched"]
  <2>1. {} \in Lives
    BY DEF Lives
  <2> QED BY <1>3, <1>4, <2>1
<1>5. CASE /\ HasEnrichment(c) /\ Matches(call[c].snapshot)
           /\ call' = [call EXCEPT ![c].live = {catalog}, ![c].phase = "enriched"]
  <2>1. captured
    BY <1>5 DEF Enrich
  <2>2. startup = {Identity(call[c].snapshot)}
    BY <1>5 DEF Matches
  <2>3. call[c].snapshot.profile = "running"
    <3>1. host \in Hosts /\ ProvenProfile(host.argv) # <<>>
      BY <1>5 DEF Matches, Launched, BindingInv, TypeOK
    <3>2. <<call[c].snapshot.profile>> = <<"running">>
      BY <1>5, <3>1, LaunchedHostsRunTheProfile DEF Matches
    <3> QED BY <3>2
  <2>4. {catalog} \in Lives
    BY DEF BindingInv, TypeOK, Lives
  <2> QED BY <1>3, <1>5, <2>1, <2>2, <2>3, <2>4
<1> QED BY <1>2, <1>4, <1>5 DEF Enrich

\* The Contract Index of a call is one.
LEMMA IndexOfProgress ==
    ASSUME NEW p \in Progress
    PROVE  IndexOf(p.snapshot, p.evidence, p.live) \in Indexes
<1>1. /\ p.snapshot.profile \in Profiles /\ p.snapshot.target \in Epochs
      /\ p.evidence \in Epochs /\ p.live \in Lives
  BY DEF Progress
<1> QED BY <1>1 DEF IndexOf, Indexes

\* A new entry is the last one, and the oldest makes room for it.
LEMMA TrimmedCache ==
    ASSUME BindingInv, NEW index \in Indexes,
           cache' = Trimmed(Append(cache, [key |-> KeyOf(index), index |-> index]))
    PROVE  /\ cache' \in Seq([key : Indexes, index : Indexes]) /\ Len(cache') <= MaxCached
           /\ CacheIsByFingerprint'
<1> DEFINE Entries == [key : Indexes, index : Indexes]
           entry == [key |-> index, index |-> index]
           longer == Append(cache, entry)
<1>1. /\ cache \in Seq(Entries) /\ Len(cache) <= MaxCached /\ MaxCached \in Nat \ {0}
      /\ \A i \in 1..Len(cache) : cache[i].key = cache[i].index
  BY BindingAssumption DEF BindingInv, TypeOK, CacheIsByFingerprint
<1>2. entry \in Entries /\ entry.key = entry.index
  OBVIOUS
<1> HIDE DEF Entries, entry
<1>3. /\ longer \in Seq(Entries) /\ Len(longer) = Len(cache) + 1
      /\ \A i \in 1..Len(longer) : longer[i] = IF i <= Len(cache) THEN cache[i] ELSE entry
  BY <1>1, <1>2
<1>4. \A i \in 1..Len(longer) : longer[i].key = longer[i].index
  BY <1>1, <1>2, <1>3
<1>5. cache' = IF Len(longer) > MaxCached THEN Tail(longer) ELSE longer
  BY DEF Trimmed, KeyOf, entry
<1> HIDE DEF longer
<1>6. CASE Len(longer) > MaxCached
  <2>1. /\ Tail(longer) \in Seq(Entries) /\ Len(Tail(longer)) = Len(longer) - 1
        /\ \A i \in 1..Len(Tail(longer)) : Tail(longer)[i] = longer[i + 1]
    BY <1>1, <1>3
  <2>2. cache' = Tail(longer) /\ Len(cache') <= MaxCached
    BY <1>1, <1>3, <1>5, <1>6, <2>1
  <2>3. \A i \in 1..Len(cache') : i + 1 \in 1..Len(longer) /\ cache'[i] = longer[i + 1]
    <3>1. Len(longer) \in Nat /\ Len(cache') = Len(longer) - 1
      BY <1>3, <2>1, <2>2
    <3> QED BY <3>1, <2>1, <2>2
  <2>4. CacheIsByFingerprint'
    BY <1>4, <2>3 DEF CacheIsByFingerprint
  <2> QED BY <2>1, <2>2, <2>4 DEF Entries
<1>7. CASE ~(Len(longer) > MaxCached)
  <2>1. cache' = longer /\ Len(cache') <= MaxCached
    BY <1>1, <1>3, <1>5, <1>7
  <2> QED BY <1>3, <1>4, <2>1 DEF CacheIsByFingerprint, Entries
<1> QED BY <1>6, <1>7

LEMMA SearchStep ==
    ASSUME BindingInv, NEW c \in Calls, Search(c)
    PROVE  BindingInv'
<1> DEFINE index == IndexOf(call[c].snapshot, call[c].evidence, call[c].live)
           p == [call[c] EXCEPT !.index = index, !.searched = index, !.phase = "ok"]
<1>1. /\ call[c].phase = "enriched" /\ call[c].op = "search"
      /\ CallIsSound(call[c]) /\ call[c] \in Progress
      /\ UNCHANGED <<outside, startup, captured>>
  BY SoundCallByCall DEF BindingInv, TypeOK, Search
<1>2. index \in Indexes
  BY <1>1, IndexOfProgress
<1>3. /\ call' = [call EXCEPT ![c] = p]
      /\ \/ cache' = cache
         \/ cache' = Trimmed(Append(cache, [key |-> KeyOf(index), index |-> index]))
  <2>1. CASE \E i \in Cached(index) :
                 /\ call' = [call EXCEPT ![c].index = index, ![c].searched = cache[i].index,
                                         ![c].phase = "ok"]
                 /\ UNCHANGED cache
    <3>1. PICK i \in Cached(index) :
                 /\ call' = [call EXCEPT ![c].index = index, ![c].searched = cache[i].index,
                                         ![c].phase = "ok"]
                 /\ UNCHANGED cache
      BY <2>1
    <3>2. cache[i].index = index
      BY DEF Cached, KeyOf, BindingInv, TypeOK, CacheIsByFingerprint
    <3> HIDE DEF index
    <3> QED BY <3>1, <3>2 DEF BindingInv, TypeOK
  <2>2. CASE /\ call' = [call EXCEPT ![c].index = index, ![c].searched = index, ![c].phase = "ok"]
             /\ cache' = Trimmed(Append(cache, [key |-> KeyOf(index), index |-> index]))
    <3> HIDE DEF index
    <3> QED BY <2>2 DEF BindingInv, TypeOK
  <2> QED BY <2>1, <2>2 DEF Search
<1>4. /\ cache' \in Seq([key : Indexes, index : Indexes]) /\ Len(cache') <= MaxCached
      /\ CacheIsByFingerprint'
  <2>1. CASE cache' = cache
    BY <2>1 DEF BindingInv, TypeOK, CacheIsByFingerprint
  <2> HIDE DEF index
  <2> QED BY <1>2, <1>3, <2>1, TrimmedCache
<1>5. /\ p \in Progress /\ p.op = "search"
      /\ CallIsSound(p)
  <2>1. /\ p.index = index /\ p.searched = index /\ p.snapshot = call[c].snapshot
        /\ p.evidence = call[c].evidence /\ p.live = call[c].live /\ p.op = "search"
        /\ p.phase = "ok" /\ p.implicit = call[c].implicit
    BY <1>1 DEF Progress
  <2>2. p \in Progress
    <3> HIDE DEF index
    <3> QED BY <1>1, <1>2 DEF Progress, Phases
  <2>3. index = IndexOf(p.snapshot, p.evidence, p.live)
    BY <2>1
  <2> HIDE DEF p, index
  <2>4. CallIsSound(p)
    BY <1>1, <2>1, <2>3 DEF CallIsSound
  <2> QED BY <2>1, <2>2, <2>4
<1> HIDE DEF p
<1> QED BY <1>1, <1>3, <1>4, <1>5, OneCallMoves

LEMMA InspectStep ==
    ASSUME BindingInv, NEW c \in Calls, Inspect(c)
    PROVE  BindingInv'
<1> DEFINE index == IndexOf(call[c].snapshot, call[c].evidence, call[c].live)
           phase == IF index = call[c].wanted THEN "ok" ELSE "indexStale"
           p == [call[c] EXCEPT !.index = index, !.phase = phase]
<1>1. /\ call[c].phase = "enriched" /\ call[c].op = "inspect"
      /\ CallIsSound(call[c]) /\ call[c] \in Progress
      /\ UNCHANGED <<outside, startup, captured, cache>>
  BY SoundCallByCall DEF BindingInv, TypeOK, Inspect
<1>2. index \in Indexes
  BY <1>1, IndexOfProgress
<1>3. call' = [call EXCEPT ![c] = p]
  <2>1. call' = [call EXCEPT ![c].index = index, ![c].phase = phase]
    BY DEF Inspect
  <2> HIDE DEF index, phase
  <2> QED BY <2>1 DEF BindingInv, TypeOK
<1>4. phase \in {"ok", "indexStale"} /\ (phase = "ok" => index = call[c].wanted)
  OBVIOUS
<1> HIDE DEF phase
<1>5. /\ p.index = index /\ p.snapshot = call[c].snapshot /\ p.wanted = call[c].wanted
      /\ p.evidence = call[c].evidence /\ p.live = call[c].live /\ p.op = call[c].op
      /\ p.phase = phase /\ p.implicit = call[c].implicit
  BY <1>1 DEF Progress
<1>6. p \in Progress
  <2> HIDE DEF index
  <2> QED BY <1>1, <1>2, <1>4 DEF Progress, Phases
<1>7. index = IndexOf(p.snapshot, p.evidence, p.live)
  BY <1>5
<1> HIDE DEF p, index
<1>8. CallIsSound(p)
  BY <1>1, <1>4, <1>5, <1>7 DEF CallIsSound
<1> QED BY <1>1, <1>3, <1>5, <1>6, <1>8, CallGoesOn

-----------------------------------------------------------------------------
\* A change outside the calls leaves them what they were, and nothing live has
\* been read before the startup is captured.
LEMMA CallsAreLeft ==
    ASSUME BindingInv, TypeOK', UNCHANGED <<call, cache>>,
           (startup' = startup /\ captured' = captured) \/ ~captured
    PROVE  BindingInv'
<1>1. LiveComesLast' /\ LiveIsOfTheMountEpoch'
  BY DEF BindingInv, LiveComesLast, LiveIsOfTheMountEpoch
<1>2. IndexIsOfTheCall' /\ InspectionIsOfASearch'
  BY DEF BindingInv, IndexIsOfTheCall, InspectionIsOfASearch
<1>3. CacheIsByFingerprint' /\ SearchesItsOwnIndex'
  BY DEF BindingInv, CacheIsByFingerprint, SearchesItsOwnIndex
<1> QED BY <1>1, <1>2, <1>3 DEF BindingInv

LEMMA CaptureStep ==
    ASSUME BindingInv, Capture
    PROVE  BindingInv'
<1>1. /\ ~captured /\ captured' = TRUE /\ UNCHANGED <<outside, call, cache>>
      /\ startup' = {} \/ startup' = {Identity(disk)}
  BY DEF Capture
<1>2. Identity(disk) \in Identities
  BY DEF BindingInv, TypeOK, Identity, Identities
<1>3. startup' \in {{}} \cup {{identity} : identity \in Identities}
  BY <1>1, <1>2
<1>4. TypeOK'
  BY <1>1, <1>3 DEF BindingInv, TypeOK, outside
<1> QED BY <1>1, <1>4, CallsAreLeft

LEMMA ChangeDiskStep ==
    ASSUME BindingInv, ChangeDisk
    PROVE  BindingInv'
<1>1. /\ changes < MaxChanges /\ changes' = changes + 1
      /\ UNCHANGED <<host, catalog, startup, captured, call, cache>>
  BY DEF ChangeDisk
<1>2. PICK axis \in {"target", "lifecycle", "evidence"} :
          \E epoch \in Epochs \ {disk[axis]} : disk' = [disk EXCEPT ![axis] = epoch]
  BY DEF ChangeDisk
<1>3. disk' \in [target : Epochs, lifecycle : Epochs, evidence : Epochs]
  BY <1>2 DEF BindingInv, TypeOK
<1>4. changes' \in 0..MaxChanges
  BY <1>1, BindingAssumption DEF BindingInv, TypeOK
<1>5. TypeOK'
  BY <1>1, <1>3, <1>4 DEF BindingInv, TypeOK
<1> QED BY <1>1, <1>5, CallsAreLeft

LEMMA ChangeCatalogStep ==
    ASSUME BindingInv, ChangeCatalog
    PROVE  BindingInv'
<1>1. /\ changes < MaxChanges /\ changes' = changes + 1 /\ catalog' \in Epochs
      /\ UNCHANGED <<host, disk, startup, captured, call, cache>>
  BY DEF ChangeCatalog
<1>2. TypeOK'
  BY <1>1, BindingAssumption DEF BindingInv, TypeOK
<1> QED BY <1>1, <1>2, CallsAreLeft

LEMMA NextBindingInv == BindingInv /\ [Next]_vars => BindingInv'
<1> SUFFICES ASSUME BindingInv, [Next]_vars PROVE BindingInv'
  OBVIOUS
<1>1. CASE Capture
  BY <1>1, CaptureStep
<1>2. ASSUME NEW c \in Calls, Begin(c) PROVE BindingInv'
  BY <1>2, BeginStep
<1>3. ASSUME NEW c \in Calls, Prove(c) PROVE BindingInv'
  BY <1>3, ProveStep
<1>4. ASSUME NEW c \in Calls, ResolveTarget(c) PROVE BindingInv'
  BY <1>4, ResolveTargetStep
<1>5. ASSUME NEW c \in Calls, Acquire(c) PROVE BindingInv'
  BY <1>5, AcquireStep
<1>6. ASSUME NEW c \in Calls, Enrich(c) PROVE BindingInv'
  BY <1>6, EnrichStep
<1>7. ASSUME NEW c \in Calls, Search(c) PROVE BindingInv'
  BY <1>7, SearchStep
<1>8. ASSUME NEW c \in Calls, Inspect(c) PROVE BindingInv'
  BY <1>8, InspectStep
<1>9. CASE ChangeDisk
  BY <1>9, ChangeDiskStep
<1>10. CASE ChangeCatalog
  BY <1>10, ChangeCatalogStep
<1>11. CASE UNCHANGED vars
  BY <1>11 DEF vars, BindingInv, TypeOK, LiveComesLast, LiveIsOfTheMountEpoch, IndexIsOfTheCall,
       InspectionIsOfASearch, CacheIsByFingerprint, SearchesItsOwnIndex
<1> QED BY <1>1, <1>2, <1>3, <1>4, <1>5, <1>6, <1>7, <1>8, <1>9, <1>10, <1>11 DEF Next

\* The invariant holds, whatever the calls, the disk and the Host do.
THEOREM BindingInvariance == Spec => []BindingInv
<1> QED BY InitBindingInv, NextBindingInv, PTL DEF Spec

\* Every variable keeps to its type.
THEOREM BindingTypeCorrect == Spec => []TypeOK
<1>1. BindingInv => TypeOK
  BY DEF BindingInv
<1> QED BY <1>1, BindingInvariance, PTL

\* Live evidence joins only an answer about the target Toolchain saw when it
\* was mounted, in composition and lifecycle.
THEOREM LiveStaysOfTheMountEpoch == Spec => []LiveIsOfTheMountEpoch
<1>1. BindingInv => LiveIsOfTheMountEpoch
  BY DEF BindingInv
<1> QED BY <1>1, BindingInvariance, PTL

\* An inspection shows what its search was about, and a search is answered by
\* its own index, for any size of the cache: a fingerprint binds profile,
\* composition, declarations and live catalog, and the key is a fingerprint.
THEOREM SearchesAreContinued == Spec => []SearchIsContinued
<1>1. BindingInv => InspectionContinuesSearch
  <2> SUFFICES ASSUME BindingInv, NEW c \in Calls, call[c].op = "inspect", call[c].phase = "ok"
               PROVE  \E d \in Calls :
                          /\ call[d].op = "search" /\ call[d].phase = "ok"
                          /\ call[d].snapshot.profile = call[c].snapshot.profile
                          /\ call[d].snapshot.target = call[c].snapshot.target
                          /\ call[d].evidence = call[c].evidence
                          /\ call[d].live = call[c].live
    BY DEF InspectionContinuesSearch
  <2>1. PICK d \in Calls : /\ call[d].op = "search" /\ call[d].phase = "ok"
                           /\ call[c].wanted = call[d].index
    BY DEF BindingInv, InspectionIsOfASearch
  <2>2. IndexOf(call[c].snapshot, call[c].evidence, call[c].live)
            = IndexOf(call[d].snapshot, call[d].evidence, call[d].live)
    BY <2>1 DEF BindingInv, InspectionIsOfASearch, IndexIsOfTheCall
  <2> QED BY <2>1, <2>2 DEF IndexOf
<1>2. BindingInv => SearchIsContinued
  BY <1>1 DEF BindingInv, SearchIsContinued
<1> QED BY <1>2, BindingInvariance, PTL
=============================================================================
