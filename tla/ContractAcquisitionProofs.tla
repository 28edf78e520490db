----------------------- MODULE ContractAcquisitionProofs -----------------------
(***************************************************************************)
(* Theorems about the acquisition of a target and of the packages of its   *)
(* contracts, for every budget and for a disk that changes any number of   *)
(* times.                                                                  *)
(***************************************************************************)
EXTENDS ContractAcquisition, FiniteSetTheorems, TLAPS

Contents == {"v1", "v1b", "v2"} \cup Bad
Manifests == ManifestFiles \cup ClosureFiles
ManifestRoles == {<<"bundle", "b">>, <<"dependency", "b">>, <<"bundle", "d">>,
                  <<"dependency", "d">>, <<"dsh", "-">>}
Packages == [name : Authority, file : Manifests, content : Contents]

\* Bytes only move on: a content that was left does not come back.
Rank(content) == CASE content = "v1" -> 0 [] content = "v1b" -> 1 [] content = "v2" -> 2
                   [] OTHER -> 3
Reached(old, new) == new = old \/ Rank(old) < Rank(new)

DiskTypeOK ==
    /\ disk \in [Files -> Contents \cup DOMAIN Profiles]
    /\ \A file \in Manifests : disk[file] \in Contents
    /\ before \in [Files -> Contents \cup DOMAIN Profiles]
    /\ changes \in Nat
    /\ linked \in BOOLEAN

ReadingTypeOK ==
    /\ stage \in Nat
    /\ stage = 0 => target = "none"
    /\ \A role \in ManifestRoles : Tried(role) \in Nat /\ Tried(role) < Len(Candidates(role))

WalkTypeOK ==
    /\ phase \in {"target", "roots", "closure", "explicit", "discovered", "done"}
    /\ todo \subseteq PackageRoles
    /\ phase = "roots" => todo \subseteq Roots
    /\ queue \in Seq(Packages)
    /\ visited \subseteq Authority
    /\ DOMAIN discovered \subseteq Authority
    /\ \A name \in DOMAIN discovered :
           discovered[name] \in Packages /\ discovered[name].name = name
    /\ resolved # <<>> => resolved[1] \in Authority /\ resolved[2] \in Manifests

\* The contracts wait for the target, and an answer is the end.
TargetComesFirst ==
    /\ phase # "target" => target = "ok"
    /\ answer = "none" <=> phase # "done"
    /\ phase = "target" =>
           /\ todo = {} /\ queue = <<>> /\ resolved = <<>>
           /\ visited = {} /\ DOMAIN discovered = {} /\ contracts = {}

\* A manifest that was read was on the disk; the disk of the resolution lies
\* between that read and the disk of now.
ReadsAreOfTheDisk ==
    \A role \in PackageRoles :
        /\ found[role].file \in ManifestFiles /\ found[role].content \in Contents
        /\ Reached(found[role].content, disk[Real(found[role].file)])
        /\ target = "ok" =>
               /\ Reached(found[role].content, before[Real(found[role].file)])
               /\ Reached(before[Real(found[role].file)], disk[Real(found[role].file)])

\* What was compared a last time had not changed since the resolution.
InTheEnd == phase \in {"explicit", "discovered"} \/ answer = "ok"
ComparedIsOfThatMoment ==
    InTheEnd => \A role \in PackageRoles \ todo :
                    before[Real(found[role].file)] = found[role].content

NamesIn(roles) == {NameOf(role) : role \in roles}
ContractsFollowTheManifests ==
    /\ phase \in {"roots", "closure"} => contracts = {}
    /\ phase = "explicit" => contracts = Explicit \ NamesIn(todo)
    /\ phase = "discovered" \/ answer = "ok" =>
           /\ todo = {}
           /\ Explicit \subseteq contracts
           /\ contracts \subseteq Explicit \cup DOMAIN discovered
    /\ answer = "ok" => DOMAIN discovered \subseteq contracts

\* The packages of an answer stay within the budget while they are found.
Walking == phase \in {"roots", "closure"} \/ InTheEnd
Budgeted ==
    Walking =>
        /\ Cardinality(Explicit) + Cardinality(DOMAIN discovered) <= MaxPackages
        /\ resolved # <<>> => ~OverBudget(resolved[1])

\* A name that needs no search any more has a package: one that is compared
\* again or queued, or one whose dependencies have all been searched.
Queued(name) == \E i \in 1..Len(queue) : queue[i] = ReadPackage(name)
Walked(name) ==
    \A dependency \in DependencyNames(ReadPackage(name)) :
        dependency \in visited \/ <<name, dependency>> \in absent
WalkIsSound ==
    /\ phase = "roots" => DOMAIN discovered = {} /\ resolved = <<>>
    /\ InTheEnd => queue = <<>> /\ resolved = <<>>
    /\ resolved # <<>> => resolved[1] \notin visited
    /\ Walking =>
           /\ \A name \in Explicit \cap Authority :
                  name \in visited \/ (phase = "roots" /\ name \in NamesIn(todo))
           /\ visited \subseteq Explicit \cup DOMAIN discovered
           /\ DOMAIN discovered \subseteq visited \ Explicit
           /\ \A name \in visited :
                  \/ Queued(name) \/ Walked(name)
                  \/ phase = "roots" /\ name \in NamesIn(todo)

\* On a quiet disk every read finds the first of its candidates, with the
\* content it has had from the start.
QuietDisk ==
    /\ \A file \in Files \ {"profile", "r@q", "r@dsh"} : disk[file] = "v1"
    /\ disk["profile"] \in DOMAIN Profiles
    /\ disk["r@q"] = "v2" /\ disk["r@dsh"] \in {"v1", "missing"}
QuietReading ==
    /\ stage \in 0..Len(Stages) /\ DOMAIN tried = {}
    /\ \A i \in 1..(stage - 1) : RolesOf(i) \subseteq DOMAIN found
    /\ \A role \in DOMAIN found : \E i \in 1..stage : role \in RolesOf(i)
    /\ \A role \in DOMAIN found :
           found[role] = [file |-> Candidates(role)[1], content |-> Content(Candidates(role)[1])]
    /\ target = "ok" => stage = Len(Stages) /\ RolesOf(stage) \subseteq DOMAIN found
QuietIsQuiet ==
    changes = 0 =>
        /\ QuietDisk /\ QuietReading
        /\ resolved # <<>> => Content(resolved[2]) \in {"v1", "v2"}

AcquisitionInv ==
    /\ DiskTypeOK /\ ReadingTypeOK /\ WalkTypeOK
    /\ TargetComesFirst /\ ReadsAreOfTheDisk /\ ComparedIsOfThatMoment
    /\ ContractsFollowTheManifests /\ Budgeted /\ WalkIsSound
    /\ QuietIsQuiet /\ QuietDiskIsRead

-----------------------------------------------------------------------------
(***************************************************************************)
(* The operators of the model.                                             *)
(***************************************************************************)

\* Reached is a partial order.
LEMMA ReachedIsAnOrder ==
    ASSUME NEW a, NEW b, NEW c
    PROVE  /\ Rank(a) \in 0..3
           /\ Reached(a, a)
           /\ Reached(a, b) /\ Reached(b, c) => Reached(a, c)
           /\ Reached(a, b) /\ Reached(b, a) => a = b
<1>1. Rank(a) \in 0..3 /\ Rank(b) \in 0..3 /\ Rank(c) \in 0..3
  BY DEF Rank
<1> QED BY <1>1 DEF Reached

LEMMA FileSets ==
    /\ ManifestFiles \subseteq Manifests /\ Manifests \subseteq Files
    /\ "profile" \in Files /\ "profile" \notin Manifests
    /\ PatchFiles \subseteq Files /\ Manifests \cap PatchFiles = {}
BY DEF Manifests, ManifestFiles, ClosureFiles, Files, PatchFiles

\* A link leads from a manifest to a manifest.
LEMMA RealFiles ==
    ASSUME linked \in BOOLEAN
    PROVE  /\ \A file \in Manifests : Real(file) \in Manifests
           /\ \A file \in Files : Real(file) \in Files
BY DEF Real, Manifests, ManifestFiles, ClosureFiles, Files, PatchFiles

LEMMA OrderIsOfManifestRoles ==
    /\ {Order[i] : i \in DOMAIN Order} = ManifestRoles
    /\ PackageRoles = ManifestRoles \cap DOMAIN found
<1>1. DOMAIN Order = 1..5
  BY DEF Order
<1>2. /\ Order[1] = <<"bundle", "b">> /\ Order[2] = <<"dependency", "b">>
      /\ Order[3] = <<"bundle", "d">> /\ Order[4] = <<"dependency", "d">>
      /\ Order[5] = <<"dsh", "-">>
  BY DEF Order
<1>3. 1..5 = {1, 2, 3, 4, 5}
  OBVIOUS
<1>4. {Order[i] : i \in DOMAIN Order} = ManifestRoles
  BY <1>1, <1>2, <1>3 DEF ManifestRoles
<1> QED BY <1>4 DEF PackageRoles

\* The parts of a role.
LEMMA PartsOfRoles ==
    ASSUME NEW role \in ManifestRoles
    PROVE  /\ role[1] \in {"bundle", "dependency", "dsh"}
           /\ role[1] \in {"bundle", "dependency"} => role[2] \in {"b", "d"}
           /\ role[1] = "dsh" => role[2] = "-" /\ role = <<"dsh", "-">>
           /\ role = <<role[1], role[2]>>
<1>1. CASE role = <<"bundle", "b">>
  BY <1>1
<1>2. CASE role = <<"bundle", "d">>
  BY <1>2
<1>3. CASE role = <<"dependency", "b">>
  BY <1>3
<1>4. CASE role = <<"dependency", "d">>
  BY <1>4
<1>5. CASE role = <<"dsh", "-">>
  BY <1>5
<1> QED BY <1>1, <1>2, <1>3, <1>4, <1>5 DEF ManifestRoles

LEMMA CandidatesOfManifests ==
    ASSUME NEW role \in ManifestRoles
    PROVE  /\ Len(Candidates(role)) \in {1, 2}
           /\ \A i \in 1..Len(Candidates(role)) : Candidates(role)[i] \in ManifestFiles
<1>1. CASE role = <<"bundle", "b">>
  <2>1. Candidates(role) = <<"b@dsh", "b@profile">>
    BY <1>1 DEF Candidates
  <2> QED BY <2>1 DEF ManifestFiles
<1>2. CASE role # <<"bundle", "b">> /\ role[1] \in {"bundle", "dependency"}
  <2>1. Candidates(role) = <<InProfile[role[2]]>>
    BY <1>2 DEF Candidates
  <2>2. InProfile[role[2]] \in ManifestFiles
    <3>1. InProfile["b"] = "b@profile" /\ InProfile["d"] = "d@profile"
      BY DEF InProfile
    <3>2. role[2] \in {"b", "d"}
      BY <1>2, PartsOfRoles
    <3> QED BY <3>1, <3>2 DEF ManifestFiles
  <2> QED BY <2>1, <2>2
<1>3. CASE role # <<"bundle", "b">> /\ role[1] = "dsh"
  <2>1. Candidates(role) = <<"dsh">>
    BY <1>3 DEF Candidates
  <2> QED BY <2>1 DEF ManifestFiles
<1> QED BY <1>1, <1>2, <1>3, PartsOfRoles

LEMMA NamesOfManifests ==
    /\ \A role \in ManifestRoles : NameOf(role) \in {"dsh", "b", "d"}
    /\ Explicit \subseteq {"dsh", "b", "d"}
<1>1. ASSUME NEW role \in ManifestRoles
      PROVE  NameOf(role) \in {"dsh", "b", "d"}
  BY PartsOfRoles DEF NameOf
<1> QED BY <1>1, OrderIsOfManifestRoles DEF Explicit

\* The sets of names are finite, and a table of one more name has one more.
LEMMA NamesAreFew ==
    ASSUME NEW S, S \subseteq Authority \cup {"d"}
    PROVE  IsFiniteSet(S) /\ Cardinality(S) \in Nat
<1>1. IsFiniteSet({}) /\ IsFiniteSet({"dsh"})
  BY FS_EmptySet, FS_Singleton
<1>2. IsFiniteSet({"dsh"} \cup {"b"})
  BY <1>1, FS_AddElement
<1>3. IsFiniteSet(({"dsh"} \cup {"b"}) \cup {"q"})
  BY <1>2, FS_AddElement
<1>4. IsFiniteSet((({"dsh"} \cup {"b"}) \cup {"q"}) \cup {"r"})
  BY <1>3, FS_AddElement
<1>5. IsFiniteSet(((({"dsh"} \cup {"b"}) \cup {"q"}) \cup {"r"}) \cup {"d"})
  BY <1>4, FS_AddElement
<1>6. Authority \cup {"d"} = ((({"dsh"} \cup {"b"}) \cup {"q"}) \cup {"r"}) \cup {"d"}
  BY DEF Authority
<1> QED BY <1>5, <1>6, FS_Subset, FS_CardinalityType

LEMMA DependenciesAreOfTheScope ==
    ASSUME NEW package, package.name \in Authority
    PROVE  DependencyNames(package) \subseteq {"q", "b", "r"}
BY DEF DependencyNames, DependsOn, Authority

-----------------------------------------------------------------------------
(***************************************************************************)
(* The initial states, the changes of the disk and the failures.           *)
(***************************************************************************)

LEMMA InitAcquisitionInv == Init => AcquisitionInv
<1> SUFFICES ASSUME Init PROVE AcquisitionInv
  OBVIOUS
<1>1. PICK profile \in DOMAIN Profiles, hoisted \in {"v1", "missing"} :
         disk = [[file \in Files |-> "v1"] EXCEPT !["profile"] = profile,
                                                  !["r@q"] = "v2", !["r@dsh"] = hoisted]
  BY DEF Init, TargetInit
<1>2. /\ "profile" \in Files /\ "r@q" \in Files /\ "r@dsh" \in Files
      /\ "profile" \notin Manifests
      /\ Manifests \subseteq Files
  BY DEF Files, ClosureFiles, Manifests, ManifestFiles
<1>3. /\ DOMAIN disk = Files /\ disk["profile"] = profile /\ disk["r@q"] = "v2"
      /\ disk["r@dsh"] = hoisted
      /\ \A file \in Files \ {"profile", "r@q", "r@dsh"} : disk[file] = "v1"
  BY <1>1, <1>2
<1>4. DiskTypeOK /\ QuietDisk
  <2>1. \A file \in Manifests : disk[file] \in Contents
    BY <1>2, <1>3 DEF Contents, Bad, Gone
  <2>2. \A file \in Files : disk[file] \in Contents \cup DOMAIN Profiles
    BY <1>2, <1>3 DEF Contents, Bad, Gone
  <2>3. disk \in [Files -> Contents \cup DOMAIN Profiles]
    BY <1>1, <2>2, <1>3
  <2>4. DiskTypeOK
    BY <2>1, <2>3 DEF DiskTypeOK, Init, TargetInit
  <2> QED BY <2>4, <1>3 DEF QuietDisk
<1>5. DOMAIN found = {} /\ DOMAIN tried = {} /\ PackageRoles = {} /\ Explicit = {}
  BY OrderIsOfManifestRoles DEF Init, TargetInit, Explicit
<1>6. ReadingTypeOK
  <2>1. ASSUME NEW role \in ManifestRoles
        PROVE  Tried(role) \in Nat /\ Tried(role) < Len(Candidates(role))
    <3>1. Len(Candidates(role)) \in {1, 2}
      BY CandidatesOfManifests
    <3>2. Tried(role) = 0
      BY <1>5 DEF Tried
    <3> QED BY <3>1, <3>2
  <2> QED BY <2>1 DEF ReadingTypeOK, Init, TargetInit
<1>7. WalkTypeOK
  BY <1>5 DEF WalkTypeOK, Init
<1>8. QuietIsQuiet
  <2>1. \A i \in 1..(stage - 1) : FALSE
    BY DEF Init, TargetInit
  <2>2. 0 \in 0..Len(Stages)
    BY DEF Stages
  <2> QED BY <1>4, <1>5, <2>1, <2>2 DEF QuietIsQuiet, QuietReading, Init, TargetInit
<1>9. /\ TargetComesFirst /\ ReadsAreOfTheDisk /\ ComparedIsOfThatMoment
      /\ ContractsFollowTheManifests /\ Budgeted /\ WalkIsSound /\ QuietDiskIsRead
  BY <1>5 DEF Init, TargetInit, TargetComesFirst, ReadsAreOfTheDisk, ComparedIsOfThatMoment,
       ContractsFollowTheManifests, Budgeted, WalkIsSound, QuietDiskIsRead, InTheEnd, Walking,
       PackageLimit
<1> QED BY <1>4, <1>6, <1>7, <1>8, <1>9 DEF AcquisitionInv

\* What is said of the reads alone.
LEMMA ReadsStay ==
    ASSUME UNCHANGED found
    PROVE  /\ PackageRoles' = PackageRoles /\ Explicit' = Explicit
           /\ \A role : Candidates(role)' = Candidates(role)
           /\ \A name : RolesNamed(name)' = RolesNamed(name)
           /\ \A name : Primary(name)' = Primary(name)
           /\ \A i : RolesOf(i)' = RolesOf(i)
<1>1. PackageRoles' = PackageRoles /\ Explicit' = Explicit
  BY DEF PackageRoles, Explicit
<1>2. \A role : Candidates(role)' = Candidates(role)
  BY DEF Candidates
<1>3. \A name : RolesNamed(name)' = RolesNamed(name)
  BY DEF RolesNamed, PackageRoles
<1>4. \A name : Primary(name)' = Primary(name)
  BY DEF Primary, Package, RolesNamed, PackageRoles, IsFirst
<1>5. \A i : RolesOf(i)' = RolesOf(i)
  BY DEF RolesOf, Composition
<1> QED BY <1>1, <1>2, <1>3, <1>4, <1>5

\* What is said of the walk alone.
LEMMA WalkStays ==
    ASSUME UNCHANGED <<found, contractVars>>
    PROVE  /\ WalkTypeOK' = WalkTypeOK
           /\ ContractsFollowTheManifests' = ContractsFollowTheManifests
           /\ Budgeted' = Budgeted
           /\ WalkIsSound' = WalkIsSound
<1>1. /\ PackageRoles' = PackageRoles /\ Explicit' = Explicit
      /\ \A name : Primary(name)' = Primary(name)
  BY ReadsStay
<1>2. WalkTypeOK' = WalkTypeOK
  BY <1>1 DEF WalkTypeOK, contractVars, Roots
<1>3. ContractsFollowTheManifests' = ContractsFollowTheManifests
  BY <1>1 DEF ContractsFollowTheManifests, contractVars, NamesIn
<1>4. Budgeted' = Budgeted
  BY <1>1 DEF Budgeted, contractVars, Walking, InTheEnd, OverBudget
<1>5. \A name : ReadPackage(name)' = ReadPackage(name)
  BY <1>1 DEF ReadPackage, contractVars
<1>6. \A name : (Queued(name)' <=> Queued(name)) /\ (Walked(name)' <=> Walked(name))
  BY <1>5 DEF Queued, Walked, contractVars
<1>7. WalkIsSound' = WalkIsSound
  BY <1>1, <1>6 DEF WalkIsSound, contractVars, Walking, InTheEnd, NamesIn
<1> QED BY <1>2, <1>3, <1>4, <1>7
LEMMA ContentsMoveOn ==
    ASSUME DiskTypeOK, NEW file \in Files, NEW content \in NewContent(file)
    PROVE  /\ content \in Contents \cup DOMAIN Profiles
           /\ file \in Manifests => content \in Contents /\ Reached(disk[file], content)
<1>1. content \in Gone \cup {"foreign", "junk"} \/ content \in Later(file)
  BY DEF NewContent
<1>2. DOMAIN Profiles = {"plain", "alias", "pair"}
  BY DEF Profiles
<1>3. content \in Contents \cup DOMAIN Profiles
  BY <1>1, <1>2 DEF Later, Contents, Bad, Gone
<1>4. ASSUME file \in Manifests PROVE content \in Contents /\ Reached(disk[file], content)
  <2>1. disk[file] \in Contents
    BY <1>4 DEF DiskTypeOK
  <2>2. disk[file] \notin DOMAIN Profiles
    BY <2>1, <1>2 DEF Contents, Bad, Gone
  <2>3. CASE content \in Later(file)
    <3>1. \/ disk[file] = "v1" /\ content \in {"v1b", "v2"}
          \/ disk[file] = "v1b" /\ content = "v2"
      BY <2>2, <2>3 DEF Later
    <3> QED BY <3>1 DEF Contents, Reached, Rank
  <2>4. CASE content \in Gone \cup {"foreign", "junk"}
    <3>1. CASE disk[file] \in Bad
      <4>1. NewContent(file) = Later(file) /\ Later(file) = {}
        BY <3>1, <2>2 DEF NewContent, Later, Bad, Gone
      <4> QED BY <4>1
    <3>2. CASE disk[file] \in {"v1", "v1b", "v2"}
      <4>1. Rank(content) = 3 /\ Rank(disk[file]) < 3
        BY <3>2, <2>4 DEF Rank, Gone
      <4> QED BY <4>1, <2>4 DEF Contents, Bad, Reached
    <3> QED BY <3>1, <3>2, <2>1 DEF Contents
  <2> QED BY <2>3, <2>4, <1>1
<1> QED BY <1>3, <1>4

LEMMA ChangeStep ==
    ASSUME AcquisitionInv, Change
    PROVE  AcquisitionInv'
<1> USE DEF AcquisitionInv
<1>0. PICK file \in Files : \E content \in NewContent(file) : disk' = [disk EXCEPT ![file] = content]
  BY DEF Change, ChangeFile
<1>1. PICK content \in NewContent(file) : disk' = [disk EXCEPT ![file] = content]
  BY <1>0
<1>2. /\ UNCHANGED <<linked, stage, found, tried, target>> /\ UNCHANGED contractVars
      /\ changes' = changes + 1
  BY DEF Change, ChangeFile
<1>3. PackageRoles' = PackageRoles /\ \A role : Candidates(role)' = Candidates(role)
  BY <1>2, ReadsStay
<1>4. DiskTypeOK'
  BY <1>1, <1>2, ContentsMoveOn DEF DiskTypeOK, contractVars
<1>5. \A f \in Manifests : Reached(disk[f], disk'[f])
  BY <1>1, ContentsMoveOn, ReachedIsAnOrder, FileSets DEF DiskTypeOK
<1>6. ReadingTypeOK'
  BY <1>2, <1>3 DEF ReadingTypeOK, Tried
<1>7. ReadsAreOfTheDisk'
  <2> SUFFICES ASSUME NEW role \in PackageRoles
               PROVE  /\ found[role].file \in ManifestFiles /\ found[role].content \in Contents
                      /\ Reached(found[role].content, disk'[Real(found[role].file)])
                      /\ target = "ok" =>
                             /\ Reached(found[role].content, before[Real(found[role].file)])
                             /\ Reached(before[Real(found[role].file)],
                                        disk'[Real(found[role].file)])
    BY <1>2, <1>3 DEF ReadsAreOfTheDisk, Real, contractVars
  <2>1. Real(found[role].file) \in Manifests
    BY RealFiles, FileSets DEF DiskTypeOK, ReadsAreOfTheDisk
  <2>2. Reached(disk[Real(found[role].file)], disk'[Real(found[role].file)])
    BY <2>1, <1>5
  <2> QED BY <2>2, ReachedIsAnOrder DEF ReadsAreOfTheDisk
<1>8. TargetComesFirst' /\ ComparedIsOfThatMoment'
  BY <1>2, <1>3 DEF TargetComesFirst, ComparedIsOfThatMoment, InTheEnd, Real, contractVars
<1>9. QuietIsQuiet' /\ QuietDiskIsRead'
  BY <1>2 DEF QuietIsQuiet, QuietDiskIsRead, DiskTypeOK
<1> QED BY <1>2, <1>4, <1>6, <1>7, <1>8, <1>9, WalkStays

LEMMA QuietStays ==
    ASSUME UNCHANGED targetVars
    PROVE  /\ \A file : Real(file)' = Real(file) /\ Content(file)' = Content(file)
           /\ QuietDisk' = QuietDisk
           /\ QuietReading' = QuietReading
<1>1. \A file : Real(file)' = Real(file) /\ Content(file)' = Content(file)
  BY DEF Real, Content, targetVars
<1>2. QuietDisk' = QuietDisk
  BY DEF QuietDisk, targetVars
<1>3. /\ \A role : Candidates(role)' = Candidates(role)
      /\ \A i : RolesOf(i)' = RolesOf(i)
  BY ReadsStay DEF targetVars
<1>4. QuietReading' = QuietReading
  BY <1>1, <1>3 DEF QuietReading, targetVars
<1> QED BY <1>1, <1>2, <1>4

\* An error is an end of the contracts; what went before stays what it is.
LEMMA FailsStep ==
    ASSUME AcquisitionInv, NEW code, code \notin {"none", "ok"}, Fails(code), target = "ok",
           UNCHANGED targetVars, QuietDiskIsRead'
    PROVE  AcquisitionInv'
<1> USE DEF AcquisitionInv
<1>1. /\ phase' = "done" /\ answer' = code
      /\ UNCHANGED <<todo, queue, visited, discovered, resolved, contracts, before, absent>>
  BY DEF Fails
<1>2. PackageRoles' = PackageRoles /\ \A role : Candidates(role)' = Candidates(role)
  BY ReadsStay DEF targetVars
<1>3. DiskTypeOK' /\ ReadingTypeOK' /\ ReadsAreOfTheDisk'
  BY <1>1, <1>2 DEF targetVars, DiskTypeOK, ReadingTypeOK, ReadsAreOfTheDisk, Tried, Real
<1>4. WalkTypeOK'
  BY <1>1, <1>2 DEF WalkTypeOK
<1>5. TargetComesFirst'
  BY <1>1 DEF TargetComesFirst, targetVars
<1>6. ~InTheEnd' /\ ~Walking'
  BY <1>1 DEF InTheEnd, Walking
<1>7. ComparedIsOfThatMoment' /\ ContractsFollowTheManifests' /\ Budgeted'
  BY <1>1, <1>6 DEF ComparedIsOfThatMoment, ContractsFollowTheManifests, Budgeted
<1>8. WalkIsSound'
  BY <1>1, <1>6 DEF WalkIsSound
<1>9. QuietIsQuiet'
  BY <1>1, QuietStays DEF QuietIsQuiet, targetVars
<1> QED BY <1>3, <1>4, <1>5, <1>7, <1>8, <1>9
-----------------------------------------------------------------------------
(***************************************************************************)
(* Reading on a quiet disk.                                                *)
(***************************************************************************)

LEMMA TheStages ==
    /\ Len(Stages) = 8
    /\ Stages[1] = "profile" /\ Stages[2] = "dsh" /\ Stages[3] = "profile-patch"
    /\ Stages[4] = "home-patch" /\ Stages[5] = "bundle" /\ Stages[6] = "bundle-patch"
    /\ Stages[7] = "dependency" /\ Stages[8] = "overlay"
BY DEF Stages

LEMMA QuietContents ==
    ASSUME QuietDisk, NEW file \in ManifestFiles \cup PatchFiles
    PROVE  Content(file) = "v1"
<1>1. Real(file) \in ManifestFiles \cup PatchFiles
  BY DEF Real, ManifestFiles, PatchFiles
<1>2. Real(file) \in Files \ {"profile", "r@q", "r@dsh"}
  BY <1>1 DEF Files, ManifestFiles, PatchFiles
<1> QED BY <1>2 DEF QuietDisk, Content

LEMMA RolesOfAKind ==
    ASSUME NEW kind, NEW names, NEW role \in {kind} \X names
    PROVE  role = <<kind, role[2]>> /\ role[1] = kind /\ role[2] \in names
OBVIOUS

LEMMA RolesOfTheStages ==
    /\ RolesOf(1) = {<<"profile", "-">>}
    /\ \A i \in {2, 3, 4, 8} : RolesOf(i) = {<<Stages[i], "-">>}
    /\ RolesOf(5) = {"bundle"} \X Composition.bundles
    /\ RolesOf(6) = {"bundle-patch"} \X Composition.bundles
    /\ RolesOf(7) = {"dependency"} \X Composition.dependencies
BY TheStages DEF RolesOf

LEMMA QuietProgress ==
    ASSUME QuietReading
    PROVE  /\ stage \in 0..8
           /\ \A i \in 1..8 : i < stage => RolesOf(i) \subseteq DOMAIN found
           /\ \A role \in DOMAIN found :
                  /\ found[role].file = Candidates(role)[1]
                  /\ found[role].content = Content(Candidates(role)[1])
<1>1. stage \in 0..8
  BY TheStages DEF QuietReading
<1>2. \A i \in 1..8 : i < stage => i \in 1..(stage - 1)
  BY <1>1
<1>3. \A i \in 1..(stage - 1) : RolesOf(i) \subseteq DOMAIN found
  BY DEF QuietReading
<1>4. \A role \in DOMAIN found :
          found[role] = [file |-> Candidates(role)[1], content |-> Content(Candidates(role)[1])]
  BY DEF QuietReading
<1> QED BY <1>1, <1>2, <1>3, <1>4

\* The composition is that of the profile on the disk.
LEMMA QuietComposition ==
    ASSUME QuietDisk, QuietReading, stage > 1
    PROVE  /\ Composition = Profiles[disk["profile"]]
           /\ Composition.bundles \subseteq {"b", "d"}
           /\ Composition.dependencies \subseteq {"b", "d"}
           /\ "b" \in Composition.dependencies => disk["profile"] = "alias"
<1>1. <<"profile", "-">> \in DOMAIN found
  <2>1. 1 \in 1..8 /\ 1 < stage
    BY QuietProgress
  <2>2. RolesOf(1) \subseteq DOMAIN found
    BY <2>1, QuietProgress
  <2> QED BY <2>2, RolesOfTheStages
<1>2. Candidates(<<"profile", "-">>)[1] = "profile"
  BY DEF Candidates
<1>3. found[<<"profile", "-">>].content = Content("profile")
  BY <1>1, <1>2, QuietProgress
<1>4. Composition = Profiles[disk["profile"]]
  BY <1>3 DEF Composition, Content, Real
<1>5. disk["profile"] \in {"plain", "alias", "pair"}
  BY DEF QuietDisk, Profiles
<1>6. /\ Profiles["plain"] = [bundles |-> {"b"}, dependencies |-> {"d"}]
      /\ Profiles["alias"] = [bundles |-> {"b"}, dependencies |-> {"b"}]
      /\ Profiles["pair"] = [bundles |-> {"b", "d"}, dependencies |-> {}]
  BY DEF Profiles
<1> QED BY <1>4, <1>5, <1>6

\* The first candidate of every read of a stage that was reached is there.
LEMMA QuietCandidates ==
    ASSUME QuietDisk, QuietReading, NEW i \in 1..8, i <= stage, NEW role \in RolesOf(i)
    PROVE  /\ role[1] = Stages[i]
           /\ role[1] \in {"bundle", "bundle-patch", "dependency"} => role[2] \in {"b", "d"}
           /\ role[1] = "profile" => Content(Candidates(role)[1]) \in DOMAIN Profiles
           /\ role[1] # "profile" => Content(Candidates(role)[1]) = "v1"
           /\ role[1] = "bundle-patch" => /\ <<"bundle", role[2]>> \in DOMAIN found
                                          /\ found[<<"bundle", role[2]>>].content = "v1"
<1>1. CASE i = 1
  <2>1. role = <<"profile", "-">>
    BY <1>1, RolesOfTheStages
  <2>2. Candidates(role)[1] = "profile"
    BY <2>1 DEF Candidates
  <2> QED BY <1>1, <2>1, <2>2, TheStages DEF QuietDisk, Content, Real
<1>2. CASE i \in {2, 3, 4, 8}
  <2>1. role = <<Stages[i], "-">> /\ Stages[i] \in {"dsh", "profile-patch", "home-patch", "overlay"}
    BY <1>2, TheStages, RolesOfTheStages
  <2>2. Candidates(role)[1] = Stages[i]
    BY <2>1 DEF Candidates
  <2>3. Candidates(role)[1] \in ManifestFiles \cup PatchFiles
    BY <2>1, <2>2 DEF ManifestFiles, PatchFiles
  <2> QED BY <2>1, <2>3, QuietContents
<1>3. ASSUME NEW name \in {"b", "d"}
      PROVE  /\ Candidates(<<"bundle", name>>)[1] \in {"b@dsh", "d@profile"}
             /\ Candidates(<<"dependency", name>>)[1] \in {"b@profile", "d@profile"}
  <2>1. CASE name = "b"
    BY <2>1 DEF Candidates, InProfile
  <2>2. CASE name = "d"
    BY <2>2 DEF Candidates, InProfile
  <2> QED BY <2>1, <2>2
<1>4. CASE i = 5
  <2>0. Composition.bundles \subseteq {"b", "d"}
    BY <1>4, QuietComposition, QuietProgress
  <2>1. PICK name \in {"b", "d"} : role = <<"bundle", name>>
    <3>1. role \in {"bundle"} \X Composition.bundles
      BY <1>4, RolesOfTheStages
    <3>2. role = <<"bundle", role[2]>> /\ role[2] \in Composition.bundles
      BY <3>1, RolesOfAKind
    <3> QED BY <3>2, <2>0
  <2>2. Candidates(role)[1] \in ManifestFiles
    BY <2>1, <1>3 DEF ManifestFiles
  <2> QED BY <2>1, <2>2, <1>4, TheStages, QuietContents
<1>5. CASE i = 7
  <2>0. Composition.dependencies \subseteq {"b", "d"}
    BY <1>5, QuietComposition, QuietProgress
  <2>1. PICK name \in {"b", "d"} : role = <<"dependency", name>>
    <3>1. role \in {"dependency"} \X Composition.dependencies
      BY <1>5, RolesOfTheStages
    <3>2. role = <<"dependency", role[2]>> /\ role[2] \in Composition.dependencies
      BY <3>1, RolesOfAKind
    <3> QED BY <3>2, <2>0
  <2>2. Candidates(role)[1] \in ManifestFiles
    BY <2>1, <1>3 DEF ManifestFiles
  <2> QED BY <2>1, <2>2, <1>5, TheStages, QuietContents
<1>6. CASE i = 6
  <2>1. PICK name \in Composition.bundles : role = <<"bundle-patch", name>>
    <3>1. role \in {"bundle-patch"} \X Composition.bundles
      BY <1>6, RolesOfTheStages
    <3>2. role = <<"bundle-patch", role[2]>> /\ role[2] \in Composition.bundles
      BY <3>1, RolesOfAKind
    <3> QED BY <3>2
  <2>2. name \in {"b", "d"}
    BY <1>6, QuietComposition, QuietProgress
  <2>3. <<"bundle", name>> \in RolesOf(5)
    BY RolesOfTheStages
  <2>4. <<"bundle", name>> \in DOMAIN found
    BY <2>3, <1>6, QuietProgress
  <2>5. /\ found[<<"bundle", name>>].file \in {"b@dsh", "d@profile"}
        /\ found[<<"bundle", name>>].content = "v1"
    <3>1. Candidates(<<"bundle", name>>)[1] \in {"b@dsh", "d@profile"}
      BY <1>3, <2>2
    <3>2. Content(Candidates(<<"bundle", name>>)[1]) = "v1"
      BY <3>1, QuietContents DEF ManifestFiles
    <3> QED BY <2>4, <3>1, <3>2, QuietProgress
  <2>6. Candidates(role) = <<PatchIn[found[<<"bundle", name>>].file]>>
    BY <2>1 DEF Candidates
  <2>7. PatchIn[found[<<"bundle", name>>].file] \in PatchFiles
    BY <2>5 DEF PatchIn, PatchFiles, ManifestFiles
  <2>8. Content(Candidates(role)[1]) = "v1"
    BY <2>6, <2>7, QuietContents
  <2> QED BY <2>1, <2>2, <2>4, <2>5, <2>8, <1>6, TheStages
<1>7. i \in {1} \cup {2, 3, 4, 8} \cup {5} \cup {6} \cup {7}
  OBVIOUS
<1> QED BY <1>1, <1>2, <1>4, <1>5, <1>6, <1>7

\* No read fails.
LEMMA QuietReads ==
    ASSUME QuietDisk, QuietReading, NEW role \in Pending
    PROVE  /\ ~ForeignBundle(role) /\ File(role) = Candidates(role)[1]
           /\ Content(File(role)) \in {"v1"} \cup DOMAIN Profiles
           /\ ~ReadFails(role) /\ ~TryNextCandidate(role) /\ ~AnchorGone(role)
<1>1. stage \in 1..8 /\ role \in RolesOf(stage)
  BY QuietProgress DEF Pending
<1>2. Tried(role) = 0
  BY DEF Tried, QuietReading
<1>3. File(role) = Candidates(role)[1]
  BY <1>2 DEF File
<1>4. ~ForeignBundle(role) /\ Content(File(role)) \in {"v1"} \cup DOMAIN Profiles
  <2>1. stage <= stage
    BY <1>1
  <2>2. role[1] = "bundle-patch" => found[<<"bundle", role[2]>>].content = "v1"
    BY <1>1, <2>1, QuietCandidates
  <2>3. Content(Candidates(role)[1]) \in {"v1"} \cup DOMAIN Profiles
    BY <1>1, <2>1, QuietCandidates
  <2> QED BY <2>2, <2>3, <1>3 DEF ForeignBundle
<1>5. Content(File(role)) \notin {"junk", "unreadable", "missing", "foreign"}
  BY <1>4 DEF Profiles
<1>6. ~ReadFails(role) /\ ~TryNextCandidate(role)
  BY <1>4, <1>5 DEF ReadFails, TryNextCandidate
<1>7. Content("dsh") = "v1"
  BY QuietContents DEF ManifestFiles
<1>8. Content("profile") \in {"plain", "alias", "pair"}
  BY DEF Content, Real, QuietDisk, Profiles
<1>9. ~AnchorGone(role)
  BY <1>7, <1>8 DEF AnchorGone, Gone
<1> QED BY <1>3, <1>4, <1>6, <1>9
\* Nothing is foreign when a stage ends.
LEMMA QuietStages ==
    ASSUME QuietDisk, QuietReading, stage > 0, Pending = {}
    PROVE  ~StageForeign
<1>1. stage \in 1..8 /\ RolesOf(stage) \subseteq DOMAIN found
  BY QuietProgress DEF Pending
<1>2. ASSUME NEW i \in 1..8, i <= stage, NEW role \in RolesOf(i)
      PROVE  found[role].content # "foreign"
  <2>1. role \in DOMAIN found
    BY <1>1, <1>2, QuietProgress
  <2>2. found[role].content = Content(Candidates(role)[1])
    BY <2>1, QuietProgress
  <2>3. Content(Candidates(role)[1]) \in {"v1"} \cup DOMAIN Profiles
    BY <1>2, QuietCandidates
  <2> QED BY <2>2, <2>3 DEF Profiles
<1>3. ASSUME Stages[stage] = "dsh", NEW name \in {"dsh", "profile"}
      PROVE  found[<<name, "-">>].content # "foreign"
  <2>1. stage = 2
    BY <1>1, <1>3, TheStages
  <2>2. <<"profile", "-">> \in RolesOf(1) /\ <<"dsh", "-">> \in RolesOf(2)
    BY RolesOfTheStages, TheStages
  <2> QED BY <2>1, <2>2, <1>2
<1>4. ASSUME NEW role \in RolesOf(stage) PROVE found[role].content # "foreign"
  BY <1>1, <1>2, <1>4
<1> QED BY <1>3, <1>4 DEF StageForeign

\* Another read leaves the roles and the candidates of the earlier ones.
LEMMA QuietReadSucceeds ==
    ASSUME QuietDisk, QuietReading, target = "none", NEW role \in Pending, ReadSucceeds(role)
    PROVE  QuietReading'
<1>1. /\ role \notin DOMAIN found /\ role \in RolesOf(stage) /\ stage \in 1..8
      /\ UNCHANGED <<disk, linked, stage, tried, target>>
  BY QuietProgress DEF Pending, ReadSucceeds, reading
<1>2. /\ File(role) = Candidates(role)[1]
      /\ found' = With(found, role, [file |-> Candidates(role)[1],
                                     content |-> Content(Candidates(role)[1])])
  BY QuietReads DEF ReadSucceeds
<1>3. /\ DOMAIN found' = DOMAIN found \cup {role}
      /\ found'[role] = [file |-> Candidates(role)[1], content |-> Content(Candidates(role)[1])]
      /\ \A other \in DOMAIN found : found'[other] = found[other]
  <2> DEFINE value == [file |-> Candidates(role)[1], content |-> Content(Candidates(role)[1])]
  <2>1. found' = With(found, role, value)
    BY <1>2
  <2> HIDE DEF value
  <2>2. /\ DOMAIN found' = DOMAIN found \cup {role} /\ found'[role] = value
        /\ \A other \in DOMAIN found : found'[other] = found[other]
    BY <2>1, <1>1 DEF With
  <2> QED BY <2>2 DEF value
<1>4. \A file : Content(file)' = Content(file)
  BY <1>1 DEF Content, Real
<1>5. ASSUME NEW other \in DOMAIN found' PROVE Candidates(other)' = Candidates(other)
  <2>1. PICK i \in 1..8 : i <= stage /\ other \in RolesOf(i)
    BY <1>1, <1>3, TheStages DEF QuietReading
  <2>2. other[1] = "bundle-patch" => <<"bundle", other[2]>> \in DOMAIN found
    BY <2>1, QuietCandidates
  <2> QED BY <2>2, <1>3 DEF Candidates
<1>6. \A i \in 1..8 : i <= stage => RolesOf(i)' = RolesOf(i)
  <2>1. CASE stage = 1
    <3>1. RolesOf(1)' = RolesOf(1)
      BY TheStages DEF RolesOf
    <3> QED BY <2>1, <3>1
  <2>2. CASE stage > 1
    <3>1. RolesOf(1) \subseteq DOMAIN found
      BY <2>2, <1>1, QuietProgress
    <3>2. <<"profile", "-">> \in DOMAIN found
      BY <3>1, RolesOfTheStages
    <3>3. Composition' = Composition
      BY <3>2, <1>3 DEF Composition
    <3> QED BY <3>3 DEF RolesOf
  <2> QED BY <2>1, <2>2, <1>1
<1>7. \A i \in 1..(stage - 1) : RolesOf(i)' \subseteq DOMAIN found'
  <2> SUFFICES ASSUME NEW i \in 1..(stage - 1) PROVE RolesOf(i)' \subseteq DOMAIN found'
    OBVIOUS
  <2>1. i \in 1..8 /\ i < stage
    BY <1>1
  <2> QED BY <2>1, <1>3, <1>6, QuietProgress
<1>8. \A other \in DOMAIN found' : \E i \in 1..stage : other \in RolesOf(i)'
  <2> SUFFICES ASSUME NEW other \in DOMAIN found' PROVE \E i \in 1..stage : other \in RolesOf(i)'
    OBVIOUS
  <2>1. PICK i \in 1..stage : other \in RolesOf(i)
    BY <1>1, <1>3 DEF QuietReading
  <2>2. i \in 1..8 /\ i <= stage
    BY <1>1
  <2> QED BY <2>1, <2>2, <1>6
<1>9. \A other \in DOMAIN found' :
         found'[other] = [file |-> Candidates(other)'[1], content |-> Content(Candidates(other)'[1])]
  BY <1>3, <1>5 DEF QuietReading
<1>10. stage' = stage /\ stage \in 0..Len(Stages) /\ DOMAIN tried' = {} /\ target' # "ok"
  BY <1>1 DEF QuietReading
<1> QED BY <1>4, <1>7, <1>8, <1>9, <1>10 DEF QuietReading
-----------------------------------------------------------------------------
(***************************************************************************)
(* The target: reads come first and leave the contracts as they are.       *)
(***************************************************************************)

LEMMA OpenTarget ==
    ASSUME AcquisitionInv, ResolveTarget
    PROVE  /\ target = "none" /\ phase = "target" /\ answer = "none"
           /\ todo = {} /\ queue = <<>> /\ resolved = <<>> /\ visited = {}
           /\ DOMAIN discovered = {} /\ contracts = {}
           /\ UNCHANGED <<phase, todo, queue, visited, discovered, resolved, contracts, answer,
                          absent>>
           /\ UNCHANGED reading
           /\ before' = IF target' = "ok" THEN disk ELSE before
<1>1. target = "none"
  BY DEF ResolveTarget, TargetStep, Begin, StageEnds, ReadSucceeds, TryNextCandidate, ReadFails,
     AnchorGone, Reads, AcquisitionInv, ReadingTypeOK
<1>2. UNCHANGED reading
  BY DEF ResolveTarget, TargetStep, Begin, StageEnds, ReadSucceeds, TryNextCandidate, ReadFails,
     AnchorGone, TargetAnswers
<1> QED BY <1>1, <1>2 DEF ResolveTarget, AcquisitionInv, TargetComesFirst

\* What is left to show of a step of the target.
LEMMA TargetSteps ==
    ASSUME AcquisitionInv, ResolveTarget, ReadingTypeOK', ReadsAreOfTheDisk',
           changes = 0 => QuietReading' /\ target' \in {"none", "ok"}
    PROVE  AcquisitionInv'
<1> USE DEF AcquisitionInv
<1>1. DiskTypeOK'
  BY OpenTarget DEF DiskTypeOK, reading
<1>2. phase' = "target" /\ ~InTheEnd' /\ ~Walking' /\ answer' = "none"
  BY OpenTarget DEF InTheEnd, Walking
<1>3. WalkTypeOK'
  BY OpenTarget DEF WalkTypeOK
<1>4. TargetComesFirst'
  BY OpenTarget DEF TargetComesFirst
<1>5. ComparedIsOfThatMoment' /\ ContractsFollowTheManifests' /\ Budgeted'
  BY <1>2, OpenTarget DEF ComparedIsOfThatMoment, ContractsFollowTheManifests, Budgeted
<1>6. WalkIsSound'
  BY <1>2, OpenTarget DEF WalkIsSound
<1>7. QuietIsQuiet'
  BY OpenTarget DEF QuietIsQuiet, QuietDisk, reading
<1>8. QuietDiskIsRead'
  BY <1>2, OpenTarget DEF QuietDiskIsRead, reading, PackageLimit
<1> QED BY <1>1, <1>3, <1>4, <1>5, <1>6, <1>7, <1>8

\* Steps that read nothing: the disk of an answer is the disk of now.
LEMMA ReadNothing ==
    ASSUME AcquisitionInv, ResolveTarget, UNCHANGED <<found, tried>>, stage' \in Nat,
           stage' = 0 => target' = "none"
    PROVE  ReadingTypeOK' /\ ReadsAreOfTheDisk'
<1> USE DEF AcquisitionInv
<1>1. PackageRoles' = PackageRoles /\ \A role : Candidates(role)' = Candidates(role)
  BY ReadsStay
<1>2. ReadingTypeOK'
  BY <1>1 DEF ReadingTypeOK, Tried
<1>3. ASSUME NEW role \in PackageRoles
      PROVE  /\ found[role].file \in ManifestFiles /\ found[role].content \in Contents
             /\ Reached(found[role].content, disk[Real(found[role].file)])
             /\ target' = "ok" =>
                    /\ Reached(found[role].content, before'[Real(found[role].file)])
                    /\ Reached(before'[Real(found[role].file)], disk[Real(found[role].file)])
  BY OpenTarget, ReachedIsAnOrder DEF ReadsAreOfTheDisk
<1> QED BY <1>1, <1>2, <1>3, OpenTarget DEF ReadsAreOfTheDisk, Real, reading

LEMMA BeginStep ==
    ASSUME AcquisitionInv, ResolveTarget, Begin
    PROVE  AcquisitionInv'
<1> USE DEF AcquisitionInv
<1>1. ReadingTypeOK' /\ ReadsAreOfTheDisk'
  BY ReadNothing, OpenTarget DEF Begin
<1>2. ASSUME changes = 0 PROVE QuietReading' /\ target' \in {"none", "ok"}
  <2>1. QuietReading /\ stage = 0 /\ stage' = 1 /\ target' = "none"
    BY <1>2, OpenTarget DEF Begin, QuietIsQuiet
  <2>2. DOMAIN found = {} /\ DOMAIN tried = {}
    BY <2>1 DEF QuietReading
  <2>3. DOMAIN found' = {} /\ DOMAIN tried' = {}
    BY <2>2 DEF Begin
  <2>4. stage' \in 0..Len(Stages) /\ \A i \in 1..(stage' - 1) : FALSE
    BY <2>1, TheStages
  <2> QED BY <2>1, <2>3, <2>4 DEF QuietReading
<1> QED BY <1>1, <1>2, TargetSteps

LEMMA StageEndsStep ==
    ASSUME AcquisitionInv, ResolveTarget, StageEnds
    PROVE  AcquisitionInv'
<1> USE DEF AcquisitionInv
<1>1. /\ stage > 0 /\ Pending = {} /\ UNCHANGED <<reading, found, tried>>
      /\ \/ StageForeign /\ stage' = stage /\ target' = "TARGET_MANIFEST_INVALID"
         \/ stage = Len(Stages) /\ stage' = stage /\ target' = "ok"
         \/ stage < Len(Stages) /\ stage' = stage + 1 /\ target' = "none"
  BY OpenTarget DEF StageEnds, TargetAnswers
<1>2. ReadingTypeOK' /\ ReadsAreOfTheDisk'
  BY <1>1, ReadNothing DEF ReadingTypeOK
<1>3. ASSUME changes = 0 PROVE QuietReading' /\ target' \in {"none", "ok"}
  <2>1. QuietDisk /\ QuietReading
    BY <1>3 DEF QuietIsQuiet
  <2>2. ~StageForeign /\ stage \in 1..8 /\ RolesOf(stage) \subseteq DOMAIN found
    BY <1>1, <2>1, QuietStages, QuietProgress DEF Pending
  <2>3. /\ \A role : Candidates(role)' = Candidates(role)
        /\ \A i : RolesOf(i)' = RolesOf(i)
        /\ \A file : Content(file)' = Content(file)
    BY <1>1, ReadsStay DEF Content, Real, reading
  <2>4. stage' \in 1..8 /\ (stage' = stage + 1 \/ stage' = stage)
    BY <1>1, <2>2, TheStages
  <2>5. \A i \in 1..(stage' - 1) : RolesOf(i) \subseteq DOMAIN found
    <3> SUFFICES ASSUME NEW i \in 1..(stage' - 1) PROVE RolesOf(i) \subseteq DOMAIN found
      OBVIOUS
    <3>1. i \in 1..8 /\ (i < stage \/ i = stage)
      <4>1. CASE stage' = stage
        BY <4>1, <2>2
      <4>2. CASE stage' = stage + 1
        BY <4>2, <2>2
      <4> QED BY <4>1, <4>2, <2>4
    <3> QED BY <3>1, <2>1, <2>2, QuietProgress
  <2>6. \A role \in DOMAIN found : \E i \in 1..stage' : role \in RolesOf(i)
    <3> SUFFICES ASSUME NEW role \in DOMAIN found PROVE \E i \in 1..stage' : role \in RolesOf(i)
      OBVIOUS
    <3>1. PICK i \in 1..stage : role \in RolesOf(i)
      BY <2>1 DEF QuietReading
    <3>2. i \in 1..stage'
      BY <2>2, <2>4
    <3> QED BY <3>1, <3>2
  <2>7. target' = "ok" => stage' = Len(Stages) /\ RolesOf(stage') \subseteq DOMAIN found
    BY <1>1, <2>2
  <2>8. \A role \in DOMAIN found :
           found[role] = [file |-> Candidates(role)[1], content |-> Content(Candidates(role)[1])]
    BY <2>1 DEF QuietReading
  <2>9. stage' \in 0..Len(Stages) /\ DOMAIN tried' = {} /\ found' = found
    BY <1>1, <2>1, <2>4, TheStages DEF QuietReading
  <2>10. QuietReading'
    BY <2>3, <2>5, <2>6, <2>7, <2>8, <2>9 DEF QuietReading
  <2> QED BY <1>1, <2>2, <2>10
<1> QED BY <1>2, <1>3, TargetSteps
\* The candidates of a manifest do not depend on what was read.
LEMMA ManifestsAreLookedUp ==
    ASSUME NEW role \in ManifestRoles
    PROVE  Candidates(role)' = Candidates(role)
BY PartsOfRoles DEF Candidates

LEMMA ReadSucceedsStep ==
    ASSUME AcquisitionInv, ResolveTarget, NEW role \in Pending, ReadSucceeds(role)
    PROVE  AcquisitionInv'
<1> USE DEF AcquisitionInv
<1>1. /\ found' = With(found, role, [file |-> File(role), content |-> Content(File(role))])
      /\ UNCHANGED <<reading, stage, tried, target>> /\ role \notin DOMAIN found
      /\ target = "none" /\ target' = "none"
  BY OpenTarget DEF ReadSucceeds, Pending
<1>2. ReadingTypeOK'
  BY <1>1, ManifestsAreLookedUp DEF ReadingTypeOK, Tried
<1>3. /\ DOMAIN found' = DOMAIN found \cup {role}
      /\ found'[role].file = File(role) /\ found'[role].content = Content(File(role))
      /\ \A other \in DOMAIN found : found'[other] = found[other]
  BY <1>1 DEF With
<1>4. PackageRoles' = ManifestRoles \cap DOMAIN found'
  BY OrderIsOfManifestRoles DEF PackageRoles
<1>5. ReadsAreOfTheDisk'
  <2> SUFFICES ASSUME NEW other \in PackageRoles'
               PROVE  /\ found'[other].file \in ManifestFiles /\ found'[other].content \in Contents
                      /\ Reached(found'[other].content, disk[Real(found'[other].file)])
    BY <1>1 DEF ReadsAreOfTheDisk, Real, reading
  <2>1. CASE other = role
    <3>1. role \in ManifestRoles
      BY <2>1, <1>4
    <3>2. Tried(role) \in Nat /\ Tried(role) < Len(Candidates(role))
      BY <3>1 DEF ReadingTypeOK
    <3>3. Tried(role) + 1 \in 1..Len(Candidates(role))
      BY <3>1, <3>2, CandidatesOfManifests
    <3>4. File(role) \in ManifestFiles
      BY <3>1, <3>3, CandidatesOfManifests DEF File
    <3>5. Content(File(role)) \in Contents
      BY <3>4, RealFiles, FileSets DEF Content, DiskTypeOK
    <3>6. Reached(Content(File(role)), disk[Real(File(role))])
      BY ReachedIsAnOrder DEF Content
    <3> QED BY <2>1, <1>3, <3>4, <3>5, <3>6
  <2>2. CASE other # role
    <3>1. other \in PackageRoles /\ found'[other] = found[other]
      BY <2>2, <1>3, <1>4, OrderIsOfManifestRoles
    <3> QED BY <3>1 DEF ReadsAreOfTheDisk
  <2> QED BY <2>1, <2>2
<1>6. changes = 0 => QuietReading' /\ target' \in {"none", "ok"}
  BY <1>1, QuietReadSucceeds DEF QuietIsQuiet
<1> QED BY <1>2, <1>5, <1>6, TargetSteps

LEMMA TryNextCandidateStep ==
    ASSUME AcquisitionInv, ResolveTarget, NEW role \in Pending, TryNextCandidate(role)
    PROVE  AcquisitionInv'
<1> USE DEF AcquisitionInv
<1>1. /\ tried' = With(tried, role, Tried(role) + 1) /\ ~IsLastCandidate(role)
      /\ UNCHANGED <<reading, stage, found, target>> /\ target = "none" /\ target' = "none"
  BY OpenTarget DEF TryNextCandidate
<1>2. ReadingTypeOK'
  <2> SUFFICES ASSUME NEW other \in ManifestRoles
               PROVE  Tried(other)' \in Nat /\ Tried(other)' < Len(Candidates(other))
    BY <1>1, ManifestsAreLookedUp DEF ReadingTypeOK
  <2>1. Tried(other) \in Nat /\ Tried(other) < Len(Candidates(other))
    BY DEF ReadingTypeOK
  <2>2. CASE other = role
    <3>1. Tried(other)' = Tried(role) + 1
      BY <1>1, <2>2 DEF With, Tried
    <3>2. Tried(role) + 1 # Len(Candidates(role))
      BY <1>1 DEF IsLastCandidate
    <3>3. Len(Candidates(role)) \in {1, 2}
      BY <2>2, CandidatesOfManifests
    <3> QED BY <2>1, <2>2, <3>1, <3>2, <3>3
  <2>3. CASE other # role
    <3>1. Tried(other)' = Tried(other)
      BY <1>1, <2>3 DEF With, Tried
    <3> QED BY <2>1, <3>1
  <2> QED BY <2>2, <2>3
<1>3. PackageRoles' = PackageRoles
  BY <1>1, ReadsStay
<1>4. ReadsAreOfTheDisk'
  BY <1>1, <1>3 DEF ReadsAreOfTheDisk, Real, reading
<1>5. changes # 0
  BY QuietReads DEF QuietIsQuiet
<1> QED BY <1>2, <1>4, <1>5, TargetSteps

LEMMA ReadFailsStep ==
    ASSUME AcquisitionInv, ResolveTarget, NEW role \in Pending,
           ReadFails(role) \/ AnchorGone(role)
    PROVE  AcquisitionInv'
<1> USE DEF AcquisitionInv
<1>1. UNCHANGED <<stage, found, tried>> /\ stage # 0
  BY DEF ReadFails, AnchorGone, TargetAnswers, Pending
<1>2. ReadingTypeOK' /\ ReadsAreOfTheDisk'
  BY <1>1, ReadNothing DEF ReadingTypeOK
<1>3. changes # 0
  BY QuietReads DEF QuietIsQuiet
<1> QED BY <1>2, <1>3, TargetSteps

LEMMA ResolveTargetStep ==
    ASSUME AcquisitionInv, ResolveTarget
    PROVE  AcquisitionInv'
BY BeginStep, StageEndsStep, ReadSucceedsStep, TryNextCandidateStep, ReadFailsStep
   DEF ResolveTarget, TargetStep
-----------------------------------------------------------------------------
(***************************************************************************)
(* The contracts.                                                          *)
(***************************************************************************)

\* What the contracts leave alone.
LEMMA ContractSteps ==
    ASSUME AcquisitionInv, UNCHANGED <<targetVars, before>>
    PROVE  /\ DiskTypeOK' /\ ReadingTypeOK' /\ ReadsAreOfTheDisk'
           /\ PackageRoles' = PackageRoles /\ Explicit' = Explicit
           /\ \A name : Primary(name)' = Primary(name)
           /\ \A file : Real(file)' = Real(file)
           /\ QuietDisk' = QuietDisk /\ QuietReading' = QuietReading
           /\ changes' = changes /\ target' = target /\ found' = found
<1>1. /\ PackageRoles' = PackageRoles /\ Explicit' = Explicit
      /\ \A role : Candidates(role)' = Candidates(role)
      /\ \A name : Primary(name)' = Primary(name)
  BY ReadsStay DEF targetVars
<1>2. DiskTypeOK' /\ ReadingTypeOK' /\ ReadsAreOfTheDisk'
  BY <1>1 DEF targetVars, DiskTypeOK, ReadingTypeOK, ReadsAreOfTheDisk, Tried, Real, AcquisitionInv
<1> QED BY <1>1, <1>2, QuietStays DEF targetVars

\* Of some roles one comes first.
LEMMA SomeRoleIsFirst ==
    ASSUME NEW roles, roles \subseteq ManifestRoles, roles # {}
    PROVE  \E role \in roles : IsFirst(role, roles)
<1>1. DOMAIN Order = 1..5
  BY DEF Order
<1>2. PICK n \in 1..5 : Order[n] \in roles
  BY <1>1, OrderIsOfManifestRoles
<1>3. ASSUME NEW i \in 1..5, Order[i] \in roles, \A j \in 1..(i - 1) : Order[j] \notin roles
      PROVE  \E role \in roles : IsFirst(role, roles)
  BY <1>1, <1>3 DEF IsFirst
<1>4. CASE Order[1] \in roles
  <2>1. \A j \in 1..(1 - 1) : Order[j] \notin roles
    OBVIOUS
  <2> QED BY <1>3, <1>4, <2>1
<1>5. CASE Order[1] \notin roles /\ Order[2] \in roles
  <2>1. \A j \in 1..(2 - 1) : j = 1
    OBVIOUS
  <2> QED BY <1>3, <1>5, <2>1
<1>6. CASE Order[1] \notin roles /\ Order[2] \notin roles /\ Order[3] \in roles
  <2>1. \A j \in 1..(3 - 1) : j \in {1, 2}
    OBVIOUS
  <2> QED BY <1>3, <1>6, <2>1
<1>7. CASE /\ Order[1] \notin roles /\ Order[2] \notin roles /\ Order[3] \notin roles
           /\ Order[4] \in roles
  <2>1. \A j \in 1..(4 - 1) : j \in {1, 2, 3}
    OBVIOUS
  <2> QED BY <1>3, <1>7, <2>1
<1>8. CASE /\ Order[1] \notin roles /\ Order[2] \notin roles /\ Order[3] \notin roles
           /\ Order[4] \notin roles
  <2>1. \A j \in 1..(5 - 1) : j \in {1, 2, 3, 4}
    OBVIOUS
  <2>2. n = 5
    BY <1>2, <1>8
  <2> QED BY <1>2, <1>3, <1>8, <2>1, <2>2
<1> QED BY <1>4, <1>5, <1>6, <1>7, <1>8

\* The package of a name of the composition is that of one of its manifests.
LEMMA PrimaryIsAPackage ==
    ASSUME AcquisitionInv, NEW name \in Authority, NEW role \in PackageRoles, NameOf(role) = name
    PROVE  Primary(name) \in Packages /\ Primary(name).name = name
<1>1. RolesNamed(name) \subseteq PackageRoles /\ role \in RolesNamed(name)
  BY DEF RolesNamed
<1>2. PICK first \in RolesNamed(name) : IsFirst(first, RolesNamed(name))
  BY <1>1, SomeRoleIsFirst, OrderIsOfManifestRoles
<1> DEFINE chosen == CHOOSE r \in RolesNamed(name) : IsFirst(r, RolesNamed(name))
<1>3. chosen \in RolesNamed(name)
  BY <1>2
<1>4. Primary(name) = Package(name, chosen)
  BY DEF Primary
<1> HIDE DEF chosen
<1>5. found[chosen].file \in Manifests /\ found[chosen].content \in Contents
  BY <1>1, <1>3, FileSets DEF AcquisitionInv, ReadsAreOfTheDisk
<1> QED BY <1>4, <1>5 DEF Package, Packages

LEMMA NamesOfRoles ==
    ASSUME NEW roles, NEW role \in roles
    PROVE  /\ NamesIn(roles) = NamesIn(roles \ {role}) \cup {NameOf(role)}
           /\ (\A other \in roles \ {role} : NameOf(other) # NameOf(role)) =>
                  NamesIn(roles \ {role}) = NamesIn(roles) \ {NameOf(role)}
           /\ ~(\A other \in roles \ {role} : NameOf(other) # NameOf(role)) =>
                  NamesIn(roles \ {role}) = NamesIn(roles)
BY DEF NamesIn

\* The manifests of a quiet disk.
LEMMA QuietManifests ==
    ASSUME QuietDisk, QuietReading, NEW role \in PackageRoles
    PROVE  /\ found[role].file = Candidates(role)[1] /\ found[role].content = "v1"
           /\ IsCurrent(role) /\ Version(found[role].content) = 1
           /\ role = <<"dependency", "b">> => disk["profile"] = "alias"
<1>1. role \in ManifestRoles /\ role \in DOMAIN found
  BY OrderIsOfManifestRoles
<1>2. PICK i \in 1..8 : i <= stage /\ role \in RolesOf(i)
  <2>1. PICK i \in 1..stage : role \in RolesOf(i)
    BY <1>1 DEF QuietReading
  <2> QED BY <2>1, QuietProgress
<1>3. role[1] = Stages[i] /\ role[1] # "profile" /\ Content(Candidates(role)[1]) = "v1"
  BY <1>1, <1>2, QuietCandidates, PartsOfRoles
<1>4. /\ found[role].file = Candidates(role)[1] /\ found[role].content = "v1"
      /\ Content(found[role].file) = "v1"
  BY <1>1, <1>3, QuietProgress
<1>5. ASSUME role = <<"dependency", "b">> PROVE disk["profile"] = "alias"
  <2>1. i = 7
    BY <1>3, <1>5, TheStages
  <2>2. role \in {"dependency"} \X Composition.dependencies
    BY <2>1, <1>2, RolesOfTheStages
  <2>3. "b" \in Composition.dependencies
    BY <2>2, <1>5, RolesOfAKind
  <2> QED BY <2>1, <2>3, <1>2, QuietComposition, QuietProgress
<1> QED BY <1>4, <1>5 DEF IsCurrent, Version
\* Two roots of one package are the two installations of "b".
LEMMA QuietRoots ==
    ASSUME QuietDisk, QuietReading, linked \in BOOLEAN, NEW name, ~OneRoot(name)
    PROVE  ~linked /\ disk["profile"] = "alias"
<1>1. PICK role \in RolesNamed(name), alias \in RolesNamed(name) :
          Real(found[role].file) # Real(found[alias].file)
  BY DEF OneRoot
<1>2. /\ role \in ManifestRoles /\ alias \in ManifestRoles /\ NameOf(role) = NameOf(alias)
      /\ role \in PackageRoles /\ alias \in PackageRoles
  BY OrderIsOfManifestRoles DEF RolesNamed
<1>3. Real(Candidates(role)[1]) # Real(Candidates(alias)[1])
  BY <1>1, <1>2, QuietManifests
<1>4. /\ NameOf(<<"bundle", "b">>) = "b" /\ NameOf(<<"dependency", "b">>) = "b"
      /\ NameOf(<<"bundle", "d">>) = "d" /\ NameOf(<<"dependency", "d">>) = "d"
      /\ NameOf(<<"dsh", "-">>) = "dsh"
  BY DEF NameOf
<1>5. /\ Candidates(<<"bundle", "b">>)[1] = "b@dsh"
      /\ Candidates(<<"dependency", "b">>)[1] = "b@profile"
      /\ Candidates(<<"bundle", "d">>)[1] = "d@profile"
      /\ Candidates(<<"dependency", "d">>)[1] = "d@profile"
  BY DEF Candidates, InProfile
<1>6. \/ role = <<"bundle", "b">> /\ alias = <<"dependency", "b">>
      \/ role = <<"dependency", "b">> /\ alias = <<"bundle", "b">>
  BY <1>2, <1>3, <1>4, <1>5 DEF ManifestRoles
<1>7. ~linked
  BY <1>3, <1>5, <1>6 DEF Real
<1>8. disk["profile"] = "alias"
  BY <1>2, <1>6, QuietManifests
<1> QED BY <1>7, <1>8

\* A comparison that ends the acquisition.
LEMMA CompareStep ==
    ASSUME AcquisitionInv, target = "ok", phase # "done", NEW role \in PackageRoles, Compare(role),
           UNCHANGED targetVars
    PROVE  AcquisitionInv'
<1>1. PICK code \in {"CONTRACT_EVIDENCE_READ_FAILED", "CONTRACT_EVIDENCE_STALE",
                     "CONTRACT_MANIFEST_INVALID"} : Fails(code)
  BY DEF Compare
<1>2. changes' = changes /\ target' = "ok" /\ linked' = linked /\ disk' = disk /\ answer' = code
  BY <1>1 DEF targetVars, Fails
<1>3. ASSUME changes = 0 PROVE answer' = "CONTRACT_MANIFEST_INVALID" /\ ~linked
                               /\ disk["profile"] = "alias"
  <2>1. QuietDisk /\ QuietReading /\ linked \in BOOLEAN
    BY <1>3 DEF AcquisitionInv, QuietIsQuiet, DiskTypeOK
  <2>2. IsCurrent(role) /\ Content(found[role].file) = "v1"
    BY <2>1, QuietManifests DEF IsCurrent
  <2>3. ~OneRoot(NameOf(role)) /\ answer' = "CONTRACT_MANIFEST_INVALID"
    BY <2>2 DEF Compare, Gone, Fails
  <2> QED BY <2>1, <2>3, QuietRoots
<1>4. QuietDiskIsRead'
  <2>1. "CONTRACT_MANIFEST_INVALID" # PackageLimit
    BY DEF PackageLimit
  <2> QED BY <1>2, <1>3, <2>1 DEF QuietDiskIsRead
<1> QED BY <1>1, <1>4, FailsStep

\* The names of the composition and those discovered are as many as both.
LEMMA NamesAddUp ==
    ASSUME NEW S, S \subseteq Authority, S \cap Explicit = {}
    PROVE  /\ Cardinality(Explicit \cup S) = Cardinality(Explicit) + Cardinality(S)
           /\ Cardinality(Explicit) \in Nat /\ Cardinality(S) \in Nat
           /\ Cardinality(Explicit \cup Authority) \in Nat
           /\ Cardinality(Explicit \cup S) <= Cardinality(Explicit \cup Authority)
           /\ \A name : name \notin S => Cardinality(S \cup {name}) = Cardinality(S) + 1
<1>1. Explicit \subseteq Authority \cup {"d"}
  BY NamesOfManifests DEF Authority
<1>2. /\ IsFiniteSet(Explicit) /\ IsFiniteSet(S) /\ IsFiniteSet(Explicit \cup Authority)
      /\ Cardinality(Explicit) \in Nat /\ Cardinality(S) \in Nat
      /\ Cardinality(Explicit \cup Authority) \in Nat
  BY <1>1, NamesAreFew
<1>3. Cardinality(Explicit \cup S) = Cardinality(Explicit) + Cardinality(S)
  <2>1. Cardinality(Explicit \cup S)
            = Cardinality(Explicit) + Cardinality(S) - Cardinality(Explicit \cap S)
    BY <1>2, FS_Union
  <2>2. Cardinality(Explicit \cap S) = 0
    BY FS_EmptySet
  <2> QED BY <1>2, <2>1, <2>2
<1>4. Cardinality(Explicit \cup S) <= Cardinality(Explicit \cup Authority)
  <2>1. Explicit \cup S \subseteq Explicit \cup Authority
    OBVIOUS
  <2> QED BY <1>2, <2>1, FS_Subset
<1>5. \A name : name \notin S => Cardinality(S \cup {name}) = Cardinality(S) + 1
  BY <1>2, FS_AddElement
<1> QED BY <1>2, <1>3, <1>4, <1>5

LEMMA ExpectStep ==
    ASSUME AcquisitionInv, Expect
    PROVE  AcquisitionInv'
<1> USE DEF AcquisitionInv
<1>1. phase = "target" /\ target = "ok" /\ UNCHANGED targetVars
  BY DEF Expect
<1>2. /\ todo = {} /\ queue = <<>> /\ resolved = <<>> /\ visited = {}
      /\ DOMAIN discovered = {} /\ contracts = {}
  BY <1>1 DEF TargetComesFirst
<1>3. CASE VersionsConflict /\ Fails("CONTRACT_MANIFEST_INVALID")
  <2>1. changes # 0
    <3>1. PICK name \in Explicit : \E role, alias \in RolesNamed(name) :
               Version(found[role].content) # Version(found[alias].content)
      BY <1>3 DEF VersionsConflict
    <3>2. PICK role \in PackageRoles, alias \in PackageRoles :
               Version(found[role].content) # Version(found[alias].content)
      BY <3>1 DEF RolesNamed
    <3>3. ASSUME changes = 0 PROVE FALSE
      <4>1. QuietDisk /\ QuietReading
        BY <3>3 DEF QuietIsQuiet
      <4> QED BY <3>2, <4>1, QuietManifests
    <3> QED BY <3>3
  <2>2. QuietDiskIsRead'
    BY <1>1, <2>1 DEF QuietDiskIsRead, targetVars
  <2> QED BY <1>1, <1>3, <2>2, FailsStep
<1>4. CASE Cardinality(Explicit) > MaxPackages /\ Fails(PackageLimit)
  <2>1. Cardinality(Explicit \cup Authority) > MaxPackages
    <3>1. /\ Cardinality(Explicit \cup {}) <= Cardinality(Explicit \cup Authority)
          /\ Cardinality(Explicit \cup Authority) \in Nat /\ Cardinality(Explicit) \in Nat
      <4>1. {} \subseteq Authority /\ {} \cap Explicit = {}
        OBVIOUS
      <4> QED BY <4>1, NamesAddUp
    <3>2. Explicit \cup {} = Explicit
      OBVIOUS
    <3> QED BY <1>4, <3>1, <3>2, PackagesAssumption
  <2>2. Explicit' = Explicit
    BY <1>1, ReadsStay DEF targetVars
  <2>3. QuietDiskIsRead'
    BY <1>1, <1>4, <2>1, <2>2 DEF QuietDiskIsRead, PackageLimit, Fails, targetVars
  <2>4. PackageLimit \notin {"none", "ok"}
    BY DEF PackageLimit
  <2> QED BY <1>1, <1>4, <2>3, <2>4, FailsStep
<1>5. CASE /\ Cardinality(Explicit) <= MaxPackages /\ phase' = "roots" /\ todo' = Roots
           /\ UNCHANGED <<queue, visited, discovered, resolved, contracts, answer, before, absent>>
  <2>1. UNCHANGED <<targetVars, before>>
    BY <1>1, <1>5
  <2>2. answer = "none" /\ ~InTheEnd'
    BY <1>1, <1>5 DEF TargetComesFirst, InTheEnd
  <2>3. WalkTypeOK'
    BY <1>2, <1>5, <2>1, ContractSteps DEF WalkTypeOK, Roots
  <2>4. TargetComesFirst' /\ ComparedIsOfThatMoment' /\ ContractsFollowTheManifests'
    BY <1>1, <1>2, <1>5, <2>2 DEF TargetComesFirst, ComparedIsOfThatMoment, InTheEnd,
       ContractsFollowTheManifests, targetVars
  <2>5. Budgeted'
    <3>1. Cardinality({}) = 0 /\ Cardinality(Explicit) \in Nat
      BY FS_EmptySet, NamesAddUp
    <3>2. DOMAIN discovered' = {} /\ resolved' = <<>> /\ Explicit' = Explicit
      BY <1>2, <1>5, <2>1, ContractSteps
    <3> QED BY <1>5, <3>1, <3>2 DEF Budgeted
  <2>6. WalkIsSound'
    <3>1. Explicit' = Explicit /\ Explicit = NamesIn(PackageRoles)
      BY <2>1, ContractSteps DEF Explicit, NamesIn
    <3>2. \A name \in Explicit \cap Authority : name \in NamesIn(Roots)
      BY <3>1 DEF NamesIn, Roots
    <3> QED BY <1>2, <1>5, <2>2, <3>1, <3>2 DEF WalkIsSound
  <2>7. QuietIsQuiet' /\ QuietDiskIsRead'
    BY <1>1, <1>2, <1>5, <2>1, <2>2, ContractSteps DEF QuietIsQuiet, QuietDiskIsRead, PackageLimit
  <2> QED BY <2>1, <2>3, <2>4, <2>5, <2>6, <2>7, ContractSteps
<1> QED BY <1>3, <1>4, <1>5 DEF Expect
LEMMA CompareRootStep ==
    ASSUME AcquisitionInv, CompareRoot
    PROVE  AcquisitionInv'
<1> USE DEF AcquisitionInv
<1>1. PICK role \in todo :
         \/ Compare(role)
         \/ /\ Compares(role)
            /\ todo' = todo \ {role}
            /\ queue' = IF IsLastAlias(role) THEN Append(queue, Primary(NameOf(role))) ELSE queue
            /\ visited' = visited \cup {NameOf(role)}
            /\ phase' = IF todo = {role} THEN "closure" ELSE phase
            /\ UNCHANGED <<discovered, resolved, contracts, answer, before, absent>>
  BY DEF CompareRoot
<1>2. /\ phase = "roots" /\ target = "ok" /\ answer = "none" /\ UNCHANGED targetVars
      /\ role \in PackageRoles /\ NameOf(role) \in Authority
      /\ DOMAIN discovered = {} /\ resolved = <<>> /\ contracts = {}
  BY DEF CompareRoot, TargetComesFirst, WalkTypeOK, Roots, WalkIsSound, ContractsFollowTheManifests
<1>3. CASE Compare(role)
  BY <1>2, <1>3, CompareStep
<1>4. CASE /\ todo' = todo \ {role}
           /\ queue' = IF IsLastAlias(role) THEN Append(queue, Primary(NameOf(role))) ELSE queue
           /\ visited' = visited \cup {NameOf(role)}
           /\ phase' = IF todo = {role} THEN "closure" ELSE phase
           /\ UNCHANGED <<discovered, resolved, contracts, answer, before, absent>>
  <2> DEFINE name == NameOf(role)
  <2>1. UNCHANGED <<targetVars, before>> /\ phase' \in {"roots", "closure"} /\ answer' = "none"
    BY <1>2, <1>4
  <2>2. ~InTheEnd' /\ Walking' /\ Walking
    BY <1>2, <2>1 DEF InTheEnd, Walking
  <2>3. Primary(name) \in Packages
    BY <1>2, PrimaryIsAPackage
  <2>4. /\ queue' \in Seq(Packages) /\ Len(queue) <= Len(queue')
        /\ \A i \in 1..Len(queue) : queue'[i] = queue[i]
        /\ IsLastAlias(role) => Len(queue') = Len(queue) + 1
                                /\ queue'[Len(queue) + 1] = Primary(name)
    <3>1. queue \in Seq(Packages)
      BY DEF WalkTypeOK
    <3>2. CASE IsLastAlias(role)
      <4>1. queue' = Append(queue, Primary(name))
        BY <1>4, <3>2
      <4> QED BY <2>3, <3>1, <4>1
    <3>3. CASE ~IsLastAlias(role)
      <4>1. queue' = queue /\ Len(queue) \in Nat
        BY <1>4, <3>1, <3>3
      <4> QED BY <3>1, <3>3, <4>1
    <3> QED BY <3>2, <3>3
  <2>5. WalkTypeOK'
    BY <1>2, <1>4, <2>1, <2>4, ContractSteps DEF WalkTypeOK, Roots
  <2>6. TargetComesFirst' /\ ComparedIsOfThatMoment' /\ ContractsFollowTheManifests'
    BY <1>2, <1>4, <2>1, <2>2, ContractSteps DEF TargetComesFirst, ComparedIsOfThatMoment,
       ContractsFollowTheManifests
  <2>7. Budgeted'
    BY <1>2, <1>4, <2>1, <2>2, ContractSteps DEF Budgeted
  <2>8. /\ \A n : n \in NamesIn(todo) => n \in NamesIn(todo') \/ n = name
        /\ ~IsLastAlias(role) => name \in NamesIn(todo')
        /\ NamesIn(todo') # {} => phase' = "roots"
    BY <1>2, <1>4 DEF NamesIn, IsLastAlias
  <2>9. \A n \in Explicit \cap Authority :
           n \in visited' \/ (phase' = "roots" /\ n \in NamesIn(todo'))
    BY <1>4, <2>2, <2>8 DEF WalkIsSound
  <2>10. \A n : ReadPackage(n) = Primary(n) /\ ReadPackage(n)' = Primary(n)
    BY <1>2, <1>4, <2>1, ContractSteps DEF ReadPackage
  <2>11. ASSUME NEW n \in visited'
         PROVE  Queued(n)' \/ Walked(n)' \/ (phase' = "roots" /\ n \in NamesIn(todo'))
    <3>1. CASE n = name /\ IsLastAlias(role)
      <4>1. Len(queue) + 1 \in 1..Len(queue')
        BY <2>4, <3>1 DEF WalkTypeOK
      <4> QED BY <2>4, <2>10, <3>1, <4>1 DEF Queued
    <3>2. CASE n = name /\ ~IsLastAlias(role)
      BY <2>8, <3>2
    <3>3. CASE n # name /\ Queued(n)
      <4>1. PICK i \in 1..Len(queue) : queue[i] = ReadPackage(n)
        BY <3>3 DEF Queued
      <4>2. i \in 1..Len(queue') /\ queue'[i] = ReadPackage(n)'
        BY <2>4, <2>5, <2>10, <4>1 DEF WalkTypeOK
      <4> QED BY <4>2 DEF Queued
    <3>4. CASE n # name /\ Walked(n)
      BY <1>4, <2>10, <3>4 DEF Walked
    <3>5. CASE n # name /\ n \in NamesIn(todo)
      BY <2>8, <3>5
    <3> QED BY <1>4, <2>2, <3>1, <3>2, <3>3, <3>4, <3>5 DEF WalkIsSound
  <2>12. WalkIsSound'
    <3>1. name \in Explicit
      BY <1>2 DEF Explicit
    <3>2. DOMAIN discovered' = {} /\ resolved' = <<>> /\ Explicit' = Explicit
      BY <1>2, <1>4, <2>1, ContractSteps
    <3>3. visited' \subseteq Explicit
      BY <1>2, <1>4, <2>2, <3>1 DEF WalkIsSound
    <3> QED BY <2>2, <2>9, <2>11, <3>2, <3>3 DEF WalkIsSound
  <2>13. QuietIsQuiet' /\ QuietDiskIsRead'
    BY <1>2, <1>4, <2>1, ContractSteps DEF QuietIsQuiet, QuietDiskIsRead, PackageLimit
  <2> QED BY <2>1, <2>5, <2>6, <2>7, <2>12, <2>13, ContractSteps
<1> QED BY <1>1, <1>3, <1>4
\* A search that finds something finds a file of a package of the scope.
LEMMA NearestIsAManifest ==
    ASSUME NEW package, NEW name \in {"q", "b", "r"}, Hits(package, name) # {}
    PROVE  Nearest(package, name) \in Manifests /\ Installed(Nearest(package, name))
<1> DEFINE files == LookupFrom(package, name)
<1>0. files \in {<<"b@dsh">>, <<"q">>, <<"r@q", "r@dsh">>, <<"r@dsh">>}
  BY DEF LookupFrom
<1>1. \/ DOMAIN files = 1..1 /\ files[1] \in Manifests
      \/ DOMAIN files = 1..2 /\ files[1] \in Manifests /\ files[2] \in Manifests
  BY <1>0 DEF Manifests, ManifestFiles, ClosureFiles
<1>3. \A i \in Hits(package, name) : i \in {1, 2} /\ files[i] \in Manifests /\ Installed(files[i])
  BY <1>1 DEF Hits
<1>4. \E i \in Hits(package, name) : \A j \in Hits(package, name) : i <= j
  <2>1. CASE 1 \in Hits(package, name)
    BY <1>3, <2>1
  <2>2. CASE 1 \notin Hits(package, name)
    <3>1. \A j \in Hits(package, name) : j = 2
      BY <1>3, <2>2
    <3> QED BY <3>1
  <2> QED BY <2>1, <2>2
<1> DEFINE nearest == CHOOSE i \in Hits(package, name) : \A j \in Hits(package, name) : i <= j
<1>5. nearest \in Hits(package, name)
  BY <1>4
<1>6. Nearest(package, name) = files[nearest]
  BY DEF Nearest
<1> HIDE DEF nearest, files
<1> QED BY <1>3, <1>5, <1>6

LEMMA QuietManifestContents ==
    ASSUME QuietDisk, NEW file \in Manifests
    PROVE  Content(file) \in {"v1", "v2", "missing"}
<1>1. CASE file \in ManifestFiles
  BY <1>1, QuietContents
<1>2. CASE file \in ClosureFiles
  <2>1. Content(file) = disk[file] /\ file \in {"q", "r@q", "r@dsh"}
    BY <1>2 DEF Content, Real, ClosureFiles
  <2>2. disk["q"] = "v1"
    BY DEF QuietDisk, Files, ClosureFiles
  <2> QED BY <2>1, <2>2 DEF QuietDisk
<1> QED BY <1>1, <1>2 DEF Manifests

LEMMA SearchStep ==
    ASSUME AcquisitionInv, Search
    PROVE  AcquisitionInv'
<1> USE DEF AcquisitionInv
<1>a. PICK name : name = NextName
  OBVIOUS
<1>b. PICK package : package = Head(queue)
  OBVIOUS
<1>1. /\ phase = "closure" /\ target = "ok" /\ answer = "none" /\ UNCHANGED targetVars
      /\ queue # <<>> /\ resolved = <<>> /\ Walking /\ ~InTheEnd
  BY DEF Search, TargetComesFirst, Walking, InTheEnd
<1>2. package \in Packages
  BY <1>1, <1>b DEF WalkTypeOK
<1>3. name \in ToSearch
  BY <1>a DEF Search, NextName
<1>4. name \in {"q", "b", "r"} /\ name \in Authority /\ name \notin visited
  <2>1. name \in DependencyNames(package) /\ name \notin visited
    BY <1>3, <1>b DEF ToSearch
  <2>2. package.name \in Authority
    BY <1>2 DEF Packages
  <2> QED BY <2>1, <2>2, DependenciesAreOfTheScope DEF Authority
<1>5. \/ OverBudget(name) /\ Fails(PackageLimit)
      \/ /\ Hits(package, name) # {} /\ Content(Nearest(package, name)) = "unreadable"
         /\ Fails("CONTRACT_EVIDENCE_READ_FAILED")
      \/ /\ ~OverBudget(name) /\ Hits(package, name) # {}
         /\ resolved' = <<name, Nearest(package, name)>>
         /\ UNCHANGED <<absent, visited, phase, todo, queue, discovered, contracts, answer, before>>
      \/ /\ absent' = absent \cup {<<package.name, name>>}
         /\ UNCHANGED <<visited, resolved, phase, todo, queue, discovered, contracts, answer, before>>
  BY <1>a, <1>b DEF Search, VisitedBySearch
<1>6. CASE OverBudget(name) /\ Fails(PackageLimit)
  <2>1. Cardinality(Explicit \cup Authority) > MaxPackages
    <3>1. name \notin Explicit
          /\ Cardinality(Explicit) + Cardinality(DOMAIN discovered) >= MaxPackages
      BY <1>6 DEF OverBudget
    <3> DEFINE S == DOMAIN discovered
    <3>2. S \subseteq Authority /\ S \cap Explicit = {} /\ name \notin S
      BY <1>1, <1>4 DEF WalkTypeOK, WalkIsSound
    <3>3. S \cup {name} \subseteq Authority /\ (S \cup {name}) \cap Explicit = {}
      BY <3>1, <3>2, <1>4
    <3> HIDE DEF S
    <3>4. /\ Cardinality(S \cup {name}) = Cardinality(S) + 1 /\ Cardinality(S) \in Nat
          /\ Cardinality(Explicit) \in Nat
      BY <3>2, NamesAddUp
    <3>5. /\ Cardinality(Explicit \cup (S \cup {name}))
                 = Cardinality(Explicit) + Cardinality(S \cup {name})
          /\ Cardinality(Explicit \cup (S \cup {name})) <= Cardinality(Explicit \cup Authority)
          /\ Cardinality(Explicit \cup Authority) \in Nat
      BY <3>3, NamesAddUp
    <3>6. Cardinality(Explicit) + Cardinality(S) >= MaxPackages
      BY <3>1 DEF S
    <3> QED BY <3>4, <3>5, <3>6, PackagesAssumption
  <2>2. Explicit' = Explicit
    BY <1>1, ReadsStay DEF targetVars
  <2>3. QuietDiskIsRead'
    BY <1>1, <1>6, <2>1, <2>2 DEF QuietDiskIsRead, PackageLimit, Fails, targetVars
  <2>4. PackageLimit \notin {"none", "ok"}
    BY DEF PackageLimit
  <2> QED BY <1>1, <1>6, <2>3, <2>4, FailsStep
<1>7. CASE /\ Hits(package, name) # {} /\ Content(Nearest(package, name)) = "unreadable"
           /\ Fails("CONTRACT_EVIDENCE_READ_FAILED")
  <2>1. ASSUME changes = 0 PROVE FALSE
    <3>1. Content(Nearest(package, name)) \in {"v1", "v2", "missing"}
      BY <1>4, <1>7, <2>1, NearestIsAManifest, QuietManifestContents DEF QuietIsQuiet
    <3> QED BY <3>1, <1>7
  <2>2. QuietDiskIsRead'
    BY <1>1, <2>1 DEF QuietDiskIsRead, targetVars
  <2> QED BY <1>1, <1>7, <2>2, FailsStep
<1>8. CASE /\ ~OverBudget(name) /\ Hits(package, name) # {}
           /\ resolved' = <<name, Nearest(package, name)>>
           /\ UNCHANGED <<absent, visited, phase, todo, queue, discovered, contracts, answer,
                          before>>
  <2>1. UNCHANGED <<targetVars, before>> /\ ~InTheEnd' /\ Walking'
    BY <1>1, <1>8 DEF InTheEnd, Walking
  <2>2. /\ resolved'[1] = name /\ resolved'[2] = Nearest(package, name)
        /\ Nearest(package, name) \in Manifests /\ Installed(Nearest(package, name))
    BY <1>4, <1>8, NearestIsAManifest
  <2>3. WalkTypeOK'
    BY <1>1, <1>4, <1>8, <2>1, <2>2, ContractSteps DEF WalkTypeOK
  <2>4. TargetComesFirst' /\ ComparedIsOfThatMoment' /\ ContractsFollowTheManifests'
    BY <1>1, <1>8, <2>1, ContractSteps DEF TargetComesFirst, ComparedIsOfThatMoment,
       ContractsFollowTheManifests
  <2>5. Budgeted'
    <3>1. OverBudget(name)' = OverBudget(name)
      BY <1>8, <2>1, ContractSteps DEF OverBudget
    <3>2. ~OverBudget(resolved[1])'
      BY <1>8, <2>2, <3>1
    <3> QED BY <1>1, <1>8, <2>1, <3>2, ContractSteps DEF Budgeted
  <2>6. /\ \A n : ReadPackage(n)' = ReadPackage(n)
        /\ \A n : Queued(n) => Queued(n)'
        /\ \A n : Walked(n) => Walked(n)'
    <3>1. \A n : ReadPackage(n)' = ReadPackage(n)
      BY <1>8, <2>1, ContractSteps DEF ReadPackage
    <3> QED BY <1>8, <3>1 DEF Queued, Walked
  <2>7. WalkIsSound'
    BY <1>1, <1>4, <1>8, <2>1, <2>2, <2>6, ContractSteps DEF WalkIsSound
  <2>8. QuietIsQuiet'
    <3>1. ASSUME changes = 0 PROVE Content(Nearest(package, name)) \in {"v1", "v2"}
      BY <2>2, <3>1, QuietManifestContents DEF QuietIsQuiet, Installed
    <3>2. Content(resolved[2])' = Content(Nearest(package, name))
      BY <1>1, <2>2 DEF Content, Real, targetVars
    <3> QED BY <2>1, <3>1, <3>2, ContractSteps DEF QuietIsQuiet
  <2>9. QuietDiskIsRead'
    BY <1>1, <1>8, <2>1, ContractSteps DEF QuietDiskIsRead, PackageLimit
  <2> QED BY <2>1, <2>3, <2>4, <2>5, <2>7, <2>8, <2>9, ContractSteps
<1>9. CASE /\ absent' = absent \cup {<<package.name, name>>}
           /\ UNCHANGED <<visited, resolved, phase, todo, queue, discovered, contracts, answer,
                          before>>
  <2>1. UNCHANGED <<targetVars, before>> /\ ~InTheEnd' /\ Walking' /\ resolved' = <<>>
    BY <1>1, <1>9 DEF InTheEnd, Walking
  <2>2. WalkTypeOK'
    BY <1>1, <1>9, <2>1, ContractSteps DEF WalkTypeOK
  <2>3. TargetComesFirst' /\ ComparedIsOfThatMoment' /\ ContractsFollowTheManifests'
    BY <1>1, <1>9, <2>1, ContractSteps DEF TargetComesFirst, ComparedIsOfThatMoment,
       ContractsFollowTheManifests
  <2>4. Budgeted'
    BY <1>1, <1>9, <2>1, ContractSteps DEF Budgeted
  <2>5. /\ \A n : ReadPackage(n)' = ReadPackage(n)
        /\ \A n : Queued(n) => Queued(n)'
        /\ \A n : Walked(n) => Walked(n)'
    <3>1. \A n : ReadPackage(n)' = ReadPackage(n)
      BY <1>9, <2>1, ContractSteps DEF ReadPackage
    <3> QED BY <1>9, <3>1 DEF Queued, Walked
  <2>6. WalkIsSound'
    BY <1>1, <1>9, <2>1, <2>5, ContractSteps DEF WalkIsSound
  <2>7. QuietIsQuiet' /\ QuietDiskIsRead'
    BY <1>1, <1>9, <2>1, ContractSteps DEF QuietIsQuiet, QuietDiskIsRead, PackageLimit
  <2> QED BY <2>1, <2>2, <2>3, <2>4, <2>6, <2>7, ContractSteps
<1> QED BY <1>5, <1>6, <1>7, <1>8, <1>9
LEMMA ReadDiscoveredStep ==
    ASSUME AcquisitionInv, ReadDiscovered
    PROVE  AcquisitionInv'
<1> USE DEF AcquisitionInv
<1>a. PICK name : name = resolved[1]
  OBVIOUS
<1>b. PICK content : content = Content(resolved[2])
  OBVIOUS
<1>c. PICK package : package = [name |-> name, file |-> resolved[2], content |-> content]
  OBVIOUS
<1>1. /\ phase = "closure" /\ target = "ok" /\ answer = "none" /\ UNCHANGED targetVars
      /\ resolved # <<>> /\ Walking /\ ~InTheEnd
      /\ name \in Authority /\ resolved[2] \in Manifests /\ name \notin visited
  BY <1>a DEF ReadDiscovered, TargetComesFirst, Walking, InTheEnd, WalkTypeOK, WalkIsSound
<1>2. name \notin Explicit /\ name \notin DOMAIN discovered
  BY <1>1 DEF WalkIsSound
<1>3. ~Disagrees(name, content)
  BY <1>2 DEF Disagrees
<1>4. ASSUME changes = 0 PROVE content \in {"v1", "v2"}
  BY <1>1, <1>4, <1>b DEF QuietIsQuiet
<1>5. \/ content \in Gone /\ Fails("CONTRACT_EVIDENCE_READ_FAILED")
      \/ content \in Bad /\ Fails("CONTRACT_MANIFEST_INVALID")
      \/ /\ content \notin Bad
         /\ queue' = Append(queue, package)
         /\ discovered' = With(discovered, name, package)
         /\ visited' = visited \cup {name}
         /\ resolved' = <<>>
         /\ UNCHANGED <<phase, todo, contracts, answer, before, absent>>
  BY <1>a, <1>b, <1>c, <1>2, <1>3 DEF ReadDiscovered
<1>6. ASSUME NEW code \in {"CONTRACT_EVIDENCE_READ_FAILED", "CONTRACT_MANIFEST_INVALID"},
             Fails(code), content \in Bad
      PROVE  AcquisitionInv'
  <2>1. changes # 0
    BY <1>4, <1>6 DEF Bad, Gone
  <2>2. QuietDiskIsRead'
    <3>1. code # PackageLimit /\ answer' = code
      BY <1>6 DEF PackageLimit, Fails
    <3> QED BY <1>1, <2>1, <3>1 DEF QuietDiskIsRead, targetVars
  <2> QED BY <1>1, <1>6, <2>2, FailsStep
<1>7. CASE /\ content \notin Bad
           /\ queue' = Append(queue, package)
           /\ discovered' = With(discovered, name, package)
           /\ visited' = visited \cup {name}
           /\ resolved' = <<>>
           /\ UNCHANGED <<phase, todo, contracts, answer, before, absent>>
  <2>1. UNCHANGED <<targetVars, before>> /\ ~InTheEnd' /\ Walking'
    BY <1>1, <1>7 DEF InTheEnd, Walking
  <2>2. package \in Packages /\ package.name = name
    <3>1. content \in Contents
      BY <1>1, <1>b, RealFiles DEF Content, DiskTypeOK
    <3> QED BY <3>1, <1>1, <1>c DEF Packages
  <2>3. /\ DOMAIN discovered' = DOMAIN discovered \cup {name} /\ discovered'[name] = package
        /\ \A n \in DOMAIN discovered : discovered'[n] = discovered[n]
    BY <1>2, <1>7 DEF With
  <2>4. /\ queue' \in Seq(Packages) /\ Len(queue') = Len(queue) + 1 /\ Len(queue) \in Nat
        /\ \A i \in 1..Len(queue) : queue'[i] = queue[i]
        /\ queue'[Len(queue) + 1] = package
    BY <1>7, <2>2 DEF WalkTypeOK
  <2>5. WalkTypeOK'
    BY <1>1, <1>7, <2>1, <2>2, <2>3, <2>4, ContractSteps DEF WalkTypeOK
  <2>6. TargetComesFirst' /\ ComparedIsOfThatMoment' /\ ContractsFollowTheManifests'
    BY <1>1, <1>7, <2>1, ContractSteps DEF TargetComesFirst, ComparedIsOfThatMoment,
       ContractsFollowTheManifests
  <2>7. Budgeted'
    <3>1. ~OverBudget(name)
      BY <1>1, <1>a DEF Budgeted
    <3>2. ~(Cardinality(Explicit) + Cardinality(DOMAIN discovered) >= MaxPackages)
      BY <1>2, <3>1 DEF OverBudget
    <3> DEFINE S == DOMAIN discovered
    <3>3. S \subseteq Authority /\ S \cap Explicit = {} /\ name \notin S
      BY <1>1, <1>2 DEF WalkTypeOK, WalkIsSound
    <3>4. DOMAIN discovered' = S \cup {name} /\ resolved' = <<>> /\ Explicit' = Explicit
      BY <1>7, <2>1, <2>3, ContractSteps
    <3>5. ~(Cardinality(Explicit) + Cardinality(S) >= MaxPackages)
      BY <3>2
    <3> HIDE DEF S
    <3>6. /\ Cardinality(S \cup {name}) = Cardinality(S) + 1 /\ Cardinality(S) \in Nat
          /\ Cardinality(Explicit) \in Nat
      BY <3>3, NamesAddUp
    <3>7. Cardinality(Explicit) + Cardinality(S \cup {name}) <= MaxPackages
      BY <3>5, <3>6, PackagesAssumption
    <3> QED BY <3>4, <3>7 DEF Budgeted
  <2>8. \A n \in visited : ReadPackage(n)' = ReadPackage(n)
    BY <1>1, <2>1, <2>3, ContractSteps DEF ReadPackage
  <2>9. ASSUME NEW n \in visited' PROVE Queued(n)' \/ Walked(n)'
    <3>1. CASE n = name
      <4>1. ReadPackage(n)' = package
        BY <2>3, <3>1 DEF ReadPackage
      <4>2. Len(queue) + 1 \in 1..Len(queue')
        BY <2>4
      <4> QED BY <2>4, <4>1, <4>2 DEF Queued
    <3>2. CASE n \in visited /\ Queued(n)
      <4>1. PICK i \in 1..Len(queue) : queue[i] = ReadPackage(n)
        BY <3>2 DEF Queued
      <4>2. i \in 1..Len(queue') /\ queue'[i] = ReadPackage(n)'
        BY <2>4, <2>8, <3>2, <4>1
      <4> QED BY <4>2 DEF Queued
    <3>3. CASE n \in visited /\ Walked(n)
      BY <1>7, <2>8, <3>3 DEF Walked
    <3> QED BY <1>1, <1>7, <3>1, <3>2, <3>3 DEF WalkIsSound
  <2>10. WalkIsSound'
    <3>1. Explicit' = Explicit
      BY <2>1, ContractSteps
    <3>2. /\ \A n \in Explicit \cap Authority : n \in visited
          /\ visited \subseteq Explicit \cup DOMAIN discovered
          /\ DOMAIN discovered \subseteq visited \ Explicit
      BY <1>1 DEF WalkIsSound
    <3>3. /\ \A n \in Explicit \cap Authority : n \in visited'
          /\ visited' \subseteq Explicit \cup DOMAIN discovered'
          /\ DOMAIN discovered' \subseteq visited' \ Explicit
      BY <1>2, <1>7, <2>3, <3>2
    <3> QED BY <1>1, <1>7, <2>1, <2>9, <3>1, <3>3 DEF WalkIsSound
  <2>11. QuietIsQuiet' /\ QuietDiskIsRead'
    BY <1>1, <1>7, <2>1, ContractSteps DEF QuietIsQuiet, QuietDiskIsRead, PackageLimit
  <2> QED BY <2>1, <2>5, <2>6, <2>7, <2>10, <2>11, ContractSteps
<1>8. Gone \subseteq Bad
  BY DEF Bad
<1> QED BY <1>5, <1>6, <1>7, <1>8

LEMMA PackageSearchedStep ==
    ASSUME AcquisitionInv, PackageSearched
    PROVE  AcquisitionInv'
<1> USE DEF AcquisitionInv
<1>1. /\ phase = "closure" /\ target = "ok" /\ answer = "none" /\ contracts = {}
      /\ UNCHANGED <<visited, discovered, resolved, contracts, answer, before, absent, targetVars>>
      /\ queue # <<>> /\ resolved = <<>> /\ ToSearch = {} /\ Walking /\ ~InTheEnd
      /\ queue' = Tail(queue)
      /\ \/ Len(queue) = 1 /\ phase' = "explicit" /\ todo' = PackageRoles
         \/ Len(queue) # 1 /\ phase' = phase /\ todo' = todo
  BY DEF PackageSearched, TargetComesFirst, Walking, InTheEnd, ContractsFollowTheManifests
<1>2. UNCHANGED <<targetVars, before>> /\ Walking' /\ phase' \in {"closure", "explicit"}
  BY <1>1 DEF Walking, InTheEnd
<1>3. /\ queue \in Seq(Packages) /\ queue' \in Seq(Packages) /\ Len(queue') = Len(queue) - 1
      /\ Len(queue) \in Nat \ {0} /\ \A i \in 1..Len(queue') : queue'[i] = queue[i + 1]
      /\ Len(queue) = 1 => queue' = <<>>
  BY <1>1 DEF WalkTypeOK
<1>4. WalkTypeOK'
  BY <1>1, <1>2, <1>3, ContractSteps DEF WalkTypeOK
<1>5. TargetComesFirst'
  BY <1>1, <1>2, ContractSteps DEF TargetComesFirst
<1>6. ComparedIsOfThatMoment' /\ ContractsFollowTheManifests'
  <2>1. CASE phase' = "explicit"
    <3>1. Explicit = NamesIn(PackageRoles)
      BY DEF Explicit, NamesIn
    <3> QED BY <1>1, <1>2, <2>1, <3>1, ContractSteps DEF ComparedIsOfThatMoment,
               ContractsFollowTheManifests
  <2>2. CASE phase' = "closure"
    BY <1>1, <1>2, <2>2, ContractSteps DEF ComparedIsOfThatMoment, InTheEnd,
       ContractsFollowTheManifests
  <2> QED BY <1>2, <2>1, <2>2
<1>7. Budgeted'
  BY <1>1, <1>2, ContractSteps DEF Budgeted
<1>8. \A n : ReadPackage(n)' = ReadPackage(n)
  BY <1>1, <1>2, ContractSteps DEF ReadPackage
<1>9. ASSUME NEW n \in visited PROVE Queued(n)' \/ Walked(n)'
  <2>1. CASE Walked(n)
    BY <1>1, <1>8, <2>1 DEF Walked
  <2>2. CASE Queued(n)
    <3>1. PICK i \in 1..Len(queue) : queue[i] = ReadPackage(n)
      BY <2>2 DEF Queued
    <3>2. CASE i = 1
      <4>1. Head(queue) = ReadPackage(n)
        BY <1>3, <3>1, <3>2
      <4>2. ReadPackage(n).name = n
        BY DEF ReadPackage, WalkTypeOK, Primary, Package
      <4>3. \A dependency \in DependencyNames(ReadPackage(n)) :
                dependency \in visited \/ <<n, dependency>> \in absent
        BY <1>1, <4>1, <4>2 DEF ToSearch
      <4> QED BY <1>1, <1>8, <4>3 DEF Walked
    <3>3. CASE i # 1
      <4>1. i - 1 \in 1..Len(queue') /\ queue'[i - 1] = queue[i]
        BY <1>3, <3>1, <3>3
      <4> QED BY <1>8, <3>1, <4>1 DEF Queued
    <3> QED BY <3>2, <3>3
  <2> QED BY <1>1, <2>1, <2>2 DEF WalkIsSound
<1>10. WalkIsSound'
  <2>1. /\ Explicit' = Explicit /\ discovered' = discovered /\ visited' = visited
        /\ resolved' = <<>> /\ (InTheEnd' => phase' = "explicit")
    BY <1>1, <1>2, ContractSteps DEF InTheEnd
  <2>2. phase' = "explicit" => queue' = <<>>
    BY <1>1, <1>3
  <2>3. /\ \A n \in Explicit \cap Authority : n \in visited
        /\ visited \subseteq Explicit \cup DOMAIN discovered
        /\ DOMAIN discovered \subseteq visited \ Explicit
    BY <1>1 DEF WalkIsSound
  <2>4. \A n \in visited' : Queued(n)' \/ Walked(n)'
    BY <1>9, <2>1
  <2>5. phase' # "roots" /\ (InTheEnd' => queue' = <<>> /\ resolved' = <<>>)
    BY <1>2, <2>1, <2>2
  <2>6. /\ \A n \in Explicit' \cap Authority : n \in visited'
        /\ visited' \subseteq Explicit' \cup DOMAIN discovered'
        /\ DOMAIN discovered' \subseteq visited' \ Explicit'
    BY <2>1, <2>3
  <2> QED BY <2>1, <2>4, <2>5, <2>6 DEF WalkIsSound
<1>11. QuietIsQuiet' /\ QuietDiskIsRead'
  BY <1>1, <1>2, ContractSteps DEF QuietIsQuiet, QuietDiskIsRead, PackageLimit
<1> QED BY <1>2, <1>4, <1>5, <1>6, <1>7, <1>10, <1>11, ContractSteps
\* What the reading of declarations leaves alone.
LEMMA DeclarationSteps ==
    ASSUME AcquisitionInv, InTheEnd, InTheEnd', phase' # "roots",
           UNCHANGED <<targetVars, before, queue, visited, discovered, resolved, absent>>
    PROVE  Budgeted' /\ WalkIsSound' /\ QuietIsQuiet'
<1> USE DEF AcquisitionInv
<1>1. Walking /\ Walking' /\ Explicit' = Explicit /\ resolved = <<>> /\ queue = <<>>
  BY ContractSteps DEF Walking, WalkIsSound
<1>2. \A n : ReadPackage(n)' = ReadPackage(n)
  BY ContractSteps DEF ReadPackage
<1>3. \A n : (Queued(n) => Queued(n)') /\ (Walked(n) => Walked(n)')
  BY <1>2 DEF Queued, Walked
<1>4. phase # "roots"
  BY DEF InTheEnd, TargetComesFirst
<1>5. Budgeted'
  BY <1>1 DEF Budgeted
<1>6. WalkIsSound'
  BY <1>1, <1>3, <1>4 DEF WalkIsSound
<1>7. QuietIsQuiet'
  BY <1>1, ContractSteps DEF QuietIsQuiet
<1> QED BY <1>5, <1>6, <1>7

LEMMA DeclarationsFailStep ==
    ASSUME AcquisitionInv, target = "ok", DeclarationsFail, UNCHANGED targetVars
    PROVE  AcquisitionInv'
<1>1. PICK code \in {"CONTRACT_DECLARATION_INVALID", DeclarationLimit} : Fails(code)
  BY DEF DeclarationsFail
<1>2. code \notin {"none", "ok", "CONTRACT_EVIDENCE_STALE", "CONTRACT_EVIDENCE_READ_FAILED",
                   "CONTRACT_MANIFEST_INVALID", PackageLimit}
  BY DEF DeclarationLimit, PackageLimit
<1>3. QuietDiskIsRead'
  BY <1>1, <1>2 DEF QuietDiskIsRead, Fails, targetVars
<1> QED BY <1>1, <1>2, <1>3, FailsStep

LEMMA ReadExplicitStep ==
    ASSUME AcquisitionInv, ReadExplicit
    PROVE  AcquisitionInv'
<1> USE DEF AcquisitionInv
<1>1. PICK role \in todo :
         \/ Compare(role)
         \/ DeclarationsFail
         \/ /\ Compares(role)
            /\ todo' = todo \ {role}
            /\ contracts' = IF IsLastAlias(role) THEN contracts \cup {NameOf(role)} ELSE contracts
            /\ phase' = IF todo = {role} THEN "discovered" ELSE phase
            /\ UNCHANGED <<queue, visited, discovered, resolved, answer, before, absent>>
  BY DEF ReadExplicit
<1>2. /\ phase = "explicit" /\ target = "ok" /\ answer = "none" /\ UNCHANGED targetVars
      /\ role \in PackageRoles /\ InTheEnd /\ contracts = Explicit \ NamesIn(todo)
  BY DEF ReadExplicit, TargetComesFirst, WalkTypeOK, InTheEnd, ContractsFollowTheManifests
<1>3. CASE Compare(role)
  BY <1>2, <1>3, CompareStep
<1>4. CASE DeclarationsFail
  BY <1>2, <1>4, DeclarationsFailStep
<1>5. CASE /\ Compares(role)
           /\ todo' = todo \ {role}
           /\ contracts' = IF IsLastAlias(role) THEN contracts \cup {NameOf(role)} ELSE contracts
           /\ phase' = IF todo = {role} THEN "discovered" ELSE phase
           /\ UNCHANGED <<queue, visited, discovered, resolved, answer, before, absent>>
  <2>1. /\ UNCHANGED <<targetVars, before>> /\ phase' \in {"explicit", "discovered"}
        /\ answer' = "none" /\ InTheEnd'
    BY <1>2, <1>5 DEF InTheEnd
  <2>2. before[Real(found[role].file)] = found[role].content
    <3>1. /\ Reached(found[role].content, before[Real(found[role].file)])
          /\ Reached(before[Real(found[role].file)], disk[Real(found[role].file)])
      BY <1>2 DEF ReadsAreOfTheDisk
    <3>2. disk[Real(found[role].file)] = found[role].content
      BY <1>5 DEF Compares, IsCurrent, Content
    <3> QED BY <3>1, <3>2, ReachedIsAnOrder
  <2>3. ComparedIsOfThatMoment'
    <3> SUFFICES ASSUME NEW other \in PackageRoles, other \notin todo'
                 PROVE  before[Real(found[other].file)] = found[other].content
      BY <2>1, <1>5, ContractSteps DEF ComparedIsOfThatMoment
    <3>1. other = role \/ other \notin todo
      BY <1>5
    <3> QED BY <1>2, <2>2, <3>1 DEF ComparedIsOfThatMoment
  <2>4. WalkTypeOK' /\ TargetComesFirst'
    BY <1>2, <1>5, <2>1, ContractSteps DEF WalkTypeOK, TargetComesFirst
  <2>5. contracts' = Explicit \ NamesIn(todo')
    <3>1. NameOf(role) \in Explicit
      BY <1>2 DEF Explicit
    <3>2. CASE IsLastAlias(role)
      <4>1. NamesIn(todo \ {role}) = NamesIn(todo) \ {NameOf(role)}
        BY <3>2, NamesOfRoles DEF IsLastAlias
      <4> QED BY <1>2, <1>5, <3>1, <3>2, <4>1
    <3>3. CASE ~IsLastAlias(role)
      <4>1. NamesIn(todo \ {role}) = NamesIn(todo)
        BY <3>3, NamesOfRoles DEF IsLastAlias
      <4> QED BY <1>2, <1>5, <3>3, <4>1
    <3> QED BY <3>2, <3>3
  <2>6. ContractsFollowTheManifests'
    <3>1. phase' = "discovered" => todo' = {}
      BY <1>2, <1>5
    <3>2. todo' = {} => contracts' = Explicit
      BY <2>5 DEF NamesIn
    <3>3. Explicit' = Explicit /\ NamesIn(todo)' = NamesIn(todo')
      BY <2>1, ContractSteps DEF NamesIn, NameOf
    <3> QED BY <2>1, <2>5, <3>1, <3>2, <3>3 DEF ContractsFollowTheManifests
  <2>7. QuietDiskIsRead'
    BY <1>2, <2>1, ContractSteps DEF QuietDiskIsRead, PackageLimit
  <2> QED BY <1>2, <1>5, <2>1, <2>3, <2>4, <2>6, <2>7, ContractSteps, DeclarationSteps
<1> QED BY <1>1, <1>3, <1>4, <1>5

LEMMA ReadDiscoveredPackagesStep ==
    ASSUME AcquisitionInv, ReadDiscoveredPackages
    PROVE  AcquisitionInv'
<1> USE DEF AcquisitionInv
<1>1. PICK left : left = DOMAIN discovered \ contracts
  OBVIOUS
<1>2. PICK name : name = CHOOSE n \in left : TRUE
  OBVIOUS
<1>3. /\ phase = "discovered" /\ target = "ok" /\ answer = "none" /\ UNCHANGED targetVars
      /\ InTheEnd /\ todo = {}
      /\ Explicit \subseteq contracts /\ contracts \subseteq Explicit \cup DOMAIN discovered
  BY DEF ReadDiscoveredPackages, TargetComesFirst, InTheEnd, ContractsFollowTheManifests
<1>4. \/ DeclarationsFail
      \/ /\ left # {} /\ contracts' = contracts \cup {name}
         /\ UNCHANGED <<phase, todo, queue, visited, discovered, resolved, answer, before, absent>>
      \/ /\ left = {} /\ answer' = "ok" /\ phase' = "done"
         /\ UNCHANGED <<todo, queue, visited, discovered, resolved, contracts, before, absent>>
  BY <1>1, <1>2 DEF ReadDiscoveredPackages
<1>5. CASE DeclarationsFail
  BY <1>3, <1>5, DeclarationsFailStep
<1>6. CASE /\ left # {} /\ contracts' = contracts \cup {name}
           /\ UNCHANGED <<phase, todo, queue, visited, discovered, resolved, answer, before, absent>>
  <2>1. UNCHANGED <<targetVars, before>> /\ InTheEnd' /\ phase' # "roots"
    BY <1>3, <1>6 DEF InTheEnd
  <2>2. name \in DOMAIN discovered
    BY <1>1, <1>2, <1>6
  <2>3. WalkTypeOK' /\ TargetComesFirst' /\ ComparedIsOfThatMoment'
    BY <1>3, <1>6, <2>1, ContractSteps DEF WalkTypeOK, TargetComesFirst, ComparedIsOfThatMoment
  <2>4. ContractsFollowTheManifests'
    BY <1>3, <1>6, <2>1, <2>2, ContractSteps DEF ContractsFollowTheManifests
  <2>5. QuietDiskIsRead'
    BY <1>3, <1>6, <2>1, ContractSteps DEF QuietDiskIsRead, PackageLimit
  <2> QED BY <1>3, <1>6, <2>1, <2>3, <2>4, <2>5, ContractSteps, DeclarationSteps
<1>7. CASE /\ left = {} /\ answer' = "ok" /\ phase' = "done"
           /\ UNCHANGED <<todo, queue, visited, discovered, resolved, contracts, before, absent>>
  <2>1. UNCHANGED <<targetVars, before>> /\ InTheEnd' /\ phase' # "roots"
    BY <1>3, <1>7 DEF InTheEnd
  <2>2. WalkTypeOK' /\ TargetComesFirst' /\ ComparedIsOfThatMoment'
    BY <1>3, <1>7, <2>1, ContractSteps DEF WalkTypeOK, TargetComesFirst, ComparedIsOfThatMoment
  <2>3. ContractsFollowTheManifests'
    BY <1>1, <1>3, <1>7, <2>1, ContractSteps DEF ContractsFollowTheManifests
  <2>4. QuietDiskIsRead'
    BY <1>3, <1>7, <2>1, ContractSteps DEF QuietDiskIsRead, PackageLimit
  <2> QED BY <1>3, <1>7, <2>1, <2>2, <2>3, <2>4, ContractSteps, DeclarationSteps
<1> QED BY <1>4, <1>5, <1>6, <1>7

-----------------------------------------------------------------------------
(***************************************************************************)
(* The theorems.                                                           *)
(***************************************************************************)

LEMMA NextAcquisitionInv == AcquisitionInv /\ [Next]_vars => AcquisitionInv'
<1> SUFFICES ASSUME AcquisitionInv, [Next]_vars PROVE AcquisitionInv'
  OBVIOUS
<1>1. CASE ResolveTarget
  BY <1>1, ResolveTargetStep
<1>2. CASE Expect \/ CompareRoot
  BY <1>2, ExpectStep, CompareRootStep
<1>3. CASE Search \/ ReadDiscovered \/ PackageSearched
  BY <1>3, SearchStep, ReadDiscoveredStep, PackageSearchedStep
<1>4. CASE ReadExplicit \/ ReadDiscoveredPackages
  BY <1>4, ReadExplicitStep, ReadDiscoveredPackagesStep
<1>5. CASE Change
  BY <1>5, ChangeStep
<1>6. CASE UNCHANGED vars
  <2>1. UNCHANGED <<targetVars, before>> /\ UNCHANGED <<found, contractVars>>
    BY <1>6 DEF vars, targetVars, contractVars
  <2>2. DiskTypeOK' /\ ReadingTypeOK' /\ ReadsAreOfTheDisk'
    BY <2>1, ContractSteps
  <2>3. WalkTypeOK' /\ ContractsFollowTheManifests' /\ Budgeted' /\ WalkIsSound'
    BY <2>1, WalkStays DEF AcquisitionInv
  <2>4. TargetComesFirst' /\ ComparedIsOfThatMoment'
    BY <2>1, ContractSteps DEF AcquisitionInv, TargetComesFirst, ComparedIsOfThatMoment, InTheEnd,
       contractVars
  <2>5. QuietIsQuiet'
    <3>1. \A file : Content(file)' = Content(file)
      BY <2>1, QuietStays
    <3> QED BY <2>1, <3>1, ContractSteps DEF AcquisitionInv, QuietIsQuiet, contractVars
  <2>6. QuietDiskIsRead'
    BY <2>1, ContractSteps DEF AcquisitionInv, QuietDiskIsRead, contractVars, targetVars
  <2> QED BY <2>2, <2>3, <2>4, <2>5, <2>6 DEF AcquisitionInv
<1> QED BY <1>1, <1>2, <1>3, <1>4, <1>5, <1>6 DEF Next, ContractStep, Answered

\* The invariant holds for every budget, whatever happens on the disk.
THEOREM AcquisitionInvariance == Spec => []AcquisitionInv
<1> QED BY InitAcquisitionInv, NextAcquisitionInv, PTL DEF Spec

\* The manifests of the packages an answer's target is composed of were all on
\* the disk in the moment in which the target was resolved: a hash that was
\* read, is compared again later and has not changed, pins the content in
\* between.  The profile's manifest and those of the closure are not compared.
THEOREM ComparedManifestsWereThereAtOnce == Spec => []ComparedManifestsAreOfOneMoment
<1>1. AcquisitionInv => ComparedManifestsAreOfOneMoment
  BY DEF AcquisitionInv, ComparedManifestsAreOfOneMoment, ComparedIsOfThatMoment, InTheEnd,
     ContractsFollowTheManifests
<1> QED BY <1>1, AcquisitionInvariance, PTL

\* An answer holds the composition and what its packages of DSH's scope depend
\* on, within the budget.
THEOREM AnswersHoldTheClosure == Spec => []ClosureIsComplete
<1>1. AcquisitionInv => ClosureIsComplete
  <2> SUFFICES ASSUME AcquisitionInv, answer = "ok"
               PROVE  /\ contracts = Explicit \cup DOMAIN discovered
                      /\ Cardinality(contracts) <= MaxPackages
                      /\ \A name \in contracts \cap Authority :
                             \A dependency \in DependencyNames(ReadPackage(name)) :
                                 dependency \in contracts \/ <<name, dependency>> \in absent
    BY DEF ClosureIsComplete
  <2> USE DEF AcquisitionInv
  <2>1. phase = "done" /\ InTheEnd /\ Walking /\ queue = <<>>
    BY DEF TargetComesFirst, InTheEnd, Walking, WalkIsSound
  <2>2. contracts = Explicit \cup DOMAIN discovered
    BY DEF ContractsFollowTheManifests
  <2>3. Cardinality(contracts) <= MaxPackages
    <3> DEFINE S == DOMAIN discovered
    <3>1. S \subseteq Authority /\ S \cap Explicit = {}
      BY <2>1 DEF WalkTypeOK, WalkIsSound
    <3>2. Cardinality(Explicit) + Cardinality(S) <= MaxPackages
      BY <2>1 DEF Budgeted
    <3>3. contracts = Explicit \cup S
      BY <2>2
    <3> HIDE DEF S
    <3> QED BY <3>1, <3>2, <3>3, NamesAddUp
  <2>4. ASSUME NEW name \in contracts \cap Authority,
               NEW dependency \in DependencyNames(ReadPackage(name))
        PROVE  dependency \in contracts \/ <<name, dependency>> \in absent
    <3>1. name \in visited
      BY <2>1, <2>2, <2>4 DEF WalkIsSound
    <3>2. ~Queued(name)
      BY <2>1 DEF Queued
    <3>3. Walked(name)
      BY <2>1, <3>1, <3>2 DEF WalkIsSound
    <3>4. visited \subseteq contracts
      BY <2>1, <2>2 DEF WalkIsSound
    <3> QED BY <2>4, <3>3, <3>4 DEF Walked
  <2> QED BY <2>2, <2>3, <2>4
<1> QED BY <1>1, AcquisitionInvariance, PTL

\* On a disk that does not change nothing is stale or lost, and only a second
\* installation of a package or a real lack of budget stops the acquisition.
THEOREM QuietDisksAreRead == Spec => []QuietDiskIsRead
<1>1. AcquisitionInv => QuietDiskIsRead
  BY DEF AcquisitionInv
<1> QED BY <1>1, AcquisitionInvariance, PTL
=============================================================================
