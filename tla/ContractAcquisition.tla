------------------------ MODULE ContractAcquisition -------------------------
(***************************************************************************)
(* createDshContractFilesystemAcquisition (src/acquisition/                *)
(* dsh-contract-filesystem.ts) after a target was resolved: which packages *)
(* contracts are made of.  The manifests of the packages the target is     *)
(* composed of are read again and compared by their hash, twice for the    *)
(* packages of DSH; those DSH depends on are searched along the graph of   *)
(* dependencies and their manifests read once; then the declarations of    *)
(* each package are read (DeclarationWalk).                                *)
(***************************************************************************)
EXTENDS TargetAcquisition

CONSTANTS MaxPackages   \* maxContractPackages

ASSUME PackagesAssumption == MaxPackages \in Nat

VARIABLES
    phase,       \* "target", "roots", "closure", "explicit", "discovered" or "done"
    todo,        \* the manifests still to compare, by their role
    queue,       \* closure: packages whose dependencies are to be searched
    visited,     \* closure: names that need no search any more
    discovered,  \* closure: name -> the manifest found for it
    resolved,    \* closure: the file a dependency was found at, to be read
    contracts,   \* the names of the packages whose declarations were read
    answer,      \* "none", "ok", or the code of the error
    before,      \* history: the disk when the target was resolved
    absent       \* history: searches that found nothing, <<anchor, name>>

contractVars == <<phase, todo, queue, visited, discovered, resolved, contracts, answer,
                  before, absent>>
vars == <<targetVars, contractVars>>

-----------------------------------------------------------------------------
\* resourceLimitError: one code whose message names the limit.
PackageLimit == "CONTRACT_DECLARATION_LIMIT_EXCEEDED:maxContractPackages"
DeclarationLimit == "CONTRACT_DECLARATION_LIMIT_EXCEEDED:declarations"

NameOf(role) == IF role[1] = "dsh" THEN "dsh" ELSE role[2]

\* The manifests of the snapshot's packages, in the order of package and
\* evidence id.  The snapshot has captured the profile's manifest too; it is
\* the evidence of no package, and nothing here reads it again.
Order == << <<"bundle", "b">>, <<"dependency", "b">>, <<"bundle", "d">>, <<"dependency", "d">>,
            <<"dsh", "-">> >>
PackageRoles == {Order[i] : i \in DOMAIN Order} \cap DOMAIN found
IsFirst(role, roles) ==
    \E i \in DOMAIN Order : role = Order[i] /\ \A j \in 1..(i - 1) : Order[j] \notin roles
RolesNamed(name) == {role \in PackageRoles : NameOf(role) = name}

\* expectedPackages, groupPackageCandidates.
Explicit == {NameOf(role) : role \in PackageRoles}
VersionOf(name) == Version(found[CHOOSE role \in RolesNamed(name) : TRUE].content)
VersionsConflict ==
    \E name \in Explicit : \E role, alias \in RolesNamed(name) :
        Version(found[role].content) # Version(found[alias].content)

\* The packages of DSH's own scope, and what they depend on in it; a second
\* version of any of them depends on nothing.
Authority == {"dsh", "b", "q", "r"}
DependsOn == [dsh |-> {"q"}, b |-> {"r"}, q |-> {"b", "r"}, r |-> {"q"}]
DependencyNames(package) == IF Version(package.content) = 2 THEN {} ELSE DependsOn[package.name]

\* resolvePackageManifestFromAnchor: node_modules from the package outwards.
LookupFrom(package, name) ==
    IF name = "b" THEN <<"b@dsh">>
    ELSE IF name = "q" THEN <<"q">>
    ELSE IF package.name = "q" THEN <<"r@q", "r@dsh">>
    ELSE <<"r@dsh">>
Installed(file) == Content(file) # "missing"
Hits(package, name) ==
    {i \in DOMAIN LookupFrom(package, name) : Installed(LookupFrom(package, name)[i])}
Nearest(package, name) ==
    LookupFrom(package, name)[CHOOSE i \in Hits(package, name) : \A j \in Hits(package, name) : i <= j]

Package(name, role) == [name |-> name, file |-> found[role].file, content |-> found[role].content]
Primary(name) ==
    Package(name, CHOOSE role \in RolesNamed(name) : IsFirst(role, RolesNamed(name)))
Roots == {role \in PackageRoles : NameOf(role) \in Authority}

-----------------------------------------------------------------------------
Init ==
    /\ TargetInit
    /\ phase = "target"
    /\ todo = {} /\ queue = <<>> /\ resolved = <<>>
    /\ visited = {} /\ discovered = <<>> /\ contracts = {}
    /\ answer = "none"
    /\ before = disk /\ absent = {}

Fails(code) == /\ answer' = code /\ phase' = "done"
               /\ UNCHANGED <<todo, queue, visited, discovered, resolved, contracts, before, absent>>

ResolveTarget ==
    /\ TargetStep
    /\ IF target' = "ok" THEN before' = disk ELSE UNCHANGED before
    /\ UNCHANGED <<phase, todo, queue, visited, discovered, resolved, contracts, answer, absent>>

\* acquire, until its first await.
Expect ==
    /\ phase = "target" /\ target = "ok"
    /\ \/ VersionsConflict /\ Fails("CONTRACT_MANIFEST_INVALID")
       \/ /\ ~VersionsConflict /\ Cardinality(Explicit) > MaxPackages
          /\ Fails(PackageLimit)
       \/ /\ ~VersionsConflict /\ Cardinality(Explicit) <= MaxPackages
          /\ phase' = "roots" /\ todo' = Roots
          /\ UNCHANGED <<queue, visited, discovered, resolved, contracts, answer, before, absent>>
    /\ UNCHANGED targetVars

\* acquireManifest: the bytes are compared with those of the snapshot.
IsCurrent_ByVersion(role) ==
    Content(found[role].file) \notin Bad /\ Version(Content(found[role].file)) = Version(found[role].content)
IsCurrent(role) == Content(found[role].file) = found[role].content

\* acquireManifestAliases: of the last alias of a package it is also checked
\* that all of them lie in one directory.
IsLastAlias(role) == \A other \in todo \ {role} : NameOf(other) # NameOf(role)
OneRoot_Lexical(name) ==
    \A role, alias \in RolesNamed(name) : found[role].file = found[alias].file
OneRoot(name) ==
    \A role, alias \in RolesNamed(name) : Real(found[role].file) = Real(found[alias].file)

Compare(role) ==
    \/ Content(found[role].file) \in Gone /\ Fails("CONTRACT_EVIDENCE_READ_FAILED")
    \/ /\ Content(found[role].file) \notin Gone /\ ~IsCurrent(role)
       /\ Fails("CONTRACT_EVIDENCE_STALE")
    \/ /\ IsCurrent(role) /\ IsLastAlias(role) /\ ~OneRoot(NameOf(role))
       /\ Fails("CONTRACT_MANIFEST_INVALID")
Compares(role) == IsCurrent(role) /\ (IsLastAlias(role) => OneRoot(NameOf(role)))

CompareRoot ==
    /\ phase = "roots"
    /\ \E role \in todo :
        /\ IsFirst(role, todo)
        /\ \/ Compare(role)
           \/ /\ Compares(role)
              /\ todo' = todo \ {role}
              /\ queue' = IF IsLastAlias(role) THEN Append(queue, Primary(NameOf(role))) ELSE queue
              /\ visited' = visited \cup {NameOf(role)}
              /\ phase' = IF todo = {role} THEN "closure" ELSE phase
              /\ UNCHANGED <<discovered, resolved, contracts, answer, before, absent>>
    /\ UNCHANGED targetVars

\* discoverDshAuthorityClosure: one dependency of the first package of the
\* queue is searched, and read when it was found.
ToSearch == {name \in DependencyNames(Head(queue)) :
                 name \notin visited /\ <<Head(queue).name, name>> \notin absent}
NextName == CHOOSE name \in ToSearch : TRUE
OverBudget(name) ==
    name \notin Explicit /\ Cardinality(Explicit) + Cardinality(DOMAIN discovered) >= MaxPackages
VisitedBySearch_Always(name) == visited \cup {name}
VisitedBySearch(name) == visited

Search ==
    /\ phase = "closure" /\ queue # <<>> /\ resolved = <<>> /\ ToSearch # {}
    /\ LET name == NextName
           package == Head(queue)
           installed == Hits(package, name) # {}
       IN  \/ OverBudget(name) /\ Fails(PackageLimit)
           \/ /\ ~OverBudget(name)
              /\ installed /\ Content(Nearest(package, name)) = "unreadable"
              /\ Fails("CONTRACT_EVIDENCE_READ_FAILED")
           \/ /\ ~OverBudget(name)
              /\ IF installed
                 THEN /\ resolved' = <<name, Nearest(package, name)>>
                      /\ UNCHANGED <<absent, visited>>
                 ELSE /\ absent' = absent \cup {<<package.name, name>>}
                      /\ visited' = VisitedBySearch(name)
                      /\ UNCHANGED resolved
              /\ UNCHANGED <<phase, todo, queue, discovered, contracts, answer, before>>
    /\ UNCHANGED targetVars

Disagrees(name, content) == name \in Explicit /\ Version(content) # VersionOf(name)

\* acquireDiscoveredManifest: the file may have changed since it was found.
ReadDiscovered ==
    /\ phase = "closure" /\ resolved # <<>>
    /\ LET name == resolved[1]
           content == Content(resolved[2])
       IN  \/ content \in Gone /\ Fails("CONTRACT_EVIDENCE_READ_FAILED")
           \/ content \in Bad \ Gone /\ Fails("CONTRACT_MANIFEST_INVALID")
           \/ /\ content \notin Bad /\ Disagrees(name, content)
              /\ Fails("CONTRACT_MANIFEST_INVALID")
           \/ /\ content \notin Bad /\ ~Disagrees(name, content)
              /\ LET package == [name |-> name, file |-> resolved[2], content |-> content]
                 IN  /\ queue' = Append(queue, package)
                     /\ discovered' = IF name \in Explicit THEN discovered
                                      ELSE With(discovered, name, package)
              /\ visited' = visited \cup {name}
              /\ resolved' = <<>>
              /\ UNCHANGED <<phase, todo, contracts, answer, before, absent>>
    /\ UNCHANGED targetVars

PackageSearched ==
    /\ phase = "closure" /\ queue # <<>> /\ resolved = <<>> /\ ToSearch = {}
    /\ queue' = Tail(queue)
    /\ IF Len(queue) = 1 THEN phase' = "explicit" /\ todo' = PackageRoles
       ELSE UNCHANGED <<phase, todo>>
    /\ UNCHANGED <<visited, discovered, resolved, contracts, answer, before, absent, targetVars>>

-----------------------------------------------------------------------------
\* buildPackageContract for the packages of the snapshot, after one more
\* comparison, and then for those discovered; declarations are a walk of
\* their own and may fail.
DeclarationsFail ==
    \E code \in {"CONTRACT_DECLARATION_INVALID", DeclarationLimit} : Fails(code)

ReadExplicit ==
    /\ phase = "explicit"
    /\ \E role \in todo :
        /\ IsFirst(role, todo)
        /\ \/ Compare(role)
           \/ Compares(role) /\ IsLastAlias(role) /\ DeclarationsFail
           \/ /\ Compares(role)
              /\ todo' = todo \ {role}
              /\ contracts' = IF IsLastAlias(role) THEN contracts \cup {NameOf(role)} ELSE contracts
              /\ phase' = IF todo = {role} THEN "discovered" ELSE phase
              /\ UNCHANGED <<queue, visited, discovered, resolved, answer, before, absent>>
    /\ UNCHANGED targetVars

ReadDiscoveredPackages ==
    /\ phase = "discovered"
    /\ LET left == DOMAIN discovered \ contracts
       IN  \/ left # {} /\ DeclarationsFail
           \/ /\ left # {}
              /\ contracts' = contracts \cup {CHOOSE name \in left : TRUE}
              /\ UNCHANGED <<phase, todo, queue, visited, discovered, resolved, answer, before, absent>>
           \/ /\ left = {}
              /\ answer' = "ok" /\ phase' = "done"
              /\ UNCHANGED <<todo, queue, visited, discovered, resolved, contracts, before, absent>>
    /\ UNCHANGED targetVars

Change == phase # "done" /\ target \in {"none", "ok"} /\ ChangeFile /\ UNCHANGED contractVars

ContractStep ==
    Expect \/ CompareRoot \/ Search \/ ReadDiscovered \/ PackageSearched \/ ReadExplicit
    \/ ReadDiscoveredPackages

\* The request is answered; it has no other end (deadlock is checked).
Answered == (phase = "done" \/ target \notin {"none", "ok"}) /\ UNCHANGED vars

Next == ResolveTarget \/ ContractStep \/ Change \/ Answered

Spec == Init /\ [][Next]_vars

-----------------------------------------------------------------------------
\* The manifests of the packages a target is composed of (DSH, bundles and
\* dependencies), which are compared again before an answer, were on the disk
\* at one moment, the one in which the target was resolved, although neither
\* the target nor the contracts were read in one moment.  It says nothing of
\* the manifests found in the closure: those are read once, after that moment.
ComparedManifestsAreOfOneMoment ==
    answer = "ok" => \A role \in PackageRoles :
                         before[Real(found[role].file)] = found[role].content

\* An answer has a contract for each package of the composition and each
\* package of DSH's scope one of them depends on, however the graph is walked,
\* except for what was searched from that package and not installed.
ReadPackage(name) == IF name \in DOMAIN discovered THEN discovered[name] ELSE Primary(name)
ClosureIsComplete ==
    answer = "ok" =>
        /\ contracts = Explicit \cup DOMAIN discovered
        /\ Cardinality(contracts) <= MaxPackages
        /\ \A name \in contracts \cap Authority :
               \A dependency \in DependencyNames(ReadPackage(name)) :
                   dependency \in contracts \/ <<name, dependency>> \in absent

\* On a disk nobody writes to, no evidence is stale, missing or invalid but
\* for two installations of one package, and no package goes over the budget
\* unless there are more of them.
QuietDiskIsRead ==
    changes = 0 =>
        /\ target \in {"none", "ok"}
        /\ answer \notin {"CONTRACT_EVIDENCE_STALE", "CONTRACT_EVIDENCE_READ_FAILED"}
        /\ answer = "CONTRACT_MANIFEST_INVALID" => ~linked /\ disk["profile"] = "alias"
        /\ answer = PackageLimit => Cardinality(Explicit \cup Authority) > MaxPackages
=============================================================================
