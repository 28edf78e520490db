------------------------- MODULE TargetAcquisition --------------------------
(***************************************************************************)
(* createDshFilesystemTargetAcquisition (src/acquisition/                  *)
(* dsh-filesystem.ts): the composition of an installed DSH profile, read   *)
(* file by file while a package manager or a user may change the files.    *)
(*                                                                         *)
(* A read has a role in the composition and a list of candidate files.     *)
(* The reads of one stage run concurrently (Promise.all), the stages one   *)
(* after the other; the first failure answers.  The content of a package   *)
(* manifest is "v1", "v1b" (other bytes of the same version) or "v2"; that *)
(* of the profile's manifest is what the profile is composed of.           *)
(***************************************************************************)
EXTENDS Naturals, FiniteSets, Sequences

CONSTANTS MaxChanges   \* bound of the model: changes of files

ASSUME ChangesAssumption == MaxChanges \in Nat

VARIABLES
    disk,      \* the content of each file now
    changes,   \* how often a file has changed
    linked,    \* the profile's package "b" is a symbolic link to DSH's "b"
    stage,     \* the index in Stages of the reads under way; 0 before
    found,     \* role of a read that is done -> the file and its content
    tried,     \* role -> how many of its candidates were missing so far
    target     \* the answer: "none", "ok", or the code of the error

targetVars == <<disk, changes, linked, stage, found, tried, target>>
reading == <<disk, changes, linked>>

Gone == {"missing", "unreadable"}
Bad == {"foreign", "junk"} \cup Gone
Profiles == [plain |-> [bundles |-> {"b"}, dependencies |-> {"d"}],
             alias |-> [bundles |-> {"b"}, dependencies |-> {"b"}],
             pair  |-> [bundles |-> {"b", "d"}, dependencies |-> {}]]
Version(content) == IF content = "v2" THEN 2 ELSE 1

ManifestFiles == {"dsh", "b@dsh", "b@profile", "d@profile"}
ClosureFiles == {"q", "r@q", "r@dsh"}   \* read by ContractAcquisition only
PatchFiles == {"profile-patch", "home-patch", "b@dsh-patch", "b@profile-patch",
               "d@profile-patch", "overlay"}
Files == ManifestFiles \cup ClosureFiles \cup PatchFiles \cup {"profile"}
InProfile == [b |-> "b@profile", d |-> "d@profile"]
PatchIn ==
    [file \in ManifestFiles \ {"dsh"} |->
        CASE file = "b@dsh" -> "b@dsh-patch" [] file = "b@profile" -> "b@profile-patch"
          [] OTHER -> "d@profile-patch"]

\* A link leads to the file it points to.
Real(file) == IF linked /\ file = "b@profile" THEN "b@dsh"
              ELSE IF linked /\ file = "b@profile-patch" THEN "b@dsh-patch" ELSE file
Content(file) == disk[Real(file)]

-----------------------------------------------------------------------------
\* The order of acquire.
Stages == <<"profile", "dsh", "profile-patch", "home-patch", "bundle", "bundle-patch",
            "dependency", "overlay">>
Optional == {"profile-patch", "home-patch"}

Composition == Profiles[found[<<"profile", "-">>].content]
RolesOf(i) ==
    CASE Stages[i] \in {"bundle", "bundle-patch"} -> {Stages[i]} \X Composition.bundles
      [] Stages[i] = "dependency" -> {Stages[i]} \X Composition.dependencies
      [] OTHER -> {<<Stages[i], "-">>}

\* findPackageManifest: from the anchors of the package, in their order.  Only
\* DSH carries "b" itself; a dependency is looked up from the profile alone.
Candidates(role) ==
    IF role = <<"bundle", "b">> THEN <<"b@dsh", "b@profile">>
    ELSE IF role[1] \in {"bundle", "dependency"} THEN <<InProfile[role[2]]>>
    ELSE IF role[1] = "bundle-patch" THEN <<PatchIn[found[<<"bundle", role[2]>>].file]>>
    ELSE <<role[1]>>

MissingCode(role) ==
    CASE role[1] = "profile" -> "TARGET_PROFILE_NOT_FOUND"
      [] role[1] = "dsh" -> "TARGET_DSH_NOT_FOUND"
      [] role[1] = "bundle" -> "TARGET_BUNDLE_NOT_FOUND"
      [] role[1] = "bundle-patch" -> "TARGET_BUNDLE_PATCH_NOT_FOUND"
      [] role[1] = "dependency" -> "TARGET_DEPENDENCY_NOT_FOUND"
      [] OTHER -> "TARGET_OVERLAY_NOT_FOUND"

Pending == IF stage = 0 THEN {} ELSE RolesOf(stage) \ DOMAIN found

\* acquireBundle checks the identity before it reads the patch.
ForeignBundle(role) ==
    role[1] = "bundle-patch" /\ found[<<"bundle", role[2]>>].content = "foreign"

TargetInit ==
    /\ \E profile \in DOMAIN Profiles, hoisted \in {"v1", "missing"} :
           disk = [[file \in Files |-> "v1"] EXCEPT !["profile"] = profile,
                                                    !["r@q"] = "v2", !["r@dsh"] = hoisted]
    /\ changes = 0
    /\ linked \in BOOLEAN
    /\ stage = 0 /\ found = <<>> /\ tried = <<>>
    /\ target = "none"

TargetAnswers(code) == target' = code /\ UNCHANGED <<reading, stage, found, tried>>

Begin ==
    /\ stage = 0
    /\ stage' = 1
    /\ UNCHANGED <<reading, found, tried, target>>

-----------------------------------------------------------------------------
\* A table with one more entry.
With(table, key, value) ==
    [k \in DOMAIN table \cup {key} |-> IF k = key THEN value ELSE table[k]]

\* readManifest, optionalPatch and requiredPatch, in the loop of
\* findPackageManifest over the candidates.
Tried(role) == IF role \in DOMAIN tried THEN tried[role] ELSE 0
File(role) == Candidates(role)[Tried(role) + 1]
IsLastCandidate(role) == Tried(role) + 1 = Len(Candidates(role))
Reads(role) == target = "none" /\ role \in Pending

ReadSucceeds(role) ==
    /\ Reads(role) /\ ~ForeignBundle(role)
    /\ Content(File(role)) \notin {"junk", "unreadable"}
    /\ Content(File(role)) = "missing" => role[1] \in Optional
    /\ found' = With(found, role, [file |-> File(role), content |-> Content(File(role))])
    /\ UNCHANGED <<reading, stage, tried, target>>

TryNextCandidate(role) ==
    /\ Reads(role) /\ ~ForeignBundle(role)
    /\ Content(File(role)) = "missing" /\ role[1] \notin Optional
    /\ ~IsLastCandidate(role)
    /\ tried' = With(tried, role, Tried(role) + 1)
    /\ UNCHANGED <<reading, stage, found, target>>

ReadFails(role) ==
    /\ Reads(role)
    /\ \/ /\ ForeignBundle(role) \/ Content(File(role)) = "junk"
          /\ TargetAnswers("TARGET_MANIFEST_INVALID")
       \/ /\ ~ForeignBundle(role) /\ Content(File(role)) = "unreadable"
          /\ TargetAnswers("TARGET_EVIDENCE_READ_FAILED")
       \/ /\ ~ForeignBundle(role) /\ Content(File(role)) = "missing"
          /\ role[1] \notin Optional /\ IsLastCandidate(role)
          /\ TargetAnswers(MissingCode(role))

\* packageManifestCandidates: the anchors are resolved before their packages.
AnchorGone(role) ==
    /\ Reads(role) /\ Tried(role) = 0
    /\ \/ role[1] = "bundle" /\ Content("dsh") \in Gone
       \/ role[1] \in {"bundle", "dependency"} /\ Content("profile") \in Gone
    /\ TargetAnswers("TARGET_EVIDENCE_READ_FAILED")

\* What is checked when a stage is complete: the identities of DSH and of the
\* dependencies, and, once the version of DSH is known, the profile's fields.
StageForeign ==
    \/ /\ Stages[stage] = "dsh"
       /\ \E name \in {"dsh", "profile"} : found[<<name, "-">>].content = "foreign"
    \/ /\ Stages[stage] = "dependency"
       /\ \E role \in RolesOf(stage) : found[role].content = "foreign"

StageEnds ==
    /\ target = "none"
    /\ stage > 0 /\ Pending = {}
    /\ \/ StageForeign /\ TargetAnswers("TARGET_MANIFEST_INVALID")
       \/ ~StageForeign /\ stage = Len(Stages) /\ TargetAnswers("ok")
       \/ /\ ~StageForeign /\ stage < Len(Stages)
          /\ stage' = stage + 1
          /\ UNCHANGED <<reading, found, tried, target>>

TargetStep ==
    \/ Begin \/ StageEnds
    \/ \E role \in Pending :
           \/ ReadSucceeds(role) \/ TryNextCandidate(role) \/ ReadFails(role)
           \/ AnchorGone(role)

-----------------------------------------------------------------------------
\* A manifest that is JSON but lacks the expected name, version or fields is
\* "foreign", one that is not a JSON object is "junk".  Bytes never return to
\* what they were: comparisons of content hashes cannot see that, and do not
\* claim to.
Later(file) ==
    IF file \in PatchFiles THEN {}
    ELSE IF disk[file] = "v1" THEN {"v1b", "v2"}
    ELSE IF disk[file] = "v1b" THEN {"v2"}
    ELSE IF disk[file] \in DOMAIN Profiles THEN {"pair"} \ {disk[file]}
    ELSE {}
NewContent(file) ==
    Later(file) \cup
    (IF disk[file] \in Bad THEN {}
     ELSE Gone \cup (IF file \in PatchFiles THEN {} ELSE {"foreign", "junk"}))

ChangeFile ==
    /\ changes < MaxChanges
    /\ changes' = changes + 1
    /\ \E file \in Files : \E content \in NewContent(file) :
           disk' = [disk EXCEPT ![file] = content]
    /\ UNCHANGED <<linked, stage, found, tried, target>>
=============================================================================
