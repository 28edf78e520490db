--------------------------- MODULE PluginSubjects ----------------------------
(***************************************************************************)
(* A plugin is acquired as a directory or as a packed artifact             *)
(* (src/acquisition/plugin-directory.ts, plugin-packed.ts), projected      *)
(* (src/model/plugin.ts), and checked against the packages of an exact     *)
(* target (src/model/plugin-check.ts); the worker later inspects the       *)
(* packed bytes again (src/verification/packed-artifact-inspection.ts).    *)
(*                                                                         *)
(* A manifest is the parsed package.json; a directory is [root, manifest,  *)
(* package, patch] with the state of each path.  A directory may change    *)
(* between the reads; the bytes of an artifact are read once.              *)
(***************************************************************************)
EXTENDS PackedArchive

VARIABLES
    form,       \* input: "directory" or "packed"
    disk,       \* the directory, or the archive
    target,     \* input: the versions the target's index states of "peer"; {} when absent
    changed,    \* the directory has changed once
    step,       \* how far the acquisition is
    manifest,   \* the manifest that was read, NoManifest before
    subject,    \* the acquired subject
    verdict     \* the analysis, "none" before

inputs == <<form, target>>
vars == <<inputs, disk, changed, step, manifest, subject, verdict>>

-----------------------------------------------------------------------------
NoManifest == [object |-> FALSE]
\* A declared package: peer or a foreign one; range "bad" is no string,
\* "same" the text of the target's version, whether or not it parses.
Declared(package, range, meta) == [package |-> package, range |-> range, meta |-> meta]
IsOurs(declaration) == declaration.package = "peer"

\* deepseekRequirements, the same in both files.
Relationship(declaration) ==
    IF declaration.meta = "optional" THEN "host-peer-optional" ELSE "host-peer-required"
RequirementsOf(package) ==
    {[range |-> d.range, relationship |-> Relationship(d)] :
        d \in {p \in package.peers : IsOurs(p) /\ p.range # "bad"}}
    \cup {[range |-> d.range, relationship |-> "artifact-dependency"] :
        d \in {p \in package.dependencies : IsOurs(p) /\ p.range # "bad"}}
Problems(package) ==
    IF \/ ~package.shapes \/ ~package.identity
       \/ \E d \in package.peers \cup package.dependencies : IsOurs(d) /\ d.range = "bad"
       \/ \E d \in package.peers : IsOurs(d) /\ d.range # "bad" /\ d.meta = "malformed"
    THEN {"PLUGIN_MANIFEST_INVALID"} ELSE {}

\* bundlePatchDeclaration, and where the declared path leads: "up-and-down"
\* leaves the root and returns by its name.
PatchProblem(package) ==
    CASE package.patch = "undeclared" -> {"PLUGIN_BUNDLE_PATCH_MISSING"}
      [] package.patch = "malformed" -> {"PLUGIN_MANIFEST_INVALID"}
      [] package.patch = "outside" -> {"PLUGIN_BUNDLE_PATCH_OUTSIDE_ROOT"}
      [] OTHER -> {}

\* completenessForIdentity.
Completeness(package, diagnostics) ==
    IF ~package.identity THEN "invalid" ELSE IF diagnostics = {} THEN "complete" ELSE "partial"
Subject(package, patch, diagnostics, evidence) ==
    [completeness |-> Completeness(package, diagnostics), identity |-> package.identity,
     patch |-> patch, requirements |-> RequirementsOf(package),
     evidence |-> evidence, diagnostics |-> diagnostics]
InvalidSubject(code, evidence) ==
    [completeness |-> "invalid", identity |-> FALSE, patch |-> "none", requirements |-> {},
     evidence |-> evidence, diagnostics |-> {code}]

-----------------------------------------------------------------------------
\* acquirePluginPacked: everything after the one read of the bytes.
OneFile(entries) == entries # {} /\ \A entry \in entries : entry.type = "0"
PatchFrom(entries) == (CHOOSE entry \in entries : TRUE).content[1]
PackageFrom(entries) == (CHOOSE entry \in entries : TRUE).content[2]
PackedPatchProblem(archive, package) ==
    LET entries == EntriesAt(archive, PatchPath)
    IN  IF package.patch = "up-and-down" THEN {"PLUGIN_BUNDLE_PATCH_OUTSIDE_ROOT"}
        ELSE IF package.patch # "declared" THEN PatchProblem(package)
        ELSE IF entries = {} THEN {"PLUGIN_BUNDLE_PATCH_MISSING"}
        ELSE IF ~OneFile(entries) THEN {"PLUGIN_PACKED_INVALID"}
        ELSE IF PatchFrom(entries) = "large" THEN {"PLUGIN_BUNDLE_PATCH_LIMIT_EXCEEDED"}
        ELSE {}
PackedSubject(archive) ==
    LET artifact == {"plugin:packed-artifact"}
        entries == EntriesAt(archive, ManifestPath)
        package == PackageFrom(entries)
        patchProblem == PackedPatchProblem(archive, package)
        hasPatch == package.patch = "declared" /\ patchProblem = {}
    IN  IF ~ParsedArchive(archive).ok THEN InvalidSubject("PLUGIN_PACKED_INVALID", artifact)
        ELSE IF entries = {} THEN InvalidSubject("PLUGIN_MANIFEST_READ_FAILED", artifact)
        ELSE IF ~OneFile(entries) THEN InvalidSubject("PLUGIN_PACKED_INVALID", artifact)
        ELSE IF package.size = "large" THEN InvalidSubject("PLUGIN_MANIFEST_LIMIT_EXCEEDED", artifact)
        ELSE IF ~package.object THEN
                InvalidSubject("PLUGIN_MANIFEST_INVALID", artifact \cup {"plugin:manifest"})
        ELSE Subject(package,
                  IF hasPatch THEN PatchFrom(EntriesAt(archive, PatchPath)) ELSE "none",
                  Problems(package) \cup patchProblem,
                  artifact \cup {"plugin:manifest"}
                      \cup IF hasPatch THEN {"plugin:bundle-patch"} ELSE {})

\* inspectPackedArtifactRuntimeEntrypoint: only a plain entrypoint, by main or
\* a simple root export, is looked for.
Inspection(archive) ==
    LET entries == EntriesAt(archive, ManifestPath)
        package == PackageFrom(entries)
        runtime == EntriesAt(archive, EntryPath)
    IN  IF ~archive.gzip THEN "not-checkable"
        ELSE IF ~ParsedArchive(archive).ok \/ ~OneFile(entries) THEN "failed"
        ELSE IF package.size = "large" \/ ~package.object THEN "failed"
        ELSE IF package.entry # "plain" THEN "not-checkable"
        ELSE IF runtime = {} THEN "missing"
        ELSE IF ~OneFile(runtime) THEN "not-checkable"
        ELSE "present"

-----------------------------------------------------------------------------
\* normalizedRequirements and createPluginSubjectSemanticProjection: what the
\* subject fingerprint identifies; sets are sorted without duplicates.
Projection(acquired) ==
    IF acquired.identity THEN {[patch |-> acquired.patch, requirements |-> acquired.requirements]}
    ELSE {}

\* packageVersion and classifyVersionRelation: exactly one version is a fact.
Relation(range) ==
    IF Cardinality(target) # 1 THEN "unproven"
    ELSE IF range = "same" THEN "satisfied"
    ELSE IF range = "unparsable" \/ target = {"unparsable"} THEN "unproven"
    ELSE IF range = "matching" THEN "satisfied" ELSE "version-mismatch"
StatusOf_OptionalNeverChecked(requirement) ==
    IF requirement.relationship # "host-peer-required" THEN "not-required-from-host"
    ELSE IF target = {} THEN "missing"
    ELSE Relation(requirement.range)
StatusOf(requirement) ==
    IF requirement.relationship = "artifact-dependency" THEN "not-required-from-host"
    ELSE IF target = {} /\ requirement.relationship = "host-peer-optional" THEN
            "not-required-from-host"
    ELSE IF target = {} THEN "missing"
    ELSE Relation(requirement.range)

\* analyzePluginCompatibility.
Analysis(acquired) ==
    LET statuses == {StatusOf(requirement) : requirement \in acquired.requirements}
    IN  IF statuses \cap {"missing", "version-mismatch"} # {} THEN "incompatible"
        ELSE IF acquired.completeness # "complete" \/ "unproven" \in statuses THEN "unproven"
        ELSE "compatible-in-scope"

\* pluginCheckEvidence: the subject's, and what the requirements cite of the
\* target, which the index has.
EvidenceOf(acquired) ==
    acquired.evidence \cup
    IF target # {} /\ \E r \in acquired.requirements : r.relationship # "artifact-dependency"
    THEN {"target:manifest"} ELSE {}

-----------------------------------------------------------------------------
\* Small inputs.
Peers == {{}} \cup {{Declared("peer", range, meta)} :
              range \in {"same", "matching", "other", "unparsable", "bad"},
              meta \in {"none", "optional", "malformed"}}
         \cup {{Declared("foreign", "bad", "none"), Declared("peer", "other", "optional")}}
Plain == [object |-> TRUE, size |-> "small", identity |-> TRUE, shapes |-> TRUE, peers |-> {},
          dependencies |-> {}, patch |-> "declared", entry |-> "plain"]
Packages ==
    [object: {TRUE}, size: {"small"}, identity: BOOLEAN, shapes: BOOLEAN, peers: Peers,
     dependencies: {{}} \cup {{Declared("peer", range, "none")} : range \in {"matching", "bad"}},
     patch: {"undeclared", "malformed", "outside", "up-and-down", "declared"},
     entry: {"plain", "conditional"}]
BrokenPackages == {[Plain EXCEPT !.object = FALSE], [Plain EXCEPT !.size = "large"]}

\* The content of an entry: that of a package.json with its parsed form.
Header(type, name, content) ==
    [type |-> type, name |-> name, content |-> <<content>>, sound |-> TRUE]
Manifest(type, name, package) ==
    [type |-> type, name |-> name, content |-> <<"manifest", package>>, sound |-> TRUE]
Directory(package) == [root |-> "there", manifest |-> "inside", package |-> package, patch |-> "p0"]
\* npm pack: the regular files of the directory.
PackOf(directory) ==
    [gzip |-> TRUE, aligned |-> TRUE, ended |-> TRUE,
     headers |-> <<Manifest("0", ManifestPath, directory.package)>>
                 \o IF directory.patch \in {"p0", "p1", "large"}
                    THEN <<Header("0", PatchPath, directory.patch)>> ELSE <<>>]

Headers ==
    {Manifest("0", ManifestPath, Plain), Manifest("0", OddManifestPath, Plain),
     Header("0", PatchPath, "p0"), Header("0", EntryPath, "code"), Header("0", UnsafePath, "p0"),
     Header("5", PatchPath, "none"), Header("2", EntryPath, "none"), Manifest("5", ManifestPath, Plain),
     Header("x", "none", "none"), Header("x", PatchPath, "none"), Header("x", UnsafePath, "none"),
     Header("g", EntryPath, "none"), Header("L", EntryPath, "none"), Header("L", UnsafePath, "none"),
     [Header("0", EntryPath, "code") EXCEPT !.sound = FALSE]}
Archives ==
    {[gzip |-> TRUE, aligned |-> TRUE, ended |-> TRUE, headers |-> headers] :
        headers \in BoundedSeq(Headers, 4)}
    \cup {[gzip |-> g, aligned |-> a, ended |-> e, headers |-> <<Manifest("0", ManifestPath, package)>>] :
              g \in BOOLEAN, a \in BOOLEAN, e \in BOOLEAN, package \in BrokenPackages \cup {Plain}}

Directories ==
    [root: {"there"}, manifest: {"inside"}, package: Packages,
     patch: {"absent", "p0", "linked-outside", "large", "unreadable"}]
    \cup [root: {"there", "missing"}, manifest: {"inside", "outside", "missing", "unreadable"},
          package: BrokenPackages, patch: {"p0"}]

Init ==
    /\ \/ form = "packed" /\ target \in {{}, {"good"}} /\ disk \in Archives
       \/ form = "packed" /\ target = {"good"} /\ disk \in {PackOf(Directory(p)) : p \in Packages}
       \/ /\ form = "directory"
          /\ target \in {{}, {"good"}, {"unparsable"}, {"good", "other"}}
          /\ disk \in Directories
    /\ changed = FALSE /\ step = "begin"
    /\ manifest = NoManifest
    /\ subject = InvalidSubject("none", {})
    /\ verdict = "none"

Acquired(result) == subject' = result /\ step' = "acquired"

\* readPackedBytes may fail: nothing is known of the artifact then.
AcquirePacked ==
    /\ form = "packed" /\ step = "begin"
    /\ \/ Acquired(PackedSubject(disk)) \/ Acquired(InvalidSubject("PLUGIN_PACKED_READ_FAILED", {}))
    /\ UNCHANGED <<inputs, disk, changed, manifest, verdict>>

\* acquirePluginDirectory up to the content of package.json.
ReadManifest ==
    /\ form = "directory" /\ step = "begin"
    /\ LET package == disk.package
       IN  CASE disk.root = "missing" -> Acquired(InvalidSubject("PLUGIN_SUBJECT_READ_FAILED", {}))
             [] disk.root # "missing" /\ disk.manifest \in {"missing", "unreadable"} ->
                    Acquired(InvalidSubject("PLUGIN_MANIFEST_READ_FAILED", {}))
             [] disk.root # "missing" /\ disk.manifest = "outside" ->
                    Acquired(InvalidSubject("PLUGIN_MANIFEST_OUTSIDE_ROOT", {}))
             [] disk.root # "missing" /\ disk.manifest = "inside" /\ package.size = "large" ->
                    Acquired(InvalidSubject("PLUGIN_MANIFEST_LIMIT_EXCEEDED", {}))
             [] disk.root # "missing" /\ disk.manifest = "inside" /\ package.size # "large"
                    /\ ~package.object ->
                    Acquired(InvalidSubject("PLUGIN_MANIFEST_INVALID", {"plugin:manifest"}))
             [] OTHER -> step' = "manifest" /\ UNCHANGED subject
    /\ manifest' = IF step' = "manifest" THEN disk.package ELSE manifest
    /\ UNCHANGED <<inputs, disk, changed, verdict>>

\* ...and the bundle patch it declares, by a later look at the directory.
PatchOnDisk ==
    CASE disk.patch = "absent" -> {"PLUGIN_BUNDLE_PATCH_MISSING"}
      [] disk.patch = "linked-outside" -> {"PLUGIN_BUNDLE_PATCH_OUTSIDE_ROOT"}
      [] disk.patch = "large" -> {"PLUGIN_BUNDLE_PATCH_LIMIT_EXCEEDED"}
      [] disk.patch = "unreadable" -> {"PLUGIN_BUNDLE_PATCH_READ_FAILED"}
      [] OTHER -> {}
ReadPatch ==
    /\ step = "manifest"
    /\ LET leads == manifest.patch \in {"declared", "up-and-down"}
           problem == IF leads THEN PatchOnDisk ELSE PatchProblem(manifest)
           found == leads /\ problem = {}
       IN  Acquired(Subject(manifest, IF found THEN disk.patch ELSE "none",
               Problems(manifest) \cup problem,
               {"plugin:manifest"} \cup IF found THEN {"plugin:bundle-patch"} ELSE {}))
    /\ UNCHANGED <<inputs, disk, changed, manifest, verdict>>

Analyse ==
    /\ step = "acquired" /\ step' = "done"
    /\ verdict' = Analysis(subject)
    /\ UNCHANGED <<inputs, disk, changed, manifest, subject>>

\* Somebody builds the directory anew.
ChangeDirectory ==
    /\ form = "directory" /\ ~changed /\ step = "manifest" /\ changed' = TRUE
    /\ \E patch \in {"absent", "p1"}, peers \in {{}, {Declared("peer", "other", "none")}} :
           disk' = [disk EXCEPT !.patch = patch, !.package.peers = peers]
    /\ UNCHANGED <<inputs, step, manifest, subject, verdict>>

Next == AcquirePacked \/ ReadManifest \/ ReadPatch \/ Analyse \/ ChangeDirectory

-----------------------------------------------------------------------------
\* The name of the data header i in a reader that knows PAX and GNU names: the
\* last PAX record since the data header before it, else the last GNU name.
IsData(header) == header.type \notin {"x", "g", "L"}
OwnName(headers, i) ==
    LET before == {j \in 1..(i - 1) : \A k \in j..(i - 1) : ~IsData(headers[k])}
        of(type) == {j \in before : headers[j].type = type}
        last(S) == headers[CHOOSE j \in S : \A k \in S : k <= j].name
        pax == IF of("x") = {} THEN "none" ELSE last(of("x"))
    IN  IF pax # "none" THEN pax ELSE IF of("L") # {} THEN last(of("L")) ELSE headers[i].name

\* An archive that is read has, for every file in it, one entry under the name
\* meant for that file and under no other: names pending for one entry never
\* reach the next, and no file hides another.
EntriesHaveTheirOwnNames ==
    form = "packed" /\ ParsedArchive(disk).ok =>
        LET data == {i \in DOMAIN disk.headers : IsData(disk.headers[i])}
        IN  /\ ParsedArchive(disk).entries =
                   {[name |-> NormalizedPath(OwnName(disk.headers, i)),
                     type |-> disk.headers[i].type, content |-> disk.headers[i].content] : i \in data}
            /\ Cardinality(ParsedArchive(disk).entries) = Cardinality(data)

\* A plugin called compatible was wholly understood: every peer its manifest
\* declares of the target is there in one version that satisfies the range,
\* or is optional and absent, the declared patch was hashed, and all cited
\* evidence is returned; a directory that changes meanwhile is judged by the
\* one manifest that was read.
PackageJudged ==
    IF form = "directory" THEN manifest
    ELSE PackageFrom(EntriesAt(disk, ManifestPath))
PeersAreThere ==
    verdict = "compatible-in-scope" =>
        /\ \A d \in PackageJudged.dependencies : IsOurs(d) => d.range # "bad"
        /\ \A d \in PackageJudged.peers : IsOurs(d) =>
               \/ d.meta = "optional" /\ target = {} /\ d.range # "bad"
               \/ /\ Cardinality(target) = 1 /\ "target:manifest" \in EvidenceOf(subject)
                  /\ \/ d.range = "same"
                     \/ d.range = "matching" /\ target = {"good"}
PatchIsHashed ==
    verdict = "compatible-in-scope" =>
        /\ subject.patch # "none"
        /\ {"plugin:manifest", "plugin:bundle-patch"} \subseteq EvidenceOf(subject)
CompatibleIsProven == PeersAreThere /\ PatchIsHashed

\* Packing changes nothing of what is known of a plugin: its directory and the
\* artifact packed from it have the same fingerprint, completeness and
\* verdict, unless a path leaves the root and returns to it by name, or links
\* and unreadable files stay behind; and the worker's own inspection of an
\* artifact that was acquired does not fail on it, nor miss a file it has.
FormsAgree ==
    step = "done" =>
        IF form = "packed"
        THEN /\ subject.completeness # "invalid" => Inspection(disk) # "failed"
             /\ Inspection(disk) = "missing" => EntriesAt(disk, EntryPath) = {}
        ELSE ~changed /\ manifest # NoManifest /\ manifest.patch # "up-and-down" =>
                LET packed == PackedSubject(PackOf(disk))
                IN  /\ Projection(packed) = Projection(subject)
                    /\ packed.completeness = subject.completeness
                    /\ Analysis(packed) = verdict

\* The reader of an archive and the readers of a directory understand the
\* same files: names are kept apart, and packing changes no judgement.
FilesAreUnderstood == EntriesHaveTheirOwnNames /\ FormsAgree
=============================================================================
