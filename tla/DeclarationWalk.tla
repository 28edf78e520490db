--------------------------- MODULE DeclarationWalk ---------------------------
(***************************************************************************)
(* buildPackageContract with readDeclarationGraph (src/acquisition/        *)
(* dsh-contract-filesystem.ts): the declarations of one package are read   *)
(* along their relative references, which may be cyclic, under budgets of  *)
(* the package and totals shared by all packages of an acquisition; then   *)
(* the exported names are determined and pushed as facts.                  *)
(***************************************************************************)
EXTENDS ExportSurfaces, Sequences, SequencesExt, TLC

CONSTANTS
    FileCount,       \* the files of the package are 1..FileCount
    MaxStatements,   \* bound of the model: references in all files
    MaxReferences    \* bound of the model: the same, where budgets are tight

ASSUME WalkAssumption == FileCount \in Nat \ {0} /\ MaxStatements \in Nat /\ MaxReferences \in Nat

VARIABLES
    text,       \* input: the statements of all files
    place,      \* input: file -> "inside", "outside" of the root, "missing" or "junk"
    growth,     \* input: what a file has grown by when it is read after its stat
    budget,     \* input: the budget of the acquisition
    step,       \* "entries", "take", "read", "follow", "surfaces" or "done"
    queue,      \* files to be read with their depth, first in first out
    item,       \* the file under way, with its depth; empty between files
    toFollow,   \* references of the file under way that are still to be followed
    records,    \* the files that were read and followed
    edges,      \* edge ids met so far
    bytes,      \* bytes read of this package
    totals,     \* files, bytes and facts of the whole acquisition
    surfaces,   \* file -> its surface
    facts,      \* the exported names with their witnesses, when pushed
    answer      \* "none", "ok" or the code of the error

inputs == <<text, place, growth, budget>>
walk == <<queue, item, toFollow, records, edges, bytes, totals>>
vars == <<inputs, step, walk, surfaces, facts, answer>>

-----------------------------------------------------------------------------
Files == 1..FileCount
Entries == {1}
Statement(file, kind, to, imported, exported) ==
    [file |-> file, kind |-> kind, to |-> to, imported |-> imported, exported |-> exported]
LocalsOf(file) == {Statement(file, "local", file, "", "x")}
Locals == UNION {LocalsOf(file) : file \in Files}
ReferencesTo(kind, imported, exported) ==
    [file : Files, kind : {kind}, to : Files, imported : {imported}, exported : {exported}]
References ==
    ReferencesTo("star", "", "") \cup ReferencesTo("path", "", "")
    \cup ReferencesTo("named", "x", "y") \cup ReferencesTo("named", "y", "x")
    \cup ReferencesTo("namespace", "", "n")
Some(n, set) ==
    LET upTo[k \in 0..n] ==
            IF k = 0 THEN {{}}
            ELSE upTo[k - 1] \cup UNION {{s \cup {x} : x \in set} : s \in upTo[k - 1]}
    IN  upTo[n]

Generous == [maxDeclarationFilesPerPackage |-> 9, maxDeclarationBytesPerFile |-> 9,
             maxDeclarationBytesPerPackage |-> 9, maxDeclarationDepth |-> 9,
             maxDeclarationReferenceEdgesPerPackage |-> 9, maxNormalizedFactsPerPackage |-> 9,
             maxTotalDeclarationFiles |-> 9, maxTotalDeclarationBytes |-> 9,
             maxTotalNormalizedFacts |-> 9]

Size == 1                                            \* of a file when it is opened
Earlier == [files |-> 1, bytes |-> 1, facts |-> 1]   \* of the packages before

Init ==
    /\ \/ /\ budget = Generous /\ growth = 0 /\ place = [file \in Files |-> "inside"]
          /\ \E refs \in Some(MaxStatements, References), locals \in {Locals, Locals \ LocalsOf(1)} :
                 text = refs \cup locals
       \/ /\ \/ /\ \E limit \in DOMAIN Generous, n \in 1..3 : budget = [Generous EXCEPT ![limit] = n]
                /\ growth \in 0..1
                /\ place = [file \in Files |-> "inside"]
             \/ /\ budget = Generous /\ growth = 0
                /\ \E where \in {"outside", "missing", "junk"} :
                       place = [file \in Files |-> IF file = FileCount THEN where ELSE "inside"]
          /\ \E refs \in Some(MaxReferences, {r \in References : r.kind \in {"star", "path"}}) :
                 text = refs \cup Locals
    /\ step = "entries"
    /\ queue = <<>> /\ item = <<>> /\ toFollow = {}
    /\ records = {} /\ edges = {} /\ bytes = 0
    /\ totals = Earlier
    /\ surfaces = <<>> /\ facts = {}
    /\ answer = "none"

Fails(code) ==
    /\ answer' = code /\ step' = "done"
    /\ UNCHANGED <<inputs, walk, surfaces, facts>>

\* resolveDeclaration: inside the package, by name and by its real path.
Resolves(file) == place[file] \in {"inside", "junk"}
ResolutionFailure(file) ==
    IF place[file] = "outside" THEN "CONTRACT_DECLARATION_INVALID" ELSE "CONTRACT_EVIDENCE_READ_FAILED"

ResolveEntries ==
    /\ step = "entries"
    /\ \/ \E file \in Entries : ~Resolves(file) /\ Fails(ResolutionFailure(file))
       \/ /\ \A file \in Entries : Resolves(file)
          /\ queue' = [i \in 1..Cardinality(Entries) |->
                          [file |-> SetToSeq(Entries)[i], depth |-> 0]]
          /\ step' = "take"
          /\ UNCHANGED <<inputs, item, toFollow, records, edges, bytes, totals, surfaces, facts, answer>>

\* The head of the loop, up to the stat of the opened file.
TakeLimit ==
    IF Head(queue).depth > budget.maxDeclarationDepth THEN "maxDeclarationDepth"
    ELSE IF Cardinality(records) >= budget.maxDeclarationFilesPerPackage THEN
            "maxDeclarationFilesPerPackage"
    ELSE IF totals.files >= budget.maxTotalDeclarationFiles THEN "maxTotalDeclarationFiles"
    ELSE "none"

\* readBoundedDeclarationUtf8: with a size, or with the bytes read so far.
ByteLimit_LastFileOnly(size) ==
    IF size > budget.maxDeclarationBytesPerFile THEN "maxDeclarationBytesPerFile"
    ELSE IF size > budget.maxDeclarationBytesPerPackage THEN "maxDeclarationBytesPerPackage"
    ELSE IF totals.bytes + size > budget.maxTotalDeclarationBytes THEN "maxTotalDeclarationBytes"
    ELSE "none"
ByteLimit(size) ==
    IF size > budget.maxDeclarationBytesPerFile THEN "maxDeclarationBytesPerFile"
    ELSE IF bytes + size > budget.maxDeclarationBytesPerPackage THEN "maxDeclarationBytesPerPackage"
    ELSE IF totals.bytes + size > budget.maxTotalDeclarationBytes THEN "maxTotalDeclarationBytes"
    ELSE "none"

\* A file that refers to itself was queued again before it was recorded.
SkipRecorded ==
    /\ step = "take" /\ queue # <<>> /\ Head(queue).file \in records
    /\ queue' = Tail(queue)
    /\ UNCHANGED <<inputs, step, item, toFollow, records, edges, bytes, totals, surfaces, facts, answer>>

TakeNext ==
    /\ step = "take" /\ queue # <<>> /\ Head(queue).file \notin records
    /\ \/ TakeLimit # "none" /\ Fails(TakeLimit)
       \/ TakeLimit = "none" /\ ByteLimit(Size) # "none" /\ Fails(ByteLimit(Size))
       \/ /\ TakeLimit = "none" /\ ByteLimit(Size) = "none"
          /\ item' = Head(queue) /\ queue' = Tail(queue)
          /\ step' = "read"
          /\ UNCHANGED <<inputs, toFollow, records, edges, bytes, totals, surfaces, facts, answer>>

\* The file may have grown since its stat; the text is then parsed.  Its
\* references are followed in the order of their specifiers, which may be any.
ReferencesOf(file) ==
    {<<s.to, IF s.kind = "path" THEN "path-reference" ELSE "reexport">> :
        s \in ReexportsOf(text, file) \cup PathReferencesOf(text, file)}
ReadFile ==
    /\ step = "read"
    /\ LET size == Size + growth
       IN  \/ ByteLimit(size) # "none" /\ Fails(ByteLimit(size))
           \/ /\ ByteLimit(size) = "none" /\ place[item.file] = "junk"
              /\ Fails("CONTRACT_DECLARATION_INVALID")
           \/ /\ ByteLimit(size) = "none" /\ place[item.file] # "junk"
              /\ bytes' = bytes + size
              /\ totals' = [totals EXCEPT !.files = @ + 1, !.bytes = @ + size]
              /\ IF Cardinality(ExportsOf(text, item.file)) > budget.maxNormalizedFactsPerPackage
                 THEN /\ answer' = "maxNormalizedFactsPerPackage" /\ step' = "done"
                      /\ UNCHANGED toFollow
                 ELSE /\ toFollow' = ReferencesOf(item.file) /\ step' = "follow"
                      /\ UNCHANGED answer
              /\ UNCHANGED <<inputs, queue, item, records, edges, surfaces, facts>>

\* One reference of the file under way, which is neither queued nor recorded.
EdgeId(reference) == <<item.file, reference>>
IsKnown(file) == file \in records \/ \E i \in DOMAIN queue : queue[i].file = file

FollowLimit_KnownFilesToo(reference) ==
    IF EdgeId(reference) \notin edges
       /\ Cardinality(edges) >= budget.maxDeclarationReferenceEdgesPerPackage
    THEN "maxDeclarationReferenceEdgesPerPackage"
    ELSE IF item.depth + 1 > budget.maxDeclarationDepth THEN "maxDeclarationDepth" ELSE "none"
FollowLimit(reference) ==
    IF EdgeId(reference) \notin edges
       /\ Cardinality(edges) >= budget.maxDeclarationReferenceEdgesPerPackage
    THEN "maxDeclarationReferenceEdgesPerPackage"
    ELSE IF Resolves(reference[1]) /\ ~IsKnown(reference[1])
            /\ item.depth + 1 > budget.maxDeclarationDepth
    THEN "maxDeclarationDepth" ELSE "none"

FollowReference ==
    /\ step = "follow"
    /\ \E reference \in toFollow :
         LET file == reference[1]
         IN  \/ FollowLimit(reference) # "none" /\ Fails(FollowLimit(reference))
             \/ FollowLimit(reference) = "none" /\ ~Resolves(file) /\ Fails(ResolutionFailure(file))
             \/ /\ FollowLimit(reference) = "none" /\ Resolves(file)
                /\ edges' = edges \cup {EdgeId(reference)}
                /\ queue' = IF IsKnown(file) THEN queue
                            ELSE Append(queue, [file |-> file, depth |-> item.depth + 1])
                /\ toFollow' = toFollow \ {reference}
                /\ UNCHANGED <<inputs, step, item, records, bytes, totals, surfaces, facts, answer>>

\* records.set
RecordFile ==
    /\ step = "follow" /\ toFollow = {}
    /\ records' = records \cup {item.file}
    /\ item' = <<>>
    /\ step' = "take"
    /\ UNCHANGED <<inputs, queue, toFollow, edges, bytes, totals, surfaces, facts, answer>>

GraphIsRead ==
    /\ step = "take" /\ queue = <<>>
    /\ surfaces' = [file \in records |-> DirectSurface(text, file)]
    /\ step' = "surfaces"
    /\ UNCHANGED <<inputs, walk, facts, answer>>

\* The loop of declarationSurfaces, in any order: one call of addSurfaceOrigin
\* that changes something.
Offers == UNION {{edge} \X Offered(text, surfaces, edge) :
                    edge \in UNION {ReexportsOf(text, file) : file \in records}}
Changes == {offer \in Offers : Improves(surfaces[offer[1].file], offer[2])}

Reexport ==
    /\ step = "surfaces"
    /\ \E offer \in Changes :
         LET file == offer[1].file
             entry == offer[2]
             names == NamesOf(surfaces[file])
         IN  \/ /\ entry.name \notin names
                /\ Cardinality(names) >= budget.maxNormalizedFactsPerPackage
                /\ Fails("maxNormalizedFactsPerPackage")
             \/ /\ entry.name \in names
                   \/ Cardinality(names) < budget.maxNormalizedFactsPerPackage
                /\ surfaces' = [surfaces EXCEPT ![file] = Improved(@, entry)]
                /\ UNCHANGED <<inputs, step, walk, facts, answer>>

\* pushFact: the version, the entries, then the exported names.
PushFacts ==
    /\ step = "surfaces" /\ Changes = {}
    /\ LET exported == PackageSurface(surfaces, Entries)
           count == 1 + Cardinality(Entries) + Cardinality(exported)
           left == budget.maxTotalNormalizedFacts - totals.facts
       IN  \/ /\ count > budget.maxNormalizedFactsPerPackage
              /\ budget.maxNormalizedFactsPerPackage <= left
              /\ Fails("maxNormalizedFactsPerPackage")
           \/ /\ count > left /\ left < budget.maxNormalizedFactsPerPackage
              /\ Fails("maxTotalNormalizedFacts")
           \/ /\ count <= budget.maxNormalizedFactsPerPackage /\ count <= left
              /\ facts' = exported
              /\ totals' = [totals EXCEPT !.facts = @ + count]
              /\ answer' = "ok" /\ step' = "done"
              /\ UNCHANGED <<inputs, queue, item, toFollow, records, edges, bytes, surfaces>>

\* The package is answered; it has no other end (deadlock is checked).
Answered == step = "done" /\ UNCHANGED vars

Next ==
    \/ ResolveEntries \/ SkipRecorded \/ TakeNext \/ ReadFile \/ FollowReference \/ RecordFile
    \/ GraphIsRead \/ Reexport \/ PushFacts \/ Answered

Spec == Init /\ [][Next]_vars
-----------------------------------------------------------------------------
\* Reference: the graph of references, by the distance from the entries.
Successors(statements, file) ==
    {s.to : s \in ReexportsOf(statements, file) \cup PathReferencesOf(statements, file)}
Within(statements) ==
    LET within[n \in Nat] ==
            IF n = 0 THEN Entries
            ELSE LET nearer == within[n - 1]
                 IN  nearer \cup UNION {Successors(statements, file) : file \in nearer}
    IN  within
Closure == Within(text)[FileCount]
AtDistance(n) == IF n = 0 THEN Entries ELSE Within(text)[n] \ Within(text)[n - 1]
ReferenceEdges == UNION {{file} \X ReferencesOf(file) : file \in Closure}
Origins == ReachableOrigins(text, Closure)
ExportedNames ==
    LET origins == Origins
    IN  {name \in {o[2] : o \in origins} :
            \E file \in Entries : Cardinality(StandsFor(origins, file, name)) = 1}
FactCount == 1 + Cardinality(Entries) + Cardinality(ExportedNames)

\* A package is answered with exactly the files its entries lead to, however
\* cyclic their references are, and what was read and pushed stays within the
\* budgets, those of all packages together included.
ClosureIsReadWithinBudgets ==
    answer = "ok" =>
        /\ records = Closure
        /\ totals.files = Earlier.files + Cardinality(Closure)
        /\ totals.bytes = Earlier.bytes + bytes
        /\ totals.facts = Earlier.facts + 1 + Cardinality(Entries) + Cardinality(facts)
        /\ Cardinality(records) <= budget.maxDeclarationFilesPerPackage
        /\ bytes <= budget.maxDeclarationBytesPerPackage
        /\ Cardinality(ReferenceEdges) <= budget.maxDeclarationReferenceEdgesPerPackage
        /\ AtDistance(budget.maxDeclarationDepth + 1) = {}
        /\ totals.facts - Earlier.facts <= budget.maxNormalizedFactsPerPackage
        /\ totals.files <= budget.maxTotalDeclarationFiles
        /\ totals.bytes <= budget.maxTotalDeclarationBytes
        /\ totals.facts <= budget.maxTotalNormalizedFacts

\* A refusal names a limit the package really goes beyond.  The depth has one
\* exception: a file at the greatest depth may not refer to itself.
LimitsAreReal ==
    LET files == Cardinality(Closure)
        origins == Origins
        names(file) == Cardinality({o[2] : o \in {k \in origins : k[1] = file}})
    IN  /\ answer = "maxDeclarationFilesPerPackage" => files > budget.maxDeclarationFilesPerPackage
        /\ answer = "maxTotalDeclarationFiles" =>
               Earlier.files + files > budget.maxTotalDeclarationFiles
        /\ answer = "maxDeclarationBytesPerFile" => Size + growth > budget.maxDeclarationBytesPerFile
        /\ answer = "maxDeclarationBytesPerPackage" =>
               (Size + growth) * files > budget.maxDeclarationBytesPerPackage
        /\ answer = "maxTotalDeclarationBytes" =>
               Earlier.bytes + (Size + growth) * files > budget.maxTotalDeclarationBytes
        /\ answer = "maxDeclarationReferenceEdgesPerPackage" =>
               Cardinality(ReferenceEdges) > budget.maxDeclarationReferenceEdgesPerPackage
        /\ answer = "maxDeclarationDepth" =>
               \E file \in AtDistance(budget.maxDeclarationDepth), to \in Files :
                   /\ to \in Successors(text, file)
                   /\ to = file \/ to \in AtDistance(budget.maxDeclarationDepth + 1)
        /\ answer = "maxNormalizedFactsPerPackage" =>
               \/ FactCount > budget.maxNormalizedFactsPerPackage
               \/ \E file \in Closure : names(file) > budget.maxNormalizedFactsPerPackage
               \/ \E file \in Closure :
                      Cardinality(ExportsOf(text, file)) > budget.maxNormalizedFactsPerPackage
        /\ answer = "maxTotalNormalizedFacts" =>
               Earlier.facts + FactCount > budget.maxTotalNormalizedFacts

\* The exported names are those that stand for exactly one declaration when no
\* origin is forgotten, in whatever order the re-exports were followed; and
\* the witnesses of a name prove it: their text alone, without that of the
\* other files, lets an entry export it.
ExportsAreProven ==
    answer = "ok" =>
        /\ NamesOf(facts) = ExportedNames
        /\ \A fact \in facts :
               LET shown == {s \in text : s.file \in fact.witness}
               IN  \E file \in Entries :
                       StandsFor(ReachableOrigins(shown, fact.witness), file, fact.name) # {}
=============================================================================
