--------------------------- MODULE ExportSurfaces ---------------------------
(***************************************************************************)
(* What a package exports (parseTypeScriptDeclarationSyntax,               *)
(* declarationSurfaces, packageExportSurface; src/acquisition/             *)
(* typescript-declaration-syntax.ts, dsh-contract-filesystem.ts).          *)
(*                                                                         *)
(* A declaration file is a number, its text a set of statements            *)
(* [file, kind, to, imported, exported]; only relative specifiers appear,  *)
(* and "to" is the file the specifier resolves to.  A surface is a set of  *)
(* [name, origin, witness]: the declaration the name stands for and the    *)
(* files whose text shows it.                                              *)
(***************************************************************************)
EXTENDS Naturals, FiniteSets, FiniteSetsExt

Explicit == {"named", "namespace", "import-equals"}
Reexports == Explicit \cup {"star"}
NotForStars == {"default", "export="}

\* parse: the names a text exports by itself, with those of its explicit
\* re-exports; its re-exports; its path references.
StatementsOf(text, file) == {s \in text : s.file = file}
ExportsOf(text, file) ==
    {s.exported : s \in {t \in StatementsOf(text, file) : t.kind \in Explicit \cup {"local"}}}
ReexportsOf(text, file) == {s \in StatementsOf(text, file) : s.kind \in Reexports}
PathReferencesOf(text, file) == {s \in StatementsOf(text, file) : s.kind = "path"}

RelativeExplicitNames(text, file) ==
    {s.exported : s \in {t \in ReexportsOf(text, file) : t.kind \in Explicit}}

-----------------------------------------------------------------------------
\* compareWitness: fewer files first, then the order of their names.
Precedes(left, right) ==
    \/ Cardinality(left) < Cardinality(right)
    \/ /\ Cardinality(left) = Cardinality(right) /\ left # right
       /\ Min((left \cup right) \ (left \cap right)) \in left

NamesOf(surface) == {entry.name : entry \in surface}
OriginsOf(surface, name) == {entry.origin : entry \in {e \in surface : e.name = name}}
Known(surface, entry) == {e \in surface : e.name = entry.name /\ e.origin = entry.origin}

\* addSurfaceOrigin: whether it returns true, and the surface it leaves.  Two
\* origins prove a name ambiguous, further ones are not kept.
OriginCap == 2
Improves(surface, entry) ==
    IF Known(surface, entry) # {}
    THEN \A e \in Known(surface, entry) : Precedes(entry.witness, e.witness)
    ELSE Cardinality(OriginsOf(surface, entry.name)) < OriginCap
Improved(surface, entry) == (surface \ Known(surface, entry)) \cup {entry}

DirectSurface(text, file) ==
    {[name |-> name, origin |-> <<file, "direct", name>>, witness |-> {file}] :
        name \in ExportsOf(text, file) \ RelativeExplicitNames(text, file)}

\* What a re-export offers to the surface of its file.
Through(edge, entry, name) ==
    [name |-> name, origin |-> entry.origin, witness |-> entry.witness \cup {edge.file}]
Declares(edge) ==
    [name |-> edge.exported, origin |-> <<edge.file, edge.kind, edge.exported, edge.to>>,
     witness |-> {edge.file, edge.to}]
PassesStar(text, edge, name) == name \notin NotForStars \cup ExportsOf(text, edge.file)
Offered_ThroughStars(text, surfaces, edge) ==
    CASE edge.kind = "star" -> {Through(edge, entry, entry.name) : entry \in surfaces[edge.to]}
      [] edge.kind = "named" ->
            {Through(edge, entry, edge.exported) :
                entry \in {e \in surfaces[edge.to] : e.name = edge.imported}}
      [] OTHER -> {}
Offered(text, surfaces, edge) ==
    CASE edge.kind = "star" ->
            {Through(edge, entry, entry.name) :
                entry \in {e \in surfaces[edge.to] : PassesStar(text, edge, e.name)}}
      [] edge.kind = "named" ->
            {Through(edge, entry, edge.exported) :
                entry \in {e \in surfaces[edge.to] : e.name = edge.imported}}
      [] OTHER -> {Declares(edge)}

\* packageExportSurface: over the entries, the names that stand for one
\* declaration, each with its least witness (addMinimalWitness).
ExportedAt(surface) == {entry \in surface : Cardinality(OriginsOf(surface, entry.name)) = 1}
PackageSurface(surfaces, entries) ==
    LET all == UNION {ExportedAt(surfaces[file]) : file \in entries}
    IN  {[name |-> entry.name, witness |-> entry.witness] :
            entry \in {e \in all : ~\E other \in all : /\ other.name = e.name
                                                       /\ Precedes(other.witness, e.witness)}}

-----------------------------------------------------------------------------
\* Reference: <<file, name, origin>> for every declaration a name of a file
\* may stand for: the direct ones, closed under the re-exports between the
\* files, with no cap and no witnesses.  Each round before the last finds one
\* more, of which there are no more than the product below.
DirectOrigins(text, files) ==
    UNION {{<<file, entry.name, entry.origin>> : entry \in DirectSurface(text, file)} : file \in files}
EdgesAmong(text, files) == {s \in text : s.kind \in Reexports /\ {s.file, s.to} \subseteq files}
Reexported(text, known, edge) ==
    CASE edge.kind = "star" ->
            {<<edge.file, o[2], o[3]>> :
                o \in {k \in known : k[1] = edge.to /\ PassesStar(text, edge, k[2])}}
      [] edge.kind = "named" ->
            {<<edge.file, edge.exported, o[3]>> :
                o \in {k \in known : k[1] = edge.to /\ k[2] = edge.imported}}
      [] OTHER -> {<<edge.file, edge.exported, Declares(edge).origin>>}
OriginsAfter(text, files) ==
    LET after[n \in Nat] ==
            IF n = 0 THEN DirectOrigins(text, files)
            ELSE LET known == after[n - 1]
                 IN  known \cup UNION {Reexported(text, known, edge) : edge \in EdgesAmong(text, files)}
    IN  after
AllOrigins(text) ==
    {<<s.file, "direct", s.exported>> : s \in text} \cup {Declares(s).origin : s \in text}
MostRounds(text, files) ==
    Cardinality(files) * Cardinality({s.exported : s \in text}) * Cardinality(AllOrigins(text))
ReachableOrigins(text, files) ==
    LET after == OriginsAfter(text, files)
    IN  after[CHOOSE n \in 0..MostRounds(text, files) : after[n + 1] = after[n]]

StandsFor(origins, file, name) == {o[3] : o \in {k \in origins : k[1] = file /\ k[2] = name}}
=============================================================================
