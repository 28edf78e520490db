---------------------------- MODULE PackedArchive ----------------------------
(***************************************************************************)
(* The bounded reader of npm-style .tgz archives                           *)
(* (src/runtime/packed-archive.ts).                                        *)
(*                                                                         *)
(* An archive is [gzip, aligned, headers, ended]; a header is              *)
(* [type, name, content, sound]: its type flag, the name it stands for     *)
(* ("none" for a PAX record without a path), the identity of its content,  *)
(* and whether checksum, numbers, bounds and encoding are all right.       *)
(***************************************************************************)
EXTENDS Naturals, FiniteSets, Sequences, SequencesExt

ManifestPath == "package/package.json"
PatchPath == "package/cordis.patch.yml"
EntryPath == "package/index.js"
OddManifestPath == "package/./package.json"
UnsafePath == "../package.json"

\* normalizedArchivePath: a path that leaves the archive is refused.
IsSafe(name) == name # UnsafePath
NormalizedPath(name) == IF name = OddManifestPath THEN ManifestPath ELSE name

\* One turn of the loop of parsePackedTarArchive.  A PAX record replaces the
\* pending path, also by none; the next entry of another type consumes what
\* is pending, PAX before GNU before its own header.
NextName(read, header) ==
    IF read.pax # "none" THEN read.pax
    ELSE IF read.long # "none" THEN read.long ELSE header.name
Consume_KeepsLong(read, entry) ==
    [read EXCEPT !.entries = @ \cup {entry}, !.pax = "none"]
Consume(read, entry) ==
    [read EXCEPT !.entries = @ \cup {entry}, !.pax = "none", !.long = "none"]
ReadHeader(read, header) ==
    LET refused == [read EXCEPT !.ok = FALSE]
        name == NextName(read, header)
        entry == [name |-> NormalizedPath(name), type |-> header.type, content |-> header.content]
    IN  IF ~read.ok THEN read
        ELSE IF ~header.sound THEN refused
        ELSE IF header.type = "x" THEN [read EXCEPT !.pax = header.name]
        ELSE IF header.type = "g" THEN read
        ELSE IF header.type = "L" /\ ~IsSafe(header.name) THEN refused
        ELSE IF header.type = "L" THEN [read EXCEPT !.long = NormalizedPath(header.name)]
        ELSE IF ~IsSafe(name) THEN refused
        ELSE IF \E other \in read.entries : other.name = entry.name THEN refused
        ELSE Consume(read, entry)

NothingRead == [ok |-> TRUE, entries |-> {}, pax |-> "none", long |-> "none"]
\* The reader after each number of headers, from none of them to all.
ReaderOf(headers) ==
    LET reader[i \in 0..Len(headers)] ==
            IF i = 0 THEN NothingRead ELSE ReadHeader(reader[i - 1], headers[i])
    IN  reader
\* gunzipSync and parsePackedTarArchive.
ParsedArchive(archive) ==
    IF ~(archive.gzip /\ archive.aligned) THEN [NothingRead EXCEPT !.ok = FALSE]
    ELSE LET read == ReaderOf(archive.headers)[Len(archive.headers)]
         IN  [read EXCEPT !.ok = @ /\ archive.ended]
EntriesAt(archive, name) == {entry \in ParsedArchive(archive).entries : entry.name = name}
=============================================================================
