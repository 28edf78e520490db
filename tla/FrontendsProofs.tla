--------------------------- MODULE FrontendsProofs ---------------------------
(***************************************************************************)
(* Theorems about one call of the program: what its exit code says, what   *)
(* is behind a plugin that is called compatible, how the files of a plugin *)
(* are understood, and what a request says that reaches the kernel.        *)
(***************************************************************************)
EXTENDS Frontends, WellFoundedInduction, FiniteSetTheorems, SequenceTheorems, TLAPS

Verdicts == {"incompatible", "unproven", "compatible-in-scope"}

-----------------------------------------------------------------------------
\* The verdict is there when the analysis is done, and is the analysis of the
\* subject that was acquired.
VerdictIsTheAnalysis ==
    /\ step \in {"begin", "manifest", "acquired", "done"}
    /\ verdict = IF step = "done" THEN Analysis(subject) ELSE "none"

\* How far a call has come: the kernel has a request before it has an outcome,
\* and the outcome is one of those of its operation.
CallInOrder ==
    /\ phase \in {"called", "kernel", "answered"}
    /\ surface \in {"cli", "mcp", "native"}
    /\ phase = "called" => request = <<>>
    /\ phase = "kernel" => request # <<>>
    /\ request = <<>> => outcome = "none"
    /\ phase = "answered" /\ request # <<>> => outcome # "none"

OutcomeIsOfTheOperation ==
    /\ outcome = "none" => verdict = "none"
    /\ request # <<>> /\ outcome # "none" =>
           \/ outcome \in Findings[request[1]] \cup Errors(request[1])
           \/ request[1] = "check" /\ step = "done" /\ outcome = Analysis(subject)
    /\ request # <<>> /\ surface = "cli" => request[1] \in Commanded

FrontInv ==
    /\ VerdictIsTheAnalysis
    /\ CallInOrder
    /\ OutcomeIsOfTheOperation
    /\ ExitTellsTheTruth

-----------------------------------------------------------------------------
LEMMA SameAnalysis ==
    ASSUME UNCHANGED <<target, subject>>
    PROVE  Analysis(subject)' = Analysis(subject)
BY DEF Analysis, StatusOf, Relation

LEMMA AnalysisIsAVerdict == Analysis(subject) \in Verdicts
BY DEF Analysis, Verdicts

\* A step of the acquisition or of the analysis.
LEMMA PluginStep ==
    ASSUME VerdictIsTheAnalysis, Next
    PROVE  VerdictIsTheAnalysis' /\ step # "done" /\ target' = target
<1> USE DEF VerdictIsTheAnalysis
<1>1. CASE AcquirePacked
  BY <1>1 DEF AcquirePacked, Acquired, inputs
<1>2. CASE ReadManifest
  <2>1. step' \in {"manifest", "acquired"}
    BY <1>2 DEF ReadManifest, Acquired
  <2> QED BY <1>2, <2>1 DEF ReadManifest, inputs
<1>3. CASE ReadPatch
  BY <1>3 DEF ReadPatch, Acquired, inputs
<1>4. CASE Analyse
  BY <1>4, SameAnalysis DEF Analyse, inputs
<1>5. CASE ChangeDirectory
  BY <1>5 DEF ChangeDirectory, inputs
<1> QED BY <1>1, <1>2, <1>3, <1>4, <1>5 DEF Next

LEMMA InitFrontInv == FrontInit => FrontInv
BY DEF FrontInit, Init, FrontInv, VerdictIsTheAnalysis, CallInOrder, OutcomeIsOfTheOperation,
       ExitTellsTheTruth

\* What a command of runCli prints without asking the kernel.
LEMMA FlagsStep == ASSUME FrontInv, Flags PROVE FrontInv'
<1>1. UNCHANGED <<surface, call, step, subject, verdict, target, outcome, request>>
  BY DEF Flags, CallUnchanged, callVars, vars, inputs
<1>2. VerdictIsTheAnalysis'
  BY <1>1, SameAnalysis DEF FrontInv, VerdictIsTheAnalysis
<1>3. /\ phase' = "answered" /\ phase = "called" /\ request = <<>> /\ outcome = "none"
      /\ \/ exit' = 2 /\ printed' = "nothing"
         \/ exit' = 0 /\ printed' \in {"help", "version"}
  BY DEF Flags, Exits, FrontInv, CallInOrder
<1>4. ExitTellsTheTruth'
  BY <1>1, <1>3 DEF ExitTellsTheTruth
<1> QED BY <1>1, <1>2, <1>3, <1>4 DEF FrontInv, CallInOrder, OutcomeIsOfTheOperation

LEMMA CommandStep == ASSUME FrontInv, Command PROVE FrontInv'
<1>1. UNCHANGED <<surface, call, step, subject, verdict, target, outcome>>
  BY DEF Command, CallUnchanged, callVars, vars, inputs
<1>2. VerdictIsTheAnalysis'
  BY <1>1, SameAnalysis DEF FrontInv, VerdictIsTheAnalysis
<1>3. phase = "called" /\ request = <<>> /\ outcome = "none" /\ verdict = "none"
  BY DEF Command, FrontInv, CallInOrder, OutcomeIsOfTheOperation
<1>4. \/ /\ phase' = "answered" /\ request' = <<>>
         /\ \/ exit' = 2 /\ printed' = "nothing"
            \/ exit' = 0 /\ printed' = "mcp"
      \/ \E operation \in Commanded :
            phase' = "kernel" /\ \E args : request' = <<operation, args>>
  <2> DEFINE operations == {o \in Commanded : Commands[o] = call.words}
  <2>1. \/ /\ Exits(2, "nothing") \/ Exits(0, "mcp")
           /\ UNCHANGED request
        \/ \E operation \in operations : Asks(operation, ArgumentsOf(operation, call.options))
    BY DEF Command
  <2> QED BY <1>3, <2>1 DEF Exits, Asks
<1>5. request' # <<>> => phase' = "kernel" /\ request'[1] \in Commanded
  BY <1>4
<1>6. ExitTellsTheTruth'
  BY <1>1, <1>3, <1>4 DEF ExitTellsTheTruth
<1> QED BY <1>1, <1>2, <1>3, <1>4, <1>5, <1>6 DEF FrontInv, CallInOrder, OutcomeIsOfTheOperation

\* A tool has no exit code.
LEMMA ToolCallStep == ASSUME FrontInv, ToolCall PROVE FrontInv'
<1>1. UNCHANGED <<surface, call, step, subject, verdict, target, outcome>>
  BY DEF ToolCall, CallUnchanged, callVars, vars, inputs
<1>2. VerdictIsTheAnalysis'
  BY <1>1, SameAnalysis DEF FrontInv, VerdictIsTheAnalysis
<1>3. /\ phase = "called" /\ request = <<>> /\ outcome = "none" /\ verdict = "none"
      /\ surface # "cli"
  BY DEF ToolCall, FrontInv, CallInOrder, OutcomeIsOfTheOperation
<1>4. \/ phase' = "answered" /\ request' = <<>>
      \/ phase' = "kernel" /\ \E operation, args : request' = <<operation, args>>
  BY <1>3 DEF ToolCall, Exits, Asks
<1> QED BY <1>1, <1>2, <1>3, <1>4
        DEF FrontInv, CallInOrder, OutcomeIsOfTheOperation, ExitTellsTheTruth

LEMMA UseCaseStep == ASSUME FrontInv, UseCase PROVE FrontInv'
<1>1. UNCHANGED <<surface, call, step, subject, verdict, target, phase, request>>
  BY DEF UseCase, callVars, vars, inputs
<1>2. VerdictIsTheAnalysis'
  BY <1>1, SameAnalysis DEF FrontInv, VerdictIsTheAnalysis
<1>3. /\ phase = "kernel" /\ request # <<>> /\ verdict = "none"
      /\ outcome' \in Findings[request[1]] \cup Errors(request[1])
  BY DEF UseCase, FrontInv, CallInOrder, OutcomeIsOfTheOperation
<1>4. (Findings[request[1]] \cup Errors(request[1]))' = Findings[request[1]] \cup Errors(request[1])
  BY <1>1
<1> QED BY <1>1, <1>2, <1>3, <1>4
        DEF FrontInv, CallInOrder, OutcomeIsOfTheOperation, ExitTellsTheTruth

LEMMA CheckPluginStep == ASSUME FrontInv, CheckPlugin PROVE FrontInv'
<1>1. /\ UNCHANGED <<surface, call, phase, request>> /\ outcome' = verdict' /\ request[1] = "check"
      /\ phase = "kernel" /\ Next
  BY DEF CheckPlugin, callVars
<1>2. VerdictIsTheAnalysis'
  BY <1>1, PluginStep DEF FrontInv
<1>3. verdict' # "none" => step' = "done" /\ outcome' = Analysis(subject)'
  BY <1>1, <1>2 DEF VerdictIsTheAnalysis
<1> QED BY <1>1, <1>2, <1>3
        DEF FrontInv, CallInOrder, OutcomeIsOfTheOperation, ExitTellsTheTruth

LEMMA RespondStep == ASSUME FrontInv, Respond PROVE FrontInv'
<1>1. /\ UNCHANGED <<surface, call, step, subject, verdict, target, request, outcome>>
      /\ phase = "kernel" /\ outcome # "none" /\ phase' = "answered" /\ request # <<>>
  BY DEF Respond, callVars, vars, inputs, FrontInv, CallInOrder
<1>2. VerdictIsTheAnalysis'
  BY <1>1, SameAnalysis DEF FrontInv, VerdictIsTheAnalysis
<1>3. ExitTellsTheTruth'
  <2> SUFFICES ASSUME surface = "cli" PROVE ExitTellsTheTruth'
    BY <1>1 DEF ExitTellsTheTruth
  <2> DEFINE envelope == EnvelopeOf(request[1], outcome)
  <2>1. /\ printed' = IF envelope # "none" THEN envelope ELSE "nothing"
        /\ exit' = IF outcome = "defect" THEN -1
                   ELSE IF Succeeds(request[1], envelope, outcome) THEN 0 ELSE 1
    BY DEF Respond
  <2>2. envelope \in {"none", "stale", "failed", "ok"}
    BY DEF EnvelopeOf
  <2>3. envelope = "none" <=> outcome \in {"defect", "not-configured"}
    BY DEF EnvelopeOf
  <2>4. outcome \in {"ok", "verified", "compatible-in-scope"} => envelope = "ok"
    BY DEF EnvelopeOf
  <2>5. /\ outcome \in {"ok", "verified", "compatible-in-scope"} =>
               Succeeds(request[1], envelope, outcome)
        /\ request[1] = "check" /\ outcome = "compatible-in-scope" =>
               step = "done" /\ Analysis(subject) = "compatible-in-scope"
    <3> HIDE DEF envelope
    <3>1. request[1] \in {"resolve", "search", "inspect", "check", "verify"}
      BY <1>1 DEF FrontInv, OutcomeIsOfTheOperation, Commanded, Commands
    <3>2. CASE request[1] = "check" /\ outcome = Analysis(subject) /\ step = "done"
      BY <2>4, <3>2, AnalysisIsAVerdict DEF Verdicts, Succeeds
    <3>3. CASE outcome \in Findings[request[1]] \cup Errors(request[1])
      <4>1. Errors(request[1]) \cap {"ok", "verified", "compatible-in-scope"} = {}
        BY DEF Errors
      <4>2. /\ request[1] = "check" => Findings[request[1]] = {}
            /\ request[1] = "verify" => "ok" \notin Findings[request[1]]
            /\ "compatible-in-scope" \notin Findings[request[1]]
        BY <3>1 DEF Findings
      <4> QED BY <2>4, <3>1, <3>3, <4>1, <4>2 DEF Succeeds
    <3> QED BY <1>1, <3>2, <3>3 DEF FrontInv, OutcomeIsOfTheOperation
  <2> HIDE DEF envelope
  <2>6. Succeeds(request[1], envelope, outcome) =>
            /\ envelope = "ok"
            /\ request[1] = "check" => outcome = "compatible-in-scope"
            /\ request[1] = "verify" => outcome = "verified"
    BY DEF Succeeds
  <2>7. Analysis(subject)' = Analysis(subject)
    BY <1>1, SameAnalysis
  <2> QED BY <1>1, <2>1, <2>2, <2>3, <2>5, <2>6, <2>7 DEF ExitTellsTheTruth
<1>4. (Findings[request[1]] \cup Errors(request[1]))' = Findings[request[1]] \cup Errors(request[1])
  BY <1>1
<1>5. Analysis(subject)' = Analysis(subject)
  BY <1>1, SameAnalysis
<1> QED BY <1>1, <1>2, <1>3, <1>4, <1>5 DEF FrontInv, CallInOrder, OutcomeIsOfTheOperation

LEMMA NextFrontInv == FrontInv /\ [FrontNext]_frontVars => FrontInv'
<1> SUFFICES ASSUME FrontInv, [FrontNext]_frontVars PROVE FrontInv'
  OBVIOUS
<1>1. CASE UNCHANGED frontVars
  <2>1. UNCHANGED <<surface, call, step, subject, verdict, target, request, outcome, phase,
                    printed, exit>>
    BY <1>1 DEF frontVars, callVars, vars, inputs
  <2>2. Analysis(subject)' = Analysis(subject)
    BY <2>1, SameAnalysis
  <2> QED BY <2>1, <2>2 DEF FrontInv, VerdictIsTheAnalysis, CallInOrder,
                            OutcomeIsOfTheOperation, ExitTellsTheTruth
<1> QED BY <1>1, FlagsStep, CommandStep, ToolCallStep, UseCaseStep, CheckPluginStep, RespondStep
        DEF FrontNext, CallAnswered

\* What was asked, what came of it and the exit code stay one story.
THEOREM CallInvariance == FrontSpec => []FrontInv
<1> QED BY InitFrontInv, NextFrontInv, PTL DEF FrontSpec

\* Whatever the operation, its answer or its error, the exit code tells a
\* positive answer from a negative one and from a call that was refused
\* (runCli, from the flags to the return after the response).
THEOREM ExitCodesTellTheTruth == FrontSpec => []ExitTellsTheTruth
<1>1. FrontInv => ExitTellsTheTruth
  BY DEF FrontInv
<1> QED BY <1>1, CallInvariance, PTL

-----------------------------------------------------------------------------
\* Induction over numbers, from the least counterexample.
LEMMA AllNumbers ==
    ASSUME NEW S, 0 \in S, \A n \in Nat : n \in S => n + 1 \in S
    PROVE  \A n \in Nat : n \in S
<1> DEFINE others == {n \in Nat : n \notin S}
<1>1. SUFFICES ASSUME others # {} PROVE FALSE
  OBVIOUS
<1>2. PICK n \in others : \A m \in others : ~(<<m, n>> \in OpToRel(<, Nat))
  BY <1>1, NatLessThanWellFounded, WFMin
<1>3. \A m \in others : ~(m < n)
  BY <1>2 DEF OpToRel
<1>4. n # 0 /\ n - 1 \in Nat /\ n - 1 \notin others
  BY <1>3
<1> QED BY <1>4

-----------------------------------------------------------------------------
(***************************************************************************)
(* The reader of an archive.                                               *)
(***************************************************************************)
IsReading(reader, headers, n) ==
    reader = [i \in 0..n |-> IF i = 0 THEN NothingRead ELSE ReadHeader(reader[i - 1], headers[i])]

LEMMA ReadingsExist ==
    ASSUME NEW headers
    PROVE  \A n \in Nat : \E reader : IsReading(reader, headers, n)
<1> DEFINE S == {n \in Nat : \E reader : IsReading(reader, headers, n)}
<1>1. 0 \in S
  <2>1. IsReading([i \in 0..0 |-> NothingRead], headers, 0)
    BY DEF IsReading
  <2> QED BY <2>1
<1>2. ASSUME NEW n \in Nat, n \in S
      PROVE  n + 1 \in S
  <2>1. PICK reader : IsReading(reader, headers, n)
    BY <1>2
  <2> DEFINE next == [i \in 0..(n + 1) |-> IF i = n + 1 THEN ReadHeader(reader[n], headers[n + 1])
                                                        ELSE reader[i]]
             body == [i \in 0..(n + 1) |-> IF i = 0 THEN NothingRead
                                                    ELSE ReadHeader(next[i - 1], headers[i])]
  <2>2. \A i \in 0..n : reader[i] = IF i = 0 THEN NothingRead ELSE ReadHeader(reader[i - 1], headers[i])
    BY <2>1 DEF IsReading
  <2>3. ASSUME NEW i \in 0..(n + 1)
        PROVE  next[i] = IF i = 0 THEN NothingRead ELSE ReadHeader(next[i - 1], headers[i])
    <3>1. CASE i = n + 1
      <4>1. i # 0 /\ i - 1 = n /\ n \in 0..(n + 1) /\ n # n + 1
        BY <3>1
      <4>2. next[i] = ReadHeader(reader[n], headers[n + 1]) /\ next[i - 1] = reader[n]
        BY <3>1, <4>1
      <4> HIDE DEF next
      <4> QED BY <3>1, <4>1, <4>2
    <3>2. CASE i # n + 1
      <4>1. i \in 0..n /\ (i # 0 => i - 1 \in 0..n /\ i - 1 # n + 1 /\ i - 1 \in 0..(n + 1))
        BY <3>2
      <4>2. next[i] = reader[i] /\ (i # 0 => next[i - 1] = reader[i - 1])
        BY <3>2, <4>1
      <4> HIDE DEF next
      <4> QED BY <4>1, <4>2, <2>2
    <3> QED BY <3>1, <3>2
  <2>4. next = [i \in 0..(n + 1) |-> next[i]]
    OBVIOUS
  <2>5. [i \in 0..(n + 1) |-> next[i]] = body
    BY <2>3, Zenon
  <2> HIDE DEF next
  <2>6. IsReading(next, headers, n + 1)
    BY <2>4, <2>5, Zenon DEF IsReading
  <2> QED BY <2>6
<1> HIDE DEF S
<1>3. \A n \in Nat : n \in S
  BY <1>1, <1>2, AllNumbers
<1> QED BY <1>3 DEF S

LEMMA ReaderReads ==
    ASSUME NEW headers, Len(headers) \in Nat
    PROVE  /\ ReaderOf(headers)[0] = NothingRead
           /\ \A i \in 1..Len(headers) :
                  ReaderOf(headers)[i] = ReadHeader(ReaderOf(headers)[i - 1], headers[i])
<1> DEFINE n == Len(headers)
           body(reader) == [i \in 0..n |->
               IF i = 0 THEN NothingRead ELSE ReadHeader(reader[i - 1], headers[i])]
           reader == CHOOSE r : r = body(r)
<1>1. \E r : r = body(r)
  BY ReadingsExist DEF IsReading
<1>2. reader = body(reader)
  BY <1>1
<1>3. ReaderOf(headers) = reader
  BY DEF ReaderOf
<1> HIDE DEF reader
<1>4. \A i \in 0..n : reader[i] = IF i = 0 THEN NothingRead ELSE ReadHeader(reader[i - 1], headers[i])
  BY <1>2, Zenon
<1>5. reader[0] = NothingRead
  BY <1>4
<1>6. \A i \in 1..n : reader[i] = ReadHeader(reader[i - 1], headers[i])
  BY <1>4
<1> QED BY <1>3, <1>5, <1>6

\* The names that are pending before header i.
Pending(headers, i, type) ==
    {j \in 1..(i - 1) : headers[j].type = type /\ \A k \in j..(i - 1) : ~IsData(headers[k])}
LastName(headers, S) == headers[CHOOSE j \in S : \A k \in S : k <= j].name
PendingPax(headers, i) ==
    IF Pending(headers, i, "x") = {} THEN "none" ELSE LastName(headers, Pending(headers, i, "x"))

LEMMA OwnNameIsPending ==
    ASSUME NEW headers, NEW i
    PROVE  OwnName(headers, i) =
               IF PendingPax(headers, i) # "none" THEN PendingPax(headers, i)
               ELSE IF Pending(headers, i, "L") # {} THEN LastName(headers, Pending(headers, i, "L"))
               ELSE headers[i].name
<1> DEFINE before == {j \in 1..(i - 1) : \A k \in j..(i - 1) : ~IsData(headers[k])}
           of(type) == {j \in before : headers[j].type = type}
<1>1. \A type : of(type) = Pending(headers, i, type)
  BY Zenon DEF Pending
<1>2. of("x") = Pending(headers, i, "x") /\ of("L") = Pending(headers, i, "L")
  BY <1>1
<1>3. OwnName(headers, i) =
          LET last(S) == headers[CHOOSE j \in S : \A k \in S : k <= j].name
              pax == IF of("x") = {} THEN "none" ELSE last(of("x"))
          IN  IF pax # "none" THEN pax ELSE IF of("L") # {} THEN last(of("L")) ELSE headers[i].name
  BY DEF OwnName
<1> HIDE DEF of
<1> QED BY <1>2, <1>3, Zenon DEF PendingPax, LastName

LEMMA DataConsumes ==
    ASSUME NEW headers, NEW i \in Nat \ {0}, IsData(headers[i]), NEW type
    PROVE  Pending(headers, i + 1, type) = {}
BY DEF Pending

LEMMA OthersWait ==
    ASSUME NEW headers, NEW i \in Nat \ {0}, ~IsData(headers[i]), NEW type, headers[i].type # type
    PROVE  Pending(headers, i + 1, type) = Pending(headers, i, type)
<1>1. ASSUME NEW j \in 1..i, headers[j].type = type
      PROVE  (\A k \in j..i : ~IsData(headers[k])) <=>
             (j \in 1..(i - 1) /\ \A k \in j..(i - 1) : ~IsData(headers[k]))
  <2>1. j \in 1..(i - 1)
    BY <1>1
  <2>2. \A k \in j..i : k \in j..(i - 1) \/ k = i
    OBVIOUS
  <2>3. \A k \in j..(i - 1) : k \in j..i
    OBVIOUS
  <2> QED BY <2>1, <2>2, <2>3
<1>2. \A j \in 1..(i - 1) : j \in 1..i
  OBVIOUS
<1>3. (i + 1) - 1 = i
  OBVIOUS
<1> QED BY <1>1, <1>2, <1>3 DEF Pending

LEMMA TheLastStands ==
    ASSUME NEW headers, NEW i \in Nat \ {0}, ~IsData(headers[i])
    PROVE  /\ Pending(headers, i + 1, headers[i].type) # {}
           /\ LastName(headers, Pending(headers, i + 1, headers[i].type)) = headers[i].name
<1> DEFINE S == Pending(headers, i + 1, headers[i].type)
<1>1. i \in S
  <2>1. i \in 1..((i + 1) - 1) /\ \A k \in i..((i + 1) - 1) : k = i
    OBVIOUS
  <2> QED BY <2>1 DEF Pending
<1>2. \A k \in S : k \in Nat /\ k <= i
  BY DEF Pending
<1> HIDE DEF S
<1>3. \A j \in S : (\A k \in S : k <= j) => j = i
  BY <1>1, <1>2
<1>4. (CHOOSE j \in S : \A k \in S : k <= j) = i
  BY <1>1, <1>2, <1>3
<1> QED BY <1>1, <1>4 DEF S, LastName

\* An archive's headers: a GNU record has a name.
AreHeaders(headers) ==
    /\ Len(headers) \in Nat /\ DOMAIN headers = 1..Len(headers)
    /\ \A i \in 1..Len(headers) : headers[i].type = "L" => headers[i].name # "none"

EntryOf(headers, i) ==
    [name |-> NormalizedPath(OwnName(headers, i)), type |-> headers[i].type,
     content |-> headers[i].content]
DataIn(headers, n) == {i \in 1..n : IsData(headers[i])}

\* The reader after n headers.
IsRead(read, headers, n) ==
    /\ read \in [ok : BOOLEAN, entries : {read.entries}, pax : {read.pax}, long : {read.long}]
    /\ read.ok =>
           /\ read.entries = {EntryOf(headers, i) : i \in DataIn(headers, n)}
           /\ \A i, j \in DataIn(headers, n) :
                  i # j => EntryOf(headers, i).name # EntryOf(headers, j).name
           /\ read.pax = PendingPax(headers, n + 1)
           /\ read.long = IF Pending(headers, n + 1, "L") = {} THEN "none"
                          ELSE NormalizedPath(LastName(headers, Pending(headers, n + 1, "L")))
           /\ Pending(headers, n + 1, "L") # {} => read.long # "none"

LEMMA NextNameIsOwn ==
    ASSUME NEW headers, NEW n \in Nat, NEW read, IsRead(read, headers, n), read.ok
    PROVE  NormalizedPath(NextName(read, headers[n + 1])) = NormalizedPath(OwnName(headers, n + 1))
<1>1. \A name : NormalizedPath(NormalizedPath(name)) = NormalizedPath(name)
  BY DEF NormalizedPath, OddManifestPath, ManifestPath
<1>2. CASE PendingPax(headers, n + 1) # "none"
  BY <1>2, OwnNameIsPending DEF IsRead, NextName
<1>3. CASE PendingPax(headers, n + 1) = "none"
  BY <1>1, <1>3, OwnNameIsPending DEF IsRead, NextName
<1> QED BY <1>2, <1>3

LEMMA HeaderIsRead ==
    ASSUME NEW headers, AreHeaders(headers), NEW n \in Nat, n + 1 \in 1..Len(headers),
           NEW read, IsRead(read, headers, n)
    PROVE  IsRead(ReadHeader(read, headers[n + 1]), headers, n + 1)
<1> DEFINE header == headers[n + 1]
           name == NextName(read, header)
           next == ReadHeader(read, header)
           entry == [name |-> NormalizedPath(name), type |-> header.type, content |-> header.content]
           refused == [read EXCEPT !.ok = FALSE]
<1>1. read \in [ok : BOOLEAN, entries : {read.entries}, pax : {read.pax}, long : {read.long}]
  BY DEF IsRead
<1>2. CASE next = refused \/ (~read.ok /\ next = read)
  <2>1. /\ refused.ok = FALSE
        /\ refused \in [ok : BOOLEAN, entries : {refused.entries}, pax : {refused.pax}, long : {refused.long}]
    BY <1>1
  <2> HIDE DEF refused, next
  <2>2. /\ ~next.ok
        /\ next \in [ok : BOOLEAN, entries : {next.entries}, pax : {next.pax}, long : {next.long}]
    BY <1>1, <1>2, <2>1
  <2>3. IsRead(next, headers, n + 1)
    BY <2>2 DEF IsRead
  <2> QED BY <2>3 DEF next
<1>3. CASE read.ok /\ ~IsData(header) /\ next # refused
  <2>1. /\ header.type = "x" => next = [read EXCEPT !.pax = header.name]
        /\ header.type = "g" => next = read
        /\ header.type = "L" => next = [read EXCEPT !.long = NormalizedPath(header.name)]
        /\ header.type \in {"x", "g", "L"}
    BY <1>3 DEF ReadHeader, IsData
  <2>2. DataIn(headers, n + 1) = DataIn(headers, n)
    <3>1. \A i \in 1..(n + 1) : i \in 1..n \/ i = n + 1
      OBVIOUS
    <3>2. \A i \in 1..n : i \in 1..(n + 1)
      OBVIOUS
    <3> QED BY <1>3, <3>1, <3>2 DEF DataIn
  <2>3. \A type : header.type # type =>
            Pending(headers, (n + 1) + 1, type) = Pending(headers, n + 1, type)
    BY <1>3, OthersWait
  <2>4. /\ Pending(headers, (n + 1) + 1, header.type) # {}
        /\ LastName(headers, Pending(headers, (n + 1) + 1, header.type)) = header.name
    <3>1. n + 1 \in Nat \ {0} /\ ~IsData(headers[n + 1])
      BY <1>3
    <3> QED BY <3>1, TheLastStands
  <2>5. /\ next.ok /\ next.entries = read.entries
        /\ next \in [ok : BOOLEAN, entries : {next.entries}, pax : {next.pax}, long : {next.long}]
    BY <1>1, <1>3, <2>1
  <2>6. next.pax = PendingPax(headers, (n + 1) + 1)
    <3>1. CASE header.type = "x"
      <4>1. next.pax = header.name
        BY <1>1, <2>1, <3>1
      <4> HIDE DEF next
      <4> QED BY <2>4, <3>1, <4>1 DEF PendingPax
    <3>2. CASE header.type # "x"
      <4>1. next.pax = read.pax
        BY <1>1, <2>1, <3>2
      <4> HIDE DEF next
      <4> QED BY <1>3, <2>3, <3>2, <4>1 DEF PendingPax, IsRead
    <3> QED BY <3>1, <3>2
  <2>7. /\ next.long = IF Pending(headers, (n + 1) + 1, "L") = {} THEN "none"
                       ELSE NormalizedPath(LastName(headers, Pending(headers, (n + 1) + 1, "L")))
        /\ Pending(headers, (n + 1) + 1, "L") # {} => next.long # "none"
    <3>1. CASE header.type = "L"
      <4>1. next.long = NormalizedPath(header.name)
        BY <1>1, <2>1, <3>1
      <4>2. NormalizedPath(header.name) # "none"
        BY <3>1 DEF AreHeaders, NormalizedPath, ManifestPath
      <4> HIDE DEF next
      <4> QED BY <2>4, <3>1, <4>1, <4>2
    <3>2. CASE header.type # "L"
      <4>1. next.long = read.long
        BY <1>1, <2>1, <3>2
      <4> HIDE DEF next
      <4> QED BY <1>3, <2>3, <3>2, <4>1 DEF IsRead
    <3> QED BY <3>1, <3>2
  <2> HIDE DEF next
  <2>8. IsRead(next, headers, n + 1)
    BY <1>3, <2>2, <2>5, <2>6, <2>7 DEF IsRead
  <2> QED BY <2>8 DEF next
<1>4. CASE read.ok /\ IsData(header) /\ next # refused
  <2>1. /\ next = [read EXCEPT !.entries = @ \cup {entry}, !.pax = "none", !.long = "none"]
        /\ ~\E other \in read.entries : other.name = entry.name
    BY <1>4 DEF ReadHeader, IsData, Consume
  <2>2. DataIn(headers, n + 1) = DataIn(headers, n) \cup {n + 1}
    <3>1. \A i \in 1..(n + 1) : i \in 1..n \/ i = n + 1
      OBVIOUS
    <3>2. n + 1 \in 1..(n + 1) /\ \A i \in 1..n : i \in 1..(n + 1)
      OBVIOUS
    <3> QED BY <1>4, <3>1, <3>2 DEF DataIn
  <2>3. entry = EntryOf(headers, n + 1)
    BY <1>4, NextNameIsOwn DEF EntryOf
  <2>4. \A type : Pending(headers, (n + 1) + 1, type) = {}
    BY <1>4, DataConsumes
  <2> HIDE DEF entry
  <2>5. /\ next.ok /\ next.pax = "none" /\ next.long = "none"
        /\ next.entries = read.entries \cup {entry}
        /\ next \in [ok : BOOLEAN, entries : {next.entries}, pax : {next.pax}, long : {next.long}]
    BY <1>1, <1>4, <2>1
  <2> HIDE DEF next
  <2>6. next.entries = {EntryOf(headers, i) : i \in DataIn(headers, n + 1)}
    <3>1. read.entries = {EntryOf(headers, i) : i \in DataIn(headers, n)}
      BY <1>4 DEF IsRead
    <3> QED BY <2>2, <2>3, <2>5, <3>1
  <2>7. ASSUME NEW i \in DataIn(headers, n + 1), NEW j \in DataIn(headers, n + 1), i # j
        PROVE  EntryOf(headers, i).name # EntryOf(headers, j).name
    <3>1. \A k \in DataIn(headers, n) :
              EntryOf(headers, k) \in read.entries /\ EntryOf(headers, k).name # entry.name
      BY <1>4, <2>1 DEF IsRead
    <3>2. CASE i \in DataIn(headers, n) /\ j \in DataIn(headers, n)
      BY <1>4, <2>7, <3>2 DEF IsRead
    <3> QED BY <2>2, <2>3, <2>7, <3>1, <3>2
  <2>8. IsRead(next, headers, n + 1)
    BY <2>4, <2>5, <2>6, <2>7 DEF IsRead, PendingPax
  <2> QED BY <2>8 DEF next
<1>5. ~read.ok => next = read
  BY DEF ReadHeader
<1> QED BY <1>1, <1>2, <1>3, <1>4, <1>5

LEMMA ArchiveIsRead ==
    ASSUME NEW headers, AreHeaders(headers)
    PROVE  IsRead(ReaderOf(headers)[Len(headers)], headers, Len(headers))
<1> DEFINE S == {n \in Nat : n <= Len(headers) => IsRead(ReaderOf(headers)[n], headers, n)}
<1>1. 0 \in S
  <2>1. ReaderOf(headers)[0] = NothingRead
    BY ReaderReads DEF AreHeaders
  <2>2. DataIn(headers, 0) = {} /\ \A type : Pending(headers, 0 + 1, type) = {}
    BY DEF DataIn, Pending
  <2>3. IsRead(NothingRead, headers, 0)
    BY <2>2 DEF IsRead, NothingRead, PendingPax
  <2> QED BY <2>1, <2>3
<1>2. ASSUME NEW n \in Nat, n \in S
      PROVE  n + 1 \in S
  <2> SUFFICES ASSUME n + 1 <= Len(headers)
               PROVE  IsRead(ReaderOf(headers)[n + 1], headers, n + 1)
    OBVIOUS
  <2>1. n + 1 \in 1..Len(headers) /\ (n + 1) - 1 = n /\ n <= Len(headers)
    BY DEF AreHeaders
  <2>2. ReaderOf(headers)[n + 1] = ReadHeader(ReaderOf(headers)[n], headers[n + 1])
    <3>1. ReaderOf(headers)[n + 1] = ReadHeader(ReaderOf(headers)[(n + 1) - 1], headers[n + 1])
      BY <2>1, ReaderReads DEF AreHeaders
    <3> QED BY <2>1, <3>1
  <2>3. IsRead(ReaderOf(headers)[n], headers, n)
    BY <1>2, <2>1
  <2> QED BY <2>1, <2>2, <2>3, HeaderIsRead
<1> HIDE DEF S
<1>3. \A n \in Nat : n \in S
  BY <1>1, <1>2, AllNumbers
<1>4. Len(headers) \in S
  BY <1>3 DEF AreHeaders
<1> QED BY <1>4 DEF S, AreHeaders

\* Every file of an archive is one entry, under its own name.
LEMMA ParsedEntries ==
    ASSUME NEW archive, AreHeaders(archive.headers), ParsedArchive(archive).ok
    PROVE  /\ archive.gzip
           /\ ParsedArchive(archive).entries =
                  {EntryOf(archive.headers, i) : i \in DataIn(archive.headers, Len(archive.headers))}
           /\ \A i, j \in DataIn(archive.headers, Len(archive.headers)) :
                  i # j => EntryOf(archive.headers, i).name # EntryOf(archive.headers, j).name
<1> DEFINE read == ReaderOf(archive.headers)[Len(archive.headers)]
<1>1. IsRead(read, archive.headers, Len(archive.headers))
  BY ArchiveIsRead
<1>2. CASE ~(archive.gzip /\ archive.aligned)
  <2>1. ParsedArchive(archive) = [NothingRead EXCEPT !.ok = FALSE]
    BY <1>2 DEF ParsedArchive
  <2> QED BY <2>1 DEF NothingRead
<1>3. CASE archive.gzip /\ archive.aligned
  <2>1. ParsedArchive(archive) = [read EXCEPT !.ok = @ /\ archive.ended]
    BY <1>3 DEF ParsedArchive
  <2> HIDE DEF read
  <2>2. read \in [ok : BOOLEAN, entries : {read.entries}, pax : {read.pax}, long : {read.long}]
    BY <1>1 DEF IsRead
  <2>3. (ParsedArchive(archive).ok => read.ok) /\ ParsedArchive(archive).entries = read.entries
    BY <2>1, <2>2
  <2> QED BY <1>1, <1>3, <2>3 DEF IsRead
<1> QED BY <1>2, <1>3

LEMMA NamesAreOwn ==
    ASSUME AreHeaders(disk.headers)
    PROVE  EntriesHaveTheirOwnNames
<1> SUFFICES ASSUME form = "packed", ParsedArchive(disk).ok
             PROVE  EntriesHaveTheirOwnNames
  BY DEF EntriesHaveTheirOwnNames
<1> DEFINE data == {i \in DOMAIN disk.headers : IsData(disk.headers[i])}
           entries == ParsedArchive(disk).entries
           into == [i \in data |-> EntryOf(disk.headers, i)]
<1>1. data = DataIn(disk.headers, Len(disk.headers))
  BY DEF DataIn, AreHeaders
<1>2. /\ entries = {EntryOf(disk.headers, i) : i \in data}
      /\ \A i, j \in data : i # j => EntryOf(disk.headers, i).name # EntryOf(disk.headers, j).name
  BY <1>1, ParsedEntries
<1>3. IsFiniteSet(data)
  <2>1. data \in SUBSET (1..Len(disk.headers)) /\ Len(disk.headers) \in Nat
    BY DEF AreHeaders
  <2>2. IsFiniteSet(1..Len(disk.headers))
    BY <2>1, FS_Interval
  <2> QED BY <2>1, <2>2, FS_Subset
<1>4. into \in Bijection(data, entries)
  <2> HIDE DEF data, entries
  <2> QED BY <1>2 DEF Bijection, Injection, Surjection, IsInjective
<1>5. Cardinality(entries) = Cardinality(data)
  BY <1>3, <1>4, FS_Bijection DEF ExistsBijection
<1>6. entries = {[name |-> NormalizedPath(OwnName(disk.headers, i)),
                  type |-> disk.headers[i].type, content |-> disk.headers[i].content] : i \in data}
  BY <1>2 DEF EntryOf
<1> HIDE DEF entries
<1> QED BY <1>5, <1>6 DEF EntriesHaveTheirOwnNames, entries

-----------------------------------------------------------------------------
(***************************************************************************)
(* The files of an archive.                                                *)
(***************************************************************************)
ArchiveHeaders ==
    Headers \cup {Manifest("0", ManifestPath, package) : package \in Packages \cup BrokenPackages}
            \cup {Header("0", PatchPath, patch) : patch \in {"p0", "p1", "large"}}
IsArchive(archive) == \E n \in Nat : archive.headers \in [1..n -> ArchiveHeaders]

\* What a header may say, and what an entry made of it may be.
IsHeader(header) ==
    /\ header.type = "L" => header.name \in {EntryPath, UnsafePath}
    /\ header.type = "x" => header.name \in {"none", PatchPath, UnsafePath}
    /\ header.type = "0" => header.content[1] # "none"
    /\ NormalizedPath(header.name) = ManifestPath => header.content[2] \in Packages \cup BrokenPackages
IsEntry(entry) ==
    /\ entry.type = "0" => entry.content[1] # "none"
    /\ entry.name = ManifestPath => entry.content[2] \in Packages \cup BrokenPackages

LEMMA HeadersAre == ASSUME NEW header \in ArchiveHeaders PROVE IsHeader(header)
<1>1. Plain \in Packages
  <2>1. {} \in Peers
    <3> DEFINE ours == {{Declared("peer", range, meta)} :
                            range \in {"same", "matching", "other", "unparsable", "bad"},
                            meta \in {"none", "optional", "malformed"}}
               both == {{Declared("foreign", "bad", "none"), Declared("peer", "other", "optional")}}
    <3>1. Peers = {{}} \cup ours \cup both
      BY DEF Peers
    <3> HIDE DEF ours, both
    <3> QED BY <3>1
  <2>2. {} \in {{}} \cup {{Declared("peer", range, "none")} : range \in {"matching", "bad"}}
    BY Zenon
  <2> QED BY <2>1, <2>2 DEF Plain, Packages
<1>2. CASE header \in {Manifest("0", ManifestPath, package) : package \in Packages \cup BrokenPackages}
  BY <1>2 DEF IsHeader, Manifest
<1>3. CASE header \in {Header("0", PatchPath, patch) : patch \in {"p0", "p1", "large"}}
  BY <1>3 DEF IsHeader, Header, PatchPath, ManifestPath, OddManifestPath, NormalizedPath
<1>4. CASE header \in Headers
  <2>1. CASE header \in {Manifest("0", ManifestPath, Plain), Manifest("0", OddManifestPath, Plain),
                         Manifest("5", ManifestPath, Plain)}
    BY <1>1, <2>1 DEF IsHeader, Manifest
  <2>2. CASE header \in {Header("0", PatchPath, "p0"), Header("0", EntryPath, "code"),
                         Header("0", UnsafePath, "p0"), [Header("0", EntryPath, "code") EXCEPT !.sound = FALSE]}
    BY <2>2 DEF IsHeader, Header, NormalizedPath, PatchPath, EntryPath, UnsafePath, ManifestPath,
                OddManifestPath
  <2>3. CASE header \in {Header("5", PatchPath, "none"), Header("2", EntryPath, "none"),
                         Header("x", "none", "none"), Header("x", PatchPath, "none"),
                         Header("x", UnsafePath, "none"), Header("g", EntryPath, "none"),
                         Header("L", EntryPath, "none"), Header("L", UnsafePath, "none")}
    BY <2>3 DEF IsHeader, Header, NormalizedPath, PatchPath, EntryPath, UnsafePath, ManifestPath,
                OddManifestPath
  <2> QED BY <1>4, <2>1, <2>2, <2>3, Zenon DEF Headers
<1> QED BY <1>2, <1>3, <1>4 DEF ArchiveHeaders

LEMMA ArchivesHaveHeaders ==
    ASSUME NEW archive, IsArchive(archive)
    PROVE  /\ AreHeaders(archive.headers)
           /\ \A i \in 1..Len(archive.headers) : IsHeader(archive.headers[i])
<1>1. PICK n \in Nat : archive.headers \in [1..n -> ArchiveHeaders]
  BY DEF IsArchive
<1>2. Len(archive.headers) = n /\ DOMAIN archive.headers = 1..n
  BY <1>1
<1>3. \A i \in 1..n : IsHeader(archive.headers[i])
  BY <1>1, HeadersAre
<1>4. \A i \in 1..n : archive.headers[i].type = "L" => archive.headers[i].name # "none"
  BY <1>3 DEF IsHeader, EntryPath, UnsafePath
<1> QED BY <1>2, <1>3, <1>4 DEF AreHeaders

\* A name that waits is never that of the manifest.
ReadsFiles(read) ==
    /\ read \in [ok : BOOLEAN, entries : {read.entries}, pax : {read.pax}, long : {read.long}]
    /\ read.pax \in {"none", PatchPath, UnsafePath}
    /\ read.long \in {"none", EntryPath}
    /\ \A entry \in read.entries : IsEntry(entry)

LEMMA FileIsRead ==
    ASSUME NEW read, ReadsFiles(read), NEW header, IsHeader(header)
    PROVE  ReadsFiles(ReadHeader(read, header))
<1> DEFINE next == ReadHeader(read, header)
           name == NextName(read, header)
           entry == [name |-> NormalizedPath(name), type |-> header.type, content |-> header.content]
<1>1. \/ next = read
      \/ next = [read EXCEPT !.ok = FALSE]
      \/ header.type = "x" /\ next = [read EXCEPT !.pax = header.name]
      \/ /\ header.type = "L" /\ IsSafe(header.name)
         /\ next = [read EXCEPT !.long = NormalizedPath(header.name)]
      \/ next = [read EXCEPT !.entries = @ \cup {entry}, !.pax = "none", !.long = "none"]
  BY Zenon DEF ReadHeader, Consume
<1>2. header.type = "L" /\ IsSafe(header.name) => NormalizedPath(header.name) = EntryPath
  BY DEF IsHeader, IsSafe, NormalizedPath, OddManifestPath, EntryPath
<1>3. IsEntry(entry)
  <2>1. entry.name = ManifestPath => name = header.name
    BY DEF ReadsFiles, NextName, NormalizedPath, ManifestPath, OddManifestPath, PatchPath, EntryPath,
           UnsafePath
  <2> QED BY <2>1 DEF IsEntry, IsHeader
<1> HIDE DEF entry, next
<1>4. next \in [ok : BOOLEAN, entries : {next.entries}, pax : {next.pax}, long : {next.long}]
  BY <1>1 DEF ReadsFiles
<1>5. next.pax \in {"none", PatchPath, UnsafePath}
  BY <1>1 DEF ReadsFiles, IsHeader
<1>6. next.long \in {"none", EntryPath}
  BY <1>1, <1>2 DEF ReadsFiles
<1>7. \A e \in next.entries : IsEntry(e)
  <2>1. next.entries = read.entries \/ next.entries = read.entries \cup {entry}
    BY <1>1 DEF ReadsFiles
  <2>2. \A e \in read.entries : IsEntry(e)
    BY DEF ReadsFiles
  <2> QED BY <1>3, <2>1, <2>2
<1> QED BY <1>4, <1>5, <1>6, <1>7 DEF ReadsFiles, next

LEMMA EntriesAreFiles ==
    ASSUME NEW archive, IsArchive(archive), NEW entry \in ParsedArchive(archive).entries
    PROVE  IsEntry(entry)
<1> DEFINE headers == archive.headers
           S == {n \in Nat : n <= Len(headers) => ReadsFiles(ReaderOf(headers)[n])}
<1>1. 0 \in S
  <2>1. ReadsFiles(NothingRead)
    BY DEF ReadsFiles, NothingRead
  <2> QED BY <2>1, ArchivesHaveHeaders, ReaderReads DEF AreHeaders
<1>2. ASSUME NEW n \in Nat, n \in S
      PROVE  n + 1 \in S
  <2> SUFFICES ASSUME n + 1 <= Len(headers)
               PROVE  ReadsFiles(ReaderOf(headers)[n + 1])
    OBVIOUS
  <2>0. Len(headers) \in Nat
    BY ArchivesHaveHeaders DEF AreHeaders
  <2>1. n + 1 \in 1..Len(headers) /\ (n + 1) - 1 = n /\ n <= Len(headers)
    BY <2>0
  <2>2. ReaderOf(headers)[n + 1] = ReadHeader(ReaderOf(headers)[n], headers[n + 1])
    <3>1. ReaderOf(headers)[n + 1] = ReadHeader(ReaderOf(headers)[(n + 1) - 1], headers[n + 1])
      BY <2>0, <2>1, ReaderReads
    <3> QED BY <2>1, <3>1
  <2>3. ReadsFiles(ReaderOf(headers)[n])
    BY <1>2, <2>1
  <2>4. IsHeader(headers[n + 1])
    BY <2>1, ArchivesHaveHeaders
  <2> QED BY <2>2, <2>3, <2>4, FileIsRead
<1> HIDE DEF S
<1>3. \A n \in Nat : n \in S
  BY <1>1, <1>2, AllNumbers
<1> DEFINE read == ReaderOf(headers)[Len(headers)]
<1>4. ReadsFiles(read)
  <2>1. Len(headers) \in Nat
    BY ArchivesHaveHeaders DEF AreHeaders
  <2> QED BY <1>3, <2>1 DEF S
<1>5. CASE ~(archive.gzip /\ archive.aligned)
  BY <1>5 DEF ParsedArchive, NothingRead
<1>6. CASE archive.gzip /\ archive.aligned
  <2>1. ParsedArchive(archive) = [read EXCEPT !.ok = @ /\ archive.ended]
    BY <1>6 DEF ParsedArchive
  <2> HIDE DEF read
  <2>2. ParsedArchive(archive).entries = read.entries
    BY <1>4, <2>1 DEF ReadsFiles
  <2> QED BY <1>4, <2>2 DEF ReadsFiles
<1> QED BY <1>5, <1>6

LEMMA PackIsAnArchive ==
    ASSUME NEW directory, directory.package \in Packages \cup BrokenPackages
    PROVE  /\ IsArchive(PackOf(directory))
           /\ directory.patch \in {"p0", "p1", "large"} =>
                  PackOf(directory).headers = <<Manifest("0", ManifestPath, directory.package),
                                               Header("0", PatchPath, directory.patch)>>
           /\ directory.patch \notin {"p0", "p1", "large"} =>
                  PackOf(directory).headers = <<Manifest("0", ManifestPath, directory.package)>>
<1> DEFINE first == Manifest("0", ManifestPath, directory.package)
           second == Header("0", PatchPath, directory.patch)
<1>1. first \in ArchiveHeaders
  BY DEF ArchiveHeaders
<1>2. CASE directory.patch \in {"p0", "p1", "large"}
  <2>1. PackOf(directory).headers = <<first>> \o <<second>>
    BY <1>2 DEF PackOf
  <2>2. second \in ArchiveHeaders
    BY <1>2 DEF ArchiveHeaders
  <2> HIDE DEF first, second
  <2>3. <<first>> \o <<second>> = <<first, second>>
    <3>1. <<first>> \in Seq({first, second}) /\ second \in {first, second}
      OBVIOUS
    <3>2. Append(<<first>>, second) = <<first>> \o <<second>>
      BY <3>1, AppendIsConcat
    <3>3. /\ Append(<<first>>, second) \in Seq({first, second}) /\ Len(Append(<<first>>, second)) = 2
          /\ Append(<<first>>, second)[1] = first /\ Append(<<first>>, second)[2] = second
      BY <3>1, AppendProperties
    <3>4. /\ <<first, second>> \in Seq({first, second}) /\ Len(<<first, second>>) = 2
          /\ <<first, second>>[1] = first /\ <<first, second>>[2] = second
      OBVIOUS
    <3>5. \A i \in 1..2 : i = 1 \/ i = 2
      OBVIOUS
    <3>6. Append(<<first>>, second) = <<first, second>>
      BY <3>3, <3>4, <3>5, SeqEqual
    <3> QED BY <3>2, <3>6
  <2>4. <<first, second>> \in [1..2 -> ArchiveHeaders]
    BY <1>1, <2>2
  <2>5. IsArchive(PackOf(directory))
    BY <2>1, <2>3, <2>4 DEF IsArchive
  <2> QED BY <1>2, <2>1, <2>3, <2>5 DEF first, second
<1>3. CASE directory.patch \notin {"p0", "p1", "large"}
  <2>1. PackOf(directory).headers = <<first>> \o <<>>
    BY <1>3 DEF PackOf
  <2> HIDE DEF first, second
  <2>2. <<first>> \o <<>> = <<first>>
    OBVIOUS
  <2>3. <<first>> \in [1..1 -> ArchiveHeaders]
    BY <1>1
  <2>4. IsArchive(PackOf(directory))
    BY <2>1, <2>2, <2>3 DEF IsArchive
  <2> QED BY <1>3, <2>1, <2>2, <2>4 DEF first
<1> QED BY <1>2, <1>3

LEMMA ArchivesAre ==
    ASSUME NEW archive \in Archives
    PROVE  IsArchive(archive)
<1>1. CASE archive \in {[gzip |-> TRUE, aligned |-> TRUE, ended |-> TRUE, headers |-> headers] :
                            headers \in BoundedSeq(Headers, 4)}
  <2>1. archive.headers \in BoundedSeq(Headers, 4)
    BY <1>1
  <2>2. PICK n \in 0..4 : archive.headers \in [1..n -> Headers]
    BY <2>1, Zenon DEF BoundedSeq, SeqOf
  <2>3. archive.headers \in [1..n -> ArchiveHeaders]
    BY <2>2 DEF ArchiveHeaders
  <2> QED BY <2>3 DEF IsArchive
<1>2. CASE archive \in {[gzip |-> g, aligned |-> a, ended |-> e,
                         headers |-> <<Manifest("0", ManifestPath, package)>>] :
                            g \in BOOLEAN, a \in BOOLEAN, e \in BOOLEAN,
                            package \in BrokenPackages \cup {Plain}}
  <2>1. PICK package \in BrokenPackages \cup {Plain} :
            archive.headers = <<Manifest("0", ManifestPath, package)>>
    BY <1>2
  <2>2. Manifest("0", ManifestPath, package) \in ArchiveHeaders
    BY <2>1 DEF ArchiveHeaders, Headers
  <2>3. archive.headers \in [1..1 -> ArchiveHeaders]
    BY <2>1, <2>2
  <2> QED BY <2>3 DEF IsArchive
<1> DEFINE many == {[gzip |-> TRUE, aligned |-> TRUE, ended |-> TRUE, headers |-> headers] :
                        headers \in BoundedSeq(Headers, 4)}
           damaged == {[gzip |-> g, aligned |-> a, ended |-> e,
                        headers |-> <<Manifest("0", ManifestPath, package)>>] :
                           g \in BOOLEAN, a \in BOOLEAN, e \in BOOLEAN,
                           package \in BrokenPackages \cup {Plain}}
<1>3. Archives = many \cup damaged
  BY DEF Archives
<1>4. archive \in many \/ archive \in damaged
  <2> HIDE DEF many, damaged
  <2> QED BY <1>3
<1> QED BY <1>1, <1>2, <1>4

-----------------------------------------------------------------------------
(***************************************************************************)
(* What is called compatible.                                              *)
(***************************************************************************)
\* A directory is there with a package and a patch in one of their states,
\* an archive with its headers; what was read of a directory that did not
\* change is still there.
PatchDeclarations == {"undeclared", "malformed", "outside", "up-and-down", "declared"}
PatchFiles == {"absent", "p0", "p1", "linked-outside", "large", "unreadable"}
SubjectsTypeOK ==
    /\ form \in {"directory", "packed"}
    /\ target \in {{}, {"good"}, {"unparsable"}, {"good", "other"}}
    /\ form = "packed" => IsArchive(disk)
    /\ form = "directory" =>
           /\ {"package", "patch"} \subseteq DOMAIN disk
           /\ {"peers", "patch"} \subseteq DOMAIN disk.package
           /\ disk.patch \in PatchFiles /\ disk.package.patch \in PatchDeclarations
           /\ ~changed => disk \in Directories
    /\ step = "begin" => ~changed /\ manifest = NoManifest
    /\ step = "manifest" => form = "directory"
    /\ form = "directory" /\ step = "manifest" => manifest.patch \in PatchDeclarations
    /\ manifest # NoManifest =>
           /\ form = "directory" /\ manifest.object /\ manifest.size # "large"
           /\ ~changed => manifest = disk.package

\* A complete subject has the requirements of the package that was read, which
\* has no problem, and its patch.
SubjectIsOfThePackage ==
    step \in {"acquired", "done"} /\ subject.completeness = "complete" =>
        /\ subject.requirements = RequirementsOf(PackageJudged)
        /\ Problems(PackageJudged) = {}
        /\ subject.patch # "none"
        /\ {"plugin:manifest", "plugin:bundle-patch"} \subseteq subject.evidence

\* What the readers of a directory make of it when it does not change.
SubjectOnDisk ==
    LET leads == manifest.patch \in {"declared", "up-and-down"}
        problem == IF leads THEN PatchOnDisk ELSE PatchProblem(manifest)
        found == leads /\ problem = {}
    IN  Subject(manifest, IF found THEN disk.patch ELSE "none", Problems(manifest) \cup problem,
            {"plugin:manifest"} \cup IF found THEN {"plugin:bundle-patch"} ELSE {})
SubjectIsWhatIsThere ==
    step \in {"acquired", "done"} =>
        /\ form = "packed" => subject = PackedSubject(disk) \/ subject.completeness = "invalid"
        /\ form = "directory" /\ ~changed /\ manifest # NoManifest => subject = SubjectOnDisk

SubjectInv == SubjectsTypeOK /\ SubjectIsOfThePackage /\ SubjectIsWhatIsThere

LEMMA DirectoriesAreTyped ==
    ASSUME NEW d \in Directories
    PROVE  /\ {"package", "patch"} \subseteq DOMAIN d
           /\ {"peers", "patch"} \subseteq DOMAIN d.package
           /\ d.patch \in PatchFiles /\ d.package.patch \in PatchDeclarations
           /\ d.package \in Packages \cup BrokenPackages
           /\ d.root \in {"there", "missing"}
           /\ d.manifest \in {"inside", "outside", "missing", "unreadable"}
<1>1. ASSUME NEW p \in Packages \cup BrokenPackages
      PROVE  {"peers", "patch"} \subseteq DOMAIN p /\ p.patch \in PatchDeclarations
  BY DEF Packages, BrokenPackages, Plain, PatchDeclarations
<1>2. /\ d.package \in Packages \cup BrokenPackages /\ d.patch \in PatchFiles
      /\ {"package", "patch"} \subseteq DOMAIN d
      /\ d.root \in {"there", "missing"}
      /\ d.manifest \in {"inside", "outside", "missing", "unreadable"}
  BY DEF Directories, PatchFiles
<1> QED BY <1>1, <1>2

LEMMA InitSubjectInv == FrontInit => SubjectInv
<1> SUFFICES ASSUME FrontInit PROVE SubjectInv
  OBVIOUS
<1>1. /\ form \in {"directory", "packed"} /\ step = "begin" /\ ~changed /\ manifest = NoManifest
      /\ target \in {{}, {"good"}, {"unparsable"}, {"good", "other"}}
      /\ form = "directory" => disk \in Directories
      /\ form = "packed" => disk \in Archives \/ \E p \in Packages : disk = PackOf(Directory(p))
  BY DEF FrontInit, Init
<1>2. \A p \in Packages : IsArchive(PackOf(Directory(p)))
  BY PackIsAnArchive DEF Directory
<1>3. form = "packed" => IsArchive(disk)
  BY <1>1, <1>2, ArchivesAre
<1> QED BY <1>1, <1>3, DirectoriesAreTyped
        DEF SubjectInv, SubjectsTypeOK, SubjectIsOfThePackage, SubjectIsWhatIsThere

\* A subject that is complete has no problem in its manifest or its patch.
LEMMA CompleteSubject ==
    ASSUME NEW package, NEW patch, NEW diagnostics, NEW evidence,
           Subject(package, patch, diagnostics, evidence).completeness = "complete"
    PROVE  diagnostics = {}
BY DEF Subject, Completeness

\* The files of an archive that are one file.
LEMMA OneFileIsThere ==
    ASSUME NEW archive, IsArchive(archive), NEW name, OneFile(EntriesAt(archive, name))
    PROVE  /\ PatchFrom(EntriesAt(archive, name)) # "none"
           /\ name = ManifestPath =>
                  PackageFrom(EntriesAt(archive, name)) \in Packages \cup BrokenPackages
<1> DEFINE entries == EntriesAt(archive, name)
           entry == CHOOSE e \in entries : TRUE
<1>1. entry \in entries /\ entry.type = "0"
  BY DEF OneFile
<1>2. entry \in ParsedArchive(archive).entries /\ entry.name = name
  BY <1>1 DEF EntriesAt
<1>3. IsEntry(entry)
  BY <1>2, EntriesAreFiles
<1>4. PatchFrom(entries) = entry.content[1] /\ PackageFrom(entries) = entry.content[2]
  BY DEF PatchFrom, PackageFrom
<1> HIDE DEF entry, entries
<1>5. PatchFrom(entries) # "none" /\
      (name = ManifestPath => PackageFrom(entries) \in Packages \cup BrokenPackages)
  BY <1>1, <1>2, <1>3, <1>4 DEF IsEntry
<1> QED BY <1>5 DEF entries

LEMMA PackagesDeclare ==
    ASSUME NEW package \in Packages \cup BrokenPackages
    PROVE  package.patch \in PatchDeclarations
BY DEF Packages, BrokenPackages, Plain, PatchDeclarations

LEMMA CompletePacked ==
    ASSUME NEW archive, IsArchive(archive), PackedSubject(archive).completeness = "complete"
    PROVE  LET package == PackageFrom(EntriesAt(archive, ManifestPath))
               packed == PackedSubject(archive)
           IN  /\ packed.requirements = RequirementsOf(package) /\ Problems(package) = {}
               /\ packed.patch # "none"
               /\ {"plugin:manifest", "plugin:bundle-patch"} \subseteq packed.evidence
<1> DEFINE entries == EntriesAt(archive, ManifestPath)
           package == PackageFrom(entries)
           packed == PackedSubject(archive)
           problem == PackedPatchProblem(archive, package)
           hasPatch == package.patch = "declared" /\ problem = {}
           patch == IF hasPatch THEN PatchFrom(EntriesAt(archive, PatchPath)) ELSE "none"
           evidence == {"plugin:packed-artifact"} \cup {"plugin:manifest"}
                           \cup IF hasPatch THEN {"plugin:bundle-patch"} ELSE {}
<1>1. /\ packed = Subject(package, patch, Problems(package) \cup problem, evidence)
      /\ OneFile(entries)
  BY DEF PackedSubject, InvalidSubject
<1>2. package.patch \in PatchDeclarations
  BY <1>1, OneFileIsThere, PackagesDeclare
<1>3. problem = {} => package.patch = "declared" /\ OneFile(EntriesAt(archive, PatchPath))
  BY <1>2 DEF PackedPatchProblem, PatchProblem, PatchDeclarations
<1> HIDE DEF package, problem, packed, entries
<1>4. Problems(package) = {} /\ problem = {}
  <2> HIDE DEF patch, evidence, hasPatch
  <2>1. packed.completeness = "complete"
    BY DEF packed
  <2>2. Problems(package) \cup problem = {}
    BY <1>1, <2>1, CompleteSubject
  <2> QED BY <2>2
<1>5. hasPatch /\ patch # "none" /\ {"plugin:manifest", "plugin:bundle-patch"} \subseteq evidence
  BY <1>3, <1>4, OneFileIsThere
<1> HIDE DEF patch, evidence, hasPatch
<1>6. /\ packed.requirements = RequirementsOf(package) /\ packed.patch = patch
      /\ packed.evidence = evidence
  BY <1>1 DEF Subject
<1> QED BY <1>4, <1>5, <1>6 DEF packed, package, entries

LEMMA SamePackageJudged ==
    ASSUME UNCHANGED <<form, disk, manifest>>
    PROVE  PackageJudged' = PackageJudged
BY DEF PackageJudged, PackageFrom, EntriesAt, ParsedArchive

LEMMA PackedStep ==
    ASSUME SubjectInv, AcquirePacked
    PROVE  SubjectInv'
<1>1. /\ UNCHANGED <<form, target, disk, changed, manifest>> /\ form = "packed"
      /\ step = "begin" /\ step' = "acquired"
      /\ \/ subject' = PackedSubject(disk)
         \/ subject' = InvalidSubject("PLUGIN_PACKED_READ_FAILED", {})
  BY DEF AcquirePacked, Acquired, inputs
<1>2. SubjectsTypeOK'
  BY <1>1 DEF SubjectInv, SubjectsTypeOK
<1>3. IsArchive(disk) /\ PackageJudged' = PackageFrom(EntriesAt(disk, ManifestPath))
  BY <1>1, SamePackageJudged DEF SubjectInv, SubjectsTypeOK, PackageJudged
<1>4. subject'.completeness = "complete" => subject' = PackedSubject(disk)
  BY <1>1 DEF InvalidSubject
<1>5. SubjectIsOfThePackage'
  BY <1>1, <1>3, <1>4, CompletePacked DEF SubjectIsOfThePackage
<1>6. PackedSubject(disk)' = PackedSubject(disk)
  BY <1>1 DEF PackedSubject
<1>7. SubjectIsWhatIsThere'
  BY <1>1, <1>6 DEF SubjectIsWhatIsThere, InvalidSubject
<1> QED BY <1>2, <1>5, <1>7 DEF SubjectInv

LEMMA ReadManifestStep ==
    ASSUME SubjectInv, ReadManifest
    PROVE  SubjectInv'
<1>1. /\ UNCHANGED <<form, target, disk, changed>> /\ form = "directory" /\ step = "begin"
      /\ ~changed /\ manifest = NoManifest
  BY DEF ReadManifest, inputs, SubjectInv, SubjectsTypeOK
<1>2. /\ disk.root \in {"there", "missing"} /\ disk.package.patch \in PatchDeclarations
      /\ disk.manifest \in {"inside", "outside", "missing", "unreadable"}
  BY <1>1, DirectoriesAreTyped DEF SubjectInv, SubjectsTypeOK
<1>3. \/ /\ step' = "manifest" /\ manifest' = disk.package
         /\ disk.package.object /\ disk.package.size # "large"
      \/ step' = "acquired" /\ subject'.completeness = "invalid" /\ manifest' = NoManifest
  BY <1>1, <1>2 DEF ReadManifest, Acquired, InvalidSubject
<1>4. SubjectsTypeOK'
  BY <1>1, <1>2, <1>3 DEF SubjectInv, SubjectsTypeOK
<1> QED BY <1>1, <1>3, <1>4 DEF SubjectInv, SubjectIsOfThePackage, SubjectIsWhatIsThere

LEMMA ReadPatchStep ==
    ASSUME SubjectInv, ReadPatch
    PROVE  SubjectInv'
<1>1. /\ UNCHANGED <<form, target, disk, changed, manifest>> /\ form = "directory"
      /\ step = "manifest" /\ step' = "acquired"
  BY DEF ReadPatch, Acquired, inputs, SubjectInv, SubjectsTypeOK
<1>2. SubjectsTypeOK'
  BY <1>1 DEF SubjectInv, SubjectsTypeOK
<1> DEFINE leads == manifest.patch \in {"declared", "up-and-down"}
           problem == IF leads THEN PatchOnDisk ELSE PatchProblem(manifest)
           found == leads /\ problem = {}
           patch == IF found THEN disk.patch ELSE "none"
           evidence == {"plugin:manifest"} \cup IF found THEN {"plugin:bundle-patch"} ELSE {}
<1>3. subject' = Subject(manifest, patch, Problems(manifest) \cup problem, evidence)
  BY DEF ReadPatch, Acquired
<1>4. problem = {} => leads
  BY <1>1 DEF PatchProblem, SubjectInv, SubjectsTypeOK, PatchDeclarations
<1>5. leads /\ problem = {} => disk.patch \in {"p0", "p1"}
  BY <1>1 DEF PatchOnDisk, SubjectInv, SubjectsTypeOK, PatchFiles
<1>6. ASSUME subject'.completeness = "complete"
      PROVE  /\ subject'.requirements = RequirementsOf(manifest) /\ Problems(manifest) = {}
             /\ subject'.patch # "none"
             /\ {"plugin:manifest", "plugin:bundle-patch"} \subseteq subject'.evidence
  <2>1. Problems(manifest) = {} /\ problem = {}
    <3> HIDE DEF problem, patch, evidence
    <3>1. Problems(manifest) \cup problem = {}
      BY <1>3, <1>6, CompleteSubject
    <3> QED BY <3>1
  <2>2. patch \in {"p0", "p1"} /\ evidence = {"plugin:manifest", "plugin:bundle-patch"}
    BY <1>4, <1>5, <2>1
  <2> HIDE DEF patch, evidence, problem
  <2> QED BY <1>3, <2>1, <2>2 DEF Subject
<1>7. subject' = SubjectOnDisk
  BY <1>3 DEF SubjectOnDisk
<1> HIDE DEF patch, evidence, problem, leads, found
<1>8. PackageJudged = manifest /\ PackageJudged' = manifest
  BY <1>1 DEF PackageJudged
<1>9. SubjectIsOfThePackage'
  BY <1>6, <1>8 DEF SubjectIsOfThePackage
<1>10. SubjectOnDisk' = SubjectOnDisk
  BY <1>1 DEF SubjectOnDisk, PatchOnDisk
<1>11. SubjectIsWhatIsThere'
  BY <1>1, <1>7, <1>10 DEF SubjectIsWhatIsThere
<1> QED BY <1>2, <1>9, <1>11 DEF SubjectInv

LEMMA ChangeDirectoryStep ==
    ASSUME SubjectInv, ChangeDirectory
    PROVE  SubjectInv'
<1>1. /\ UNCHANGED <<form, target, step, manifest, subject>> /\ changed'
      /\ form = "directory" /\ step = "manifest"
  BY DEF ChangeDirectory, inputs
<1>2. PICK patch \in {"absent", "p1"}, peers \in {{}, {Declared("peer", "other", "none")}} :
          disk' = [disk EXCEPT !.patch = patch, !.package.peers = peers]
  BY DEF ChangeDirectory
<1>3. /\ {"package", "patch"} \subseteq DOMAIN disk'
      /\ {"peers", "patch"} \subseteq DOMAIN disk'.package
      /\ disk'.patch \in PatchFiles /\ disk'.package.patch \in PatchDeclarations
  BY <1>1, <1>2 DEF SubjectInv, SubjectsTypeOK, PatchFiles
<1>4. SubjectsTypeOK'
  BY <1>1, <1>3 DEF SubjectInv, SubjectsTypeOK
<1> QED BY <1>1, <1>4 DEF SubjectInv, SubjectIsOfThePackage, SubjectIsWhatIsThere

LEMMA NextSubjectInv == SubjectInv /\ [FrontNext]_frontVars => SubjectInv'
<1> SUFFICES ASSUME SubjectInv, [FrontNext]_frontVars PROVE SubjectInv'
  OBVIOUS
<1>1. Next \/ UNCHANGED vars
  BY DEF FrontNext, Flags, Command, ToolCall, UseCase, CheckPlugin, Respond, CallAnswered,
         CallUnchanged, frontVars
<1>2. CASE UNCHANGED vars \/ Analyse
  <2>1. /\ UNCHANGED <<form, target, disk, changed, manifest, subject>>
        /\ step' = step \/ (step = "acquired" /\ step' = "done")
    BY <1>2 DEF vars, inputs, Analyse
  <2>2. PackageJudged' = PackageJudged
    BY <2>1, SamePackageJudged
  <2>3. /\ PackedSubject(disk)' = PackedSubject(disk) /\ SubjectOnDisk' = SubjectOnDisk
    BY <2>1 DEF PackedSubject, SubjectOnDisk, PatchOnDisk
  <2>4. SubjectsTypeOK'
    BY <2>1 DEF SubjectInv, SubjectsTypeOK
  <2>5. SubjectIsOfThePackage' /\ SubjectIsWhatIsThere'
    BY <2>1, <2>2, <2>3 DEF SubjectInv, SubjectIsOfThePackage, SubjectIsWhatIsThere
  <2> QED BY <2>4, <2>5 DEF SubjectInv
<1> QED BY <1>1, <1>2, PackedStep, ReadManifestStep, ReadPatchStep, ChangeDirectoryStep DEF Next

\* A requirement that spoils no verdict is met.
LEMMA RequirementIsMet ==
    ASSUME target \in {{}, {"good"}, {"unparsable"}, {"good", "other"}}, NEW r,
           r.relationship # "artifact-dependency",
           StatusOf(r) \notin {"missing", "version-mismatch", "unproven"}
    PROVE  \/ target = {} /\ r.relationship = "host-peer-optional"
           \/ /\ target # {} /\ Cardinality(target) = 1
              /\ r.range = "same" \/ (r.range = "matching" /\ target = {"good"})
<1>1. Cardinality({"good", "other"}) = 2
  <2>1. Cardinality({"good"}) = 1 /\ IsFiniteSet({"good"})
    BY FS_Singleton
  <2>2. {"good", "other"} = {"good"} \cup {"other"} /\ "other" \notin {"good"}
    OBVIOUS
  <2> QED BY <2>1, <2>2, FS_AddElement
<1>2. CASE target = {}
  BY <1>2 DEF StatusOf
<1>3. CASE target # {}
  <2>1. Relation(r.range) = "satisfied"
    BY <1>3 DEF StatusOf, Relation
  <2>2. Cardinality(target) = 1 /\ target \in {{"good"}, {"unparsable"}}
    BY <1>1, <1>3, <2>1 DEF Relation
  <2> QED BY <1>3, <2>1, <2>2 DEF Relation
<1> QED BY <1>2, <1>3

LEMMA CompatiblePeers == FrontInv /\ SubjectInv => PeersAreThere
<1> SUFFICES ASSUME FrontInv, SubjectInv, verdict = "compatible-in-scope" PROVE PeersAreThere
  BY DEF PeersAreThere
<1>1. step = "done" /\ Analysis(subject) = "compatible-in-scope"
  BY DEF FrontInv, VerdictIsTheAnalysis
<1>2. /\ subject.completeness = "complete"
      /\ \A r \in subject.requirements :
             StatusOf(r) \notin {"missing", "version-mismatch", "unproven"}
  BY <1>1 DEF Analysis
<1>3. subject.requirements = RequirementsOf(PackageJudged) /\ Problems(PackageJudged) = {}
  BY <1>1, <1>2 DEF SubjectInv, SubjectIsOfThePackage
<1>4. \A d \in PackageJudged.peers \cup PackageJudged.dependencies : IsOurs(d) => d.range # "bad"
  BY <1>3 DEF Problems
<1>5. ASSUME NEW d \in PackageJudged.peers, IsOurs(d)
      PROVE  \/ d.meta = "optional" /\ target = {} /\ d.range # "bad"
             \/ /\ Cardinality(target) = 1 /\ "target:manifest" \in EvidenceOf(subject)
                /\ d.range = "same" \/ (d.range = "matching" /\ target = {"good"})
  <2> DEFINE r == [range |-> d.range, relationship |-> Relationship(d)]
  <2>1. r \in subject.requirements
    BY <1>3, <1>4, <1>5 DEF RequirementsOf
  <2>2. /\ r.relationship # "artifact-dependency"
        /\ r.relationship = "host-peer-optional" => d.meta = "optional"
        /\ r.range = d.range
    BY DEF Relationship
  <2> HIDE DEF r
  <2>3. \/ target = {} /\ r.relationship = "host-peer-optional"
        \/ /\ target # {} /\ Cardinality(target) = 1
           /\ r.range = "same" \/ (r.range = "matching" /\ target = {"good"})
    BY <1>2, <2>1, <2>2, RequirementIsMet DEF SubjectInv, SubjectsTypeOK
  <2>4. target # {} => "target:manifest" \in EvidenceOf(subject)
    BY <2>1, <2>2 DEF EvidenceOf
  <2> QED BY <1>4, <1>5, <2>2, <2>3, <2>4
<1> QED BY <1>4, <1>5 DEF PeersAreThere

\* A plugin that is called compatible has been read as a whole, with the patch
\* it declares: a directory however it changed meanwhile, an artifact whatever
\* its entries are (acquirePluginDirectory and acquirePluginPacked).
THEOREM CompatiblePluginsAreProven == FrontSpec => []CompatibleIsProven
<1>1. FrontSpec => []SubjectInv
  BY InitSubjectInv, NextSubjectInv, PTL DEF FrontSpec
<1>2. FrontInv /\ SubjectInv => PatchIsHashed
  BY DEF FrontInv, VerdictIsTheAnalysis, Analysis, SubjectInv, SubjectIsOfThePackage,
         PatchIsHashed, EvidenceOf
<1>3. FrontInv /\ SubjectInv => CompatibleIsProven
  BY <1>2, CompatiblePeers DEF CompatibleIsProven
<1> QED BY <1>1, <1>3, CallInvariance, PTL

-----------------------------------------------------------------------------
(***************************************************************************)
(* The two forms of a plugin.                                              *)
(***************************************************************************)
FileOf(header) == [name |-> header.name, type |-> header.type, content |-> header.content]

LEMMA PlainFileIsRead ==
    ASSUME NEW read, read \in [ok : {TRUE}, entries : {read.entries}, pax : {"none"}, long : {"none"}],
           NEW header, header.sound, header.type = "0", header.name \in {ManifestPath, PatchPath},
           \A other \in read.entries : other.name # header.name
    PROVE  /\ ReadHeader(read, header).entries = read.entries \cup {FileOf(header)}
           /\ ReadHeader(read, header) \in [ok : {TRUE}, entries : {ReadHeader(read, header).entries},
                                           pax : {"none"}, long : {"none"}]
<1> DEFINE next == ReadHeader(read, header)
           name == NextName(read, header)
           entry == [name |-> NormalizedPath(name), type |-> header.type, content |-> header.content]
<1>1. name = header.name /\ IsSafe(name) /\ NormalizedPath(name) = header.name
  BY DEF NextName, IsSafe, NormalizedPath, ManifestPath, PatchPath, OddManifestPath, UnsafePath
<1>2. entry = FileOf(header)
  BY <1>1 DEF FileOf
<1> HIDE DEF entry
<1>3. next = [read EXCEPT !.entries = @ \cup {FileOf(header)}, !.pax = "none", !.long = "none"]
  <2>1. /\ next = [read EXCEPT !.entries = @ \cup {entry}, !.pax = "none", !.long = "none"]
    <3>1. entry.name = header.name
      BY <1>2 DEF FileOf
    <3>2. ~\E other \in read.entries : other.name = entry.name
      BY <3>1
    <3> QED BY <1>1, <3>2 DEF ReadHeader, Consume, entry
  <2> QED BY <1>2, <2>1
<1> HIDE DEF next
<1>4. /\ next.entries = read.entries \cup {FileOf(header)}
      /\ next \in [ok : {TRUE}, entries : {next.entries}, pax : {"none"}, long : {"none"}]
  BY <1>3
<1> QED BY <1>4 DEF next

\* The artifact packed from a directory has its package and its patch.
LEMMA PackIsRead ==
    ASSUME NEW directory, directory.package \in Packages \cup BrokenPackages
    PROVE  LET archive == PackOf(directory)
               first == Manifest("0", ManifestPath, directory.package)
               second == Header("0", PatchPath, directory.patch)
           IN  /\ ParsedArchive(archive).ok
               /\ EntriesAt(archive, ManifestPath) = {FileOf(first)}
               /\ directory.patch \in {"p0", "p1", "large"} =>
                      EntriesAt(archive, PatchPath) = {FileOf(second)}
               /\ directory.patch \notin {"p0", "p1", "large"} =>
                      EntriesAt(archive, PatchPath) = {}
<1> DEFINE archive == PackOf(directory)
           headers == archive.headers
           first == Manifest("0", ManifestPath, directory.package)
           second == Header("0", PatchPath, directory.patch)
           read == ReaderOf(headers)[Len(headers)]
           one == ReadHeader(NothingRead, first)
           two == ReadHeader(one, second)
<1>1. archive.gzip /\ archive.aligned /\ archive.ended
  BY DEF PackOf
<1>2. /\ first.sound /\ first.type = "0" /\ first.name = ManifestPath /\ FileOf(first).name = ManifestPath
      /\ second.sound /\ second.type = "0" /\ second.name = PatchPath /\ FileOf(second).name = PatchPath
      /\ ManifestPath # PatchPath
  BY DEF Manifest, Header, FileOf, ManifestPath, PatchPath
<1>3. /\ NothingRead \in [ok : {TRUE}, entries : {NothingRead.entries}, pax : {"none"}, long : {"none"}]
      /\ NothingRead.entries = {}
  BY DEF NothingRead
<1>4. /\ directory.patch \in {"p0", "p1", "large"} => headers = <<first, second>>
      /\ directory.patch \notin {"p0", "p1", "large"} => headers = <<first>>
  BY PackIsAnArchive
<1> HIDE DEF first, second
<1>5. /\ one.entries = {FileOf(first)}
      /\ one \in [ok : {TRUE}, entries : {one.entries}, pax : {"none"}, long : {"none"}]
  <2>1. /\ one.entries = NothingRead.entries \cup {FileOf(first)}
        /\ one \in [ok : {TRUE}, entries : {one.entries}, pax : {"none"}, long : {"none"}]
    BY <1>2, <1>3, PlainFileIsRead
  <2> QED BY <1>3, <2>1
<1> HIDE DEF one
<1>6. /\ two.entries = {FileOf(first), FileOf(second)}
      /\ two \in [ok : {TRUE}, entries : {two.entries}, pax : {"none"}, long : {"none"}]
  <2>1. \A other \in one.entries : other.name # second.name
    BY <1>2, <1>5
  <2>2. /\ two.entries = one.entries \cup {FileOf(second)}
        /\ two \in [ok : {TRUE}, entries : {two.entries}, pax : {"none"}, long : {"none"}]
    BY <1>2, <1>5, <2>1, PlainFileIsRead
  <2> QED BY <1>5, <2>2
<1> HIDE DEF two
<1>7. ParsedArchive(archive) = [read EXCEPT !.ok = @ /\ archive.ended]
  BY <1>1 DEF ParsedArchive
<1>8. CASE directory.patch \in {"p0", "p1", "large"}
  <2>1. headers = <<first, second>> /\ Len(headers) = 2
    BY <1>4, <1>8
  <2>2. read = two
    <3> HIDE DEF headers
    <3>1. /\ ReaderOf(headers)[0] = NothingRead
          /\ \A i \in 1..Len(headers) :
                 ReaderOf(headers)[i] = ReadHeader(ReaderOf(headers)[i - 1], headers[i])
      BY <2>1, ReaderReads
    <3>2. ReaderOf(headers)[1] = ReadHeader(ReaderOf(headers)[0], headers[1])
      <4>1. 1 \in 1..Len(headers) /\ 1 - 1 = 0
        BY <2>1
      <4> QED BY <3>1, <4>1
    <3>3. ReaderOf(headers)[2] = ReadHeader(ReaderOf(headers)[1], headers[2])
      <4>1. 2 \in 1..Len(headers) /\ 2 - 1 = 1
        BY <2>1
      <4> QED BY <3>1, <4>1
    <3> QED BY <2>1, <3>1, <3>2, <3>3 DEF one, two
  <2> HIDE DEF read
  <2>3. ParsedArchive(archive).ok /\ ParsedArchive(archive).entries = {FileOf(first), FileOf(second)}
    BY <1>1, <1>6, <1>7, <2>2
  <2>4. /\ EntriesAt(archive, ManifestPath) = {FileOf(first)}
        /\ EntriesAt(archive, PatchPath) = {FileOf(second)}
    BY <1>2, <2>3 DEF EntriesAt
  <2> QED BY <1>8, <2>3, <2>4 DEF first, second
<1>9. CASE directory.patch \notin {"p0", "p1", "large"}
  <2>1. headers = <<first>> /\ Len(headers) = 1
    BY <1>4, <1>9
  <2>2. read = one
    <3> HIDE DEF headers
    <3>1. /\ ReaderOf(headers)[0] = NothingRead
          /\ \A i \in 1..Len(headers) :
                 ReaderOf(headers)[i] = ReadHeader(ReaderOf(headers)[i - 1], headers[i])
      BY <2>1, ReaderReads
    <3>2. ReaderOf(headers)[1] = ReadHeader(ReaderOf(headers)[0], headers[1])
      <4>1. 1 \in 1..Len(headers) /\ 1 - 1 = 0
        BY <2>1
      <4> QED BY <3>1, <4>1
    <3> QED BY <2>1, <3>1, <3>2 DEF one
  <2> HIDE DEF read
  <2>3. ParsedArchive(archive).ok /\ ParsedArchive(archive).entries = {FileOf(first)}
    BY <1>1, <1>5, <1>7, <2>2
  <2>4. EntriesAt(archive, ManifestPath) = {FileOf(first)} /\ EntriesAt(archive, PatchPath) = {}
    BY <1>2, <2>3 DEF EntriesAt
  <2> QED BY <1>9, <2>3, <2>4 DEF first, second
<1> QED BY <1>8, <1>9

LEMMA FileAlone ==
    ASSUME NEW header, header.type = "0"
    PROVE  /\ OneFile({FileOf(header)})
           /\ PackageFrom({FileOf(header)}) = header.content[2]
           /\ PatchFrom({FileOf(header)}) = header.content[1]
<1> DEFINE file == FileOf(header)
<1>1. file.type = "0" /\ file.content = header.content
  BY DEF FileOf
<1> HIDE DEF file
<1>2. (CHOOSE entry \in {file} : TRUE) = file
  OBVIOUS
<1>3. /\ OneFile({file}) /\ PackageFrom({file}) = header.content[2]
      /\ PatchFrom({file}) = header.content[1]
  BY <1>1, <1>2 DEF OneFile, PackageFrom, PatchFrom
<1> QED BY <1>3 DEF file

\* The subject of the directory and that of the artifact packed from it.
LEMMA PackingKeepsTheSubject ==
    ASSUME SubjectInv, form = "directory", ~changed, manifest # NoManifest,
           manifest.patch # "up-and-down"
    PROVE  LET packed == PackedSubject(PackOf(disk))
           IN  /\ packed.identity = SubjectOnDisk.identity /\ packed.patch = SubjectOnDisk.patch
               /\ packed.requirements = SubjectOnDisk.requirements
               /\ packed.completeness = SubjectOnDisk.completeness
<1> DEFINE archive == PackOf(disk)
           packed == PackedSubject(archive)
           leads == manifest.patch \in {"declared", "up-and-down"}
           problem == IF leads THEN PatchOnDisk ELSE PatchProblem(manifest)
           found == leads /\ problem = {}
           patch == IF found THEN disk.patch ELSE "none"
           evidence == {"plugin:manifest"} \cup IF found THEN {"plugin:bundle-patch"} ELSE {}
           packedProblem == PackedPatchProblem(archive, manifest)
           hasPatch == manifest.patch = "declared" /\ packedProblem = {}
           packedPatch == IF hasPatch THEN PatchFrom(EntriesAt(archive, PatchPath)) ELSE "none"
           packedEvidence == {"plugin:packed-artifact"} \cup {"plugin:manifest"}
                                 \cup IF hasPatch THEN {"plugin:bundle-patch"} ELSE {}
           first == Manifest("0", ManifestPath, manifest)
           second == Header("0", PatchPath, disk.patch)
<1>1. /\ manifest = disk.package /\ manifest.object /\ manifest.size # "large"
      /\ disk.package \in Packages \cup BrokenPackages
      /\ disk.patch \in PatchFiles /\ manifest.patch \in PatchDeclarations
  BY DirectoriesAreTyped DEF SubjectInv, SubjectsTypeOK
<1>2. /\ ParsedArchive(archive).ok
      /\ EntriesAt(archive, ManifestPath) = {FileOf(first)}
      /\ disk.patch \in {"p0", "p1", "large"} => EntriesAt(archive, PatchPath) = {FileOf(second)}
      /\ disk.patch \notin {"p0", "p1", "large"} => EntriesAt(archive, PatchPath) = {}
  BY <1>1, PackIsRead
<1>3. OneFile({FileOf(first)}) /\ PackageFrom({FileOf(first)}) = manifest
  BY FileAlone DEF Manifest
<1>4. OneFile({FileOf(second)}) /\ PatchFrom({FileOf(second)}) = disk.patch
  BY FileAlone DEF Header
<1> HIDE DEF archive, first, second
<1>5. packed = Subject(manifest, packedPatch, Problems(manifest) \cup packedProblem, packedEvidence)
  BY <1>1, <1>2, <1>3 DEF PackedSubject
<1>6. SubjectOnDisk = Subject(manifest, patch, Problems(manifest) \cup problem, evidence)
  BY DEF SubjectOnDisk
<1>7. /\ packedProblem = {} <=> problem = {}
      /\ packedPatch = patch
  <2>1. CASE manifest.patch # "declared"
    <3>1. packedProblem = PatchProblem(manifest) /\ problem = PatchProblem(manifest)
      BY <2>1 DEF PackedPatchProblem
    <3>2. packedPatch = "none" /\ patch = "none"
      BY <2>1
    <3> QED BY <3>1, <3>2
  <2>2. CASE manifest.patch = "declared"
    <3>1. problem = PatchOnDisk /\ leads
      BY <2>2
    <3>2. disk.patch \in {"p0", "p1"} => problem = {} /\ packedProblem = {}
      BY <1>2, <1>4, <2>2, <3>1 DEF PatchOnDisk, PackedPatchProblem
    <3>3. disk.patch \notin {"p0", "p1"} => problem # {} /\ packedProblem # {}
      BY <1>1, <1>2, <1>4, <2>2, <3>1 DEF PatchOnDisk, PackedPatchProblem, PatchFiles
    <3>4. packedProblem = {} => PatchFrom(EntriesAt(archive, PatchPath)) = disk.patch
      BY <1>2, <1>4, <3>3
    <3> HIDE DEF packedProblem, problem
    <3> QED BY <2>2, <3>1, <3>2, <3>3, <3>4
  <2> QED BY <2>1, <2>2
<1> HIDE DEF packed, packedPatch, packedProblem, packedEvidence, patch, problem, evidence
<1>8. /\ packed.identity = manifest.identity /\ SubjectOnDisk.identity = manifest.identity
      /\ packed.requirements = SubjectOnDisk.requirements
      /\ packed.patch = packedPatch /\ SubjectOnDisk.patch = patch
      /\ packed.completeness = Completeness(manifest, Problems(manifest) \cup packedProblem)
      /\ SubjectOnDisk.completeness = Completeness(manifest, Problems(manifest) \cup problem)
  BY <1>5, <1>6 DEF Subject
<1>9. (Problems(manifest) \cup packedProblem = {}) <=> (Problems(manifest) \cup problem = {})
  BY <1>7
<1>10. packed.completeness = SubjectOnDisk.completeness
  BY <1>8, <1>9 DEF Completeness
<1> QED BY <1>7, <1>8, <1>10 DEF packed, archive

LEMMA FormsAgreeWhenDone == FrontInv /\ SubjectInv => FormsAgree
<1> SUFFICES ASSUME FrontInv, SubjectInv, step = "done" PROVE FormsAgree
  BY DEF FormsAgree
<1>1. verdict = Analysis(subject)
  BY DEF FrontInv, VerdictIsTheAnalysis
<1>2. CASE form = "packed"
  <2>1. ASSUME subject.completeness # "invalid"
        PROVE  Inspection(disk) # "failed"
    <3>1. PackedSubject(disk).completeness # "invalid"
      BY <1>2, <2>1 DEF SubjectInv, SubjectIsWhatIsThere
    <3>2. LET entries == EntriesAt(disk, ManifestPath)
          IN  /\ ParsedArchive(disk).ok /\ OneFile(entries)
              /\ PackageFrom(entries).size # "large" /\ PackageFrom(entries).object
      BY <3>1 DEF PackedSubject, InvalidSubject
    <3> QED BY <3>2 DEF Inspection
  <2>2. Inspection(disk) = "missing" => EntriesAt(disk, EntryPath) = {}
    BY DEF Inspection
  <2> QED BY <1>2, <2>1, <2>2 DEF FormsAgree
<1>3. CASE form = "directory"
  <2> SUFFICES ASSUME ~changed, manifest # NoManifest, manifest.patch # "up-and-down"
               PROVE  LET packed == PackedSubject(PackOf(disk))
                      IN  /\ Projection(packed) = Projection(subject)
                          /\ packed.completeness = subject.completeness
                          /\ Analysis(packed) = verdict
    BY <1>3 DEF FormsAgree
  <2> DEFINE packed == PackedSubject(PackOf(disk))
  <2>1. subject = SubjectOnDisk
    BY <1>3 DEF SubjectInv, SubjectIsWhatIsThere
  <2>2. /\ packed.identity = subject.identity /\ packed.patch = subject.patch
        /\ packed.requirements = subject.requirements
        /\ packed.completeness = subject.completeness
    BY <1>3, <2>1, PackingKeepsTheSubject
  <2> HIDE DEF packed
  <2>3. Projection(packed) = Projection(subject)
    BY <2>2 DEF Projection
  <2>4. Analysis(packed) = Analysis(subject)
    BY <2>2 DEF Analysis
  <2> QED BY <1>1, <2>2, <2>3, <2>4 DEF packed
<1> QED BY <1>2, <1>3 DEF SubjectInv, SubjectsTypeOK

\* The names of an archive's entries are kept apart, whatever PAX and GNU
\* records stand before them; packing a directory changes nothing that is known
\* of a plugin; and the worker's inspection does not fail on an artifact that
\* was acquired (parsePackedTarArchive, acquirePluginPacked,
\* acquirePluginDirectory, inspectPackedArtifactRuntimeEntrypoint).
THEOREM FilesAreWellUnderstood == FrontSpec => []FilesAreUnderstood
<1>1. FrontSpec => []SubjectInv
  BY InitSubjectInv, NextSubjectInv, PTL DEF FrontSpec
<1>2. SubjectInv => EntriesHaveTheirOwnNames
  <2> SUFFICES ASSUME SubjectInv, form = "packed" PROVE EntriesHaveTheirOwnNames
    BY DEF EntriesHaveTheirOwnNames
  <2>1. AreHeaders(disk.headers)
    BY ArchivesHaveHeaders DEF SubjectInv, SubjectsTypeOK
  <2> QED BY <2>1, NamesAreOwn
<1>3. FrontInv /\ SubjectInv => FilesAreUnderstood
  BY <1>2, FormsAgreeWhenDone DEF FilesAreUnderstood
<1> QED BY <1>1, <1>3, CallInvariance, PTL
-----------------------------------------------------------------------------
(***************************************************************************)
(* What a command line says.                                               *)
(***************************************************************************)
LEMMA Lists ==
    /\ ToSet(<<>>) = {}
    /\ LastOf(<<>>) = <<>> /\ Listed(<<>>) = <<>>
    /\ \A x : ToSet(<<x>>) = {x}
    /\ \A values : LastOf(values) = <<>> \/ \E x : LastOf(values) = <<x>>
    /\ \A values : UNION {ToSet(v) : v \in ToSet(Listed(values))} = ToSet(values)
<1>1. ToSet(<<>>) = {} /\ \A x : ToSet(<<x>>) = {x}
  BY DEF ToSet
<1>2. ASSUME NEW values
      PROVE  UNION {ToSet(v) : v \in ToSet(Listed(values))} = ToSet(values)
  <2>1. CASE values = <<>>
    <3>1. ToSet(Listed(values)) = {}
      BY <1>1, <2>1 DEF Listed
    <3>2. UNION {ToSet(v) : v \in {}} = {}
      OBVIOUS
    <3> QED BY <1>1, <2>1, <3>1, <3>2
  <2>2. CASE values # <<>>
    <3>1. ToSet(Listed(values)) = {values}
      BY <1>1, <2>2 DEF Listed
    <3>2. UNION {ToSet(v) : v \in {values}} = ToSet(values)
      OBVIOUS
    <3> QED BY <3>1, <3>2
  <2> QED BY <2>1, <2>2
<1> QED BY <1>1, <1>2 DEF LastOf, Listed

LEMMA AskedOf ==
    ASSUME NEW args, DOMAIN args = DOMAIN NoArguments
    PROVE  Asked(args) =
               ToSet(args.profile) \cup ToSet(args.dshHome) \cup ToSet(args.dshPackageRoot)
               \cup ToSet(args.query) \cup ToSet(args.limit)
               \cup ToSet(args.contractIndexFingerprint) \cup ToSet(args.contractId)
               \cup ToSet(args.path) \cup ToSet(args.id) \cup ToSet(args.unknown)
               \cup (UNION {ToSet(v) : v \in ToSet(args.patches)})
               \cup (UNION {ToSet(v) : v \in ToSet(args.kinds)})
               \cup UNION {{a[2] : a \in ToSet(v)} : v \in ToSet(args.visibilityAssertions)}
<1> DEFINE keys == (DOMAIN args) \ {"patches", "kinds", "visibilityAssertions",
                                   "behaviorAssertions", "kind", "executionPolicy"}
<1>1. keys = {"profile", "dshHome", "dshPackageRoot", "query", "limit",
              "contractIndexFingerprint", "contractId", "path", "id", "unknown"}
  BY DEF NoArguments
<1>2. Values(args, keys) =
          ToSet(args.profile) \cup ToSet(args.dshHome) \cup ToSet(args.dshPackageRoot)
          \cup ToSet(args.query) \cup ToSet(args.limit)
          \cup ToSet(args.contractIndexFingerprint) \cup ToSet(args.contractId)
          \cup ToSet(args.path) \cup ToSet(args.id) \cup ToSet(args.unknown)
  <2> HIDE DEF keys
  <2> QED BY <1>1 DEF Values
<1>3. UNION {ToSet(v) : v \in ToSet(args.patches) \cup ToSet(args.kinds)} =
          (UNION {ToSet(v) : v \in ToSet(args.patches)}) \cup UNION {ToSet(v) : v \in ToSet(args.kinds)}
  <2>1. \A A, B : UNION {ToSet(v) : v \in A \cup B} =
                      (UNION {ToSet(v) : v \in A}) \cup UNION {ToSet(v) : v \in B}
    BY Zenon
  <2> QED BY <2>1, Zenon
<1> DEFINE assertions == UNION {{a[2] : a \in ToSet(v)} : v \in ToSet(args.visibilityAssertions)}
           lists == UNION {ToSet(v) : v \in ToSet(args.patches) \cup ToSet(args.kinds)}
<1>4. Asked(args) = Values(args, keys) \cup lists \cup assertions
  BY Zenon DEF Asked
<1> HIDE DEF assertions, keys, lists
<1>5. Asked(args) = Values(args, keys) \cup ((UNION {ToSet(v) : v \in ToSet(args.patches)})
                      \cup UNION {ToSet(v) : v \in ToSet(args.kinds)}) \cup assertions
  BY <1>3, <1>4, Zenon DEF lists
<1>6. \A A, B, C, D : A \cup (B \cup C) \cup D = A \cup B \cup C \cup D
  OBVIOUS
<1> QED BY <1>2, <1>5, <1>6, Zenon DEF assertions

LEMMA SaidOf ==
    ASSUME NEW options
    PROVE  Said(options) =
               ToSet(LastOf(options.profile)) \cup ToSet(LastOf(options.dshHome))
               \cup ToSet(LastOf(options.dshPackageRoot)) \cup ToSet(LastOf(options.query))
               \cup ToSet(LastOf(options.contractIndex)) \cup ToSet(LastOf(options.contractId))
               \cup ToSet(LastOf(options.subject))
               \cup ToSet(options.patch) \cup ToSet(options.kind)
               \cup ToSet(options.visibilityService) \cup ToSet(options.visibilityTool)
               \cup {Limit(value) : value \in ToSet(LastOf(options.limit))}
<1> DEFINE named == OperationOptions \ {"limit"}
           whole == {"patch", "kind", "visibilityService", "visibilityTool"}
           said(option) == ToSet(IF option \in whole THEN options[option] ELSE LastOf(options[option]))
           limits == {Limit(value) : value \in ToSet(LastOf(options.limit))}
<1>1. named = {"profile", "dshHome", "dshPackageRoot", "query", "contractIndex", "contractId",
               "subject", "patch", "kind", "visibilityService", "visibilityTool"}
  BY DEF OperationOptions, TargetOptions, SearchOptions, InspectOptions, AssertionOptions
<1>2. /\ said("profile") = ToSet(LastOf(options.profile))
      /\ said("dshHome") = ToSet(LastOf(options.dshHome))
      /\ said("dshPackageRoot") = ToSet(LastOf(options.dshPackageRoot))
      /\ said("query") = ToSet(LastOf(options.query))
      /\ said("contractIndex") = ToSet(LastOf(options.contractIndex))
      /\ said("contractId") = ToSet(LastOf(options.contractId))
      /\ said("subject") = ToSet(LastOf(options.subject))
      /\ said("patch") = ToSet(options.patch) /\ said("kind") = ToSet(options.kind)
      /\ said("visibilityService") = ToSet(options.visibilityService)
      /\ said("visibilityTool") = ToSet(options.visibilityTool)
  OBVIOUS
<1>3. Said(options) = (UNION {said(option) : option \in named}) \cup limits
  BY Zenon DEF Said
<1> HIDE DEF said, named, limits
<1>4. UNION {said(option) : option \in named} =
          said("profile") \cup said("dshHome") \cup said("dshPackageRoot") \cup said("query")
          \cup said("contractIndex") \cup said("contractId") \cup said("subject") \cup said("patch")
          \cup said("kind") \cup said("visibilityService") \cup said("visibilityTool")
  BY <1>1
<1> QED BY <1>2, <1>3, <1>4, Zenon DEF limits

\* The values of a line's options, the last one where only one counts.
IsLine(options) ==
    /\ DOMAIN options = DOMAIN NoOptions
    /\ \E n \in Nat : DOMAIN options.visibilityService = 1..n
    /\ \E n \in Nat : DOMAIN options.visibilityTool = 1..n

\* The visibility assertions of a line.
AssertionsOf(options) ==
    [i \in DOMAIN options.visibilityService |-> <<"host-service", options.visibilityService[i]>>]
    \o [i \in DOMAIN options.visibilityTool |-> <<"agent-tool", options.visibilityTool[i]>>]

LEMMA AssertionsName ==
    ASSUME NEW options, IsLine(options)
    PROVE  UNION {{a[2] : a \in ToSet(v)} : v \in ToSet(Listed(AssertionsOf(options)))} =
               ToSet(options.visibilityService) \cup ToSet(options.visibilityTool)
<1> DEFINE first == [i \in DOMAIN options.visibilityService |->
                        <<"host-service", options.visibilityService[i]>>]
           second == [i \in DOMAIN options.visibilityTool |->
                        <<"agent-tool", options.visibilityTool[i]>>]
           both == first \o second
           S == {first[i] : i \in DOMAIN first} \cup {second[i] : i \in DOMAIN second}
<1>1. PICK m \in Nat, n \in Nat : /\ DOMAIN options.visibilityService = 1..m
                                  /\ DOMAIN options.visibilityTool = 1..n
  BY DEF IsLine
<1>2. /\ first \in Seq(S) /\ Len(first) = m /\ second \in Seq(S) /\ Len(second) = n
  <2>1. first \in [1..m -> S] /\ second \in [1..n -> S]
    BY <1>1
  <2> HIDE DEF first, second, S
  <2> QED BY <2>1
<1>3. /\ \A i \in 1..m : first[i][2] = options.visibilityService[i]
      /\ \A i \in 1..n : second[i][2] = options.visibilityTool[i]
  BY <1>1
<1> HIDE DEF first, second, S
<1>4. /\ both \in Seq(S) /\ Len(both) = m + n
      /\ \A i \in 1..(m + n) : both[i] = IF i <= m THEN first[i] ELSE second[i - m]
  BY <1>2, ConcatProperties
<1> HIDE DEF both
<1>5. DOMAIN both = 1..(m + n)
  BY <1>4
<1>6. {a[2] : a \in ToSet(both)} = ToSet(options.visibilityService) \cup ToSet(options.visibilityTool)
  <2>1. {a[2] : a \in ToSet(both)} = {both[i][2] : i \in 1..(m + n)}
    BY <1>5 DEF ToSet
  <2>2. \A i \in 1..(m + n) :
            \/ i \in 1..m /\ both[i][2] = options.visibilityService[i]
            \/ i - m \in 1..n /\ both[i][2] = options.visibilityTool[i - m]
    BY <1>3, <1>4
  <2>3. /\ \A i \in 1..m : i \in 1..(m + n) /\ both[i][2] = options.visibilityService[i]
        /\ \A i \in 1..n : m + i \in 1..(m + n) /\ both[m + i][2] = options.visibilityTool[i]
    <3>1. \A i \in 1..n : m + i \in 1..(m + n) /\ ~(m + i <= m) /\ (m + i) - m = i
      OBVIOUS
    <3>2. \A i \in 1..n : both[m + i] = second[i]
      BY <1>4, <3>1
    <3> QED BY <1>3, <1>4, <3>1, <3>2
  <2>4. /\ ToSet(options.visibilityService) = {options.visibilityService[i] : i \in 1..m}
        /\ ToSet(options.visibilityTool) = {options.visibilityTool[i] : i \in 1..n}
    BY <1>1 DEF ToSet
  <2>5. ASSUME NEW x, x \in {both[i][2] : i \in 1..(m + n)}
        PROVE  x \in ToSet(options.visibilityService) \cup ToSet(options.visibilityTool)
    BY <2>2, <2>4, <2>5
  <2>6. ASSUME NEW x, x \in ToSet(options.visibilityService) \cup ToSet(options.visibilityTool)
        PROVE  x \in {both[i][2] : i \in 1..(m + n)}
    <3>1. CASE x \in ToSet(options.visibilityService)
      BY <2>3, <2>4, <3>1
    <3>2. CASE x \in ToSet(options.visibilityTool)
      <4>1. PICK i \in 1..n : x = options.visibilityTool[i]
        BY <2>4, <3>2
      <4> QED BY <2>3, <4>1
    <3> QED BY <2>6, <3>1, <3>2
  <2> QED BY <2>1, <2>5, <2>6
<1>7. AssertionsOf(options) = both
  BY Zenon DEF AssertionsOf, both, first, second
<1>8. CASE both = <<>>
  <2>1. ToSet(both) = {} /\ ToSet(Listed(both)) = {}
    BY <1>8, Lists
  <2>2. {a[2] : a \in ToSet(both)} = {}
    BY <2>1
  <2> QED BY <1>6, <1>7, <2>1, <2>2
<1>9. CASE both # <<>>
  <2>1. ToSet(Listed(both)) = {both}
    BY <1>9, Lists DEF Listed
  <2> QED BY <1>6, <1>7, <2>1
<1> QED BY <1>8, <1>9

\* What the request of an operation is, key by key.
SaysTheLine(args, options) ==
    /\ DOMAIN args = DOMAIN NoArguments
    /\ args.profile = LastOf(options.profile) /\ args.dshHome = LastOf(options.dshHome)
    /\ args.dshPackageRoot = LastOf(options.dshPackageRoot)
    /\ args.patches = Listed(options.patch)
    /\ args.query = LastOf(options.query) /\ args.kinds = Listed(options.kind)
    /\ ToSet(args.limit) = {Limit(value) : value \in ToSet(LastOf(options.limit))}
    /\ args.contractIndexFingerprint = LastOf(options.contractIndex)
    /\ args.contractId = LastOf(options.contractId)
    /\ args.path = LastOf(options.subject)
    /\ args.id = <<>> /\ args.unknown = <<>>
    /\ UNION {{a[2] : a \in ToSet(v)} : v \in ToSet(args.visibilityAssertions)} =
           ToSet(options.visibilityService) \cup ToSet(options.visibilityTool)

LEMMA OthersAreAbsent ==
    ASSUME NEW operation \in Commanded, NEW options, IsLine(options),
           Given(options) \subseteq Allowed(operation)
    PROVE  /\ operation # "search" =>
                  options.query = <<>> /\ options.kind = <<>> /\ options.limit = <<>>
           /\ operation # "inspect" => options.contractIndex = <<>> /\ options.contractId = <<>>
           /\ operation \notin {"check", "verify"} => options.subject = <<>>
           /\ operation # "verify" =>
                  options.visibilityService = <<>> /\ options.visibilityTool = <<>>
<1>1. operation \in {"resolve", "search", "inspect", "check", "verify"}
  BY DEF Commanded, Commands
<1>2. DOMAIN options = {"help", "version", "profile", "dshHome", "dshPackageRoot", "patch", "query",
                        "kind", "limit", "contractIndex", "contractId", "subject",
                        "visibilityService", "visibilityTool", "strange"}
  BY DEF IsLine, NoOptions
<1>3. \A key \in DOMAIN options : options[key] # <<>> => key \in Allowed(operation)
  BY DEF Given
<1>4. /\ operation # "search" => Allowed(operation) \cap {"query", "kind", "limit"} = {}
      /\ operation # "inspect" => Allowed(operation) \cap {"contractIndex", "contractId"} = {}
      /\ operation \notin {"check", "verify"} => "subject" \notin Allowed(operation)
      /\ operation # "verify" =>
             Allowed(operation) \cap {"visibilityService", "visibilityTool"} = {}
  BY <1>1 DEF Allowed, TargetOptions, SearchOptions, InspectOptions, AssertionOptions
<1> QED BY <1>2, <1>3, <1>4

\* The part of a request that is the same for every operation.
HintsOf(args, options) ==
    /\ DOMAIN args = DOMAIN NoArguments
    /\ args.profile = LastOf(options.profile) /\ args.dshHome = LastOf(options.dshHome)
    /\ args.dshPackageRoot = LastOf(options.dshPackageRoot)
    /\ args.patches = Listed(options.patch)
    /\ args.id = <<>> /\ args.unknown = <<>>

LEMMA ArgumentsSay ==
    ASSUME NEW operation \in Commanded, NEW options, IsLine(options),
           Given(options) \subseteq Allowed(operation)
    PROVE  SaysTheLine(ArgumentsOf(operation, options), options)
<1> DEFINE limit == [i \in DOMAIN LastOf(options.limit) |-> Limit(Last(options.limit))]
           names(args) == UNION {{a[2] : a \in ToSet(v)} : v \in ToSet(args.visibilityAssertions)}
<1>1. operation \in {"resolve", "search", "inspect", "check", "verify"}
  BY DEF Commanded, Commands
<1>2. ToSet(limit) = {Limit(value) : value \in ToSet(LastOf(options.limit))}
  <2>1. CASE options.limit = <<>>
    <3>1. LastOf(options.limit) = <<>> /\ limit = <<>>
      BY <2>1, Lists
    <3> QED BY <3>1, Lists
  <2>2. CASE options.limit # <<>>
    <3>1. LastOf(options.limit) = <<Last(options.limit)>>
      BY <2>2 DEF LastOf
    <3>2. limit = <<Limit(Last(options.limit))>>
      BY <3>1
    <3> HIDE DEF limit
    <3> QED BY <3>1, <3>2, Lists
  <2> QED BY <2>1, <2>2
<1>3. ASSUME NEW args, args.visibilityAssertions = <<>>,
             options.visibilityService = <<>>, options.visibilityTool = <<>>
      PROVE  names(args) = ToSet(options.visibilityService) \cup ToSet(options.visibilityTool)
  BY <1>3, Lists
<1>4. /\ LastOf(<<>>) = <<>> /\ Listed(<<>>) = <<>> /\ ToSet(<<>>) = {}
      /\ {Limit(value) : value \in ToSet(<<>>)} = {}
  BY Lists
<1>5. /\ operation # "search" => options.query = <<>> /\ options.kind = <<>> /\ options.limit = <<>>
      /\ operation # "inspect" => options.contractIndex = <<>> /\ options.contractId = <<>>
      /\ operation \notin {"check", "verify"} => options.subject = <<>>
      /\ operation # "verify" => options.visibilityService = <<>> /\ options.visibilityTool = <<>>
  BY OthersAreAbsent
<1>6. CASE operation = "resolve"
  <2> DEFINE args == ArgumentsOf("resolve", options)
  <2>1. /\ HintsOf(args, options)
        /\ args.query = <<>> /\ args.kinds = <<>> /\ args.limit = <<>>
        /\ args.contractIndexFingerprint = <<>> /\ args.contractId = <<>> /\ args.path = <<>>
        /\ args.visibilityAssertions = <<>>
    BY DEF ArgumentsOf, NoArguments, HintsOf
  <2> HIDE DEF args
  <2>2. names(args) = ToSet(options.visibilityService) \cup ToSet(options.visibilityTool)
    BY <1>3, <1>5, <1>6, <2>1
  <2> HIDE DEF names
  <2>3. SaysTheLine(args, options)
    BY <1>4, <1>5, <1>6, <2>1, <2>2 DEF SaysTheLine, HintsOf, names
  <2> QED BY <1>6, <2>3 DEF args
<1>7. CASE operation = "search"
  <2> DEFINE args == ArgumentsOf("search", options)
  <2>1. /\ HintsOf(args, options)
        /\ args.query = LastOf(options.query) /\ args.kinds = Listed(options.kind)
        /\ args.limit = limit
        /\ args.contractIndexFingerprint = <<>> /\ args.contractId = <<>> /\ args.path = <<>>
        /\ args.visibilityAssertions = <<>>
    BY DEF ArgumentsOf, NoArguments, HintsOf
  <2> HIDE DEF args, limit
  <2>2. names(args) = ToSet(options.visibilityService) \cup ToSet(options.visibilityTool)
    BY <1>3, <1>5, <1>7, <2>1
  <2> HIDE DEF names
  <2>3. SaysTheLine(args, options)
    BY <1>2, <1>4, <1>5, <1>7, <2>1, <2>2 DEF SaysTheLine, HintsOf, names
  <2> QED BY <1>7, <2>3 DEF args
<1>8. CASE operation = "inspect"
  <2> DEFINE args == ArgumentsOf("inspect", options)
  <2>1. /\ HintsOf(args, options)
        /\ args.query = <<>> /\ args.kinds = <<>> /\ args.limit = <<>>
        /\ args.contractIndexFingerprint = LastOf(options.contractIndex)
        /\ args.contractId = LastOf(options.contractId) /\ args.path = <<>>
        /\ args.visibilityAssertions = <<>>
    BY DEF ArgumentsOf, NoArguments, HintsOf
  <2> HIDE DEF args
  <2>2. names(args) = ToSet(options.visibilityService) \cup ToSet(options.visibilityTool)
    BY <1>3, <1>5, <1>8, <2>1
  <2> HIDE DEF names
  <2>3. SaysTheLine(args, options)
    BY <1>4, <1>5, <1>8, <2>1, <2>2 DEF SaysTheLine, HintsOf, names
  <2> QED BY <1>8, <2>3 DEF args
<1>9. CASE operation = "check"
  <2> DEFINE args == ArgumentsOf("check", options)
  <2>1. /\ HintsOf(args, options)
        /\ args.query = <<>> /\ args.kinds = <<>> /\ args.limit = <<>>
        /\ args.contractIndexFingerprint = <<>> /\ args.contractId = <<>>
        /\ args.path = LastOf(options.subject)
        /\ args.visibilityAssertions = <<>>
    BY DEF ArgumentsOf, NoArguments, HintsOf
  <2> HIDE DEF args
  <2>2. names(args) = ToSet(options.visibilityService) \cup ToSet(options.visibilityTool)
    BY <1>3, <1>5, <1>9, <2>1
  <2> HIDE DEF names
  <2>3. SaysTheLine(args, options)
    BY <1>4, <1>5, <1>9, <2>1, <2>2 DEF SaysTheLine, HintsOf, names
  <2> QED BY <1>9, <2>3 DEF args
<1>10. CASE operation = "verify"
  <2> DEFINE args == ArgumentsOf("verify", options)
  <2>1. /\ HintsOf(args, options)
        /\ args.query = <<>> /\ args.kinds = <<>> /\ args.limit = <<>>
        /\ args.contractIndexFingerprint = <<>> /\ args.contractId = <<>>
        /\ args.path = LastOf(options.subject)
        /\ args.visibilityAssertions = Listed(AssertionsOf(options))
    BY DEF ArgumentsOf, NoArguments, HintsOf, AssertionsOf
  <2> HIDE DEF args
  <2>2. names(args) = ToSet(options.visibilityService) \cup ToSet(options.visibilityTool)
    BY <2>1, AssertionsName
  <2> HIDE DEF names
  <2>3. SaysTheLine(args, options)
    BY <1>4, <1>5, <1>10, <2>1, <2>2 DEF SaysTheLine, HintsOf, names
  <2> QED BY <1>10, <2>3 DEF args
<1> QED BY <1>1, <1>6, <1>7, <1>8, <1>9, <1>10

LEMMA LinesAreAsked ==
    ASSUME NEW args, NEW options, SaysTheLine(args, options)
    PROVE  Asked(args) = Said(options)
<1>1. /\ UNION {ToSet(v) : v \in ToSet(args.patches)} = ToSet(options.patch)
      /\ UNION {ToSet(v) : v \in ToSet(args.kinds)} = ToSet(options.kind)
  BY Lists DEF SaysTheLine
<1>2. ToSet(args.id) = {} /\ ToSet(args.unknown) = {}
  BY Lists DEF SaysTheLine
<1> DEFINE limits == {Limit(value) : value \in ToSet(LastOf(options.limit))}
           names == UNION {{a[2] : a \in ToSet(v)} : v \in ToSet(args.visibilityAssertions)}
<1>3. Asked(args) =
          ToSet(args.profile) \cup ToSet(args.dshHome) \cup ToSet(args.dshPackageRoot)
          \cup ToSet(args.query) \cup ToSet(args.limit)
          \cup ToSet(args.contractIndexFingerprint) \cup ToSet(args.contractId)
          \cup ToSet(args.path) \cup ToSet(args.id) \cup ToSet(args.unknown)
          \cup ToSet(options.patch) \cup ToSet(options.kind) \cup names
  BY <1>1, AskedOf, Zenon DEF SaysTheLine
<1>4. names = ToSet(options.visibilityService) \cup ToSet(options.visibilityTool)
  BY DEF SaysTheLine
<1>5. ToSet(args.limit) = limits
  BY DEF SaysTheLine
<1> HIDE DEF limits, names
<1>6. Said(options) =
          ToSet(LastOf(options.profile)) \cup ToSet(LastOf(options.dshHome))
          \cup ToSet(LastOf(options.dshPackageRoot)) \cup ToSet(LastOf(options.query))
          \cup ToSet(LastOf(options.contractIndex)) \cup ToSet(LastOf(options.contractId))
          \cup ToSet(LastOf(options.subject))
          \cup ToSet(options.patch) \cup ToSet(options.kind)
          \cup ToSet(options.visibilityService) \cup ToSet(options.visibilityTool) \cup limits
  BY SaidOf, Zenon DEF limits
<1>7. /\ args.profile = LastOf(options.profile) /\ args.dshHome = LastOf(options.dshHome)
      /\ args.dshPackageRoot = LastOf(options.dshPackageRoot)
      /\ args.query = LastOf(options.query)
      /\ args.contractIndexFingerprint = LastOf(options.contractIndex)
      /\ args.contractId = LastOf(options.contractId)
      /\ args.path = LastOf(options.subject)
  BY DEF SaysTheLine
<1> QED BY <1>2, <1>3, <1>4, <1>5, <1>6, <1>7

-----------------------------------------------------------------------------
(***************************************************************************)
(* What the arguments of a process say of the profile it runs.             *)
(***************************************************************************)
Names == Tokens \cup {"a"}
Readers == [expects : {"option", "app", "profile", "patch", "refused"},
            patches : Seq(Names), profile : {<<>>} \cup {<<name>> : name \in Names}]
\* A reader that can no longer prove a profile without overlays.
IsLost(reader) ==
    \/ reader.expects \in {"refused", "patch"}
    \/ reader.patches # <<>>
    \/ reader.expects = "profile" /\ reader.profile # <<>>
AppTokens == {"p", "empty", "web"}

LEMMA TokensAre ==
    Tokens = {"--profile", "--profile=p", "--profile=", "--patch", "--patch=a", "--patch=",
              "--dump-config", "plugin"} \cup AppTokens
BY DEF Tokens, AppTokens

LEMMA ReaderIsNamed ==
    ASSUME NEW reader \in Readers, NEW value \in Names
    PROVE  /\ Named(reader, value) \in Readers
           /\ Named(reader, value).patches = reader.patches
           /\ reader.profile # <<>> \/ value = "empty" => IsLost(Named(reader, value))
           /\ ~(reader.profile # <<>> \/ value = "empty") =>
                  Named(reader, value) = [expects |-> "option", patches |-> reader.patches,
                                          profile |-> <<value>>]
BY DEF Named, Refused, Readers, IsLost

LEMMA ReaderIsPatched ==
    ASSUME NEW reader \in Readers, NEW value \in Names
    PROVE  Patched(reader, value) \in Readers /\ IsLost(Patched(reader, value))
<1>1. CASE value = "empty"
  BY <1>1 DEF Patched, Refused, Readers, IsLost
<1>2. CASE value # "empty"
  <2>1. Append(reader.patches, value) \in Seq(Names) /\ Append(reader.patches, value) # <<>>
    <3>1. reader.patches \in Seq(Names)
      BY DEF Readers
    <3> QED BY <3>1, AppendProperties
  <2>2. Patched(reader, value) = [reader EXCEPT !.patches = Append(reader.patches, value), !.expects = "option"]
    BY <1>2 DEF Patched
  <2> QED BY <2>1, <2>2 DEF Readers, IsLost
<1> QED BY <1>1, <1>2

LEMMA ReaderReadsOption ==
    ASSUME NEW reader \in Readers, reader.expects = "option", NEW token \in Tokens
    PROVE  /\ Read(reader, token) \in Readers
           /\ reader.patches # <<>> => Read(reader, token).patches # <<>>
           /\ token \in {"--patch", "--patch=a", "--patch=", "--dump-config", "plugin"} =>
                  IsLost(Read(reader, token))
           /\ token = "--profile" => Read(reader, token) = [reader EXCEPT !.expects = "profile"]
           /\ token = "--profile=p" => Read(reader, token) = Named(reader, "p")
           /\ token = "--profile=" => Read(reader, token) = Named(reader, "empty")
           /\ token \in AppTokens => Read(reader, token) = [reader EXCEPT !.expects = "app"]
<1>1. reader.expects \notin {"app", "refused", "profile", "patch"}
  OBVIOUS
<1>2. /\ token = "--profile" => Read(reader, token) = [reader EXCEPT !.expects = "profile"]
      /\ token = "--profile=p" => Read(reader, token) = Named(reader, "p")
      /\ token = "--profile=" => Read(reader, token) = Named(reader, "empty")
      /\ token = "--patch" => Read(reader, token) = [reader EXCEPT !.expects = "patch"]
      /\ token = "--patch=a" => Read(reader, token) = Patched(reader, "a")
      /\ token = "--patch=" => Read(reader, token) = Patched(reader, "empty")
      /\ token \in {"--dump-config", "plugin"} => Read(reader, token) = Refused(reader)
      /\ token \in AppTokens => Read(reader, token) = [reader EXCEPT !.expects = "app"]
  BY <1>1 DEF Read, ProfileValue, PatchValue, OtherCommands, AppTokens
<1>3. {"p", "empty", "a"} \subseteq Names
  BY DEF Names, Tokens
<1>4. /\ Refused(reader) \in Readers /\ IsLost(Refused(reader))
      /\ [reader EXCEPT !.expects = "patch"] \in Readers
      /\ IsLost([reader EXCEPT !.expects = "patch"])
      /\ [reader EXCEPT !.expects = "profile"] \in Readers
      /\ [reader EXCEPT !.expects = "app"] \in Readers
      /\ Refused(reader).patches = reader.patches
      /\ \A e : [reader EXCEPT !.expects = e].patches = reader.patches
  BY DEF Refused, Readers, IsLost
<1>5. /\ Patched(reader, "a") \in Readers /\ IsLost(Patched(reader, "a"))
      /\ Patched(reader, "empty") \in Readers /\ IsLost(Patched(reader, "empty"))
      /\ Named(reader, "p") \in Readers /\ Named(reader, "p").patches = reader.patches
      /\ Named(reader, "empty") \in Readers /\ Named(reader, "empty").patches = reader.patches
  BY <1>3, ReaderIsPatched, ReaderIsNamed
<1>6. reader.patches # <<>> =>
          Patched(reader, "a").patches # <<>> /\ Patched(reader, "empty").patches # <<>>
  <2>1. Append(reader.patches, "a") # <<>>
    <3>1. reader.patches \in Seq(Names)
      BY DEF Readers
    <3> QED BY <1>3, <3>1, AppendProperties
  <2>2. /\ Patched(reader, "a") = [reader EXCEPT !.patches = Append(reader.patches, "a"),
                                                !.expects = "option"]
        /\ Patched(reader, "empty") = Refused(reader)
    BY DEF Patched
  <2>3. Patched(reader, "a").patches = Append(reader.patches, "a")
    BY <2>2 DEF Readers
  <2> QED BY <1>4, <2>1, <2>2, <2>3
<1>7. \/ token \in {"--profile", "--profile=p", "--profile=", "--patch", "--patch=a", "--patch="}
      \/ token \in {"--dump-config", "plugin"} \/ token \in AppTokens
  BY TokensAre
<1>8. Read(reader, token) \in Readers
  BY <1>2, <1>4, <1>5, <1>7
<1>9. reader.patches # <<>> => Read(reader, token).patches # <<>>
  BY <1>2, <1>4, <1>5, <1>6, <1>7
<1>10. token \in {"--patch", "--patch=a", "--patch=", "--dump-config", "plugin"} =>
           IsLost(Read(reader, token))
  BY <1>2, <1>4, <1>5
<1> QED BY <1>2, <1>8, <1>9, <1>10

LEMMA ReaderReadsOn ==
    ASSUME NEW reader \in Readers, NEW token \in Tokens
    PROVE  /\ Read(reader, token) \in Readers
           /\ reader.expects = "app" => Read(reader, token) = reader
           /\ reader.expects = "profile" => Read(reader, token) = Named(reader, token)
           /\ IsLost(reader) => IsLost(Read(reader, token))
<1>1. token \in Names
  BY DEF Names
<1>2. CASE reader.expects \in {"app", "refused"}
  <2>1. Read(reader, token) = reader
    BY <1>2 DEF Read
  <2> QED BY <1>2, <2>1
<1>3. CASE reader.expects = "profile"
  <2>1. Read(reader, token) = Named(reader, token)
    BY <1>3 DEF Read
  <2> QED BY <1>1, <1>3, <2>1, ReaderIsNamed DEF IsLost
<1>4. CASE reader.expects = "patch"
  <2>1. Read(reader, token) = Patched(reader, token)
    BY <1>4 DEF Read
  <2> QED BY <1>1, <1>4, <2>1, ReaderIsPatched
<1>5. CASE reader.expects = "option"
  BY <1>5, ReaderReadsOption DEF IsLost
<1> QED BY <1>2, <1>3, <1>4, <1>5 DEF Readers

IsReaderOf(reader, start, tokens, n) ==
    reader = [i \in 0..n |-> IF i = 0 THEN start ELSE Read(reader[i - 1], tokens[i])]

LEMMA ReadersExist ==
    ASSUME NEW start, NEW tokens
    PROVE  \A n \in Nat : \E reader : IsReaderOf(reader, start, tokens, n)
<1> DEFINE S == {n \in Nat : \E reader : IsReaderOf(reader, start, tokens, n)}
<1>1. 0 \in S
  <2>1. IsReaderOf([i \in 0..0 |-> start], start, tokens, 0)
    BY DEF IsReaderOf
  <2> QED BY <2>1
<1>2. ASSUME NEW n \in Nat, n \in S
      PROVE  n + 1 \in S
  <2>1. PICK reader : IsReaderOf(reader, start, tokens, n)
    BY <1>2
  <2> DEFINE next == [i \in 0..(n + 1) |-> IF i = n + 1 THEN Read(reader[n], tokens[n + 1])
                                                        ELSE reader[i]]
             body == [i \in 0..(n + 1) |-> IF i = 0 THEN start ELSE Read(next[i - 1], tokens[i])]
  <2>2. \A i \in 0..n : reader[i] = IF i = 0 THEN start ELSE Read(reader[i - 1], tokens[i])
    BY <2>1 DEF IsReaderOf
  <2>3. ASSUME NEW i \in 0..(n + 1)
        PROVE  next[i] = IF i = 0 THEN start ELSE Read(next[i - 1], tokens[i])
    <3>1. CASE i = n + 1
      <4>1. i # 0 /\ i - 1 = n /\ n \in 0..(n + 1) /\ n # n + 1
        BY <3>1
      <4>2. next[i] = Read(reader[n], tokens[n + 1]) /\ next[i - 1] = reader[n]
        BY <3>1, <4>1
      <4> HIDE DEF next
      <4> QED BY <3>1, <4>1, <4>2
    <3>2. CASE i # n + 1
      <4>1. i \in 0..n /\ (i # 0 => i - 1 \in 0..n /\ i - 1 # n + 1 /\ i - 1 \in 0..(n + 1))
        BY <3>2
      <4>2. next[i] = reader[i] /\ (i # 0 => next[i - 1] = reader[i - 1])
        BY <3>2, <4>1
      <4> HIDE DEF next
      <4> QED BY <4>1, <4>2, <2>2
    <3> QED BY <3>1, <3>2
  <2>4. next = [i \in 0..(n + 1) |-> next[i]]
    OBVIOUS
  <2>5. [i \in 0..(n + 1) |-> next[i]] = body
    BY <2>3, Zenon
  <2> HIDE DEF next
  <2>6. IsReaderOf(next, start, tokens, n + 1)
    BY <2>4, <2>5, Zenon DEF IsReaderOf
  <2> QED BY <2>6
<1> HIDE DEF S
<1>3. \A n \in Nat : n \in S
  BY <1>1, <1>2, AllNumbers
<1> QED BY <1>3 DEF S

LEMMA TokensAreRead ==
    ASSUME NEW start \in Readers, NEW tokens \in Seq(Tokens)
    PROVE  /\ Reading(start, tokens)[0] = start
           /\ \A i \in 1..Len(tokens) :
                  Reading(start, tokens)[i] = Read(Reading(start, tokens)[i - 1], tokens[i])
           /\ \A i \in 0..Len(tokens) : Reading(start, tokens)[i] \in Readers
<1> DEFINE n == Len(tokens)
           body(reader) == [i \in 0..n |-> IF i = 0 THEN start ELSE Read(reader[i - 1], tokens[i])]
           reader == CHOOSE r : r = body(r)
<1>1. \E r : r = body(r)
  <2>1. n \in Nat
    OBVIOUS
  <2>2. \E r : IsReaderOf(r, start, tokens, n)
    BY <2>1, ReadersExist
  <2> QED BY <2>2, Zenon DEF IsReaderOf
<1>2. reader = body(reader)
  BY <1>1
<1>3. Reading(start, tokens) = reader
  BY DEF Reading
<1> HIDE DEF reader
<1>4. \A i \in 0..n : reader[i] = IF i = 0 THEN start ELSE Read(reader[i - 1], tokens[i])
  BY <1>2, Zenon
<1>5. reader[0] = start
  BY <1>4
<1>6. \A i \in 1..n : reader[i] = Read(reader[i - 1], tokens[i])
  BY <1>4
<1> DEFINE S == {m \in Nat : m <= n => reader[m] \in Readers}
<1>7. 0 \in S
  BY <1>5
<1>8. ASSUME NEW m \in Nat, m \in S
      PROVE  m + 1 \in S
  <2> SUFFICES ASSUME m + 1 <= n PROVE reader[m + 1] \in Readers
    OBVIOUS
  <2>1. m + 1 \in 1..n /\ (m + 1) - 1 = m /\ m <= n
    OBVIOUS
  <2>2. tokens[m + 1] \in Tokens /\ reader[m] \in Readers
    BY <1>8, <2>1
  <2>3. reader[m + 1] = Read(reader[m], tokens[m + 1])
    BY <1>6, <2>1
  <2> QED BY <2>2, <2>3, ReaderReadsOn
<1> HIDE DEF S
<1>9. \A m \in Nat : m \in S
  BY <1>7, <1>8, AllNumbers
<1>10. \A m \in 0..n : reader[m] \in Readers
  BY <1>9 DEF S
<1> QED BY <1>3, <1>5, <1>6, <1>10

\* The arguments of the app change nothing any more, and what is lost stays so.
LEMMA TheRestIsOfTheApp ==
    ASSUME NEW start \in Readers, NEW tokens \in Seq(Tokens), NEW k \in 0..Len(tokens)
    PROVE  /\ Reading(start, tokens)[k].expects = "app" =>
                  Reading(start, tokens)[Len(tokens)] = Reading(start, tokens)[k]
           /\ IsLost(Reading(start, tokens)[k]) => IsLost(Reading(start, tokens)[Len(tokens)])
<1> DEFINE reader == Reading(start, tokens)
           n == Len(tokens)
           S == {d \in Nat : k + d <= n =>
                    /\ reader[k].expects = "app" => reader[k + d] = reader[k]
                    /\ IsLost(reader[k]) => IsLost(reader[k + d])}
<1>1. /\ \A i \in 1..n : reader[i] = Read(reader[i - 1], tokens[i])
      /\ \A i \in 0..n : reader[i] \in Readers
  BY TokensAreRead
<1> HIDE DEF reader
<1>2. 0 \in S
  BY <1>1
<1>3. ASSUME NEW d \in Nat, d \in S
      PROVE  d + 1 \in S
  <2> SUFFICES ASSUME k + (d + 1) <= n
               PROVE  /\ reader[k].expects = "app" => reader[k + (d + 1)] = reader[k]
                      /\ IsLost(reader[k]) => IsLost(reader[k + (d + 1)])
    OBVIOUS
  <2>1. k + (d + 1) \in 1..n /\ (k + (d + 1)) - 1 = k + d /\ k + d \in 0..n /\ k + d <= n
    OBVIOUS
  <2>2. reader[k + (d + 1)] = Read(reader[k + d], tokens[k + (d + 1)])
    BY <1>1, <2>1
  <2>3. tokens[k + (d + 1)] \in Tokens /\ reader[k + d] \in Readers
    BY <1>1, <2>1
  <2>4. /\ reader[k].expects = "app" => reader[k + d] = reader[k]
        /\ IsLost(reader[k]) => IsLost(reader[k + d])
    BY <1>3, <2>1
  <2> QED BY <2>2, <2>3, <2>4, ReaderReadsOn
<1> HIDE DEF S
<1>4. \A d \in Nat : d \in S
  BY <1>2, <1>3, AllNumbers
<1>5. n - k \in Nat /\ k + (n - k) = n
  OBVIOUS
<1> QED BY <1>4, <1>5 DEF S, reader

Proves(reader, name) ==
    /\ reader.expects \in {"option", "app"} /\ reader.patches = <<>>
    /\ reader.profile = <<name>>

\* Once the profile is named the arguments must be those of the app.
LEMMA NamedIsRead ==
    ASSUME NEW start \in Readers, NEW tokens \in Seq(Tokens), NEW k \in 0..Len(tokens), NEW name,
           LET at == Reading(start, tokens)[k]
           IN  at.expects = "option" /\ at.patches = <<>> /\ at.profile = <<name>>
    PROVE  LET end == Reading(start, tokens)[Len(tokens)]
               inTime == k < Len(tokens) => tokens[k + 1] \in AppTokens
           IN  /\ inTime => Proves(end, name)
               /\ ~inTime => IsLost(end)
<1> DEFINE reader == Reading(start, tokens)
           n == Len(tokens)
<1>1. /\ \A i \in 1..n : reader[i] = Read(reader[i - 1], tokens[i])
      /\ \A i \in 0..n : reader[i] \in Readers
  BY TokensAreRead
<1>2. reader[k].expects = "option" /\ reader[k].patches = <<>> /\ reader[k].profile = <<name>>
  OBVIOUS
<1>3. CASE k = n
  BY <1>2, <1>3 DEF Proves
<1>4. CASE k < n
  <2>1. k + 1 \in 1..n /\ (k + 1) - 1 = k /\ k + 1 \in 0..n
    BY <1>4
  <2>2. tokens[k + 1] \in Tokens /\ reader[k] \in Readers /\ reader[k + 1] \in Readers
    BY <1>1, <2>1
  <2>3. reader[k + 1] = Read(reader[k], tokens[k + 1])
    <3>1. reader[k + 1] = Read(reader[(k + 1) - 1], tokens[k + 1])
      BY <1>1, <2>1
    <3> QED BY <2>1, <3>1
  <2>4. /\ reader[k + 1].expects = "app" => reader[n] = reader[k + 1]
        /\ IsLost(reader[k + 1]) => IsLost(reader[n])
    BY <2>1, TheRestIsOfTheApp
  <2> HIDE DEF reader
  <2>5. CASE tokens[k + 1] \in AppTokens
    <3>1. reader[k + 1] = [reader[k] EXCEPT !.expects = "app"]
      BY <1>2, <2>2, <2>3, <2>5, ReaderReadsOption
    <3>2. /\ reader[k + 1].expects = "app" /\ reader[k + 1].patches = reader[k].patches
          /\ reader[k + 1].profile = reader[k].profile
      BY <2>2, <3>1 DEF Readers
    <3>3. Proves(reader[n], name)
      BY <1>2, <2>4, <3>2 DEF Proves
    <3> QED BY <2>5, <3>3 DEF reader
  <2>6. CASE tokens[k + 1] \notin AppTokens
    <3>1. reader[k].profile # <<>>
      BY <1>2
    <3>2. CASE tokens[k + 1] = "--profile"
      <4>1. reader[k + 1] = [reader[k] EXCEPT !.expects = "profile"]
        BY <1>2, <2>2, <2>3, <3>2, ReaderReadsOption
      <4>2. reader[k + 1].expects = "profile" /\ reader[k + 1].profile = reader[k].profile
        BY <2>2, <4>1 DEF Readers
      <4> QED BY <1>4, <2>4, <2>6, <3>1, <4>2 DEF IsLost, reader
    <3>3. CASE tokens[k + 1] \in {"--profile=p", "--profile="}
      <4>1. {"p", "empty"} \subseteq Names
        BY DEF Names, Tokens
      <4>2. \/ reader[k + 1] = Named(reader[k], "p")
            \/ reader[k + 1] = Named(reader[k], "empty")
        BY <1>2, <2>2, <2>3, <3>3, ReaderReadsOption
      <4>3. IsLost(reader[k + 1])
        BY <2>2, <3>1, <4>1, <4>2, ReaderIsNamed
      <4> QED BY <1>4, <2>4, <2>6, <4>3 DEF reader
    <3>4. CASE tokens[k + 1] \in {"--patch", "--patch=a", "--patch=", "--dump-config", "plugin"}
      <4>1. IsLost(reader[k + 1])
        BY <1>2, <2>2, <2>3, <3>4, ReaderReadsOption
      <4> QED BY <1>4, <2>4, <2>6, <4>1 DEF reader
    <3> QED BY <2>2, <2>6, <3>2, <3>3, <3>4, TokensAre
  <2> QED BY <2>5, <2>6
<1> QED BY <1>3, <1>4

IsWeb(argv) == argv # <<>> /\ argv[1] = "web"
LauncherTokens(argv) == IF IsWeb(argv) THEN Tail(argv) ELSE argv
FirstReader(argv) == [expects |-> "option", patches |-> <<>>,
                      profile |-> IF IsWeb(argv) THEN <<"web">> ELSE <<>>]
LastReader(argv) == Reading(FirstReader(argv), LauncherTokens(argv))[Len(LauncherTokens(argv))]

LEMMA LastReaderDecides ==
    ASSUME NEW argv \in Seq(Tokens)
    PROVE  /\ FirstReader(argv) \in Readers /\ LauncherTokens(argv) \in Seq(Tokens)
           /\ \A name : Proves(LastReader(argv), name) => ProvenProfile(argv) = <<name>>
           /\ IsLost(LastReader(argv)) => ProvenProfile(argv) = <<>>
           /\ LastReader(argv).profile = <<>> => ProvenProfile(argv) = <<>>
           /\ LastReader(argv).expects = "profile" => ProvenProfile(argv) = <<>>
<1>1. LauncherTokens(argv) \in Seq(Tokens)
  BY HeadTailProperties DEF LauncherTokens, IsWeb
<1>2. FirstReader(argv) \in Readers
  <2>1. <<>> \in Seq(Names) /\ "web" \in Names
    BY DEF Names, Tokens
  <2> QED BY <2>1 DEF FirstReader, Readers
<1> DEFINE end == LastReader(argv)
<1>3. Invocation(argv) =
          IF end.expects \in {"option", "app"} /\ end.profile # <<>>
          THEN [profile |-> end.profile, patches |-> end.patches]
          ELSE NoInvocation
  BY Zenon DEF Invocation, LastReader, FirstReader, LauncherTokens, IsWeb
<1> HIDE DEF end
<1>4. NoInvocation.profile = <<>> /\ NoInvocation.patches = <<>>
  BY DEF NoInvocation
<1>5. \A name : Proves(end, name) => ProvenProfile(argv) = <<name>>
  BY <1>3 DEF Proves, ProvenProfile
<1>6. end.profile = <<>> \/ end.expects = "profile" => ProvenProfile(argv) = <<>>
  BY <1>3, <1>4 DEF ProvenProfile
<1>7. IsLost(end) => ProvenProfile(argv) = <<>>
  <2>1. CASE end.expects \in {"refused", "patch", "profile"}
    BY <1>3, <1>4, <2>1 DEF ProvenProfile
  <2>2. CASE end.patches # <<>>
    BY <1>3, <1>4, <2>2 DEF ProvenProfile
  <2> QED BY <2>1, <2>2 DEF IsLost
<1> QED BY <1>1, <1>2, <1>5, <1>6, <1>7 DEF end

LEMMA ProvenProfileIsOne ==
    ASSUME NEW argv \in Seq(Tokens)
    PROVE  ProvenProfile(argv) = <<>> \/ \E name : ProvenProfile(argv) = <<name>>
<1> DEFINE start == FirstReader(argv)
           tokens == LauncherTokens(argv)
           end == Reading(start, tokens)[Len(tokens)]
<1>1. start \in Readers /\ tokens \in Seq(Tokens)
  BY LastReaderDecides
<1> HIDE DEF start, tokens
<1>2. \A i \in 0..Len(tokens) : Reading(start, tokens)[i] \in Readers
  BY <1>1, TokensAreRead
<1>3. Len(tokens) \in 0..Len(tokens)
  BY <1>1
<1>4. end \in Readers
  BY <1>2, <1>3
<1>5. LastReader(argv) = end
  BY DEF LastReader, start, tokens
<1> HIDE DEF end
<1>6. end.profile = <<>> \/ \E name : end.profile = <<name>>
  BY <1>4 DEF Readers
<1>7. CASE end.expects \in {"option", "app"} /\ end.patches = <<>>
  BY <1>5, <1>6, <1>7, LastReaderDecides DEF Proves
<1>8. CASE ~(end.expects \in {"option", "app"} /\ end.patches = <<>>)
  <2>1. end.expects = "profile" \/ IsLost(end)
    BY <1>4, <1>8 DEF Readers, IsLost
  <2> QED BY <1>5, <2>1, LastReaderDecides
<1> QED BY <1>7, <1>8

Agree(argv, name) == ProvenProfile(argv) = <<name>> <=> Boots(argv, name)

LEMMA BootsOf ==
    ASSUME NEW argv \in Seq(Tokens), NEW name
    PROVE  Boots(argv, name) <=>
               \/ /\ Len(argv) >= 1 /\ name = "web" /\ argv[1] = "web"
                  /\ 1 < Len(argv) => argv[2] \in AppTokens
               \/ /\ Len(argv) >= 1 /\ name = "p" /\ argv[1] = "--profile=p"
                  /\ 1 < Len(argv) => argv[2] \in AppTokens
               \/ /\ Len(argv) >= 2 /\ argv[1] = "--profile" /\ argv[2] = name /\ name # "empty"
                  /\ 2 < Len(argv) => argv[3] \in AppTokens
<1>1. Len(argv) \in Nat
  OBVIOUS
<1>2. /\ Len(argv) >= 1 => 1 \in 1..Len(argv)
      /\ Len(argv) >= 2 => 2 \in 1..Len(argv)
      /\ \A n \in 1..Len(argv) : (n = 1 => Len(argv) >= 1) /\ (n = 2 => Len(argv) >= 2)
  BY <1>1
<1>3. ASSUME Boots(argv, name)
      PROVE  \/ /\ Len(argv) >= 1 /\ name = "web" /\ argv[1] = "web"
                /\ 1 < Len(argv) => argv[2] \in AppTokens
             \/ /\ Len(argv) >= 1 /\ name = "p" /\ argv[1] = "--profile=p"
                /\ 1 < Len(argv) => argv[2] \in AppTokens
             \/ /\ Len(argv) >= 2 /\ argv[1] = "--profile" /\ argv[2] = name /\ name # "empty"
                /\ 2 < Len(argv) => argv[3] \in AppTokens
  BY <1>2, <1>3 DEF Boots, AppTokens
<1>4. ASSUME Len(argv) >= 1, \/ name = "web" /\ argv[1] = "web"
                             \/ name = "p" /\ argv[1] = "--profile=p",
             1 < Len(argv) => argv[2] \in AppTokens
      PROVE  Boots(argv, name)
  BY <1>2, <1>4 DEF Boots, AppTokens
<1>5. ASSUME Len(argv) >= 2, argv[1] = "--profile", argv[2] = name, name # "empty",
             2 < Len(argv) => argv[3] \in AppTokens
      PROVE  Boots(argv, name)
  BY <1>2, <1>5 DEF Boots, AppTokens
<1> QED BY <1>3, <1>4, <1>5

LEMMA ProvenProfileIsBooted ==
    ASSUME NEW argv \in Seq(Tokens), NEW name
    PROVE  Agree(argv, name)
<1> DEFINE start == FirstReader(argv)
           tokens == LauncherTokens(argv)
           reader == Reading(start, tokens)
           end == LastReader(argv)
<1>1. /\ start \in Readers /\ tokens \in Seq(Tokens)
      /\ \A v : Proves(end, v) => ProvenProfile(argv) = <<v>>
      /\ IsLost(end) \/ end.profile = <<>> \/ end.expects = "profile" => ProvenProfile(argv) = <<>>
  BY LastReaderDecides
<1>2. end = reader[Len(tokens)]
  BY DEF LastReader
<1>3. /\ reader[0] = start
      /\ \A i \in 1..Len(tokens) : reader[i] = Read(reader[i - 1], tokens[i])
      /\ \A i \in 0..Len(tokens) : reader[i] \in Readers
  BY <1>1, TokensAreRead
<1>4. start.expects = "option" /\ start.patches = <<>>
      /\ start.profile = IF IsWeb(argv) THEN <<"web">> ELSE <<>>
  BY DEF FirstReader
<1>5. ASSUME NEW k \in 0..Len(tokens), NEW v, reader[k].expects = "option",
             reader[k].patches = <<>>, reader[k].profile = <<v>>
      PROVE  /\ (k < Len(tokens) => tokens[k + 1] \in AppTokens) => ProvenProfile(argv) = <<v>>
             /\ ~(k < Len(tokens) => tokens[k + 1] \in AppTokens) => ProvenProfile(argv) = <<>>
  BY <1>1, <1>2, <1>5, NamedIsRead
<1>6. \A k \in 0..Len(tokens) : /\ reader[k].expects = "app" => end = reader[k]
                                /\ IsLost(reader[k]) => ProvenProfile(argv) = <<>>
  BY <1>1, <1>2, TheRestIsOfTheApp
<1>7. <<name>> # <<>> /\ \A v : <<v>> = <<name>> <=> v = name
  OBVIOUS
<1> HIDE DEF start, reader, end
<1>8. CASE IsWeb(argv)
  <2>1. /\ tokens = Tail(argv) /\ argv # <<>> /\ argv[1] = "web"
        /\ Len(argv) >= 1 /\ Len(tokens) = Len(argv) - 1
    BY <1>8, EmptySeq, HeadTailProperties DEF LauncherTokens, IsWeb
  <2>2. 0 < Len(tokens) => tokens[0 + 1] = argv[2]
    BY <2>1, HeadTailProperties
  <2> HIDE DEF tokens
  <2>3. 0 \in 0..Len(tokens)
    BY <1>1
  <2>4. /\ (0 < Len(tokens) => tokens[0 + 1] \in AppTokens) => ProvenProfile(argv) = <<"web">>
        /\ ~(0 < Len(tokens) => tokens[0 + 1] \in AppTokens) => ProvenProfile(argv) = <<>>
    BY <1>3, <1>4, <1>5, <1>8, <2>3
  <2>5. 0 < Len(tokens) <=> 1 < Len(argv)
    BY <2>1
  <2>6. Boots(argv, name) <=> name = "web" /\ (1 < Len(argv) => argv[2] \in AppTokens)
    BY <2>1, BootsOf
  <2> QED BY <1>7, <2>2, <2>4, <2>5, <2>6 DEF Agree
<1>9. CASE ~IsWeb(argv) /\ argv = <<>>
  <2>1. tokens = argv /\ Len(tokens) = 0
    BY <1>9 DEF LauncherTokens
  <2>2. end.profile = <<>>
    BY <1>2, <1>3, <1>4, <1>9, <2>1
  <2>3. ~Boots(argv, name)
    BY <1>9 DEF Boots
  <2> QED BY <1>1, <1>7, <2>2, <2>3 DEF Agree
<1>10. CASE ~IsWeb(argv) /\ argv # <<>>
  <2>1. tokens = argv /\ Len(argv) >= 1 /\ argv[1] # "web"
    BY <1>10, EmptySeq DEF LauncherTokens, IsWeb
  <2> HIDE DEF tokens
  <2>2. /\ 1 \in 1..Len(tokens) /\ 1 \in 0..Len(tokens) /\ 1 - 1 = 0
        /\ argv[1] \in Tokens /\ Len(argv) \in Nat
    BY <2>1
  <2>3. /\ reader[1] = Read(start, argv[1]) /\ reader[1] \in Readers /\ start \in Readers
        /\ start.profile = <<>>
    BY <1>1, <1>3, <1>4, <1>10, <2>1, <2>2
  <2>4. CASE argv[1] = "--profile"
    <3>1. reader[1] = [start EXCEPT !.expects = "profile"]
      BY <1>4, <2>2, <2>3, <2>4, ReaderReadsOption
    <3>2. reader[1].expects = "profile" /\ reader[1].profile = <<>> /\ reader[1].patches = <<>>
      BY <1>4, <2>3, <3>1 DEF Readers
    <3>3. CASE Len(argv) = 1
      <4>1. ProvenProfile(argv) = <<>>
        BY <1>1, <1>2, <2>1, <3>2, <3>3
      <4>2. ~Boots(argv, name)
        BY <2>4, <3>3, BootsOf
      <4> QED BY <1>7, <4>1, <4>2 DEF Agree
    <3>4. CASE Len(argv) # 1
      <4>1. 2 \in 1..Len(tokens) /\ 2 \in 0..Len(tokens) /\ 2 - 1 = 1 /\ Len(argv) >= 2
        <5>1. Len(argv) = Len(tokens)
          BY <2>1
        <5>2. \A n \in Nat : n >= 1 /\ n # 1 => n >= 2 /\ 2 \in 1..n /\ 2 \in 0..n
          OBVIOUS
        <5>3. Len(argv) \in Nat /\ Len(argv) >= 1 /\ Len(argv) # 1
          BY <2>1, <2>2, <3>4
        <5>4. Len(argv) >= 2 /\ 2 \in 1..Len(argv) /\ 2 \in 0..Len(argv)
          BY <5>2, <5>3, Zenon
        <5> QED BY <5>1, <5>4
      <4>2. argv[2] \in Tokens /\ argv[2] \in Names
        BY <2>1, <4>1 DEF Names
      <4>3. reader[2] = Named(reader[1], argv[2])
        BY <1>3, <2>1, <2>3, <3>2, <4>1, <4>2, ReaderReadsOn
      <4>4. CASE argv[2] = "empty"
        <5>1. IsLost(reader[2])
          BY <2>3, <4>2, <4>3, <4>4, ReaderIsNamed
        <5>2. ~Boots(argv, name)
          BY <2>4, <4>4, BootsOf
        <5> QED BY <1>6, <1>7, <4>1, <5>1, <5>2 DEF Agree
      <4>5. CASE argv[2] # "empty"
        <5>1. reader[2] = [expects |-> "option", patches |-> <<>>, profile |-> <<argv[2]>>]
          BY <2>3, <3>2, <4>2, <4>3, <4>5, ReaderIsNamed
        <5>2. /\ (2 < Len(argv) => argv[3] \in AppTokens) => ProvenProfile(argv) = <<argv[2]>>
              /\ ~(2 < Len(argv) => argv[3] \in AppTokens) => ProvenProfile(argv) = <<>>
          <6>1. 2 + 1 = 3 /\ reader[2].expects = "option" /\ reader[2].patches = <<>>
                /\ reader[2].profile = <<argv[2]>>
            BY <5>1
          <6>2. /\ (2 < Len(tokens) => tokens[2 + 1] \in AppTokens) => ProvenProfile(argv) = <<argv[2]>>
                /\ ~(2 < Len(tokens) => tokens[2 + 1] \in AppTokens) => ProvenProfile(argv) = <<>>
            BY <1>5, <4>1, <6>1
          <6> QED BY <2>1, <6>1, <6>2
        <5>3. Boots(argv, name) <=> name = argv[2] /\ (2 < Len(argv) => argv[3] \in AppTokens)
          BY <2>4, <4>1, <4>5, BootsOf
        <5> QED BY <1>7, <5>2, <5>3 DEF Agree
      <4> QED BY <4>4, <4>5
    <3> QED BY <3>3, <3>4
  <2>5. CASE argv[1] = "--profile=p"
    <3>1. "p" \in Names
      BY DEF Names, Tokens
    <3>2. reader[1] = [expects |-> "option", patches |-> <<>>, profile |-> <<"p">>]
      BY <1>4, <2>2, <2>3, <2>5, <3>1, ReaderReadsOption, ReaderIsNamed
    <3>3. /\ (1 < Len(tokens) => tokens[1 + 1] \in AppTokens) => ProvenProfile(argv) = <<"p">>
          /\ ~(1 < Len(tokens) => tokens[1 + 1] \in AppTokens) => ProvenProfile(argv) = <<>>
      BY <1>5, <2>2, <3>2
    <3>4. Boots(argv, name) <=> name = "p" /\ (1 < Len(argv) => argv[2] \in AppTokens)
      BY <2>1, <2>5, BootsOf
    <3> QED BY <1>7, <2>1, <3>3, <3>4 DEF Agree
  <2>6. CASE argv[1] \notin {"--profile", "--profile=p"}
    <3>1. ~Boots(argv, name)
      BY <2>1, <2>6, BootsOf
    <3>2. CASE argv[1] \in AppTokens
      <4>1. reader[1] = [start EXCEPT !.expects = "app"]
        BY <1>4, <2>2, <2>3, <3>2, ReaderReadsOption
      <4>2. reader[1].expects = "app" /\ reader[1].profile = <<>>
        BY <2>3, <4>1 DEF Readers
      <4> QED BY <1>1, <1>6, <1>7, <2>2, <3>1, <4>2 DEF Agree
    <3>3. CASE argv[1] = "--profile="
      <4>1. "empty" \in Names
        BY DEF Names, Tokens
      <4>2. IsLost(reader[1])
        BY <1>4, <2>2, <2>3, <3>3, <4>1, ReaderReadsOption, ReaderIsNamed
      <4> QED BY <1>6, <1>7, <2>2, <3>1, <4>2 DEF Agree
    <3>4. CASE argv[1] \in {"--patch", "--patch=a", "--patch=", "--dump-config", "plugin"}
      <4>1. IsLost(reader[1])
        BY <1>4, <2>2, <2>3, <3>4, ReaderReadsOption
      <4> QED BY <1>6, <1>7, <2>2, <3>1, <4>1 DEF Agree
    <3> QED BY <2>2, <2>6, <3>2, <3>3, <3>4, TokensAre
  <2> QED BY <2>4, <2>5, <2>6
<1> QED BY <1>8, <1>9, <1>10

-----------------------------------------------------------------------------
(***************************************************************************)
(* The calls of the model.                                                 *)
(***************************************************************************)
IsToolCall(asked) ==
    /\ DOMAIN asked.args = DOMAIN NoArguments
    /\ asked.args.profile = <<>> \/ \E name : asked.args.profile = <<name>>
    /\ asked.argv \in Seq(Tokens)

LEMMA ChangedFields ==
    ASSUME NEW record, NEW values, DOMAIN values \subseteq DOMAIN record,
           NEW other \in Changed(record, values)
    PROVE  /\ DOMAIN other = DOMAIN record
           /\ \A key \in DOMAIN record :
                  \/ other[key] = record[key]
                  \/ key \in DOMAIN values /\ other[key] \in values[key]
<1>1. CASE other = record
  BY <1>1
<1>2. CASE other # record
  <2>1. PICK key \in DOMAIN values : other \in {[record EXCEPT ![key] = value] : value \in values[key]}
    BY <1>2 DEF Changed
  <2> QED BY <2>1
<1> QED BY <1>1, <1>2

LEMMA ChangedLines ==
    ASSUME NEW options, IsLine(options),
           NEW other \in Changed(options, OptionValues)
    PROVE  IsLine(other)
<1>1. DOMAIN OptionValues \subseteq DOMAIN options
  BY DEF OptionValues, IsLine, NoOptions
<1>2. /\ DOMAIN other = DOMAIN options
      /\ \A key \in DOMAIN options :
             \/ other[key] = options[key]
             \/ key \in DOMAIN OptionValues /\ other[key] \in OptionValues[key]
  BY <1>1, ChangedFields
<1>3. /\ "visibilityService" \in DOMAIN options /\ "visibilityTool" \in DOMAIN options
      /\ OptionValues["visibilityService"] = {<<"s">>, <<"s", "s">>, <<"s", "t">>, <<"blank">>}
      /\ OptionValues["visibilityTool"] = {<<"s">>, <<"empty">>}
  BY DEF IsLine, NoOptions, OptionValues
<1>4. \A values \in OptionValues["visibilityService"] \cup OptionValues["visibilityTool"] :
          DOMAIN values = 1..1 \/ DOMAIN values = 1..2
  BY <1>3
<1>5. /\ \E n \in Nat : DOMAIN other.visibilityService = 1..n
      /\ \E n \in Nat : DOMAIN other.visibilityTool = 1..n
  <2>1. \/ other.visibilityService = options.visibilityService
        \/ other.visibilityService \in OptionValues["visibilityService"]
    BY <1>2, <1>3
  <2>2. \/ other.visibilityTool = options.visibilityTool
        \/ other.visibilityTool \in OptionValues["visibilityTool"]
    BY <1>2, <1>3
  <2> QED BY <1>4, <2>1, <2>2 DEF IsLine
<1> QED BY <1>2, <1>5 DEF IsLine

LEMMA PlainLines ==
    /\ IsLine(NoOptions)
    /\ \A operation \in Commanded :
           LET options == PlainOptions(operation)
           IN  /\ IsLine(options)
               /\ Given(options) \subseteq Allowed(operation) /\ options.profile = <<"p">>
<1>1. Commanded = {"resolve", "search", "inspect", "check", "verify"}
  BY DEF Commanded, Commands
<1>2. DOMAIN <<>> = 1..0
  OBVIOUS
<1>3. IsLine(NoOptions)
  BY <1>2 DEF IsLine, NoOptions
<1>4. ASSUME NEW operation \in Commanded
      PROVE  LET options == PlainOptions(operation)
             IN  /\ IsLine(options)
                 /\ options.profile = <<"p">>
  <2> DEFINE options == PlainOptions(operation)
  <2>1. /\ options.profile = <<"p">> /\ DOMAIN options = DOMAIN NoOptions
        /\ options.visibilityService = <<>> /\ options.visibilityTool = <<>>
    BY <1>1 DEF PlainOptions, NoOptions
  <2> HIDE DEF options
  <2> QED BY <1>2, <2>1 DEF IsLine, options
<1>5. \A key \in DOMAIN NoOptions : NoOptions[key] = <<>>
  BY DEF NoOptions
<1>6. ASSUME NEW operation \in Commanded
      PROVE  Given(PlainOptions(operation)) \subseteq Allowed(operation)
  <2>1. CASE operation = "resolve"
    <3>1. \A key \in (DOMAIN NoOptions) \ {"profile"} :
              PlainOptions("resolve")[key] = NoOptions[key]
      BY DEF PlainOptions
    <3>2. {"profile"} \subseteq Allowed("resolve")
      BY DEF Allowed, TargetOptions
    <3> QED BY <1>4, <1>5, <2>1, <3>1, <3>2 DEF Given, IsLine
  <2>2. CASE operation = "search"
    <3>1. \A key \in (DOMAIN NoOptions) \ {"profile", "query"} :
              PlainOptions("search")[key] = NoOptions[key]
      BY DEF PlainOptions
    <3>2. {"profile", "query"} \subseteq Allowed("search")
      BY DEF Allowed, TargetOptions, SearchOptions
    <3> QED BY <1>4, <1>5, <2>2, <3>1, <3>2 DEF Given, IsLine
  <2>3. CASE operation = "inspect"
    <3>1. \A key \in (DOMAIN NoOptions) \ {"profile", "contractIndex", "contractId"} :
              PlainOptions("inspect")[key] = NoOptions[key]
      BY DEF PlainOptions
    <3>2. {"profile", "contractIndex", "contractId"} \subseteq Allowed("inspect")
      BY DEF Allowed, TargetOptions, InspectOptions
    <3> QED BY <1>4, <1>5, <2>3, <3>1, <3>2 DEF Given, IsLine
  <2>4. CASE operation = "check"
    <3>1. \A key \in (DOMAIN NoOptions) \ {"profile", "subject"} :
              PlainOptions("check")[key] = NoOptions[key]
      BY DEF PlainOptions
    <3>2. {"profile", "subject"} \subseteq Allowed("check")
      BY DEF Allowed, TargetOptions
    <3> QED BY <1>4, <1>5, <2>4, <3>1, <3>2 DEF Given, IsLine
  <2>5. CASE operation = "verify"
    <3>1. \A key \in (DOMAIN NoOptions) \ {"profile", "subject"} :
              PlainOptions("verify")[key] = NoOptions[key]
      BY DEF PlainOptions
    <3>2. {"profile", "subject"} \subseteq Allowed("verify")
      BY DEF Allowed, TargetOptions
    <3> QED BY <1>4, <1>5, <2>5, <3>1, <3>2 DEF Given, IsLine
  <2> QED BY <1>1, <2>1, <2>2, <2>3, <2>4, <2>5
<1> QED BY <1>3, <1>4, <1>6

LEMMA LinesAre == ASSUME NEW line \in CommandLines PROVE IsLine(line.options)
<1> DEFINE twice(plain) == UNION {Changed(once, OptionValues) : once \in Changed(plain, OptionValues)}
<1>1. ASSUME NEW plain, IsLine(plain),
             NEW options \in twice(plain)
      PROVE  IsLine(options)
  <2>1. PICK once \in Changed(plain, OptionValues) : options \in Changed(once, OptionValues)
    OBVIOUS
  <2>2. IsLine(once)
    BY <1>1, ChangedLines
  <2> QED BY <2>1, <2>2, ChangedLines
<1>2. \/ \E operation \in Commanded : line.options \in twice(PlainOptions(operation))
      \/ line.options \in twice(NoOptions)
  <2> DEFINE of(operation) == UNION {{CommandLine(Commands[operation], options) :
                                          options \in Changed(once, OptionValues)} :
                                     once \in Changed(PlainOptions(operation), OptionValues)}
             lines(words) == {CommandLine(words, options) : options \in twice(NoOptions)}
             others == UNION {lines(words) : words \in {<<>>, <<"mcp">>, <<"target">>, <<"mcp", "resolve">>}}
  <2>1. \A words, options : CommandLine(words, options).options = options
    BY DEF CommandLine
  <2>2. CommandLines = (UNION {of(operation) : operation \in Commanded}) \cup others
    BY Zenon DEF CommandLines
  <2>3. ASSUME NEW operation \in Commanded, line \in of(operation)
        PROVE  line.options \in twice(PlainOptions(operation))
    <3>1. PICK once \in Changed(PlainOptions(operation), OptionValues) :
              line \in {CommandLine(Commands[operation], options) : options \in Changed(once, OptionValues)}
      BY <2>3
    <3>2. PICK options \in Changed(once, OptionValues) : line = CommandLine(Commands[operation], options)
      BY <3>1
    <3> QED BY <2>1, <3>2
  <2>4. ASSUME line \in others
        PROVE  line.options \in twice(NoOptions)
    <3> HIDE DEF twice
    <3>1. PICK words : line \in lines(words)
      <4> HIDE DEF lines
      <4> QED BY <2>4
    <3>2. PICK options \in twice(NoOptions) : line = CommandLine(words, options)
      BY <3>1
    <3> QED BY <2>1, <3>2
  <2> HIDE DEF of, others, twice
  <2>5. line \in UNION {of(operation) : operation \in Commanded} \/ line \in others
    BY <2>2
  <2> QED BY <2>3, <2>4, <2>5
<1> HIDE DEF twice
<1> QED BY <1>1, <1>2, PlainLines

LEMMA PlainArgumentsAre ==
    ASSUME NEW operation \in Commanded
    PROVE  LET args == PlainArguments(operation)
           IN  DOMAIN args = DOMAIN NoArguments /\ args.profile = <<"p">>
<1> DEFINE options == PlainOptions(operation)
<1>1. operation \in {"resolve", "search", "inspect", "check", "verify"}
  BY DEF Commanded, Commands
<1>2. operation \in Targeted
  BY <1>1 DEF Targeted, Operations, Keys
<1>3. /\ IsLine(options) /\ Given(options) \subseteq Allowed(operation)
      /\ options.profile = <<"p">>
  BY PlainLines
<1> HIDE DEF options
<1>4. SaysTheLine(ArgumentsOf(operation, options), options)
  BY <1>3, ArgumentsSay
<1>5. LastOf(<<"p">>) = <<"p">>
  <2>1. Last(<<"p">>) = "p"
    BY DEF Last
  <2> QED BY <2>1 DEF LastOf
<1>6. PlainArguments(operation) = ArgumentsOf(operation, options)
  BY <1>2 DEF PlainArguments, options
<1> QED BY <1>3, <1>4, <1>5, <1>6 DEF SaysTheLine

LEMMA ChangedArguments ==
    ASSUME NEW args, DOMAIN args = DOMAIN NoArguments,
           args.profile = <<>> \/ \E name : args.profile = <<name>>,
           NEW other \in Changed(args, ArgumentValues)
    PROVE  /\ DOMAIN other = DOMAIN NoArguments
           /\ other.profile = <<>> \/ \E name : other.profile = <<name>>
<1>1. DOMAIN ArgumentValues \subseteq DOMAIN args
  BY DEF ArgumentValues, NoArguments
<1>2. /\ DOMAIN other = DOMAIN args
      /\ \A key \in DOMAIN args :
             \/ other[key] = args[key]
             \/ key \in DOMAIN ArgumentValues /\ other[key] \in ArgumentValues[key]
  BY <1>1, ChangedFields
<1>3. /\ "profile" \in DOMAIN args
      /\ ArgumentValues["profile"] = {<<>>, <<"empty">>, <<"ill">>, <<"p">>}
  BY DEF NoArguments, ArgumentValues
<1> QED BY <1>2, <1>3

LEMMA NativeCallsAre ==
    ASSUME NEW asked \in ToolCalls(Commanded) \cup AmbientCalls
    PROVE  IsToolCall(asked)
<1>1. CASE asked \in ToolCalls(Commanded)
  <2> DEFINE toolCall(operation, args) == [operation |-> operation, args |-> args, argv |-> PlainLaunch]
             twice(operation) == UNION {Changed(once, ArgumentValues) :
                                        once \in Changed(PlainArguments(operation), ArgumentValues)}
  <2>1. ToolCalls(Commanded) =
            UNION {{toolCall(operation, args) : args \in twice(operation)} : operation \in Commanded}
    BY Zenon DEF ToolCalls
  <2>2. \A operation, args : /\ toolCall(operation, args).args = args
                             /\ toolCall(operation, args).argv = PlainLaunch
    OBVIOUS
  <2> HIDE DEF toolCall, twice
  <2>3. PICK operation \in Commanded : \E args \in twice(operation) : asked = toolCall(operation, args)
    BY <1>1, <2>1
  <2> DEFINE args == asked.args
  <2>4. PICK once \in Changed(PlainArguments(operation), ArgumentValues) :
            args \in Changed(once, ArgumentValues)
    BY <2>2, <2>3 DEF twice
  <2>5. /\ DOMAIN once = DOMAIN NoArguments
        /\ once.profile = <<>> \/ \E name : once.profile = <<name>>
    BY PlainArgumentsAre, ChangedArguments
  <2>6. /\ DOMAIN args = DOMAIN NoArguments
        /\ args.profile = <<>> \/ \E name : args.profile = <<name>>
    BY <2>4, <2>5, ChangedArguments
  <2>7. PlainLaunch \in Seq(Tokens)
    BY DEF PlainLaunch, Tokens
  <2> QED BY <2>2, <2>3, <2>6, <2>7 DEF IsToolCall
<1>2. CASE asked \in AmbientCalls
  <2>1. PICK argv : /\ argv \in UNION {[1..n -> Tokens] : n \in 0..MaxTokens}
                    /\ asked = [operation |-> "resolve", args |-> NoArguments, argv |-> argv]
    BY <1>2 DEF AmbientCalls
  <2>2. PICK n \in 0..MaxTokens : argv \in [1..n -> Tokens]
    BY <2>1
  <2>3. argv \in Seq(Tokens)
    BY <2>2 DEF MaxTokens
  <2>4. NoArguments.profile = <<>>
    BY DEF NoArguments
  <2> QED BY <2>1, <2>3, <2>4 DEF IsToolCall
<1> QED BY <1>1, <1>2

-----------------------------------------------------------------------------
(***************************************************************************)
(* Requests are as given.                                                  *)
(***************************************************************************)
\* What has passed the tests of the command line, or of a native tool.
LineIsAsked(operation, args, options) ==
    /\ operation \in Commanded /\ Given(options) \subseteq Allowed(operation)
    /\ SubjectAllows(operation, options) /\ Parses(operation, args)
    /\ args = ArgumentsOf(operation, options)

RequestIsOfTheCall ==
    /\ surface = "cli" => IsLine(call.options)
    /\ surface = "native" => IsToolCall(call)
    /\ request # <<>> /\ surface = "cli" => LineIsAsked(request[1], request[2], call.options)
    /\ request # <<>> /\ surface = "native" => request[2] = Bound(call.args, call.argv)
    /\ request = <<>> /\ surface = "native" /\ phase = "answered" =>
           ~NativeParses(call.operation, call.args, call.argv)

LEMMA InitRequestIsOfTheCall == FrontInit => RequestIsOfTheCall
<1> SUFFICES ASSUME FrontInit PROVE RequestIsOfTheCall
  OBVIOUS
<1>1. request = <<>> /\ phase = "called"
  BY DEF FrontInit
<1>2. surface = "cli" => call \in CommandLines
  BY DEF FrontInit
<1>3. surface = "native" => call \in ToolCalls(Commanded) \cup AmbientCalls
  BY DEF FrontInit
<1> QED BY <1>1, <1>2, <1>3, LinesAre, NativeCallsAre DEF RequestIsOfTheCall

LEMMA NextRequestIsOfTheCall ==
    FrontInv /\ RequestIsOfTheCall /\ [FrontNext]_frontVars => RequestIsOfTheCall'
<1> SUFFICES ASSUME FrontInv, RequestIsOfTheCall, [FrontNext]_frontVars
             PROVE  RequestIsOfTheCall'
  OBVIOUS
<1>1. surface' = surface /\ call' = call
  BY DEF FrontNext, frontVars, callVars, Flags, Command, ToolCall, UseCase, CheckPlugin, Respond,
         CallAnswered, CallUnchanged
<1>2. /\ phase = "called" => request = <<>>
      /\ phase = "kernel" => request # <<>>
  BY DEF FrontInv, CallInOrder
<1>3. CASE request' = request /\ (phase' = phase \/ surface # "native" \/ phase = "kernel")
  BY <1>1, <1>2, <1>3 DEF RequestIsOfTheCall
<1>4. CASE UNCHANGED frontVars \/ UseCase \/ CheckPlugin \/ Respond \/ CallAnswered
  BY <1>3, <1>4 DEF frontVars, UseCase, CheckPlugin, Respond, CallAnswered
<1>5. CASE Flags
  BY <1>3, <1>5 DEF Flags
<1>6. CASE Command
  <2>1. surface = "cli"
    BY <1>6 DEF Command
  <2>2. CASE request' = request
    BY <1>3, <2>1, <2>2
  <2>3. CASE \E operation \in Commanded :
                 /\ Given(call.options) \subseteq Allowed(operation)
                 /\ SubjectAllows(operation, call.options)
                 /\ Parses(operation, ArgumentsOf(operation, call.options))
                 /\ Asks(operation, ArgumentsOf(operation, call.options))
    <3>1. PICK operation \in Commanded :
                 /\ Given(call.options) \subseteq Allowed(operation)
                 /\ SubjectAllows(operation, call.options)
                 /\ Parses(operation, ArgumentsOf(operation, call.options))
                 /\ Asks(operation, ArgumentsOf(operation, call.options))
      BY <2>3
    <3>2. request' = <<operation, ArgumentsOf(operation, call.options)>>
      BY <3>1 DEF Asks
    <3>3. request'[1] = operation /\ request'[2] = ArgumentsOf(operation, call.options)
          /\ request' # <<>>
      BY <3>2
    <3>4. LineIsAsked(request'[1], request'[2], call.options)
      BY <3>1, <3>3, Zenon DEF LineIsAsked
    <3> QED BY <1>1, <2>1, <3>3, <3>4 DEF RequestIsOfTheCall
  <2> QED BY <1>6, <2>2, <2>3 DEF Command
<1>7. CASE ToolCall
  <2>1. CASE surface = "mcp"
    BY <1>1, <2>1 DEF RequestIsOfTheCall
  <2>2. CASE surface = "native" /\ NativeParses(call.operation, call.args, call.argv)
    <3>1. Asks(call.operation, Bound(call.args, call.argv))
      BY <1>7, <2>2 DEF ToolCall
    <3>2. request' = <<call.operation, Bound(call.args, call.argv)>>
      BY <3>1 DEF Asks
    <3>3. request'[2] = Bound(call.args, call.argv) /\ request' # <<>>
      BY <3>2
    <3> QED BY <1>1, <2>2, <3>3 DEF RequestIsOfTheCall
  <2>3. CASE surface = "native" /\ ~NativeParses(call.operation, call.args, call.argv)
    <3>1. request' = request /\ request = <<>>
      BY <1>2, <1>7, <2>3 DEF ToolCall
    <3> QED BY <1>1, <2>3, <3>1 DEF RequestIsOfTheCall
  <2> QED BY <1>7, <2>1, <2>2, <2>3 DEF ToolCall
<1> QED BY <1>4, <1>5, <1>6, <1>7 DEF FrontNext

\* What a native tool passes on: the arguments of the model, the home of the
\* host and, for want of a profile, the one that it runs.
LEMMA BoundArguments ==
    ASSUME NEW args, DOMAIN args = DOMAIN NoArguments, NEW argv
    PROVE  /\ DOMAIN Bound(args, argv) = DOMAIN NoArguments
           /\ Bound(args, argv).profile =
                  IF args.profile = <<>> THEN ProvenProfile(argv) ELSE args.profile
           /\ Bound(args, argv).dshHome = <<"host-home">>
           /\ Bound(args, argv).dshPackageRoot = <<>> /\ Bound(args, argv).patches = <<>>
           /\ \A key \in (DOMAIN NoArguments) \ TargetKeys : Bound(args, argv)[key] = args[key]
<1> DEFINE chosen == BoundTarget(args.profile, argv)
<1>1. /\ chosen.profile = IF args.profile = <<>> THEN ProvenProfile(argv) ELSE args.profile
      /\ chosen.dshHome = <<"host-home">> /\ chosen.dshPackageRoot = <<>> /\ chosen.patches = <<>>
  BY DEF BoundTarget, NoArguments
<1>2. TargetKeys \subseteq DOMAIN NoArguments
  BY DEF TargetKeys, NoArguments
<1> HIDE DEF chosen
<1>3. /\ DOMAIN Bound(args, argv) = DOMAIN NoArguments
      /\ \A key \in DOMAIN NoArguments :
             Bound(args, argv)[key] = IF key \in TargetKeys THEN chosen[key] ELSE args[key]
  BY DEF Bound, chosen
<1>4. {"profile", "dshHome", "dshPackageRoot", "patches"} = TargetKeys
  BY DEF TargetKeys
<1> QED BY <1>1, <1>2, <1>3, <1>4

\* A request whose target is a profile alone is one that a native tool passes on.
LEMMA ProfilesBind ==
    ASSUME NEW operation \in Commanded, NEW args, DOMAIN args = DOMAIN NoArguments,
           NEW name, args.profile = <<name>>, Given(args) \cap TargetKeys \subseteq {"profile"},
           args.unknown = <<>>, Parses(operation, args), NEW argv
    PROVE  NativeParses(operation, args, argv)
<1> DEFINE bound == Bound(args, argv)
<1>1. /\ DOMAIN bound = DOMAIN NoArguments /\ bound.profile = args.profile
      /\ bound.dshHome = <<"host-home">>
      /\ bound.dshPackageRoot = <<>> /\ bound.patches = <<>>
      /\ \A key \in (DOMAIN NoArguments) \ TargetKeys : bound[key] = args[key]
  BY BoundArguments
<1> HIDE DEF bound
<1>2. operation \in {"resolve", "search", "inspect", "check", "verify"} /\ operation \in Targeted
  BY DEF Commanded, Commands, Targeted, Operations, Keys
<1>3. ToSet(args.profile) = {name} /\ ToSet(<<"host-home">>) = {"host-home"} /\ ToSet(<<>>) = {}
  BY Lists
<1>4. name \in ProfileNames
  BY <1>2, <1>3 DEF Parses, ValidTarget
<1>5. Binds(args, argv)
  BY <1>3, <1>4 DEF Binds, ProfileNames
<1>6. ValidTarget(bound)
  BY <1>1, <1>3, <1>4 DEF ValidTarget, NonEmpty
<1>7. Given(bound) \subseteq Given(args) \cup TargetKeys
  BY <1>1 DEF Given
<1>8. /\ bound.query = args.query /\ bound.kinds = args.kinds /\ bound.limit = args.limit
      /\ bound.contractIndexFingerprint = args.contractIndexFingerprint
      /\ bound.contractId = args.contractId
      /\ bound.kind = args.kind /\ bound.path = args.path
      /\ bound.executionPolicy = args.executionPolicy
      /\ bound.visibilityAssertions = args.visibilityAssertions
      /\ bound.behaviorAssertions = args.behaviorAssertions
  BY <1>1 DEF NoArguments, TargetKeys
<1>9. /\ ValidSearch(bound) <=> ValidSearch(args)
      /\ ValidInspect(bound) <=> ValidInspect(args)
      /\ ValidCheck(bound) <=> ValidCheck(args)
      /\ ValidVerify(bound) <=> ValidVerify(args)
  BY <1>8, Zenon DEF ValidSearch, ValidInspect, ValidCheck, ValidVerify
<1>10. Given(bound) \subseteq Keys[operation] \cup (IF operation \in Targeted THEN TargetKeys ELSE {})
  BY <1>2, <1>7 DEF Parses
<1>11. Parses(operation, bound)
  BY <1>2, <1>6, <1>9, <1>10 DEF Parses
<1> QED BY <1>5, <1>11 DEF NativeParses, bound

LEMMA LineRequests ==
    ASSUME NEW operation, NEW args, NEW options, IsLine(options),
           LineIsAsked(operation, args, options)
    PROVE  /\ Asked(args) = Said(options)
           /\ SchemaAllows(operation, args)
           /\ Given(args) \cap TargetKeys = {"profile"} => NativeParses(operation, args, PlainLaunch)
<1>1. SaysTheLine(args, options)
  BY ArgumentsSay DEF LineIsAsked
<1>2. operation \in Commanded /\ Parses(operation, args)
  BY DEF LineIsAsked
<1>3. Asked(args) = Said(options)
  BY <1>1, LinesAreAsked
<1>4. \A path \in ToSet(args.path) : NonBlank(path)
  <2>1. args.path = LastOf(options.subject)
    BY <1>1 DEF SaysTheLine
  <2>2. CASE operation \in {"check", "verify"}
    <3>1. \E path \in ToSet(LastOf(options.subject)) : NonBlank(path)
      BY <2>2 DEF LineIsAsked, SubjectAllows
    <3>2. LastOf(options.subject) = <<>> \/ \E x : LastOf(options.subject) = <<x>>
      BY Lists
    <3> QED BY <2>1, <3>1, <3>2, Lists
  <2>3. CASE operation \notin {"check", "verify"}
    <3>1. options.subject = <<>>
      BY <1>2, <2>3, OthersAreAbsent DEF LineIsAsked
    <3> QED BY <2>1, <3>1, Lists
  <2> QED BY <2>2, <2>3
<1>5. ASSUME Given(args) \cap TargetKeys = {"profile"}
      PROVE  NativeParses(operation, args, PlainLaunch)
  <2>1. DOMAIN args = DOMAIN NoArguments /\ args.unknown = <<>>
        /\ args.profile = LastOf(options.profile)
    BY <1>1 DEF SaysTheLine
  <2>2. args.profile # <<>>
    BY <1>5 DEF Given
  <2>3. PICK name : args.profile = <<name>>
    BY <2>1, <2>2, Lists
  <2> QED BY <1>2, <1>5, <2>1, <2>3, ProfilesBind
<1> QED BY <1>2, <1>3, <1>4, <1>5 DEF SchemaAllows

LEMMA NativeRequests ==
    ASSUME NEW asked, IsToolCall(asked)
    PROVE  LET args == Bound(asked.args, asked.argv)
           IN  /\ args.dshHome = <<"host-home">> /\ args.dshPackageRoot = <<>> /\ args.patches = <<>>
               /\ \A key \in (DOMAIN args) \ TargetKeys : args[key] = asked.args[key]
               /\ \A profile \in ToSet(args.profile) :
                      <<profile>> = asked.args.profile \/ Boots(asked.argv, profile)
<1> DEFINE args == Bound(asked.args, asked.argv)
<1>1. /\ args.dshHome = <<"host-home">> /\ args.dshPackageRoot = <<>> /\ args.patches = <<>>
      /\ \A key \in (DOMAIN args) \ TargetKeys : args[key] = asked.args[key]
      /\ args.profile = IF asked.args.profile = <<>> THEN ProvenProfile(asked.argv)
                        ELSE asked.args.profile
  BY BoundArguments DEF IsToolCall
<1> HIDE DEF args
<1>2. ASSUME NEW profile \in ToSet(args.profile)
      PROVE  <<profile>> = asked.args.profile \/ Boots(asked.argv, profile)
  <2>1. CASE asked.args.profile # <<>>
    <3>1. PICK name : asked.args.profile = <<name>>
      BY <2>1 DEF IsToolCall
    <3>2. ToSet(args.profile) = {name}
      BY <1>1, <2>1, <3>1, Lists
    <3> QED BY <1>2, <3>1, <3>2
  <2>2. CASE asked.args.profile = <<>>
    <3>1. asked.argv \in Seq(Tokens)
      BY DEF IsToolCall
    <3>2. args.profile = ProvenProfile(asked.argv)
      BY <1>1, <2>2
    <3>3. ProvenProfile(asked.argv) = <<>> \/ \E name : ProvenProfile(asked.argv) = <<name>>
      BY <3>1, ProvenProfileIsOne
    <3>4. PICK name : ProvenProfile(asked.argv) = <<name>>
      BY <1>2, <3>2, <3>3, Lists
    <3>5. profile = name
      BY <1>2, <3>2, <3>4, Lists
    <3> QED BY <3>1, <3>4, <3>5, ProvenProfileIsBooted DEF Agree
  <2> QED BY <2>1, <2>2
<1> QED BY <1>1, <1>2 DEF args

LEMMA BootedProfileBinds ==
    ASSUME NEW argv \in Seq(Tokens), NEW profile \in ProfileNames, Boots(argv, profile)
    PROVE  NativeParses("resolve", NoArguments, argv)
<1> DEFINE bound == Bound(NoArguments, argv)
<1>1. ProvenProfile(argv) = <<profile>>
  BY ProvenProfileIsBooted DEF Agree
<1>2. \A key \in DOMAIN NoArguments : NoArguments[key] = <<>>
  BY DEF NoArguments
<1>3. NoArguments.profile = <<>> /\ NoArguments.unknown = <<>>
  BY DEF NoArguments
<1>4. /\ DOMAIN bound = DOMAIN NoArguments /\ bound.profile = <<profile>>
      /\ bound.dshHome = <<"host-home">>
      /\ bound.dshPackageRoot = <<>> /\ bound.patches = <<>>
      /\ \A key \in (DOMAIN NoArguments) \ TargetKeys : bound[key] = <<>>
  BY <1>1, <1>2, <1>3, BoundArguments
<1> HIDE DEF bound
<1>5. ToSet(<<profile>>) = {profile} /\ ToSet(<<"host-home">>) = {"host-home"} /\ ToSet(<<>>) = {}
  BY Lists
<1>6. Binds(NoArguments, argv)
  BY <1>1, <1>3, <1>5 DEF Binds
<1>7. ValidTarget(bound)
  BY <1>4, <1>5 DEF ValidTarget, NonEmpty
<1>8. Given(bound) \subseteq TargetKeys /\ Given(NoArguments) = {}
  BY <1>2, <1>4 DEF Given
<1>9. "resolve" \in Targeted
  BY DEF Targeted, Operations, Keys
<1>10. Parses("resolve", bound)
  BY <1>7, <1>8, <1>9 DEF Parses
<1> QED BY <1>6, <1>8, <1>10 DEF NativeParses, bound

LEMMA RequestsAgree == FrontInv /\ RequestIsOfTheCall => RequestsAreAsGiven
<1> SUFFICES ASSUME FrontInv, RequestIsOfTheCall PROVE RequestsAreAsGiven
  OBVIOUS
<1>1. CASE request = <<>>
  <2> SUFFICES ASSUME phase = "answered", surface = "native", call.operation = "resolve",
                      call.args = NoArguments, NEW profile \in ProfileNames,
                      Boots(call.argv, profile)
               PROVE  FALSE
    BY <1>1 DEF RequestsAreAsGiven
  <2>1. call.argv \in Seq(Tokens) /\ ~NativeParses("resolve", NoArguments, call.argv)
    BY <1>1 DEF RequestIsOfTheCall, IsToolCall
  <2> QED BY <2>1, BootedProfileBinds
<1>2. CASE request # <<>>
  <2>1. CASE surface = "cli"
    <3>1. IsLine(call.options) /\ LineIsAsked(request[1], request[2], call.options)
      BY <1>2, <2>1 DEF RequestIsOfTheCall
    <3> QED BY <1>2, <2>1, <3>1, LineRequests DEF RequestsAreAsGiven
  <2>2. CASE surface = "native"
    <3>1. IsToolCall(call) /\ request[2] = Bound(call.args, call.argv)
      BY <1>2, <2>2 DEF RequestIsOfTheCall
    <3> QED BY <1>2, <2>2, <3>1, NativeRequests DEF RequestsAreAsGiven
  <2>3. CASE surface = "mcp"
    BY <1>2, <2>3 DEF RequestsAreAsGiven
  <2> QED BY <2>1, <2>2, <2>3 DEF FrontInv, CallInOrder
<1> QED BY <1>1, <1>2

\* A request that reaches the kernel says what the caller said
\* (src/frontends/cli/index.ts and src/integrations/dsh/*-tool.ts): every
\* option of the command line and nothing else, in a form the tools take too;
\* through a native tool the target is the profile the model names, or the one
\* the host was booted with, and a call that names none is refused only when
\* there is no such profile.
THEOREM RequestsAreTheCallers == FrontSpec => []RequestsAreAsGiven
<1>1. FrontInit => FrontInv /\ RequestIsOfTheCall
  BY InitFrontInv, InitRequestIsOfTheCall
<1>2. (FrontInv /\ RequestIsOfTheCall) /\ [FrontNext]_frontVars => (FrontInv /\ RequestIsOfTheCall)'
  BY NextFrontInv, NextRequestIsOfTheCall
<1>3. FrontInv /\ RequestIsOfTheCall => RequestsAreAsGiven
  BY RequestsAgree
<1> QED BY <1>1, <1>2, <1>3, PTL DEF FrontSpec
=============================================================================
