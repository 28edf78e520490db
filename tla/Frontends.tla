------------------------------- MODULE Frontends -------------------------------
(***************************************************************************)
(* One call through a surface of the program: the command line             *)
(* (src/frontends/cli/index.ts), a tool of the MCP server                  *)
(* (src/frontends/mcp/index.ts) or a native tool of the DSH host           *)
(* (src/integrations/dsh/*-tool.ts), to the response the kernel makes of   *)
(* its outcome (src/kernel/index.ts).  The kernel's plugin.check is        *)
(* PluginSubjects; of the other use cases only the outcome matters here.   *)
(*                                                                         *)
(* An option of the command line is the sequence of its values, a flag     *)
(* <<"yes">>.  Of an option that is not repeatable parseArgs keeps the     *)
(* last value.                                                             *)
(***************************************************************************)
EXTENDS PluginSubjects, Requests, RunningTarget

VARIABLES
    surface,    \* input: "cli", "mcp" or "native"
    call,       \* input: [words, options] of the command line; [operation, args] of a
                \* tool, and argv, what the host of a native tool was started with
    phase,      \* "called", "kernel", "answered"
    request,    \* <<operation, args>> as the kernel got it, <<>> when it got none
    outcome,    \* of the kernel, "none" before
    printed,    \* on stdout, or the result of a tool
    exit        \* code of the process, -1 for a tool or a rejection

\* Bound of the model: tokens after the script of a host.
MaxTokens == 3

callVars == <<surface, call>>
frontVars == <<vars, callVars, phase, request, outcome, printed, exit>>

-----------------------------------------------------------------------------
\* The options of parseArgs.
NoOptions ==
    [help |-> <<>>, version |-> <<>>, profile |-> <<>>, dshHome |-> <<>>, dshPackageRoot |-> <<>>,
     patch |-> <<>>, query |-> <<>>, kind |-> <<>>, limit |-> <<>>, contractIndex |-> <<>>,
     contractId |-> <<>>, subject |-> <<>>, visibilityService |-> <<>>, visibilityTool |-> <<>>,
     strange |-> <<>>]
TargetOptions == {"profile", "dshHome", "dshPackageRoot", "patch"}
SearchOptions == {"query", "kind", "limit"}
InspectOptions == {"contractIndex", "contractId"}
AssertionOptions == {"visibilityService", "visibilityTool"}
OperationOptions == TargetOptions \cup SearchOptions \cup InspectOptions \cup AssertionOptions \cup {"subject"}

\* runCli: the command of an operation and the options it may be given.
Commands ==
    [resolve |-> <<"target", "resolve">>, search |-> <<"contract", "search">>,
     inspect |-> <<"contract", "inspect">>, check |-> <<"plugin", "check">>,
     verify |-> <<"plugin", "verify">>]
Allowed(operation) ==
    TargetOptions \cup
    (CASE operation = "resolve" -> {}
       [] operation = "search" -> SearchOptions
       [] operation = "inspect" -> InspectOptions
       [] operation = "check" -> {"subject"}
       [] operation = "verify" -> {"subject"} \cup AssertionOptions)

LastOf(values) == IF values = <<>> THEN <<>> ELSE <<Last(values)>>
Listed(values) == IF values = <<>> THEN <<>> ELSE <<values>>
\* Number of a limit of digits only.
Limit(text) == IF text = "01" THEN "1" ELSE text
IsPacked(path) == path \in {"p.tgz", "P.TGZ"}

\* targetRequest, contractSearchRequest, ..., pluginVerifyRequest.
ArgumentsOf(operation, options) ==
    LET hints == [NoArguments EXCEPT
                       !.profile = LastOf(options.profile), !.dshHome = LastOf(options.dshHome),
                       !.dshPackageRoot = LastOf(options.dshPackageRoot),
                       !.patches = Listed(options.patch)]
        named(kind, names) == [i \in DOMAIN names |-> <<kind, names[i]>>]
        kindOf(path) == IF IsPacked(path) THEN "packed" ELSE "directory"
    IN  CASE operation = "resolve" -> hints
          [] operation = "search" ->
                 [hints EXCEPT !.query = LastOf(options.query), !.kinds = Listed(options.kind),
                      !.limit = [i \in DOMAIN LastOf(options.limit) |-> Limit(Last(options.limit))]]
          [] operation = "inspect" ->
                 [hints EXCEPT !.contractIndexFingerprint = LastOf(options.contractIndex),
                                !.contractId = LastOf(options.contractId)]
          [] operation = "check" ->
                 [hints EXCEPT !.path = LastOf(options.subject),
                      !.kind = [i \in DOMAIN LastOf(options.subject) |-> kindOf(Last(options.subject))]]
          [] operation \in {"verify", "start"} ->
                 [hints EXCEPT !.path = LastOf(options.subject), !.kind = <<"packed">>,
                      !.executionPolicy = <<"safe">>,
                      !.visibilityAssertions = Listed(named("host-service", options.visibilityService)
                                                      \o named("agent-tool", options.visibilityTool))]
\* The operations that have a command.
Commanded == DOMAIN Commands
\* What the command line tests beyond the parser.
SubjectAllows(operation, options) ==
    /\ operation \in {"check", "verify"} => \E path \in ToSet(LastOf(options.subject)) : NonBlank(path)
    /\ operation = "verify" => IsPacked(Last(options.subject))

\* bindTargetArguments and targetRequest: of the model's arguments the profile
\* names the target, or the profile the host runs (of an epoch that is still
\* current, see AgentTargetBinding); its home is the host's; a target is no key
\* of a tool's arguments.
BoundTarget(profile, argv) ==
    [NoArguments EXCEPT !.profile = IF profile = <<>> THEN ProvenProfile(argv) ELSE profile,
                        !.dshHome = <<"host-home">>]
Binds(args, argv) ==
    /\ args.unknown = <<>> /\ "ill" \notin ToSet(args.profile)
    /\ args.profile = <<>> => ProvenProfile(argv) # <<>>
Bound(args, argv) ==
    [key \in DOMAIN args |-> IF key \in TargetKeys THEN BoundTarget(args.profile, argv)[key]
                                                   ELSE args[key]]
\* The native tools have no key for another part of the target.
NativeParses(operation, args, argv) ==
    /\ Binds(args, argv)
    /\ Given(args) \cap TargetKeys \subseteq {"profile"}
    /\ Parses(operation, Bound(args, argv))

-----------------------------------------------------------------------------
\* Small inputs: the plain call of each command, with up to two options changed.
OptionValues ==
    [help |-> {<<"yes">>}, version |-> {<<"yes">>}, profile |-> {<<>>, <<"empty">>, <<"..">>, <<"p", "..">>, <<"p">>},
     dshHome |-> {<<"empty">>, <<"h">>}, dshPackageRoot |-> {<<"r">>},
     patch |-> {<<"a">>, <<"b", "a">>, <<"a", "empty">>},
     query |-> {<<>>, <<"blank">>, <<"q">>},
     kind |-> {<<"service">>, <<"service", "method">>, <<"service", "service">>, <<"unknown">>},
     limit |-> {<<"0">>, <<"01">>, <<"25">>, <<"26">>, <<"x">>},
     contractIndex |-> {<<>>, <<"empty">>, <<"other">>, <<"fingerprint">>}, contractId |-> {<<>>, <<"empty">>, <<"id">>},
     subject |-> {<<>>, <<"empty">>, <<"blank">>, <<"p">>, <<"p.tgz">>, <<"P.TGZ">>, <<"p", "p.tgz">>},
     visibilityService |-> {<<"s">>, <<"s", "s">>, <<"s", "t">>, <<"blank">>},
     visibilityTool |-> {<<"s">>, <<"empty">>}, strange |-> {<<"yes">>}]
PlainOptions(operation) ==
    LET named == [NoOptions EXCEPT !.profile = <<"p">>]
    IN  CASE operation = "search" -> [named EXCEPT !.query = <<"q">>]
          [] operation = "inspect" -> [named EXCEPT !.contractIndex = <<"fingerprint">>, !.contractId = <<"id">>]
          [] operation \in {"check", "verify", "start"} -> [named EXCEPT !.subject = <<"p.tgz">>]
          [] OTHER -> named
Changed(record, values) ==
    {record} \cup UNION {{[record EXCEPT ![key] = value] : value \in values[key]} : key \in DOMAIN values}
CommandLine(words, options) == [words |-> words, options |-> options]
CommandLines ==
    (UNION {UNION {{CommandLine(Commands[operation], options) : options \in Changed(once, OptionValues)} :
                   once \in Changed(PlainOptions(operation), OptionValues)} : operation \in Commanded})
    \cup UNION {{CommandLine(words, options) : options \in UNION {Changed(once, OptionValues) :
                     once \in Changed(NoOptions, OptionValues)}} :
                words \in {<<>>, <<"mcp">>, <<"target">>, <<"mcp", "resolve">>}}

PlainArguments(operation) ==
    IF operation \in Targeted THEN ArgumentsOf(operation, PlainOptions(operation))
    ELSE [NoArguments EXCEPT !.id = <<"op">>]
ArgumentValues ==
    [profile |-> {<<>>, <<"empty">>, <<"ill">>, <<"p">>}, dshHome |-> {<<"h">>, <<"empty">>}, dshPackageRoot |-> {<<"r">>},
     patches |-> {<<<<>>>>, <<<<"a">>>>, <<<<"empty">>>>},
     query |-> {<<>>, <<"blank">>, <<"q">>}, kinds |-> {<<<<>>>>, <<<<"service">>>>, <<<<"unknown">>>>},
     limit |-> {<<"0">>, <<"1">>, <<"ill">>},
     contractIndexFingerprint |-> {<<>>, <<"other">>}, contractId |-> {<<"empty">>, <<"id">>},
     kind |-> {<<>>, <<"directory">>, <<"packed">>}, path |-> {<<"empty">>, <<"blank">>, <<"p">>},
     executionPolicy |-> {<<>>, <<"free">>, <<"safe">>},
     visibilityAssertions |-> {<<<<>>>>, <<<<<<"agent-tool", "s">>>>>>, <<<<<<"agent-tool", "blank">>>>>>,
                               <<<<<<"agent-tool", "s">>, <<"agent-tool", "s">>>>>>},
     behaviorAssertions |-> {<<<<>>>>, <<<<<<"t", "{a,b}", "{}">>, <<"t", "{b,a}", "{}">>>>>>,
                             <<<<<<"t", "{a,b}", "{}">>, <<"t", "{a,b}", "{b,a}">>>>>>},
     id |-> {<<>>, <<"blank">>, <<"ill">>, <<"op">>}, unknown |-> {<<"target">>}]
PlainLaunch == <<"--profile", "p">>
ToolCalls(operations) ==
    UNION {{[operation |-> operation, args |-> args, argv |-> PlainLaunch] :
                args \in UNION {Changed(once, ArgumentValues) :
                    once \in Changed(PlainArguments(operation), ArgumentValues)}} :
           operation \in operations}
\* A native tool that is called without a profile, in hosts started in many ways.
Tokens == {"web", "--profile", "--profile=p", "--profile=", "--patch", "--patch=a", "--patch=",
           "--dump-config", "plugin", "p", "empty"}
AmbientCalls ==
    {[operation |-> "resolve", args |-> NoArguments, argv |-> argv] :
         argv \in UNION {[1..n -> Tokens] : n \in 0..MaxTokens}}

PlainCheck == CommandLine(Commands["check"], PlainOptions("check"))
CheckOf(kind) == [operation |-> "check", argv |-> PlainLaunch,
                  args |-> [PlainArguments("check") EXCEPT !.kind = <<kind>>]]
FrontInit ==
    /\ Init
    /\ \/ \* every call, of one plugin
          /\ form = "packed" /\ target = {"good"} /\ disk = PackOf(Directory(Plain))
          /\ \/ surface = "cli" /\ call \in CommandLines
             \/ surface = "mcp" /\ call \in ToolCalls(Operations)
             \/ surface = "native" /\ call \in ToolCalls(Commanded) \cup AmbientCalls
       \/ \* one check, of every plugin
          surface = "mcp" /\ call = CheckOf(form)
    /\ phase = "called" /\ request = <<>> /\ outcome = "none" /\ printed = "nothing" /\ exit = -1

Exits(code, what) == phase' = "answered" /\ exit' = code /\ printed' = what
Asks(operation, args) == phase' = "kernel" /\ request' = <<operation, args>>
CallUnchanged == UNCHANGED <<callVars, vars, outcome>>

-----------------------------------------------------------------------------
\* runCli, before it knows the command: parseArgs throws, help and version.
Flags ==
    LET options == call.options IN
    /\ phase = "called" /\ surface = "cli"
    /\ \/ options.strange # <<>> /\ Exits(2, "nothing")
       \/ /\ options.strange = <<>> /\ \/ options.help # <<>>
                                       \/ call.words = <<>> /\ options.version = <<>>
          /\ Exits(0, "help")
       \/ /\ options.strange = <<>> /\ options.help = <<>>
          /\ call.words = <<>> /\ options.version # <<>>
          /\ IF Given(options) \cap OperationOptions # {} THEN Exits(2, "nothing") ELSE Exits(0, "version")
    /\ UNCHANGED request /\ CallUnchanged

\* runCli with a command; the server of `mcp` is a life of its own.
Command ==
    LET options == call.options
        given == Given(options)
        operations == {o \in Commanded : Commands[o] = call.words}
    IN  /\ phase = "called" /\ surface = "cli"
        /\ options.strange = <<>> /\ options.help = <<>> /\ call.words # <<>>
        /\ \/ /\ call.words = <<"mcp">>
              /\ IF given = {} THEN Exits(0, "mcp") ELSE Exits(2, "nothing")
              /\ UNCHANGED request
           \/ /\ call.words # <<"mcp">> /\ operations = {}
              /\ Exits(2, "nothing") /\ UNCHANGED request
           \/ \E operation \in operations :
                  LET args == ArgumentsOf(operation, options)
                  IN  IF /\ given \subseteq Allowed(operation)
                         /\ SubjectAllows(operation, options)
                         /\ Parses(operation, args)
                      THEN Asks(operation, args) /\ UNCHANGED <<exit, printed>>
                      ELSE Exits(2, "nothing") /\ UNCHANGED request
        /\ CallUnchanged

\* The callback of an MCP tool, behind the library's check of the schema;
\* execute of a native tool.
ToolCall ==
    /\ phase = "called" /\ surface \in {"mcp", "native"}
    /\ \/ /\ surface = "mcp"
          /\ IF SchemaAllows(call.operation, call.args)
             THEN Asks(call.operation, call.args) /\ UNCHANGED <<exit, printed>>
             ELSE Exits(-1, "error") /\ UNCHANGED request
       \/ /\ surface = "native"
          /\ IF NativeParses(call.operation, call.args, call.argv)
             THEN Asks(call.operation, Bound(call.args, call.argv)) /\ UNCHANGED <<exit, printed>>
             ELSE Exits(-1, "error") /\ UNCHANGED request
    /\ CallUnchanged

-----------------------------------------------------------------------------
\* The use case: what it can throw and what it finds.
Findings ==
    [resolve |-> {"ok"}, search |-> {"ok"}, inspect |-> {"ok"}, check |-> {},
     verify |-> {"verified", "failed", "partial", "stale", "cancelled"},
     start |-> {"ok"}, get |-> {"ok"}, cancel |-> {"ok"}]
\* An operation error is the manager's: closed, capacity or id of start, an id
\* that get and cancel do not find.
Managed == {"start", "get", "cancel"}
Errors(operation) ==
    (IF operation \in Managed THEN {"operation-error"} ELSE {"target-error"})
    \cup (IF operation \in {"get", "cancel"} THEN {} ELSE {"defect"})
    \cup (IF operation \in Managed \cup {"resolve"} THEN {} ELSE {"contract-error", "stale-contract"})
    \cup (IF operation = "verify" THEN {"verification-error"} ELSE {})
    \cup (IF operation \in Managed \cup {"verify"} THEN {"not-configured"} ELSE {})
UseCase ==
    /\ phase = "kernel" /\ outcome = "none" /\ step = "begin"
    /\ \E result \in Findings[request[1]] \cup Errors(request[1]) : outcome' = result
    /\ UNCHANGED <<callVars, vars, phase, request, printed, exit>>
CheckPlugin ==
    /\ phase = "kernel" /\ request[1] = "check" /\ outcome = "none" /\ step # "done"
    /\ Next
    /\ outcome' = verdict'
    /\ UNCHANGED <<callVars, phase, request, printed, exit>>

\* resolveTargetResponse, ..., verifyPluginResponse: the status of the
\* envelope, none when the error is thrown on; a stale index is a failure to
\* plugin.verify, which has no such status.
EnvelopeOf(operation, result) ==
    CASE result \in {"defect", "not-configured"} -> "none"
      [] result = "stale-contract" -> IF operation = "verify" THEN "failed" ELSE "stale"
      [] result \in {"target-error", "contract-error", "verification-error", "operation-error"} -> "failed"
      [] OTHER -> "ok"
\* The exit code after a response.
Succeeds_ByEnvelope(operation, envelope, result) == envelope = "ok"
Succeeds(operation, envelope, result) ==
    /\ envelope = "ok"
    /\ operation = "check" => result = "compatible-in-scope"
    /\ operation = "verify" => result = "verified"
Respond ==
    /\ phase = "kernel" /\ outcome # "none" /\ phase' = "answered"
    /\ LET envelope == EnvelopeOf(request[1], outcome)
       IN  /\ printed' = IF envelope # "none" THEN envelope
                         ELSE IF surface = "cli" THEN "nothing" ELSE "error"
           /\ exit' = CASE surface # "cli" \/ outcome = "defect" -> -1
                        [] surface = "cli" /\ outcome # "defect" ->
                               IF Succeeds(request[1], envelope, outcome) THEN 0 ELSE 1
    /\ UNCHANGED <<callVars, vars, request, outcome>>

CallAnswered == phase = "answered" /\ UNCHANGED frontVars

FrontNext ==
    Flags \/ Command \/ ToolCall \/ UseCase \/ CheckPlugin \/ Respond \/ CallAnswered

FrontSpec == FrontInit /\ [][FrontNext]_frontVars

-----------------------------------------------------------------------------
\* A request that reaches the kernel says what the caller said.  Of a command
\* line it holds every option that was given, the last value of one that is
\* not repeatable, and nothing else but the kind of the subject and the safe
\* policy; any other surface would pass the same request on unless it may not
\* name that part of the target; and through a native tool no argument of the
\* model chooses where the target is looked for: what it leaves out is the
\* profile this host was booted with, without overlays, and only such a call is
\* refused for want of a profile.
Said(options) ==
    (UNION {ToSet(IF option \in {"patch", "kind", "visibilityService", "visibilityTool"}
                  THEN options[option] ELSE LastOf(options[option])) :
            option \in OperationOptions \ {"limit"}})
    \cup {Limit(value) : value \in ToSet(LastOf(options.limit))}
Asked(args) ==
    Values(args, (DOMAIN args) \ {"patches", "kinds", "visibilityAssertions", "behaviorAssertions",
                                  "kind", "executionPolicy"})
    \cup (UNION {ToSet(values) : values \in ToSet(args.patches) \cup ToSet(args.kinds)})
    \cup UNION {{a[2] : a \in ToSet(assertions)} : assertions \in ToSet(args.visibilityAssertions)}
\* The launcher's part of argv is the command `web` or one option that names
\* the profile, in one token or two; then the arguments of the app begin.
Boots(argv, profile) ==
    \E n \in 1..Len(argv) :
        /\ \/ n = 1 /\ argv[1] = profile /\ profile = "web"
           \/ n = 1 /\ argv[1] = "--profile=p" /\ profile = "p"
           \/ n = 2 /\ argv[1] = "--profile" /\ argv[2] = profile /\ profile # "empty"
        /\ n < Len(argv) => argv[n + 1] \in {"p", "empty", "web"}
RequestsAreAsGiven ==
    IF request = <<>>
    THEN phase = "answered" /\ surface = "native" /\ call.operation = "resolve" /\ call.args = NoArguments =>
             \A profile \in ProfileNames : ~Boots(call.argv, profile)
    ELSE
        LET operation == request[1]
            args == request[2]
        IN  /\ surface = "cli" =>
                   /\ Asked(args) = Said(call.options)
                   /\ SchemaAllows(operation, args)
                   /\ Given(args) \cap TargetKeys = {"profile"} =>
                          NativeParses(operation, args, PlainLaunch)
            /\ surface = "native" =>
                   /\ args.dshHome = <<"host-home">> /\ args.dshPackageRoot = <<>> /\ args.patches = <<>>
                   /\ \A key \in (DOMAIN args) \ TargetKeys : args[key] = call.args[key]
                   /\ \A profile \in ToSet(args.profile) :
                          <<profile>> = call.args.profile \/ Boots(call.argv, profile)

\* The exit code is for automation: 0 only after help, version or a served
\* session, or with a printed response that is a positive answer; 1 for a
\* negative one, which is printed too unless the program cannot verify at all;
\* 2 when nothing was asked.  (spec/protocol.md:372 and 374.)
ExitTellsTheTruth ==
    phase = "answered" /\ surface = "cli" =>
        /\ exit = 2 <=> request = <<>> /\ printed = "nothing"
        /\ exit = 1 => printed \in {"ok", "stale", "failed"} \/ outcome = "not-configured"
        /\ exit = 0 /\ request # <<>> =>
               /\ printed = "ok"
               /\ request[1] = "check" => step = "done" /\ Analysis(subject) = "compatible-in-scope"
               /\ request[1] = "verify" => outcome = "verified"
        /\ exit = -1 => printed = "nothing" /\ outcome = "defect"
        /\ outcome \in {"ok", "verified", "compatible-in-scope"} => exit = 0
=============================================================================
