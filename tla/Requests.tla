------------------------------- MODULE Requests -------------------------------
(***************************************************************************)
(* The canonical request parsers (src/protocol/request-validation.ts).     *)
(*                                                                         *)
(* Arguments are a record with one field for every key of any operation,   *)
(* the nested target and subject flattened: <<>> when the key is absent,   *)
(* <<value>> when it is given.  "ill" is a value of a wrong JSON type,     *)
(* "empty" the text without characters, "blank" one of spaces alone; field *)
(* unknown holds the keys that no operation has.                           *)
(***************************************************************************)
EXTENDS Integers, Sequences, SequencesExt

\* Scaled to the inputs from 32 and 8.
MaxVisibilityAssertions == 2
MaxBehaviorAssertions == 2

NoArguments ==
    [profile |-> <<>>, dshHome |-> <<>>, dshPackageRoot |-> <<>>, patches |-> <<>>,
     query |-> <<>>, kinds |-> <<>>, limit |-> <<>>,
     contractIndexFingerprint |-> <<>>, contractId |-> <<>>,
     kind |-> <<>>, path |-> <<>>, executionPolicy |-> <<>>,
     visibilityAssertions |-> <<>>, behaviorAssertions |-> <<>>, id |-> <<>>, unknown |-> <<>>]
TargetKeys == {"profile", "dshHome", "dshPackageRoot", "patches"}
Given(args) == {key \in DOMAIN args : args[key] # <<>>}
Values(args, keys) == UNION {ToSet(args[key]) : key \in keys}

NonEmpty(value) == value \notin {"empty", "ill"}
NonBlank(value) == value \notin {"empty", "blank", "ill"}
ProfileNames == {"p", "blank", "web"}               \* of those used here
CanonicalKinds == {"service", "method"}

\* parseTargetResolveRequestWithMessage.
ValidTarget(args) ==
    /\ \E profile \in ToSet(args.profile) : profile \in ProfileNames
    /\ \A value \in ToSet(args.dshHome) \cup ToSet(args.dshPackageRoot) : NonEmpty(value)
    /\ \A patches \in ToSet(args.patches) : \A patch \in ToSet(patches) : NonEmpty(patch)

\* parsePluginVisibilityAssertions: <<kind, name>>; a too long name is "ill".
ValidVisibility(assertions) ==
    /\ Len(assertions) \in 1..MaxVisibilityAssertions
    /\ \A a \in ToSet(assertions) : a[1] \in {"host-service", "agent-tool"} /\ NonBlank(a[2])
    /\ IsInjective(assertions)

\* parsePluginBehaviorAssertions: <<name, arguments, expected>> with JSON
\* values that are objects of one or two keys in some order; two with the
\* same canonical form are the same assertion.
Canonical(value) == IF value = "{b,a}" THEN "{a,b}" ELSE value
ValidBehavior(assertions) ==
    /\ Len(assertions) \in 1..MaxBehaviorAssertions
    /\ \A a \in ToSet(assertions) : NonBlank(a[1]) /\ "ill" \notin {a[2], a[3]}
    /\ IsInjective([i \in DOMAIN assertions |->
           <<assertions[i][1], Canonical(assertions[i][2]), Canonical(assertions[i][3])>>])

\* parseContractSearchRequest, ... : the rest of each operation.
ValidSearch(args) ==
    /\ \E query \in ToSet(args.query) : NonBlank(query)
    /\ \A kinds \in ToSet(args.kinds) : ToSet(kinds) \subseteq CanonicalKinds /\ IsInjective(kinds)
    /\ \A limit \in ToSet(args.limit) : limit \in {"1", "25"}
ValidInspect(args) ==
    /\ args.contractIndexFingerprint = <<"fingerprint">>
    /\ \E id \in ToSet(args.contractId) : NonEmpty(id)
ValidCheck(args) ==
    /\ \E kind \in ToSet(args.kind) : kind \in {"directory", "packed"}
    /\ \E path \in ToSet(args.path) : NonEmpty(path)
ValidVerify(args) ==
    /\ \A assertions \in ToSet(args.visibilityAssertions) : ValidVisibility(assertions)
    /\ \A assertions \in ToSet(args.behaviorAssertions) : ValidBehavior(assertions)
    /\ args.kind = <<"packed">> /\ args.executionPolicy = <<"safe">>
    /\ \E path \in ToSet(args.path) : NonEmpty(path)

\* parseOperationRequest; a too long id is "ill".
ValidOperation(args) == \E id \in ToSet(args.id) : NonBlank(id)

VerifyKeys == {"kind", "path", "executionPolicy", "visibilityAssertions", "behaviorAssertions"}
Keys ==
    [resolve |-> {}, search |-> {"query", "kinds", "limit"},
     inspect |-> {"contractIndexFingerprint", "contractId"},
     check |-> {"kind", "path"},
     verify |-> VerifyKeys, start |-> VerifyKeys, get |-> {"id"}, cancel |-> {"id"}]
Operations == DOMAIN Keys
\* Those that are asked about a target.
Targeted == Operations \ {"get", "cancel"}
\* parse...Request of an operation returns its arguments or throws.
Parses(operation, args) ==
    /\ Given(args) \subseteq Keys[operation] \cup (IF operation \in Targeted THEN TargetKeys ELSE {})
    /\ operation \in Targeted => ValidTarget(args)
    /\ operation = "search" => ValidSearch(args)
    /\ operation = "inspect" => ValidInspect(args)
    /\ operation = "check" => ValidCheck(args)
    /\ operation \in {"verify", "start"} => ValidVerify(args)
    /\ operation \in {"get", "cancel"} => ValidOperation(args)

\* The input schema of a tool (spec/schemas/v1), as the MCP library checks it.
SchemaAllows(operation, args) ==
    Parses(operation, args) /\ \A path \in ToSet(args.path) : NonBlank(path)
=============================================================================
