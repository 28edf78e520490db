-------------------------- MODULE MCContractAnswers --------------------------
(***************************************************************************)
(* Small calls for TLC: searches of three packages, and searches and       *)
(* inspections of one package with what live providers list.               *)
(***************************************************************************)
EXTENDS ContractAnswers

Words == <<"a", "b", "c", "ctx", "declaration", "event", "export", "installed", "n1", "n2",
           "n3", "n4", "package", "service", "the", "tool">>
Logarithms == <<
    <<287682>>,
    <<693147, 182322>>,
    <<980829, 470004, 133531>>,
    <<1203973, 693147, 356675, 105361>>,
    <<1386294, 875469, 538997, 287682, 87011>>,
    <<1540445, 1029619, 693147, 441833, 241162, 74108>>,
    <<1673976, 1163151, 826679, 575364, 374693, 207639, 64539>> >>

\* Small catalogs: one row, two rows with one key, a changed one, broken ones.
Catalogs(provider) ==
    CASE provider = "service" ->
            {Listed(<<>>), Listed(<<Service(1, {"a"}, {{"a"}, {"b"}})>>),
             Listed(<<Service(1, {"a"}, {{"a"}}), Service(1, {}, {{"b"}, {"a", "b"}})>>),
             Listed(<<Service(1, {"a"}, {}), Service(1, {"b"}, {})>>)}
      [] provider = "event" -> {Listed(<<Event(1, {"a"})>>), Listed(<<Event(2, {}), Event(1, {"c"})>>)}
      [] OTHER -> {Listed(<<Tool(1, {"a", "b"})>>)}
AnyCatalog(provider) ==
    Catalogs(provider) \cup 
    {Broken(shape) : shape \in {"absent", "malformed", "too many methods", "over json limits"}}

Ample == [maxProviderEntries |-> 9, maxContracts |-> 6,
          maxFactsPerContract |-> 9, maxFactsTotal |-> 9]
Tight == {[Ample EXCEPT ![limit] = n] : limit \in DOMAIN Ample, n \in 1..3}

Query(words, kinds, limit, api) == [words |-> words, kinds |-> kinds, limit |-> limit, api |-> api]
Inspection(id) == [id |-> id]
ExportSets == {{}, {{"a"}}, {{"a"}, {"b"}}, {{"a", "b"}, {"c"}}, {{"b"}, {"c"}}, {{"a", "b", "c"}}}
OfflineQueries ==
    {Query(words, {}, 2, <<>>) :
        words \in {w \in SUBSET {"a", "b", "c", "n1", "installed", "the"} : Cardinality(w) \in 1..4}}
    \cup {Query({"n1", "a", "c", "the"}, kinds, 2, <<<<"package", 1>>, {"a"}>>) :
             kinds \in {{}, {"package"}, {"service"}}}
LiveQueries ==
    {Query({"a"}, {}, 2, <<>>), Query({"a", "b", "the"}, {"service", "tool"}, 1, <<>>),
     Inspection(<<"service", 1>>), Inspection(<<"event", 2>>)}

SmallCalls ==
    [exports : [1..3 -> ExportSets], query : OfflineQueries, limits : {<<>>},
     host : {[provider \in ToSet(Providers) |-> Broken("absent")]}]
    \cup [exports : {<<{{"a"}, {"b"}}>>}, query : LiveQueries, limits : Tight \cup {Ample},
          host : {[service |-> s, event |-> e, tool |-> t] :
                     s \in AnyCatalog("service"), e \in AnyCatalog("event"), t \in AnyCatalog("tool")}]
=============================================================================
