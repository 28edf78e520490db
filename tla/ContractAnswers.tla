--------------------------- MODULE ContractAnswers ---------------------------
(***************************************************************************)
(* One call of searchContracts or inspectContract after the declarations   *)
(* of the packages were read: the providers of the live Host are asked one *)
(* after the other (createDshLiveContractEnrichment,                       *)
(* src/integrations/dsh/live-inspect.ts), what they list is normalized     *)
(* under limits and merged, the index is made (buildContractIndex,         *)
(* src/kernel/index.ts), searched or inspected, and answered.              *)
(***************************************************************************)
EXTENDS ContractSearch

CONSTANT
    Calls       \* the calls to look at, each [exports, query, limits, host]

VARIABLES
    base,       \* input: evidence and contracts of the declarations
    query,      \* input: the query of a search; an inspection asks for [id]
    limits,     \* input: limits of the enrichment; <<>> when nothing enriches
    host,       \* input: provider -> what it answers; each is asked at most once
    plan,       \* providers still to be asked, in their order
    acquired,   \* what was merged so far of the providers
    index,      \* the index, <<>> before
    response,   \* the selection that is answered
    answer      \* "none", "ok", or the code of the error

inputs == <<base, query, limits, host>>
vars == <<inputs, plan, acquired, index, response, answer>>

-----------------------------------------------------------------------------
Nothing == [evidence |-> {}, contracts |-> <<>>]
Providers == <<"service", "event", "tool">>

\* Rows of catalogs: numbers stand for keys and names.
Service(n, words, signatures) == [n |-> n, words |-> words, signatures |-> signatures]
Event(n, words) == [n |-> n, words |-> words, signatures |-> {{"a"}}]
Tool(n, words) == [n |-> n, words |-> words, signatures |-> {{"b"}}]
Listed(rows) == [shape |-> "catalog", rows |-> rows]
Broken(shape) == [shape |-> shape, rows |-> <<>>]

EvidenceId(provider) == <<provider, 1>>
FactKey(provider) ==
    CASE provider = "service" -> "method-signature" [] provider = "event" -> "listener-signature"
      [] OTHER -> "parameters-schema"

\* normalizeServices, normalizeEvents, normalizeTools.  The hash of the
\* evidence stands for the whole catalog.
Normalized(provider, catalog) ==
    LET cited == {EvidenceId(provider)}
        contract(row) ==
            [id |-> <<provider, row.n>>,
             availability |-> IF provider = "tool" THEN "available" ELSE "unknown",
             summary |-> row.words,
             facts |-> {[key |-> FactKey(provider), value |-> value, evidence |-> cited] :
                           value \in row.signatures}
                       \cup (IF provider = "event"
                             THEN {[key |-> "dispatch-mode", value |-> {"c"}, evidence |-> cited]}
                             ELSE {}),
             evidence |-> cited]
    IN  [evidence |-> {[id |-> EvidenceId(provider), content |-> catalog.rows]},
         contracts |-> [i \in DOMAIN catalog.rows |-> contract(catalog.rows[i])]]

\* validateJsonValue, the catalogs' own checks, enforceNormalizedLimits.
FactCount(contracts) == MapThenSumSet(LAMBDA i : Cardinality(contracts[i].facts), DOMAIN contracts)
Exceeds(contracts) ==
    \/ Len(contracts) > limits.maxContracts
    \/ \E i \in DOMAIN contracts : Cardinality(contracts[i].facts) > limits.maxFactsPerContract
    \/ FactCount(contracts) > limits.maxFactsTotal
LimitExceeded == "CONTRACT_LIVE_EVIDENCE_LIMIT_EXCEEDED"
CatalogFailure(provider, catalog) ==
    IF catalog.shape \in {"too many methods", "over json limits"} THEN LimitExceeded
    ELSE IF catalog.shape = "malformed" THEN Invalid
    ELSE IF provider # "event" /\ Exceeds(Normalized(provider, catalog).contracts) THEN LimitExceeded
    ELSE IF Len(catalog.rows) > limits.maxContracts THEN LimitExceeded
    ELSE "none"

-----------------------------------------------------------------------------
\* What the declarations of package n give, for the words of each export.
Package(n, exports) ==
    [id |-> <<"package", n>>, availability |-> "unknown",
     summary |-> {"installed", "package", "n" \o ToString(n)},
     evidence |-> {<<"manifest", n>>, <<"types", n>>},
     facts |-> {[key |-> "declaration-export", value |-> value,
                 evidence |-> {<<"types", n>>}] : value \in exports}]
Packages(exports) ==
    [contracts |-> [n \in DOMAIN exports |-> Package(n, exports[n])],
     evidence |-> {[id |-> <<of, n>>, content |-> n] : of \in {"manifest", "types"}, n \in DOMAIN exports}]

IsSearch == "words" \in DOMAIN query

\* What a call may be: finitely many exports and rows, a query with words of
\* the vocabulary and a positive limit, no more contracts than the table knows.
Queries ==
    [words : SUBSET ToSet(Vocabulary), kinds : SUBSET ToSet(Kinds), limit : Nat \ {0},
     api : {<<>>} \cup ((STRING \X Nat) \X SUBSET STRING)]
    \cup [id : STRING \X Nat]
Limits == [maxProviderEntries : Nat, maxContracts : Nat, maxFactsPerContract : Nat, maxFactsTotal : Nat]
Rows == [n : Nat, words : SUBSET STRING, signatures : SUBSET SUBSET STRING]
Answering == [shape : STRING, rows : Seq(Rows)]
IsCall(call) ==
    /\ call.exports \in Seq(SUBSET SUBSET STRING)
    /\ \A n \in DOMAIN call.exports : IsFiniteSet(call.exports[n])
    /\ call.query \in Queries
    /\ call.host \in [ToSet(Providers) -> Answering]
    /\ \A provider \in ToSet(Providers) : \A i \in DOMAIN call.host[provider].rows :
           IsFiniteSet(call.host[provider].rows[i].signatures)
    /\ \/ call.limits = <<>> /\ Len(call.exports) <= Len(InverseFrequency)
       \/ /\ call.limits \in Limits
          /\ Len(call.exports) + call.limits.maxContracts <= Len(InverseFrequency)

ASSUME CallsAssumption == \A call \in Calls : IsCall(call)

Init ==
    /\ \E call \in Calls :
           /\ base = Packages(call.exports)
           /\ query = call.query
           /\ limits = call.limits
           /\ host = call.host
    /\ plan = IF limits = <<>> THEN <<>> ELSE Providers
    /\ acquired = Nothing
    /\ index = <<>> /\ response = <<>>
    /\ answer = "none"

Fails(code) ==
    answer' = code /\ UNCHANGED <<inputs, plan, acquired, index, response>>

\* The directory of providers is checked before anything is asked.
DirectoryTooLong ==
    limits.maxProviderEntries < Cardinality({p \in DOMAIN host : host[p].shape # "absent"})
RefuseDirectory ==
    answer = "none" /\ plan = Providers /\ DirectoryTooLong /\ Fails(LimitExceeded)

\* providerSupportsPlan, queryProvider and normalize, then the merge with what
\* the providers before have given.  A query may reject, or be aborted.
AskProvider ==
    /\ answer = "none" /\ plan # <<>> /\ (plan = Providers => ~DirectoryTooLong)
    /\ LET provider == Head(plan)
           catalog == host[provider]
           next == Normalized(provider, catalog)
           merged == Merge(acquired, next)
       IN  \/ /\ catalog.shape = "absent"
              /\ plan' = Tail(plan)
              /\ UNCHANGED <<inputs, acquired, index, response, answer>>
           \/ catalog.shape # "absent" /\ \E code \in {Invalid, "aborted"} : Fails(code)
           \/ /\ catalog.shape # "absent"
              /\ CatalogFailure(provider, catalog) # "none"
              /\ Fails(CatalogFailure(provider, catalog))
           \/ /\ catalog.shape = "catalog" /\ CatalogFailure(provider, catalog) = "none"
              /\ \/ MergeFails(acquired, next) /\ Fails(Invalid)
                 \/ ~MergeFails(acquired, next) /\ Exceeds(merged.contracts) /\ Fails(LimitExceeded)
                 \/ /\ ~MergeFails(acquired, next) /\ ~Exceeds(merged.contracts)
                    /\ acquired' = merged
                    /\ plan' = Tail(plan)
                    /\ UNCHANGED <<inputs, index, response, answer>>

\* buildContractIndex.
MakeIndex ==
    /\ answer = "none" /\ plan = <<>> /\ index = <<>>
    /\ \/ limits # <<>> /\ MergeFails(base, acquired) /\ Fails(Invalid)
       \/ /\ limits = <<>> \/ ~MergeFails(base, acquired)
          /\ LET made == CreateIndex(IF limits = <<>> THEN base ELSE Merge(base, acquired))
             IN  /\ index' = IF ReferencesHold(made) THEN made ELSE index
                 /\ answer' = IF ReferencesHold(made) THEN answer ELSE "internal error"
                 /\ UNCHANGED <<inputs, plan, acquired, response>>

Respond ==
    /\ answer = "none" /\ index # <<>>
    /\ \/ /\ IsSearch
          /\ LET found == Searched(index, query)
             IN  response' = [lane |-> found.lane, matches |-> found.matches,
                              evidence |-> SearchEvidence(index, found.matches)]
          /\ answer' = "ok"
       \/ /\ ~IsSearch /\ query.id \in Ids(index.contracts)
          /\ response' = Inspected(index, query.id)
          /\ answer' = "ok"
       \/ /\ ~IsSearch /\ query.id \notin Ids(index.contracts)
          /\ answer' = "CONTRACT_NOT_FOUND"
          /\ UNCHANGED response
    /\ UNCHANGED <<inputs, plan, acquired, index>>

Answered == answer # "none" /\ UNCHANGED vars

Next == RefuseDirectory \/ AskProvider \/ MakeIndex \/ Respond \/ Answered

Spec == Init /\ [][Next]_vars

-----------------------------------------------------------------------------
\* Whatever was merged, the index keeps every package and every row a provider
\* listed, with all their facts, and no fact or contract cites evidence the
\* index does not have; a response that does not validate is never computed.
MergedFactsAreKept ==
    /\ answer # "internal error"
    /\ index # <<>> =>
           LET facts(id) == {<<f.key, f.value>> : f \in UNION {c.facts : c \in Named(index.contracts, id)}}
               keeps(contract) ==
                   /\ contract.id \in Ids(index.contracts)
                   /\ {<<f.key, f.value>> : f \in contract.facts} \subseteq facts(contract.id)
           IN  /\ \A i \in DOMAIN base.contracts : keeps(base.contracts[i])
               /\ limits # <<>> => \A provider \in DOMAIN host :
                      \/ host[provider].shape = "absent"
                      \/ LET rows == Normalized(provider, host[provider]).contracts
                         IN  \A i \in DOMAIN rows : keeps(rows[i])
               /\ \A i \in DOMAIN index.contracts :
                      (index.contracts[i].availability = "available") <=> (index.contracts[i].id[1] = "tool")
               /\ limits # <<>> => Len(index.contracts) <= Len(base.contracts) + limits.maxContracts

\* The rarest words never hide a contract: where the strict lane finds nothing
\* and the query names no absent identifier, the answer is a contract that
\* matches enough words, no other matches better, and it is empty only when
\* none does.
PruningLosesNothing ==
    answer = "ok" /\ IsSearch /\ response.lane # "strict" =>
        LET words == IntentWords(query)
            eligible == {i \in Scope(index, query) :
                            Cardinality(MatchedWords(index.contracts[i], words))
                                >= RequiredMatches(Cardinality(words))}
            score(i) == IntentScore(index, index.contracts[i], words)
        IN  \/ Cardinality(words) < 2
            \/ NamesAbsentApi(index, query)
            \/ eligible = {} /\ response.matches = <<>>
            \/ \E i \in eligible : /\ response.matches # <<>>
                                   /\ response.matches = <<Match(i, score(i), response.matches[1].witness)>>
                                   /\ \A j \in eligible : score(j) <= score(i)

\* A response carries exactly the evidence it cites, in canonical and in
\* compact form, and this evidence backs each word a contract was answered
\* for: all of them in the strict lane, enough of them in the other.
Backed(contract, word, witness) ==
    \/ \E fact \in contract.facts : word \in FactWords(fact) /\ fact.evidence \subseteq witness
    \/ /\ word \in IdentityWords(contract) \cup contract.summary \cup KindWords(contract)
       /\ witness \cap contract.evidence # {}
AnswersCarryTheirEvidence ==
    answer = "ok" =>
        LET cited == IF IsSearch THEN UNION {response.matches[i].witness : i \in DOMAIN response.matches}
                     ELSE CitedBy(response.contract)
            table == EvidenceTable(response.evidence)
        IN  /\ {item.id : item \in response.evidence} = cited
            /\ IsCompactable(cited, table)
            /\ IF IsSearch
               THEN \A i \in DOMAIN response.matches :
                       Restored(CompactSearch(response, table)[i].witness, table)
                           = response.matches[i].witness
               ELSE LET compact == CompactInspection(response, table)
                    IN  [compact EXCEPT
                            !.evidence = Restored(@, table),
                            !.facts = {[fact EXCEPT !.evidence = Restored(@, table)] : fact \in @}]
                        = response.contract
            /\ IsSearch => \A i \in DOMAIN response.matches :
                   LET match == response.matches[i]
                       backed == {word \in query.words :
                                     Backed(index.contracts[match.at], word, match.witness)}
                   IN  IF response.lane = "strict" THEN backed = query.words
                       ELSE Cardinality(backed \cap IntentWords(query))
                                >= RequiredMatches(Cardinality(IntentWords(query)))
=============================================================================
