---------------------------- MODULE ContractModel ----------------------------
(***************************************************************************)
(* Contracts, their merging and the index (src/model/contract.ts).         *)
(*                                                                         *)
(* A contract is a record [id, availability, summary, facts, evidence];    *)
(* its id, <<kind, number>>, determines kind and names.  A fact is         *)
(* [key, value, evidence]; a summary, or the value of a fact, is the set   *)
(* of words it consists of, and {} is no summary.  Evidence is             *)
(* [id, content], its id <<what, number>>.  Lists whose order means        *)
(* something are sequences.                                                *)
(***************************************************************************)
EXTENDS Naturals, FiniteSets, Sequences, SequencesExt, FiniteSetsExt

Invalid == "CONTRACT_LIVE_EVIDENCE_INVALID"

\* The elements of S by a strict order that is total on S, a set of pairs: in
\* each place the one that so many precede.
InOrder(S, precedes) ==
    [k \in 1..Cardinality(S) |->
        CHOOSE x \in S : Cardinality({y \in S : <<y, x>> \in precedes}) = k - 1]

Ids(contracts) == {contracts[i].id : i \in DOMAIN contracts}
Named(contracts, id) == {contracts[i] : i \in {j \in DOMAIN contracts : contracts[j].id = id}}

\* sameEvidence, mergedAvailability, mergedSummary: when merging throws.
Conflict(evidence, contracts) ==
    \/ \E left, right \in evidence : left.id = right.id /\ left # right
    \/ \E i, j \in DOMAIN contracts :
         /\ contracts[i].id = contracts[j].id
         /\ \/ /\ "unknown" \notin {contracts[i].availability, contracts[j].availability}
               /\ contracts[i].availability # contracts[j].availability
            \/ /\ {} \notin {contracts[i].summary, contracts[j].summary}
               /\ contracts[i].summary # contracts[j].summary

\* mergedFacts: one fact for each key and value, with all its evidence.
MergedFacts(facts) ==
    {[fact EXCEPT !.evidence =
          UNION {other.evidence : other \in {f \in facts : f.key = fact.key /\ f.value = fact.value}}] :
        fact \in facts}

\* mergeContract, for all contracts of one id.
Merged_FirstFacts(group) ==
    LET some == CHOOSE contract \in group : TRUE
    IN  [some EXCEPT !.evidence = UNION {contract.evidence : contract \in group}]
Merged(group) ==
    LET some == CHOOSE contract \in group : TRUE
        known == {contract.availability : contract \in group} \ {"unknown"}
    IN  [id |-> some.id,
         availability |-> IF known = {} THEN "unknown" ELSE CHOOSE a \in known : TRUE,
         summary |-> UNION {contract.summary : contract \in group},
         facts |-> IF Cardinality(group) = 1 THEN some.facts
                   ELSE MergedFacts(UNION {contract.facts : contract \in group}),
         evidence |-> UNION {contract.evidence : contract \in group}]

\* mergeAcquiredContractFacts, where nothing conflicts: the first position of
\* an id stays that of the merged contract.
FirstIndexes(contracts) ==
    {i \in DOMAIN contracts : \A j \in 1..(i - 1) : contracts[j].id # contracts[i].id}
MergeContracts(contracts) ==
    LET first == InOrder(FirstIndexes(contracts),
                         {p \in (DOMAIN contracts) \X (DOMAIN contracts) : p[1] < p[2]})
    IN  [k \in DOMAIN first |-> Merged(Named(contracts, contracts[first[k]].id))]
Merge(base, more) ==
    [evidence |-> base.evidence \cup more.evidence,
     contracts |-> MergeContracts(base.contracts \o more.contracts)]
MergeFails(base, more) ==
    Conflict(base.evidence \cup more.evidence, base.contracts \o more.contracts)

-----------------------------------------------------------------------------
\* createContractIndex: contracts in the order of their ids.  What
\* validateReferences throws for is an internal error, never an answer.
Kinds == <<"event", "package", "service", "tool">>
KindNumber(kind) == CHOOSE i \in DOMAIN Kinds : Kinds[i] = kind
IdPrecedes(left, right) ==
    \/ KindNumber(left[1]) < KindNumber(right[1])
    \/ left[1] = right[1] /\ left[2] < right[2]
CreateIndex(facts) ==
    LET contracts == facts.contracts
        sorted == InOrder(DOMAIN contracts,
                          {p \in (DOMAIN contracts) \X (DOMAIN contracts) :
                              IdPrecedes(contracts[p[1]].id, contracts[p[2]].id)})
    IN  [evidence |-> facts.evidence, contracts |-> [k \in DOMAIN sorted |-> contracts[sorted[k]]]]

CitedBy(contract) == contract.evidence \cup UNION {fact.evidence : fact \in contract.facts}
ReferencesHold(index) ==
    LET known == {item.id : item \in index.evidence}
    IN  /\ Cardinality(known) = Cardinality(index.evidence)
        /\ Cardinality(Ids(index.contracts)) = Len(index.contracts)
        /\ \A i \in DOMAIN index.contracts :
               /\ CitedBy(index.contracts[i]) \subseteq known
               /\ \A fact \in index.contracts[i].facts : fact.evidence # {}

\* inspectContractIndex, and the evidence of a selection (evidenceSubset).
EvidenceFor(index, ids) == {item \in index.evidence : item.id \in ids}
Inspected(index, id) ==
    LET contract == CHOOSE c \in Named(index.contracts, id) : TRUE
    IN  [contract |-> contract, evidence |-> EvidenceFor(index, CitedBy(contract))]

-----------------------------------------------------------------------------
\* The compact projections for a model: evidence ids become their positions in
\* the list of evidence (createCompactEvidenceTable), and are read back from it.
\* An id that is not in the list makes the projection throw.
EvidenceTable(evidence) == SetToSeq({item.id : item \in evidence})
Refs(ids, table) == {i \in DOMAIN table : table[i] \in ids}
IsCompactable(ids, table) == ids \subseteq ToSet(table)
Restored(refs, table) == {table[i] : i \in refs}

CompactSearch(response, table) ==
    [i \in DOMAIN response.matches |-> [response.matches[i] EXCEPT !.witness = Refs(@, table)]]
CompactInspection(response, table) ==
    [response.contract EXCEPT !.evidence = Refs(@, table),
                              !.facts = {[fact EXCEPT !.evidence = Refs(@, table)] : fact \in @}]
=============================================================================
