--------------------------- MODULE ContractSearch ----------------------------
(***************************************************************************)
(* The search of a contract index (src/model/contract.ts,                  *)
(* contract-search-index.ts): a strict lane, then an intent lane that      *)
(* answers at most one contract, looks only at candidates found through    *)
(* the rarest words, or abstains.                                          *)
(*                                                                         *)
(* A query is [words, kinds, limit, api]: its words, the kinds asked for   *)
(* ({}: all), the limit, and <<package, identifier>> when the text names   *)
(* an identifier of a package ({} otherwise).  Whether one text contains   *)
(* another is abstracted to whether it contains its words.                 *)
(***************************************************************************)
EXTENDS ContractModel, TLC

CONSTANTS
    Vocabulary,         \* the words, in the order of their texts
    InverseFrequency    \* the table of Idf, by documents and those that hold a word

ASSUME WordsAssumption ==
    /\ Vocabulary \in Seq(STRING)
    /\ InverseFrequency \in Seq(Seq(Nat))
    /\ \A n \in DOMAIN InverseFrequency : Len(InverseFrequency[n]) = n

WordNumber(word) == CHOOSE i \in DOMAIN Vocabulary : Vocabulary[i] = word
StopWords == {"the"}
KeyWords(key) == IF key = "declaration-export" THEN {"declaration", "export"} ELSE {key}
Prefix == [event |-> "event", package |-> "package", service |-> "ctx", tool |-> "tool"]
Name(contract) == "n" \o ToString(contract.id[2])
IdentityWords(contract) == {Name(contract), Prefix[contract.id[1]]}
FactWords(fact) == KeyWords(fact.key) \cup fact.value
WordsOfFacts(contract) == UNION {FactWords(fact) : fact \in contract.facts}
KindWords(contract) == {contract.id[1]}

-----------------------------------------------------------------------------
\* strictLexicalMatch: the whole text, or each word of it, in the names; then
\* in facts and summary.  A witness is the evidence returned with a match.
Existence(contract) ==
    IF contract.evidence = {} THEN {} ELSE {CHOOSE id \in contract.evidence : TRUE}

StrictScore(contract, words) ==
    IF words = {Name(contract)} THEN 550
    ELSE IF words = {Prefix[contract.id[1]]} THEN 500
    ELSE IF words \subseteq IdentityWords(contract) THEN 400
    ELSE IF words \subseteq WordsOfFacts(contract) \cup contract.summary THEN 200
    ELSE 0
StrictWitness(contract, words) ==
    LET shown == {word \in words : word \in WordsOfFacts(contract)}
        fact(word) == CHOOSE f \in contract.facts : word \in FactWords(f)
        whole == {f \in contract.facts : words \subseteq FactWords(f)}
    IN  IF StrictScore(contract, words) > 200 THEN Existence(contract)
        ELSE IF whole # {} THEN (CHOOSE f \in whole : TRUE).evidence
        ELSE IF words \subseteq contract.summary THEN Existence(contract)
        ELSE (UNION {fact(word).evidence : word \in shown})
                      \cup (IF shown = words THEN {} ELSE Existence(contract))

-----------------------------------------------------------------------------
\* The derived index (createContractSearchIndex): which contracts hold a word.
\* A word that d of n documents hold counts Math.log(1 + (n - d + 0.5) / (d + 0.5)),
\* in millionths.
Terms(contract) ==
    IdentityWords(contract) \cup WordsOfFacts(contract) \cup contract.summary \cup KindWords(contract)
Postings(index, word) == {i \in DOMAIN index.contracts : word \in Terms(index.contracts[i])}
Frequency(index, word) == Cardinality(Postings(index, word))

Idf(index, word) ==
    IF Frequency(index, word) = 0 THEN 0
    ELSE InverseFrequency[Len(index.contracts)][Frequency(index, word)]

\* intentQueryTokens, requiredIntentMatches.
IntentWords(query) == query.words \ StopWords
Least(S) == CHOOSE x \in S : \A y \in S : x <= y
Greatest(S) == CHOOSE x \in S : \A y \in S : x >= y
RequiredMatches(n) ==
    IF n <= 1 THEN n ELSE Least({3, Greatest({2, (2 * n + 4) \div 5})})

\* appendIntentSearchTokenEvidence: twice the weight of the first field that
\* holds the word, and its evidence.
FieldWeight(contract, word) ==
    IF word \in IdentityWords(contract) THEN 8
    ELSE IF word \in WordsOfFacts(contract) THEN 6
    ELSE IF word \in contract.summary THEN 4
    ELSE IF word \in KindWords(contract) THEN 1
    ELSE 0
WordEvidence_Existence(contract, word) == Existence(contract)
WordEvidence(contract, word) ==
    IF FieldWeight(contract, word) = 6
    THEN UNION {fact.evidence : fact \in {f \in contract.facts : word \in FactWords(f)}}
    ELSE Existence(contract)

\* intentMatch: coverage rewards the share of the words, coherence those that
\* stand in one fact.
MatchedWords(contract, words) == {word \in words : FieldWeight(contract, word) > 0}
Coherence(contract, words) ==
    LET together == {Cardinality(words \cap FactWords(fact)) : fact \in contract.facts} \cup {1}
    IN  Greatest(together) - 1
Coverage(matched, all) == (100 * matched + all) \div (2 * all)
Weighted(index, contract, words) ==
    MapThenSumSet(LAMBDA word : FieldWeight(contract, word) * Idf(index, word), words)
IntentScore(index, contract, words) ==
    (Weighted(index, contract, words) + 10000) \div 20000
    + Coverage(Cardinality(MatchedWords(contract, words)), Cardinality(words))
    + Coherence(contract, words)
IntentWitness(contract, words) ==
    UNION {WordEvidence(contract, word) : word \in MatchedWords(contract, words)}

\* contractSearchCandidatesForRanking: a contract with enough matches holds
\* one of any (words - required + 1) words; the rarest are looked up.
ToCover_OneLess(words, required) == Cardinality(words) - required
ToCover(words, required) == Cardinality(words) - required + 1
Rarer(index, left, right) ==
    \/ Frequency(index, left) < Frequency(index, right)
    \/ /\ Frequency(index, left) = Frequency(index, right)
       /\ WordNumber(left) < WordNumber(right)
RarestWords(index, words, n) ==
    SubSeq(InOrder(words, {p \in words \X words : Rarer(index, p[1], p[2])}), 1, n)
Visits(index, words) == FoldSeq(LAMBDA word, sum : sum + Frequency(index, word), 0, words)
Candidates(index, scope, words, required) ==
    LET rarest == RarestWords(index, words, ToCover(words, required))
    IN  IF Cardinality(words) < required THEN {}
        ELSE IF Visits(index, rarest) >= Cardinality(scope) THEN scope
        ELSE scope \cap UNION {Postings(index, word) : word \in ToSet(rarest)}

-----------------------------------------------------------------------------
\* rankedMatches: by score, then by qualified name.
QualifiedKinds == <<"service", "event", "package", "tool">>
QualifiedPrecedes(left, right) ==
    LET number(id) == CHOOSE i \in DOMAIN QualifiedKinds : QualifiedKinds[i] = id[1]
    IN  number(left) < number(right) \/ (left[1] = right[1] /\ left[2] < right[2])
Ranked(index, scored, limit) ==
    LET before(l, r) ==
            \/ l.score > r.score
            \/ l.score = r.score
               /\ QualifiedPrecedes(index.contracts[l.at].id, index.contracts[r.at].id)
        all == InOrder(scored, {p \in scored \X scored : before(p[1], p[2])})
    IN  SubSeq(all, 1, IF Len(all) < limit THEN Len(all) ELSE limit)
Match(at, score, witness) == [at |-> at, score |-> score, witness |-> witness]

\* rankContractSearch, searchContractIndex.
Scope(index, query) ==
    {i \in DOMAIN index.contracts : query.kinds = {} \/ index.contracts[i].id[1] \in query.kinds}
StrictMatches(index, query) ==
    LET strict(i) == StrictScore(index.contracts[i], query.words)
    IN  Ranked(index, {Match(i, strict(i), StrictWitness(index.contracts[i], query.words)) :
                          i \in {j \in Scope(index, query) : strict(j) > 0}}, query.limit)

Exports(contract, identifier) ==
    \E fact \in contract.facts : fact.key = "declaration-export" /\ fact.value = identifier
NamesAbsentApi(index, query) ==
    /\ query.api # <<>>
    /\ \E i \in Scope(index, query) :
           index.contracts[i].id = query.api[1] /\ ~Exports(index.contracts[i], query.api[2])

IntentMatches(index, query) ==
    LET words == IntentWords(query)
        required == RequiredMatches(Cardinality(words))
        enough == {i \in Candidates(index, Scope(index, query), words, required) :
                      Cardinality(MatchedWords(index.contracts[i], words)) >= required}
    IN  Ranked(index, {Match(i, IntentScore(index, index.contracts[i], words),
                             IntentWitness(index.contracts[i], words)) : i \in enough},
               Least({query.limit, 1}))

Searched(index, query) ==
    LET strict == StrictMatches(index, query)
    IN  IF strict # <<>> THEN [lane |-> "strict", matches |-> strict]
        ELSE IF Cardinality(query.words) < 2 \/ Cardinality(IntentWords(query)) < 2
                \/ NamesAbsentApi(index, query)
             THEN [lane |-> "none", matches |-> <<>>]
             ELSE LET matches == IntentMatches(index, query)
                  IN  [lane |-> IF matches = <<>> THEN "none" ELSE "intent", matches |-> matches]
SearchEvidence(index, matches) ==
    EvidenceFor(index, UNION {matches[i].witness : i \in DOMAIN matches})
=============================================================================
