------------------------- MODULE ContractAnswersProofs -------------------------
(***************************************************************************)
(* Theorems about a call of searchContracts or inspectContract: for any    *)
(* calls, vocabulary and inverse frequencies, any facts acquired, and      *)
(* whatever the live providers list.  Merging loses nothing, looking up    *)
(* only the rarest words hides nothing, and what is answered carries the   *)
(* evidence that backs it.                                                 *)
(*                                                                         *)
(* First come the orders, sums and lists that the model computes with its  *)
(* folds; then what merging, the index, the ranking and the compact forms  *)
(* do; and between them the invariant of a call.                           *)
(***************************************************************************)
EXTENDS ContractAnswers, WellFoundedInduction, FiniteSetTheorems, SequenceTheorems, TLAPS

\* A set of numbers that is not empty has a least one.
LEMMA SomeIsLeast ==
    ASSUME NEW S \in SUBSET Nat, S # {}
    PROVE  \E n \in S : \A m \in S : n <= m
<1>1. PICK n \in S : \A m \in S : ~(<<m, n>> \in OpToRel(<, Nat))
  BY NatLessThanWellFounded, WFMin
<1>2. \A m \in S : ~(m < n)
  BY <1>1 DEF OpToRel
<1> QED BY <1>2

\* What holds of 0, and of n + 1 whenever of n, holds of every number: sets stand
\* for the induction, by their least counterexample.
LEMMA AllNumbers ==
    ASSUME NEW S, 0 \in S, \A n \in Nat : n \in S => n + 1 \in S
    PROVE  \A n \in Nat : n \in S
<1> DEFINE others == {n \in Nat : n \notin S}
<1>1. SUFFICES ASSUME others # {} PROVE FALSE
  OBVIOUS
<1>2. PICK n \in others : \A m \in others : n <= m
  BY <1>1, SomeIsLeast
<1>3. n # 0 /\ n - 1 \in Nat /\ n - 1 \notin others
  BY <1>2
<1> QED BY <1>2, <1>3

-----------------------------------------------------------------------------
(***************************************************************************)
(* Finite sets in an order.                                                *)
(***************************************************************************)
IsOrder(S, R) ==
    /\ \A x, y \in S : /\ <<x, y>> \in R => <<y, x>> \notin R
                       /\ x # y => <<x, y>> \in R \/ <<y, x>> \in R
    /\ \A x, y, z \in S : <<x, y>> \in R /\ <<y, z>> \in R => <<x, z>> \in R

\* InOrder lists each element of a finite set once, by the order.
LEMMA InOrderSorts ==
    ASSUME NEW S, IsFiniteSet(S), NEW R, IsOrder(S, R)
    PROVE  /\ Cardinality(S) \in Nat
           /\ InOrder(S, R) \in [1..Cardinality(S) -> S]
           /\ \A x \in S : \E k \in 1..Cardinality(S) : InOrder(S, R)[k] = x
           /\ \A j, k \in 1..Cardinality(S) : InOrder(S, R)[j] = InOrder(S, R)[k] => j = k
           /\ \A j, k \in 1..Cardinality(S) : j < k => <<InOrder(S, R)[j], InOrder(S, R)[k]>> \in R
<1> DEFINE n == Cardinality(S)
           below(x) == {y \in S : <<y, x>> \in R}
           rank == [x \in S |-> Cardinality(below(x))]
<1>1. n \in Nat
  BY FS_CardinalityType
<1>2. ASSUME NEW x \in S
      PROVE  IsFiniteSet(below(x)) /\ rank[x] \in 0..(n - 1)
  <2>1. below(x) \in SUBSET (S \ {x})
    BY DEF IsOrder
  <2>2. IsFiniteSet(S \ {x}) /\ Cardinality(S \ {x}) = n - 1
    BY FS_RemoveElement
  <2> HIDE DEF below
  <2>3. IsFiniteSet(below(x)) /\ Cardinality(below(x)) <= n - 1 /\ Cardinality(below(x)) \in Nat
    BY <2>1, <2>2, FS_Subset, FS_CardinalityType
  <2> QED BY <2>3, <1>1
<1>3. ASSUME NEW x \in S, NEW y \in S, <<x, y>> \in R
      PROVE  rank[x] < rank[y]
  <2>1. IsFiniteSet(below(x)) /\ IsFiniteSet(below(y))
    BY <1>2
  <2>2. x \notin below(x) /\ below(x) \cup {x} \in SUBSET below(y)
    BY <1>3 DEF IsOrder
  <2> HIDE DEF below
  <2>3. Cardinality(below(x) \cup {x}) = Cardinality(below(x)) + 1
    BY <2>1, <2>2, FS_AddElement
  <2>4. Cardinality(below(x) \cup {x}) <= Cardinality(below(y))
    BY <2>1, <2>2, FS_Subset
  <2>5. Cardinality(below(x)) \in Nat /\ Cardinality(below(y)) \in Nat
    BY <2>1, FS_CardinalityType
  <2> QED BY <2>3, <2>4, <2>5
<1> HIDE DEF n
<1>4. rank \in Injection(S, 0..(n - 1))
  <2>1. rank \in [S -> 0..(n - 1)]
    BY <1>2
  <2>2. \A x, y \in S : x # y => rank[x] # rank[y]
    <3> HIDE DEF rank
    <3> SUFFICES ASSUME NEW x \in S, NEW y \in S, x # y PROVE rank[x] # rank[y]
      OBVIOUS
    <3>1. rank[x] \in 0..(n - 1) /\ rank[y] \in 0..(n - 1)
      BY <1>2
    <3>2. rank[x] < rank[y] \/ rank[y] < rank[x]
      BY <1>3 DEF IsOrder
    <3> QED BY <3>1, <3>2, <1>1
  <2> HIDE DEF rank
  <2> QED BY <2>1, <2>2 DEF Injection, IsInjective
<1>5. rank \in Surjection(S, 0..(n - 1))
  <2>1. IsFiniteSet(0..(n - 1)) /\ Cardinality(0..(n - 1)) = n
    BY <1>1, FS_Interval
  <2> HIDE DEF rank
  <2> QED BY <2>1, <1>4, FS_Injection DEF n
<1> DEFINE list == InOrder(S, R)
<1>6. list = [k \in 1..n |-> CHOOSE x \in S : Cardinality(below(x)) = k - 1]
  BY DEF InOrder, n
<1> HIDE DEF list
<1>13. \A x \in S : rank[x] = Cardinality(below(x))
  OBVIOUS
<1> HIDE DEF rank
<1> HIDE DEF below
<1>7. ASSUME NEW k \in 1..n
      PROVE  list[k] \in S /\ rank[list[k]] = k - 1
  <2>1. k - 1 \in 0..(n - 1)
    BY <1>1
  <2>2. \E x \in S : rank[x] = k - 1
    BY <2>1, <1>5 DEF Surjection
  <2>3. list[k] = CHOOSE x \in S : Cardinality(below(x)) = k - 1
    BY <1>6
  <2>4. \E x \in S : Cardinality(below(x)) = k - 1
    BY <2>2, <1>13
  <2>5. list[k] \in S /\ Cardinality(below(list[k])) = k - 1
    BY <2>3, <2>4
  <2> QED BY <2>5, <1>13
<1>8. list \in [1..n -> S]
  BY <1>6, <1>7
<1>9. ASSUME NEW x \in S PROVE \E k \in 1..n : list[k] = x
  <2>1. rank[x] + 1 \in 1..n /\ (rank[x] + 1) - 1 = rank[x]
    BY <1>1, <1>2
  <2>2. list[rank[x] + 1] \in S /\ rank[list[rank[x] + 1]] = rank[x]
    BY <2>1, <1>7
  <2>3. list[rank[x] + 1] = x
    BY <2>2, <1>4 DEF Injection, IsInjective
  <2> QED BY <2>1, <2>3
<1>10. ASSUME NEW j \in 1..n, NEW k \in 1..n, list[j] = list[k] PROVE j = k
  BY <1>10, <1>7, <1>1
<1>11. ASSUME NEW j \in 1..n, NEW k \in 1..n, j < k PROVE <<list[j], list[k]>> \in R
  <2>1. list[j] \in S /\ list[k] \in S /\ rank[list[j]] = j - 1 /\ rank[list[k]] = k - 1
    BY <1>7
  <2>2. list[j] # list[k]
    BY <2>1, <1>11, <1>1
  <2>3. CASE <<list[k], list[j]>> \in R
    <3>1. rank[list[k]] < rank[list[j]]
      BY <2>1, <2>3, <1>3
    <3> QED BY <3>1, <2>1, <1>11, <1>1
  <2> QED BY <2>1, <2>2, <2>3 DEF IsOrder
<1> QED BY <1>1, <1>8, <1>9, <1>10, <1>11 DEF list, n

\* An order on whatever an injection numbers.
LEMMA NumbersOrder ==
    ASSUME NEW S, NEW f \in [S -> Nat], \A x, y \in S : f[x] = f[y] => x = y,
           NEW R, \A x, y \in S : <<x, y>> \in R <=> f[x] < f[y]
    PROVE  IsOrder(S, R)
<1>1. \A x \in S : f[x] \in Nat
  OBVIOUS
<1> QED BY <1>1 DEF IsOrder

\* Two subsets of a finite set that are together larger than it meet.
LEMMA LargeSubsetsMeet ==
    ASSUME NEW S, IsFiniteSet(S), NEW A \in SUBSET S, NEW B \in SUBSET S,
           Cardinality(A) + Cardinality(B) > Cardinality(S)
    PROVE  \E x \in A : x \in B
BY FS_MajoritiesIntersect

\* The positions of a sequence, one for each of its elements.
LEMMA ImageIsFinite ==
    ASSUME NEW S, IsFiniteSet(S), NEW f
    PROVE  LET T == {f[x] : x \in S}
           IN  /\ IsFiniteSet(T)
               /\ Cardinality(T) <= Cardinality(S)
               /\ (\A x, y \in S : f[x] = f[y] => x = y) => Cardinality(T) = Cardinality(S)
<1> DEFINE T == {f[x] : x \in S}
           g == [x \in S |-> f[x]]
<1>1. g \in Surjection(S, T)
  BY DEF Surjection
<1>2. (\A x, y \in S : f[x] = f[y] => x = y) => g \in Injection(S, T)
  BY DEF Injection, IsInjective
<1> HIDE DEF g
<1> HIDE DEF T
<1>3. IsFiniteSet(T) /\ Cardinality(T) <= Cardinality(S)
      /\ (Cardinality(T) = Cardinality(S) <=> g \in Injection(S, T))
  BY <1>1, FS_Surjection
<1> QED BY <1>2, <1>3 DEF T
-----------------------------------------------------------------------------
(***************************************************************************)
(* Sums over finite sets.                                                  *)
(***************************************************************************)
\* As many pairs as the numbers of a set's elements add up to.
Units(w, s) == UNION {{x} \X (1..w[x]) : x \in s}
Total(w, s) == Cardinality(Units(w, s))

\* The units of a set are those of its elements.
LEMMA UnitsAre ==
    ASSUME NEW w, NEW s
    PROVE  \A p : p \in Units(w, s) <=> \E x \in s : p \in {x} \X (1..w[x])
BY DEF Units

\* A finite set has finitely many units.
LEMMA UnitsAreFinite ==
    ASSUME NEW S, IsFiniteSet(S), NEW w \in [S -> Nat], NEW s \in SUBSET S
    PROVE  IsFiniteSet(Units(w, s))
<1> DEFINE of == [x \in s |-> {x} \X (1..w[x])]
<1>1. IsFiniteSet(s)
  BY FS_Subset
<1>2. ASSUME NEW x \in s PROVE IsFiniteSet({x} \X (1..w[x])) /\ Cardinality({x} \X (1..w[x])) = w[x]
  <2> DEFINE n == w[x]
             I == 1..n
  <2>1. n \in Nat
    OBVIOUS
  <2> HIDE DEF n
  <2>2. IsFiniteSet(I) /\ Cardinality(I) = n
    BY <2>1, FS_Interval
  <2>3. IsFiniteSet({x}) /\ Cardinality({x}) = 1
    BY FS_Singleton
  <2> HIDE DEF I
  <2>4. IsFiniteSet({x} \X I) /\ Cardinality({x} \X I) = 1 * n
    BY <2>2, <2>3, FS_Product
  <2>5. 1 * n = n
    BY <2>1
  <2> QED BY <2>4, <2>5 DEF I, n
<1>3. Units(w, s) = UNION {of[x] : x \in s}
  BY DEF Units
<1>4. \A x \in s : IsFiniteSet(of[x])
  BY <1>2
<1> HIDE DEF of
<1>5. IsFiniteSet({of[x] : x \in s})
  BY <1>1, ImageIsFinite
<1> QED BY <1>3, <1>4, <1>5, FS_UNION

\* Taking an element away takes its number from the total.
LEMMA TotalSteps ==
    ASSUME NEW S, IsFiniteSet(S), NEW w \in [S -> Nat], NEW s \in SUBSET S
    PROVE  /\ Total(w, {}) = 0
           /\ \A x \in s : Total(w, s) = w[x] + Total(w, s \ {x})
<1>1. Units(w, {}) = {}
  BY DEF Units
<1>2. ASSUME NEW x \in s
      PROVE  Total(w, s) = w[x] + Total(w, s \ {x})
  <2> DEFINE here == {x} \X (1..w[x])
             rest == Units(w, s \ {x})
             n == w[x]
             I == 1..n
  <2>1. Units(w, s) = here \cup rest
    <3> HIDE DEF here
    <3>1. \A p : p \in here <=> p \in {x} \X (1..w[x])
      BY DEF here
    <3> SUFFICES ASSUME NEW p PROVE p \in Units(w, s) <=> p \in here \cup rest
      OBVIOUS
    <3>2. p \in Units(w, s) <=> \E y \in s : p \in {y} \X (1..w[y])
      BY UnitsAre
    <3>3. p \in rest <=> \E y \in s \ {x} : p \in {y} \X (1..w[y])
      BY UnitsAre
    <3> QED BY <3>1, <3>2, <3>3, Zenon
  <2>2. here \cap rest = {}
    <3> SUFFICES ASSUME NEW p \in here, p \in rest PROVE FALSE
      OBVIOUS
    <3>1. PICK y \in s \ {x} : p \in {y} \X (1..w[y])
      BY UnitsAre
    <3>2. p[1] = x /\ p[1] = y
      BY <3>1
    <3> QED BY <3>2
  <2>3. IsFiniteSet(rest)
    <3>1. s \ {x} \in SUBSET S
      OBVIOUS
    <3> QED BY <3>1, UnitsAreFinite
  <2>4. n \in Nat
    OBVIOUS
  <2>5. IsFiniteSet(here) /\ Cardinality(here) = n
    <3>1. here = {x} \X I
      OBVIOUS
    <3> HIDE DEF n
    <3>2. IsFiniteSet(I) /\ Cardinality(I) = n
      BY <2>4, FS_Interval
    <3>3. IsFiniteSet({x}) /\ Cardinality({x}) = 1
      BY FS_Singleton
    <3> HIDE DEF I, here
    <3>4. IsFiniteSet({x} \X I) /\ Cardinality({x} \X I) = 1 * n
      BY <3>2, <3>3, FS_Product
    <3> QED BY <2>4, <3>1, <3>4
  <2> HIDE DEF here, rest, n
  <2>6. Cardinality(here \cup rest) = n + Cardinality(rest) - Cardinality(here \cap rest)
    BY <2>3, <2>5, FS_Union
  <2>7. Cardinality({}) = 0 /\ Cardinality(rest) \in Nat
    BY <2>3, FS_EmptySet, FS_CardinalityType
  <2>9. Cardinality(Units(w, s)) = Cardinality(here \cup rest)
        /\ Cardinality(here \cap rest) = Cardinality({})
    BY <2>1, <2>2, Zenon
  <2>8. Cardinality(Units(w, s)) = n + Cardinality(rest)
    BY <2>4, <2>6, <2>7, <2>9
  <2> QED BY <2>8 DEF Total, n, rest
<1> QED BY <1>1, <1>2, FS_EmptySet DEF Total

IsSum(sum, S, w) ==
    sum = [s \in SUBSET S |->
               IF s = {} THEN 0 ELSE w[CHOOSE x \in s : TRUE] + sum[s \ {CHOOSE x \in s : TRUE}]]

\* Adding up the numbers of a finite set, an element at a time, ends at a number.
LEMMA SumsAreNumbers ==
    ASSUME NEW S, IsFiniteSet(S), NEW w \in [S -> Nat],
           NEW sum, IsSum(sum, S, w)
    PROVE  sum[S] \in Nat
<1> DEFINE P == {n \in Nat : \A s \in SUBSET S : Cardinality(s) = n => sum[s] \in Nat}
           some(s) == CHOOSE x \in s : TRUE
<1>1. \A s \in SUBSET S : IsFiniteSet(s)
  BY FS_Subset
<1>2. \A s \in SUBSET S : sum[s] = IF s = {} THEN 0 ELSE w[some(s)] + sum[s \ {some(s)}]
  BY DEF IsSum
<1>3. \A s : s # {} => some(s) \in s
  OBVIOUS
<1> HIDE DEF some
<1>4. 0 \in P
  <2> SUFFICES ASSUME NEW s \in SUBSET S, Cardinality(s) = 0 PROVE sum[s] \in Nat
    OBVIOUS
  <2>1. s = {}
    BY <1>1, FS_EmptySet
  <2> QED BY <2>1, <1>2
<1>5. ASSUME NEW n \in Nat, n \in P PROVE n + 1 \in P
  <2> SUFFICES ASSUME NEW s \in SUBSET S, Cardinality(s) = n + 1 PROVE sum[s] \in Nat
    OBVIOUS
  <2>1. s # {}
    <3>1. Cardinality(s) # 0
      BY <1>5
    <3> QED BY <3>1, FS_EmptySet
  <2>2. some(s) \in s /\ s \ {some(s)} \in SUBSET S
    BY <1>3, <2>1
  <2>3. Cardinality(s \ {some(s)}) = n
    <3>1. Cardinality(s \ {some(s)}) = Cardinality(s) - 1
      BY <1>1, <2>2, FS_RemoveElement
    <3> QED BY <3>1, <1>5
  <2>4. sum[s \ {some(s)}] \in Nat
    BY <1>5, <2>2, <2>3
  <2>5. w[some(s)] \in Nat
    BY <2>2
  <2> QED BY <2>1, <2>4, <2>5, <1>2
<1> HIDE DEF P
<1>6. \A n \in Nat : n \in P
  BY <1>4, <1>5, AllNumbers
<1>7. Cardinality(S) \in P
  BY <1>6, FS_CardinalityType
<1> QED BY <1>7 DEF P

\* The function that adds up a finite set of numbers, one chosen element after
\* the other, exists: so the sum of the model is defined by that equation.
LEMMA SumExists ==
    ASSUME NEW S, IsFiniteSet(S), NEW w \in [S -> Nat]
    PROVE  \E sum : IsSum(sum, S, w)
<1> DEFINE sum == [s \in SUBSET S |-> Total(w, s)]
           some(s) == CHOOSE x \in s : TRUE
<1>1. \A s : s # {} => some(s) \in s
  OBVIOUS
<1>2. ASSUME NEW s \in SUBSET S
      PROVE  sum[s] = IF s = {} THEN 0 ELSE w[some(s)] + sum[s \ {some(s)}]
  <2> HIDE DEF some
  <2>1. CASE s = {}
    <3>1. sum[s] = Total(w, s)
      OBVIOUS
    <3> HIDE DEF sum
    <3> QED BY <2>1, <3>1, TotalSteps
  <2>2. CASE s # {}
    <3>1. some(s) \in s /\ s \ {some(s)} \in SUBSET S
      BY <1>1, <2>2
    <3>2. sum[s] = Total(w, s) /\ sum[s \ {some(s)}] = Total(w, s \ {some(s)})
      BY <3>1
    <3> HIDE DEF sum
    <3> QED BY <2>2, <3>1, <3>2, TotalSteps
  <2> QED BY <2>1, <2>2
<1>3. sum = [s \in SUBSET S |-> sum[s]]
  OBVIOUS
<1> DEFINE next == [s \in SUBSET S |-> IF s = {} THEN 0 ELSE w[some(s)] + sum[s \ {some(s)}]]
<1>4. [s \in SUBSET S |-> sum[s]] = next
  <2> HIDE DEF sum, some
  <2> QED BY <1>2, Zenon
<1> HIDE DEF sum
<1>5. sum = next
  BY <1>3, <1>4
<1>6. IsSum(sum, S, w)
  BY <1>5 DEF IsSum
<1> QED BY <1>6

\* The greatest number of a finite set is one of them and none is greater.
LEMMA GreatestIs ==
    ASSUME NEW S \in SUBSET Int, IsFiniteSet(S), S # {}
    PROVE  Greatest(S) \in S /\ \A y \in S : y <= Greatest(S)
<1> DEFINE R == {p \in S \X S : p[1] < p[2]}
           n == Cardinality(S)
           list == InOrder(S, R)
<1>1. IsOrder(S, R)
  <2>1. \A x, y \in S : <<x, y>> \in R <=> x < y
    OBVIOUS
  <2> HIDE DEF R
  <2>2. \A x \in S : x \in Int
    OBVIOUS
  <2> QED BY <2>1, <2>2 DEF IsOrder
<1>2. \A x, y : <<x, y>> \in R => x < y
  OBVIOUS
<1> HIDE DEF R
<1>3. /\ n \in Nat
      /\ list \in [1..n -> S]
      /\ \A x \in S : \E k \in 1..n : list[k] = x
      /\ \A j, k \in 1..n : j < k => <<list[j], list[k]>> \in R
  BY <1>1, InOrderSorts
<1>4. n # 0
  BY FS_EmptySet
<1> HIDE DEF list, n
<1>5. list[n] \in S
  BY <1>3, <1>4
<1>6. \A y \in S : y <= list[n]
  <2> SUFFICES ASSUME NEW y \in S PROVE y <= list[n]
    OBVIOUS
  <2>1. PICK k \in 1..n : list[k] = y
    BY <1>3
  <2>2. CASE k = n
    BY <2>1, <2>2
  <2>3. CASE k # n
    <3>1. k < n /\ n \in 1..n
      BY <2>3, <1>3, <1>4
    <3>2. list[k] < list[n]
      BY <3>1, <1>2, <1>3
    <3>3. list[k] \in Int /\ list[n] \in Int
      BY <1>5, <2>1
    <3> QED BY <2>1, <3>2, <3>3
  <2> QED BY <2>2, <2>3
<1>7. \E x \in S : \A y \in S : x >= y
  BY <1>5, <1>6
<1>8. Greatest(S) \in S /\ \A y \in S : Greatest(S) >= y
  BY <1>7 DEF Greatest
<1> QED BY <1>8
-----------------------------------------------------------------------------
(***************************************************************************)
(* Facts, contracts and what is merged of them.                            *)
(***************************************************************************)
IsFact(fact) ==
    /\ fact = [key |-> fact.key, value |-> fact.value, evidence |-> fact.evidence]
    /\ fact.evidence # {}

\* Exactly the tools are known to be available; existence has its evidence.
IsContract(contract) ==
    /\ contract = [id |-> contract.id, availability |-> contract.availability,
                   summary |-> contract.summary, facts |-> contract.facts,
                   evidence |-> contract.evidence]
    /\ contract.id \in ToSet(Kinds) \X Nat
    /\ contract.availability = IF contract.id[1] = "tool" THEN "available" ELSE "unknown"
    /\ IsFiniteSet(contract.facts)
    /\ \A fact \in contract.facts : IsFact(fact)
    /\ contract.evidence # {}

IsList(contracts) ==
    /\ contracts \in Seq(ToSet(contracts))
    /\ \A i \in DOMAIN contracts : IsContract(contracts[i])

\* What a fact says, without its evidence.
Said(facts) == {<<fact.key, fact.value>> : fact \in facts}
FactsNamed(contracts, id) == UNION {contract.facts : contract \in Named(contracts, id)}
Keeps(contracts, contract) ==
    /\ contract.id \in Ids(contracts)
    /\ Said(contract.facts) \subseteq Said(FactsNamed(contracts, contract.id))

\* Which ids a list has, and which contracts have an id.
LEMMA IdsAre ==
    ASSUME NEW contracts
    PROVE  /\ \A id : id \in Ids(contracts) <=> \E i \in DOMAIN contracts : contracts[i].id = id
           /\ \A id, contract : contract \in Named(contracts, id) <=>
                  \E i \in DOMAIN contracts : contracts[i] = contract /\ contracts[i].id = id
BY DEF Ids, Named

\* What facts say, without who says it.
LEMMA SaidAre ==
    ASSUME NEW facts
    PROVE  \A said : said \in Said(facts) <=> \E fact \in facts : said = <<fact.key, fact.value>>
BY DEF Said

\* More facts say no less.
LEMMA SaidOfMore ==
    ASSUME NEW some, NEW more, some \subseteq more
    PROVE  Said(some) \subseteq Said(more)
BY DEF Said

\* The facts of an id are those of all contracts that have it.
LEMMA FactsNamedAre ==
    ASSUME NEW contracts, NEW id
    PROVE  \A fact : fact \in FactsNamed(contracts, id) <=>
               \E contract \in Named(contracts, id) : fact \in contract.facts
BY DEF FactsNamed

\* What is kept of what was kept is kept.
LEMMA KeepsOfKept ==
    ASSUME NEW first, NEW second, NEW contract, Keeps(first, contract),
           \A i \in DOMAIN first : Keeps(second, first[i])
    PROVE  Keeps(second, contract)
<1> DEFINE id == contract.id
<1>1. \A known \in Named(first, id) : known.id = id /\ Keeps(second, known)
  BY IdsAre
<1>2. id \in Ids(second)
  BY <1>1, IdsAre DEF Keeps
<1>3. \A known \in Named(first, id) : Said(known.facts) \subseteq Said(FactsNamed(second, id))
  BY <1>1 DEF Keeps
<1>4. ASSUME NEW said \in Said(FactsNamed(first, id))
      PROVE  said \in Said(FactsNamed(second, id))
  <2>1. PICK fact \in FactsNamed(first, id) : said = <<fact.key, fact.value>>
    BY SaidAre
  <2>2. PICK known \in Named(first, id) : fact \in known.facts
    BY <2>1, FactsNamedAre
  <2>3. said \in Said(known.facts)
    BY <2>1, <2>2, SaidAre
  <2> QED BY <2>3, <1>3
<1> QED BY <1>2, <1>4 DEF Keeps

\* A list keeps its own contracts.
LEMMA KeepsItsOwn ==
    ASSUME NEW contracts, NEW i \in DOMAIN contracts
    PROVE  Keeps(contracts, contracts[i])
<1>1. contracts[i] \in Named(contracts, contracts[i].id) /\ contracts[i].id \in Ids(contracts)
  BY DEF Named, Ids
<1>2. contracts[i].facts \subseteq FactsNamed(contracts, contracts[i].id)
  BY <1>1, FactsNamedAre
<1> QED BY <1>1, <1>2, SaidOfMore DEF Keeps

\* mergedFacts unites the evidence of equal facts and says the same.
LEMMA MergingFacts ==
    ASSUME NEW facts, IsFiniteSet(facts), \A fact \in facts : IsFact(fact)
    PROVE  /\ IsFiniteSet(MergedFacts(facts))
           /\ \A fact \in MergedFacts(facts) : IsFact(fact)
           /\ \A fact \in MergedFacts(facts) :
                  fact.evidence \subseteq UNION {other.evidence : other \in facts}
           /\ Said(MergedFacts(facts)) = Said(facts)
<1> DEFINE all(fact) ==
        UNION {other.evidence : other \in {f \in facts : f.key = fact.key /\ f.value = fact.value}}
           whole == [fact \in facts |-> [key |-> fact.key, value |-> fact.value, evidence |-> all(fact)]]
<1>1. \A k, v, e, x : [[key |-> k, value |-> v, evidence |-> e] EXCEPT !.evidence = x]
                          = [key |-> k, value |-> v, evidence |-> x]
  OBVIOUS
<1>2. ASSUME NEW fact \in facts
      PROVE  [fact EXCEPT !.evidence = all(fact)] = whole[fact]
  <2>1. fact = [key |-> fact.key, value |-> fact.value, evidence |-> fact.evidence]
    BY DEF IsFact
  <2>2. [[key |-> fact.key, value |-> fact.value, evidence |-> fact.evidence]
             EXCEPT !.evidence = all(fact)]
         = [key |-> fact.key, value |-> fact.value, evidence |-> all(fact)]
    <3> DEFINE k == fact.key
               v == fact.value
               e == fact.evidence
               x == all(fact)
    <3>1. SUFFICES [[key |-> k, value |-> v, evidence |-> e] EXCEPT !.evidence = x]
                       = [key |-> k, value |-> v, evidence |-> x]
      OBVIOUS
    <3> HIDE DEF k, v, e, x
    <3> QED OBVIOUS
  <2> QED BY <2>1, <2>2
<1>3. MergedFacts(facts) = {whole[fact] : fact \in facts}
  <2>1. MergedFacts(facts) = {[fact EXCEPT !.evidence = all(fact)] : fact \in facts}
    BY DEF MergedFacts
  <2> HIDE DEF whole, all
  <2> QED BY <2>1, <1>2, Zenon
<1>4. \A fact \in facts : /\ whole[fact].key = fact.key /\ whole[fact].value = fact.value
                          /\ whole[fact].evidence = all(fact)
                          /\ whole[fact] = [key |-> whole[fact].key, value |-> whole[fact].value,
                                            evidence |-> whole[fact].evidence]
  OBVIOUS
<1>5. \A fact \in facts : fact.evidence \subseteq all(fact)
                          /\ all(fact) \subseteq UNION {other.evidence : other \in facts}
  OBVIOUS
<1> HIDE DEF whole, all
<1>6. IsFiniteSet(MergedFacts(facts))
  BY <1>3, ImageIsFinite
<1>7. \A fact \in facts : fact.evidence # {}
  BY DEF IsFact
<1>8. \A fact \in facts : IsFact(whole[fact])
  BY <1>4, <1>5, <1>7 DEF IsFact
<1>9. \A said : said \in Said(MergedFacts(facts)) <=> said \in Said(facts)
  <2>1. \A fact \in facts : <<whole[fact].key, whole[fact].value>> = <<fact.key, fact.value>>
    BY <1>4
  <2>2. ASSUME NEW said \in Said(MergedFacts(facts)) PROVE said \in Said(facts)
    <3>1. PICK fact \in facts : said = <<whole[fact].key, whole[fact].value>>
      BY <1>3, SaidAre
    <3> QED BY <3>1, <2>1, SaidAre
  <2>3. ASSUME NEW said \in Said(facts) PROVE said \in Said(MergedFacts(facts))
    <3>1. PICK fact \in facts : said = <<fact.key, fact.value>>
      BY SaidAre
    <3>2. whole[fact] \in MergedFacts(facts)
      BY <1>3
    <3> QED BY <3>1, <3>2, <2>1, SaidAre
  <2> QED BY <2>2, <2>3
<1> QED BY <1>3, <1>4, <1>5, <1>6, <1>8, <1>9

\* mergeContract, for contracts of one id that agree on availability.
LEMMA MergingContracts ==
    ASSUME NEW group, group # {}, IsFiniteSet(group), NEW id,
           \A contract \in group : IsContract(contract) /\ contract.id = id
    PROVE  /\ IsContract(Merged(group))
           /\ Merged(group).id = id
           /\ \A contract \in group : Said(contract.facts) \subseteq Said(Merged(group).facts)
           /\ CitedBy(Merged(group)) \subseteq UNION {CitedBy(contract) : contract \in group}
<1> DEFINE some == CHOOSE contract \in group : TRUE
           known == {contract.availability : contract \in group} \ {"unknown"}
           availability == IF known = {} THEN "unknown" ELSE CHOOSE a \in known : TRUE
           union == UNION {contract.facts : contract \in group}
           facts == IF Cardinality(group) = 1 THEN some.facts ELSE MergedFacts(union)
           evidence == UNION {contract.evidence : contract \in group}
           summary == UNION {contract.summary : contract \in group}
<1>1. Merged(group) = [id |-> some.id, availability |-> availability, summary |-> summary,
                       facts |-> facts, evidence |-> evidence]
  BY DEF Merged
<1>2. some \in group
  OBVIOUS
<1>3. availability = IF id[1] = "tool" THEN "available" ELSE "unknown"
  <2>1. \A contract \in group : contract.availability = IF id[1] = "tool" THEN "available" ELSE "unknown"
    BY DEF IsContract
  <2>2. CASE id[1] = "tool"
    <3>1. known = {"available"}
      BY <2>1, <2>2, <1>2
    <3> QED BY <3>1, <2>2
  <2>3. CASE id[1] # "tool"
    <3>1. known = {}
      BY <2>1, <2>3
    <3> QED BY <3>1, <2>3
  <2> QED BY <2>2, <2>3
<1>4. \A contract \in group : contract.facts \subseteq union /\ contract.evidence \subseteq evidence
  OBVIOUS
<1>5. IsFiniteSet(union) /\ \A fact \in union : IsFact(fact)
  <2> DEFINE of == [contract \in group |-> contract.facts]
  <2>1. {contract.facts : contract \in group} = {of[contract] : contract \in group}
    OBVIOUS
  <2>2. \A contract \in group : of[contract] = contract.facts
    OBVIOUS
  <2> HIDE DEF of
  <2>3. IsFiniteSet({of[contract] : contract \in group})
    BY ImageIsFinite
  <2>4. \A contract \in group : IsFiniteSet(contract.facts) /\ \A fact \in contract.facts : IsFact(fact)
    BY DEF IsContract
  <2>5. \A set \in {of[contract] : contract \in group} : IsFiniteSet(set)
    BY <2>2, <2>4
  <2>6. IsFiniteSet(union)
    BY <2>1, <2>3, <2>5, FS_UNION
  <2>7. \A fact \in union : IsFact(fact)
    BY <2>4
  <2> QED BY <2>6, <2>7
<1>6. Cardinality(group) = 1 => union = some.facts
  <2>1. Cardinality(group) = 1 => \E x : group = {x}
    BY FS_Singleton
  <2> QED BY <2>1
<1>7. IsFiniteSet(facts) /\ (\A fact \in facts : IsFact(fact)) /\ Said(facts) = Said(union)
      /\ \A fact \in facts : fact.evidence \subseteq UNION {other.evidence : other \in union}
  <2>1. CASE Cardinality(group) = 1
    <3>1. facts = union
      BY <2>1, <1>6
    <3>2. \A fact \in union : fact.evidence \subseteq UNION {other.evidence : other \in union}
      OBVIOUS
    <3> QED BY <3>1, <3>2, <1>5
  <2>2. CASE Cardinality(group) # 1
    <3>1. facts = MergedFacts(union)
      BY <2>2
    <3> HIDE DEF facts, union
    <3> QED BY <3>1, <1>5, MergingFacts
  <2> QED BY <2>1, <2>2
<1>8. evidence # {}
  <2>1. some.evidence # {}
    BY <1>2 DEF IsContract
  <2> QED BY <2>1, <1>2, <1>4
<1>9. some.id = id /\ id \in ToSet(Kinds) \X Nat
  BY <1>2 DEF IsContract
<1>10. evidence \subseteq UNION {CitedBy(contract) : contract \in group}
  BY DEF CitedBy
<1>11. (UNION {other.evidence : other \in union}) \subseteq UNION {CitedBy(contract) : contract \in group}
  BY DEF CitedBy
<1>12. \A contract \in group : contract.facts \subseteq union
  OBVIOUS
<1> HIDE DEF facts, evidence, availability, summary, some, union
<1>13. IsContract(Merged(group)) /\ Merged(group).id = id
  BY <1>1, <1>3, <1>7, <1>8, <1>9 DEF IsContract
<1>14. \A contract \in group : Said(contract.facts) \subseteq Said(Merged(group).facts)
  BY <1>1, <1>7, <1>12, SaidOfMore
<1>15. CitedBy(Merged(group)) = evidence \cup UNION {fact.evidence : fact \in facts}
  BY <1>1 DEF CitedBy
<1>16. (UNION {fact.evidence : fact \in facts}) \subseteq UNION {CitedBy(contract) : contract \in group}
  BY <1>7, <1>11
<1> QED BY <1>10, <1>13, <1>14, <1>15, <1>16
-----------------------------------------------------------------------------
(***************************************************************************)
(* Lists of contracts: merged and sorted.                                  *)
(***************************************************************************)
LEMMA ListsAre ==
    ASSUME NEW contracts, IsList(contracts)
    PROVE  /\ Len(contracts) \in Nat
           /\ DOMAIN contracts = 1..Len(contracts)
           /\ IsFiniteSet(DOMAIN contracts)
           /\ Cardinality(DOMAIN contracts) = Len(contracts)
<1>1. contracts \in Seq(ToSet(contracts))
  BY DEF IsList
<1> DEFINE n == Len(contracts)
<1>2. n \in Nat /\ DOMAIN contracts = 1..n
  BY <1>1
<1> HIDE DEF n
<1>3. IsFiniteSet(1..n) /\ Cardinality(1..n) = n
  BY <1>2, FS_Interval
<1> QED BY <1>2, <1>3 DEF n

\* A function on 1..n into contracts is a list of n contracts.
LEMMA ListOf ==
    ASSUME NEW n \in Nat, NEW list, DOMAIN list = 1..n, list = [i \in 1..n |-> list[i]],
           \A i \in 1..n : IsContract(list[i])
    PROVE  IsList(list) /\ Len(list) = n
<1>1. \A i \in 1..n : list[i] \in ToSet(list)
  BY DEF ToSet
<1>2. list \in [1..n -> ToSet(list)]
  BY <1>1
<1>3. list \in Seq(ToSet(list))
  BY <1>2
<1> QED BY <1>3 DEF IsList

Joins(both, front, rear) == both = front \o rear

\* Two lists joined are a list that holds what either holds.
LEMMA Concatenated ==
    ASSUME NEW front, NEW rear, IsList(front), IsList(rear), NEW both, Joins(both, front, rear)
    PROVE  /\ IsList(both)
           /\ Len(both) = Len(front) + Len(rear)
           /\ \A i \in DOMAIN front : \E j \in DOMAIN both : both[j] = front[i]
           /\ \A i \in DOMAIN rear : \E j \in DOMAIN both : both[j] = rear[i]
           /\ \A j \in DOMAIN both : \/ \E i \in DOMAIN front : both[j] = front[i]
                                     \/ \E i \in DOMAIN rear : both[j] = rear[i]
<1> DEFINE some == ToSet(front) \cup ToSet(rear)
           l == Len(front)
           r == Len(rear)
<1>1. front \in Seq(some) /\ rear \in Seq(some)
  <2>1. front \in Seq(ToSet(front)) /\ rear \in Seq(ToSet(rear))
    BY DEF IsList
  <2> HIDE DEF some
  <2>2. ToSet(front) \subseteq some /\ ToSet(rear) \subseteq some
    BY DEF some
  <2> QED BY <2>1, <2>2
<1>2. l \in Nat /\ r \in Nat /\ DOMAIN front = 1..l /\ DOMAIN rear = 1..r
  BY ListsAre
<1> HIDE DEF some
<1>3. both \in Seq(some) /\ Len(both) = l + r
  BY <1>1 DEF Joins
<1>4. \A j \in 1..(l + r) : both[j] = IF j <= l THEN front[j] ELSE rear[j - l]
  BY <1>1, <1>2 DEF Joins
<1> HIDE DEF l, r
<1>13. \E n \in Nat : both \in [1..n -> some]
  BY <1>3
<1>5. DOMAIN both = 1..(l + r)
  BY <1>3
<1>6. \A i \in 1..l : i \in 1..(l + r) /\ both[i] = front[i]
  BY <1>2, <1>4
<1>7. \A i \in 1..r : l + i \in 1..(l + r) /\ both[l + i] = rear[i]
  BY <1>2, <1>4
<1>8. \A j \in 1..(l + r) : \/ (j \in 1..l /\ both[j] = front[j])
                            \/ (j - l \in 1..r /\ both[j] = rear[j - l])
  BY <1>2, <1>4
<1>9. \A j \in 1..(l + r) : IsContract(both[j])
  BY <1>2, <1>8 DEF IsList
<1>10. IsList(both)
  <2>3. \A j \in 1..(l + r) : both[j] \in some
    BY <1>3
  <2>1. both \in [1..(l + r) -> some]
    BY <1>3, <1>13, <1>5
  <2>2. both = [j \in 1..(l + r) |-> both[j]]
    BY <2>1
  <2> QED BY <2>2, <1>2, <1>5, <1>9, ListOf
<1>11. (\A i \in DOMAIN front : \E j \in DOMAIN both : both[j] = front[i])
       /\ (\A i \in DOMAIN rear : \E j \in DOMAIN both : both[j] = rear[i])
  BY <1>2, <1>5, <1>6, <1>7
<1>12. \A j \in DOMAIN both : (\E i \in DOMAIN front : both[j] = front[i])
                              \/ \E i \in DOMAIN rear : both[j] = rear[i]
  BY <1>2, <1>5, <1>8
<1> QED BY <1>3, <1>10, <1>11, <1>12 DEF l, r

\* Numbers in their order.
LEMMA NumbersInOrder ==
    ASSUME NEW n \in Nat, NEW S \in SUBSET (1..n)
    PROVE  LET list == InOrder(S, {p \in (1..n) \X (1..n) : p[1] < p[2]})
           IN  /\ \E k \in 0..n : list \in [1..k -> S]
               /\ \A x \in S : \E k \in DOMAIN list : list[k] = x
               /\ \A j, k \in DOMAIN list : list[j] = list[k] => j = k
<1> DEFINE R == {p \in (1..n) \X (1..n) : p[1] < p[2]}
           list == InOrder(S, R)
<1>1. IsFiniteSet(1..n) /\ Cardinality(1..n) = n
  BY FS_Interval
<1>2. IsFiniteSet(S) /\ Cardinality(S) <= n /\ Cardinality(S) \in Nat
  BY <1>1, FS_Subset, FS_CardinalityType
<1>3. IsOrder(S, R)
  <2>1. \A x, y \in S : <<x, y>> \in R <=> x < y
    OBVIOUS
  <2> HIDE DEF R
  <2>2. \A x \in S : x \in Int
    OBVIOUS
  <2> QED BY <2>1, <2>2 DEF IsOrder
<1> HIDE DEF R
<1>4. /\ list \in [1..Cardinality(S) -> S]
      /\ \A x \in S : \E k \in 1..Cardinality(S) : list[k] = x
      /\ \A j, k \in 1..Cardinality(S) : list[j] = list[k] => j = k
  BY <1>2, <1>3, InOrderSorts
<1> HIDE DEF list
<1>5. DOMAIN list = 1..Cardinality(S) /\ Cardinality(S) \in 0..n
  BY <1>2, <1>4
<1>6. \E k \in 0..n : list \in [1..k -> S]
  BY <1>4, <1>5
<1> QED BY <1>4, <1>5, <1>6 DEF list, R

\* Merging loses no contract and makes one of those with one id.
LEMMA MergingLists ==
    ASSUME NEW contracts, IsList(contracts)
    PROVE  /\ IsList(MergeContracts(contracts))
           /\ Len(MergeContracts(contracts)) <= Len(contracts)
           /\ \A i, j \in DOMAIN MergeContracts(contracts) :
                  MergeContracts(contracts)[i].id = MergeContracts(contracts)[j].id => i = j
           /\ \A i \in DOMAIN contracts : Keeps(MergeContracts(contracts), contracts[i])
           /\ \A k \in DOMAIN MergeContracts(contracts) :
                  CitedBy(MergeContracts(contracts)[k])
                      \subseteq UNION {CitedBy(contracts[i]) : i \in DOMAIN contracts}
<1> DEFINE n == Len(contracts)
           firsts == FirstIndexes(contracts)
           list == InOrder(firsts, {p \in (DOMAIN contracts) \X (DOMAIN contracts) : p[1] < p[2]})
           group(k) == Named(contracts, contracts[list[k]].id)
           merged == MergeContracts(contracts)
           cited == UNION {CitedBy(contracts[i]) : i \in DOMAIN contracts}
<1>1. n \in Nat /\ DOMAIN contracts = 1..n /\ IsFiniteSet(DOMAIN contracts)
  BY ListsAre
<1>2. merged = [k \in DOMAIN list |-> Merged(group(k))]
  BY DEF MergeContracts
<1> HIDE DEF merged, n
<1>3. firsts \in SUBSET (1..n)
  BY <1>1 DEF FirstIndexes
<1> DEFINE sorted == InOrder(firsts, {p \in (1..n) \X (1..n) : p[1] < p[2]})
<1>16. /\ \E k \in 0..n : sorted \in [1..k -> firsts]
       /\ \A x \in firsts : \E k \in DOMAIN sorted : sorted[k] = x
       /\ \A j, k \in DOMAIN sorted : sorted[j] = sorted[k] => j = k
  <2> HIDE DEF firsts
  <2> QED BY <1>1, <1>3, NumbersInOrder
<1>17. list = sorted
  BY <1>1
<1> HIDE DEF sorted
<1>4. PICK m \in 0..n : list \in [1..m -> firsts]
  BY <1>16, <1>17
<1>5. (\A x \in firsts : \E k \in DOMAIN list : list[k] = x)
      /\ (\A j, k \in DOMAIN list : list[j] = list[k] => j = k)
  BY <1>16, <1>17
<1> HIDE DEF list
<1>6. DOMAIN list = 1..m
  BY <1>4
<1>7. \A k \in 1..m : list[k] \in firsts /\ list[k] \in 1..n
  BY <1>3, <1>4
<1>8. \A i, j \in firsts : contracts[i].id = contracts[j].id => i = j
  <2> SUFFICES ASSUME NEW i \in firsts, NEW j \in firsts, contracts[i].id = contracts[j].id, i < j
               PROVE FALSE
    BY <1>3
  <2>1. i \in 1..(j - 1)
    BY <1>3
  <2> QED BY <2>1 DEF FirstIndexes
<1>9. ASSUME NEW i \in 1..n
      PROVE  \E j \in firsts : contracts[j].id = contracts[i].id
  <2> DEFINE S == {j \in 1..n : contracts[j].id = contracts[i].id}
  <2>1. PICK j \in S : \A other \in S : j <= other
    <3>1. S \in SUBSET Nat /\ S # {}
      BY <1>1
    <3> HIDE DEF S
    <3> QED BY <3>1, SomeIsLeast
  <2>2. \A other \in 1..(j - 1) : contracts[other].id # contracts[j].id
    <3> SUFFICES ASSUME NEW other \in 1..(j - 1), contracts[other].id = contracts[j].id PROVE FALSE
      OBVIOUS
    <3>1. other \in 1..n /\ other < j
      BY <1>1
    <3> QED BY <3>1, <2>1, <1>1
  <2> QED BY <2>1, <2>2, <1>1 DEF FirstIndexes
<1>10. ASSUME NEW k \in 1..m
       PROVE  /\ IsContract(merged[k])
              /\ merged[k].id = contracts[list[k]].id
              /\ \A contract \in group(k) : Said(contract.facts) \subseteq Said(merged[k].facts)
              /\ CitedBy(merged[k]) \subseteq cited
  <2> DEFINE id == contracts[list[k]].id
             all == Named(contracts, id)
  <2>1. all # {} /\ \A contract \in all : \E i \in DOMAIN contracts : contract = contracts[i] /\ contract.id = id
    BY <1>1, <1>7 DEF Named
  <2>2. \A contract \in all : IsContract(contract) /\ contract.id = id
    BY <2>1 DEF IsList
  <2>3. IsFiniteSet(all)
    <3> DEFINE chosen == {j \in DOMAIN contracts : contracts[j].id = id}
    <3>1. all = {contracts[i] : i \in chosen}
      BY DEF Named
    <3>2. IsFiniteSet(chosen)
      BY <1>1, FS_Subset
    <3> HIDE DEF chosen, all
    <3> QED BY <3>1, <3>2, ImageIsFinite
  <2>4. UNION {CitedBy(contract) : contract \in all} \subseteq cited
    BY <2>1
  <2>5. merged[k] = Merged(all)
    BY <1>2, <1>6
  <2> HIDE DEF all, id, cited
  <2>6. /\ IsContract(Merged(all)) /\ Merged(all).id = id
        /\ \A contract \in all : Said(contract.facts) \subseteq Said(Merged(all).facts)
        /\ CitedBy(Merged(all)) \subseteq UNION {CitedBy(contract) : contract \in all}
    BY <2>1, <2>2, <2>3, MergingContracts
  <2> QED BY <2>4, <2>5, <2>6 DEF all, id
<1>11. IsList(merged) /\ Len(merged) = m
  <2>1. m \in Nat /\ DOMAIN merged = 1..m /\ merged = [k \in 1..m |-> merged[k]]
    BY <1>1, <1>2, <1>6
  <2> QED BY <2>1, <1>10, ListOf
<1>12. DOMAIN merged = 1..m
  BY <1>2, <1>6
<1>13. \A i, j \in DOMAIN merged : merged[i].id = merged[j].id => i = j
  <2> SUFFICES ASSUME NEW i \in 1..m, NEW j \in 1..m, merged[i].id = merged[j].id PROVE i = j
    BY <1>12
  <2>1. contracts[list[i]].id = contracts[list[j]].id
    BY <1>10
  <2>2. list[i] = list[j]
    BY <2>1, <1>7, <1>8
  <2> QED BY <2>2, <1>5, <1>6
<1>14. ASSUME NEW i \in DOMAIN contracts PROVE Keeps(merged, contracts[i])
  <2> DEFINE id == contracts[i].id
  <2>1. PICK j \in firsts : contracts[j].id = id
    BY <1>1, <1>9
  <2>2. PICK k \in 1..m : list[k] = j
    BY <1>5, <1>6
  <2>3. contracts[i] \in group(k)
    BY <2>1, <2>2 DEF Named
  <2>4. merged[k].id = id /\ Said(contracts[i].facts) \subseteq Said(merged[k].facts)
    BY <2>1, <2>2, <2>3, <1>10
  <2>5. id \in Ids(merged) /\ merged[k] \in Named(merged, id)
    BY <2>4, <1>12, IdsAre
  <2>6. merged[k].facts \subseteq FactsNamed(merged, id)
    BY <2>5, FactsNamedAre
  <2> QED BY <2>4, <2>5, <2>6, SaidOfMore DEF Keeps
<1>15. m <= n
  BY <1>1
<1> QED BY <1>10, <1>11, <1>12, <1>13, <1>14, <1>15 DEF merged, n
-----------------------------------------------------------------------------
(***************************************************************************)
(* Facts with their evidence: what may enter an index, and the index.      *)
(***************************************************************************)
HasEvidence(facts) ==
    /\ IsList(facts.contracts)
    /\ IsFiniteSet(facts.evidence)
    /\ \A left, right \in facts.evidence : left.id = right.id => left = right
    /\ \A i \in DOMAIN facts.contracts :
           CitedBy(facts.contracts[i]) \subseteq {item.id : item \in facts.evidence}
IsDistinct(contracts) ==
    \A i, j \in DOMAIN contracts : contracts[i].id = contracts[j].id => i = j
IsFacts(facts) == HasEvidence(facts) /\ IsDistinct(facts.contracts)

\* What does not conflict merges into facts that keep both sides.
LEMMA MergingIsSound ==
    ASSUME NEW left, NEW right, HasEvidence(left), HasEvidence(right), ~MergeFails(left, right)
    PROVE  /\ IsFacts(Merge(left, right))
           /\ Len(Merge(left, right).contracts) <= Len(left.contracts) + Len(right.contracts)
           /\ \A i \in DOMAIN left.contracts : Keeps(Merge(left, right).contracts, left.contracts[i])
           /\ \A i \in DOMAIN right.contracts : Keeps(Merge(left, right).contracts, right.contracts[i])
<1> DEFINE l == left.contracts
           r == right.contracts
           both == l \o r
           merged == MergeContracts(both)
           evidence == left.evidence \cup right.evidence
           known == {item.id : item \in evidence}
<1>1. Merge(left, right).evidence = evidence /\ Merge(left, right).contracts = merged
  BY DEF Merge
<1>2. IsList(l) /\ IsList(r) /\ IsFiniteSet(left.evidence) /\ IsFiniteSet(right.evidence)
  BY DEF HasEvidence
<1>3. IsFiniteSet(evidence)
  BY <1>2, FS_Union
<1>4. \A x, y \in evidence : x.id = y.id => x = y
  BY DEF MergeFails, Conflict
<1>5. /\ \A i \in DOMAIN l : CitedBy(l[i]) \subseteq {item.id : item \in left.evidence}
      /\ \A i \in DOMAIN r : CitedBy(r[i]) \subseteq {item.id : item \in right.evidence}
  BY DEF HasEvidence
<1>6. {item.id : item \in left.evidence} \subseteq known /\ {item.id : item \in right.evidence} \subseteq known
  OBVIOUS
<1> HIDE DEF l, r, known
<1> HIDE DEF both
<1>14. Joins(both, l, r)
  BY DEF Joins, both, l, r
<1>7. /\ IsList(both)
      /\ Len(both) = Len(l) + Len(r)
      /\ \A i \in DOMAIN l : \E j \in DOMAIN both : both[j] = l[i]
      /\ \A i \in DOMAIN r : \E j \in DOMAIN both : both[j] = r[i]
      /\ \A j \in DOMAIN both : \/ \E i \in DOMAIN l : both[j] = l[i]
                                \/ \E i \in DOMAIN r : both[j] = r[i]
  <2>1. IsList(both) /\ Len(both) = Len(l) + Len(r)
    BY <1>2, <1>14, Concatenated
  <2>2. (\A i \in DOMAIN l : \E j \in DOMAIN both : both[j] = l[i])
        /\ (\A i \in DOMAIN r : \E j \in DOMAIN both : both[j] = r[i])
    BY <1>2, <1>14, Concatenated
  <2>3. \A j \in DOMAIN both : \/ \E i \in DOMAIN l : both[j] = l[i]
                              \/ \E i \in DOMAIN r : both[j] = r[i]
    BY <1>2, <1>14, Concatenated
  <2> QED BY <2>1, <2>2, <2>3
<1>8. /\ IsList(merged)
      /\ Len(merged) <= Len(both)
      /\ IsDistinct(merged)
      /\ \A i \in DOMAIN both : Keeps(merged, both[i])
      /\ \A k \in DOMAIN merged : CitedBy(merged[k]) \subseteq UNION {CitedBy(both[i]) : i \in DOMAIN both}
  BY <1>7, MergingLists DEF IsDistinct
<1> HIDE DEF merged
<1>9. \A j \in DOMAIN both : CitedBy(both[j]) \subseteq known
  BY <1>5, <1>6, <1>7
<1>10. UNION {CitedBy(both[i]) : i \in DOMAIN both} \subseteq known
  BY <1>9
<1>11. \A k \in DOMAIN merged : CitedBy(merged[k]) \subseteq known
  BY <1>8, <1>10
<1>12. IsFacts(Merge(left, right))
  BY <1>1, <1>3, <1>4, <1>8, <1>11 DEF IsFacts, HasEvidence, known
<1>13. (\A i \in DOMAIN l : Keeps(merged, l[i])) /\ \A i \in DOMAIN r : Keeps(merged, r[i])
  BY <1>7, <1>8
<1> QED BY <1>1, <1>7, <1>8, <1>12, <1>13 DEF l, r

\* Each kind of contract has its own place among the kinds.
LEMMA KindNumbers ==
    ASSUME NEW kind \in ToSet(Kinds)
    PROVE  KindNumber(kind) \in 1..4 /\ Kinds[KindNumber(kind)] = kind
<1>1. DOMAIN Kinds = 1..4
  BY DEF Kinds
<1>2. \E i \in DOMAIN Kinds : Kinds[i] = kind
  BY DEF ToSet
<1> QED BY <1>1, <1>2 DEF KindNumber

\* The comparison of ids by kind and name is a strict total order (compareContractFacts).
LEMMA IdsInOrder ==
    ASSUME NEW left \in ToSet(Kinds) \X Nat, NEW right \in ToSet(Kinds) \X Nat
    PROVE  /\ IdPrecedes(left, right) => ~IdPrecedes(right, left)
           /\ left # right => IdPrecedes(left, right) \/ IdPrecedes(right, left)
           /\ \A other \in ToSet(Kinds) \X Nat :
                  IdPrecedes(left, right) /\ IdPrecedes(right, other) => IdPrecedes(left, other)
<1> DEFINE number(id) == KindNumber(id[1])
<1>1. \A id \in ToSet(Kinds) \X Nat :
         number(id) \in 1..4 /\ Kinds[number(id)] = id[1] /\ id[2] \in Nat /\ id = <<id[1], id[2]>>
  BY KindNumbers
<1>2. \A x, y : IdPrecedes(x, y) <=> (number(x) < number(y) \/ (x[1] = y[1] /\ x[2] < y[2]))
  BY DEF IdPrecedes
<1>3. \A x, y : x[1] = y[1] => number(x) = number(y)
  OBVIOUS
<1> HIDE DEF number
<1>4. \A x, y \in ToSet(Kinds) \X Nat : number(x) = number(y) => x[1] = y[1]
  BY <1>1
<1>5. \A x \in ToSet(Kinds) \X Nat : number(x) \in Int /\ x[2] \in Int
  BY <1>1
<1>6. IdPrecedes(left, right) => ~IdPrecedes(right, left)
  BY <1>2, <1>3, <1>5
<1>7. left # right => IdPrecedes(left, right) \/ IdPrecedes(right, left)
  <2> SUFFICES ASSUME left # right PROVE IdPrecedes(left, right) \/ IdPrecedes(right, left)
    OBVIOUS
  <2>1. number(left) \in Int /\ number(right) \in Int /\ left[2] \in Int /\ right[2] \in Int
    BY <1>5
  <2>2. CASE number(left) = number(right)
    <3>1. left[1] = right[1]
      BY <2>2, <1>4
    <3>2. left[2] # right[2]
      BY <3>1, <1>1
    <3> QED BY <3>1, <3>2, <2>1, <1>2
  <2> QED BY <2>1, <2>2, <1>2
<1>8. ASSUME NEW other \in ToSet(Kinds) \X Nat, IdPrecedes(left, right), IdPrecedes(right, other)
      PROVE  IdPrecedes(left, other)
  <2>1. /\ number(left) \in Int /\ number(right) \in Int /\ number(other) \in Int
        /\ left[2] \in Int /\ right[2] \in Int /\ other[2] \in Int
    BY <1>5
  <2>2. /\ number(left) < number(right) \/ (left[1] = right[1] /\ left[2] < right[2])
        /\ number(right) < number(other) \/ (right[1] = other[1] /\ right[2] < other[2])
    BY <1>2, <1>8
  <2>3. (left[1] = right[1] => number(left) = number(right))
        /\ (right[1] = other[1] => number(right) = number(other))
    BY <1>3
  <2>4. number(left) < number(other) \/ (left[1] = other[1] /\ left[2] < other[2])
    BY <2>1, <2>2, <2>3
  <2> QED BY <2>4, <1>2
<1> QED BY <1>6, <1>7, <1>8

\* The index has the contracts of its facts, in the order of their ids, and its
\* references hold.
LEMMA IndexIsSound ==
    ASSUME NEW facts, IsFacts(facts)
    PROVE  /\ IsFacts(CreateIndex(facts))
           /\ ReferencesHold(CreateIndex(facts))
           /\ Len(CreateIndex(facts).contracts) = Len(facts.contracts)
           /\ \A i \in DOMAIN facts.contracts : Keeps(CreateIndex(facts).contracts, facts.contracts[i])
<1> DEFINE contracts == facts.contracts
           n == Len(contracts)
           D == DOMAIN contracts
           R == {p \in D \X D : IdPrecedes(contracts[p[1]].id, contracts[p[2]].id)}
           list == InOrder(D, R)
           built == CreateIndex(facts)
           made == built.contracts
           known == {item.id : item \in facts.evidence}
<1>1. IsList(contracts) /\ n \in Nat /\ D = 1..n /\ IsFiniteSet(D) /\ Cardinality(D) = n
  BY ListsAre DEF IsFacts, HasEvidence
<1>2. built.evidence = facts.evidence /\ made = [k \in DOMAIN list |-> contracts[list[k]]]
  BY DEF CreateIndex
<1>3. \A i \in D : contracts[i].id \in ToSet(Kinds) \X Nat
  BY <1>1 DEF IsList, IsContract
<1>4. \A i, j \in D : contracts[i].id = contracts[j].id => i = j
  BY DEF IsFacts, IsDistinct
<1>5. IsOrder(D, R)
  <2>1. \A i, j \in D : <<i, j>> \in R <=> IdPrecedes(contracts[i].id, contracts[j].id)
    OBVIOUS
  <2> HIDE DEF R, D, contracts
  <2>2. ASSUME NEW i \in D, NEW j \in D
        PROVE  (<<i, j>> \in R => <<j, i>> \notin R) /\ (i # j => <<i, j>> \in R \/ <<j, i>> \in R)
    <3>1. i # j => contracts[i].id # contracts[j].id
      BY <1>4
    <3> QED BY <3>1, <2>1, <1>3, IdsInOrder
  <2>3. ASSUME NEW i \in D, NEW j \in D, NEW k \in D, <<i, j>> \in R, <<j, k>> \in R
        PROVE  <<i, k>> \in R
    BY <2>1, <2>3, <1>3, IdsInOrder
  <2> QED BY <2>2, <2>3 DEF IsOrder
<1> HIDE DEF R
<1>6. /\ list \in [1..n -> D]
      /\ \A i \in D : \E k \in 1..n : list[k] = i
      /\ \A j, k \in 1..n : list[j] = list[k] => j = k
  <2> HIDE DEF D
  <2>1. /\ list \in [1..Cardinality(D) -> D]
        /\ \A i \in D : \E k \in 1..Cardinality(D) : list[k] = i
        /\ \A j, k \in 1..Cardinality(D) : list[j] = list[k] => j = k
    BY <1>1, <1>5, InOrderSorts
  <2> QED BY <2>1, <1>1
<1> HIDE DEF list, built, made
<1>7. DOMAIN list = 1..n
  BY <1>6
<1>8. made = [k \in 1..n |-> contracts[list[k]]] /\ DOMAIN made = 1..n
  BY <1>2, <1>7
<1>9. \A k \in 1..n : made[k] = contracts[list[k]] /\ list[k] \in D
  BY <1>6, <1>8
<1> HIDE DEF D, contracts, n
<1>10. \A k \in 1..n : IsContract(made[k])
  BY <1>1, <1>9 DEF IsList, D
<1>11. IsList(made) /\ Len(made) = n
  <2>1. made = [k \in 1..n |-> made[k]]
    BY <1>8, <1>9
  <2> QED BY <2>1, <1>1, <1>8, <1>10, ListOf
<1>12. \A j, k \in 1..n : made[j].id = made[k].id => j = k
  <2> SUFFICES ASSUME NEW j \in 1..n, NEW k \in 1..n, made[j].id = made[k].id PROVE j = k
    OBVIOUS
  <2>1. list[j] = list[k]
    BY <1>4, <1>9
  <2> QED BY <2>1, <1>6
<1>13. \A k \in 1..n : CitedBy(made[k]) \subseteq known
  <2>1. \A i \in D : CitedBy(contracts[i]) \subseteq known
    BY DEF IsFacts, HasEvidence, D, contracts
  <2> QED BY <2>1, <1>9
<1>14. IsFacts(built)
  <2>1. /\ IsFiniteSet(built.evidence)
        /\ \A left, right \in built.evidence : left.id = right.id => left = right
    BY <1>2 DEF IsFacts, HasEvidence
  <2> QED BY <2>1, <1>2, <1>8, <1>11, <1>12, <1>13 DEF IsFacts, HasEvidence, IsDistinct, made
<1>15. \A i \in D : Keeps(made, contracts[i])
  <2> SUFFICES ASSUME NEW i \in D PROVE Keeps(made, contracts[i])
    OBVIOUS
  <2>1. PICK k \in 1..n : list[k] = i
    BY <1>6
  <2>2. made[k] = contracts[i] /\ k \in DOMAIN made
    BY <2>1, <1>8, <1>9
  <2> QED BY <2>2, KeepsItsOwn
<1>16. ReferencesHold(built)
  <2>1. Cardinality(known) = Cardinality(facts.evidence)
    <3> DEFINE id == [item \in facts.evidence |-> item.id]
    <3>1. known = {id[item] : item \in facts.evidence}
      OBVIOUS
    <3>2. \A x, y \in facts.evidence : id[x] = id[y] => x = y
      BY DEF IsFacts, HasEvidence
    <3>3. IsFiniteSet(facts.evidence)
      BY DEF IsFacts, HasEvidence
    <3> HIDE DEF id, known
    <3> QED BY <3>1, <3>2, <3>3, ImageIsFinite
  <2>2. Cardinality(Ids(made)) = Len(made)
    <3> DEFINE id == [k \in 1..n |-> made[k].id]
    <3>1. Ids(made) = {id[k] : k \in 1..n}
      BY <1>8 DEF Ids
    <3>2. \A j, k \in 1..n : id[j] = id[k] => j = k
      BY <1>12
    <3>3. IsFiniteSet(1..n) /\ Cardinality(1..n) = n
      BY <1>1, FS_Interval
    <3> DEFINE P == 1..n
    <3> HIDE DEF id
    <3>4. \A j, k \in P : id[j] = id[k] => j = k
      BY <3>2
    <3>5. IsFiniteSet(P)
      BY <3>3
    <3> HIDE DEF P
    <3>6. Cardinality({id[k] : k \in P}) = Cardinality(P)
      BY <3>4, <3>5, ImageIsFinite
    <3> QED BY <3>1, <3>3, <3>6, <1>11 DEF P
  <2>3. \A k \in 1..n : \A fact \in made[k].facts : fact.evidence # {}
    BY <1>10 DEF IsContract, IsFact
  <2> QED BY <2>1, <2>2, <2>3, <1>2, <1>8, <1>13 DEF ReferencesHold, made
<1> QED BY <1>11, <1>14, <1>15, <1>16 DEF made, built, D, contracts, n
-----------------------------------------------------------------------------
(***************************************************************************)
(* The inputs of a call.                                                   *)
(***************************************************************************)
LEMMA KindsAre == ToSet(Kinds) = {"event", "package", "service", "tool"}
<1>1. DOMAIN Kinds = 1..4 /\ Kinds[1] = "event" /\ Kinds[2] = "package"
      /\ Kinds[3] = "service" /\ Kinds[4] = "tool"
  BY DEF Kinds
<1> QED BY <1>1 DEF ToSet

\* The providers, and which of them is asked first.
LEMMA ProvidersAre ==
    /\ ToSet(Providers) = {"service", "event", "tool"}
    /\ Head(Providers) = "service" /\ Tail(Providers) = <<"event", "tool">>
<1>1. DOMAIN Providers = 1..3 /\ Providers[1] = "service" /\ Providers[2] = "event"
      /\ Providers[3] = "tool"
  BY DEF Providers
<1>2. Head(Providers) = "service" /\ Tail(Providers) = <<"event", "tool">>
  BY DEF Providers
<1> QED BY <1>1, <1>2 DEF ToSet

\* The package contracts of an acquisition, one for each package, are facts that may
\* be merged.
LEMMA PackagesAreFacts ==
    ASSUME NEW exports, exports \in Seq(SUBSET SUBSET STRING),
           \A n \in DOMAIN exports : IsFiniteSet(exports[n])
    PROVE  IsFacts(Packages(exports)) /\ Len(Packages(exports).contracts) = Len(exports)
<1> DEFINE D == DOMAIN exports
           len == Len(exports)
           contracts == Packages(exports).contracts
           evidence == Packages(exports).evidence
           names == {"manifest", "types"}
           item == [p \in names \X D |-> [id |-> p, content |-> p[2]]]
<1>1. len \in Nat /\ D = 1..len /\ IsFiniteSet(D)
  <2>1. len \in Nat /\ D = 1..len
    OBVIOUS
  <2> HIDE DEF len, D
  <2>2. IsFiniteSet(1..len)
    BY <2>1, FS_Interval
  <2> QED BY <2>1, <2>2
<1>2. contracts = [n \in D |-> Package(n, exports[n])]
      /\ evidence = {[id |-> <<of, n>>, content |-> n] : of \in names, n \in D}
  BY DEF Packages
<1>9. \A n \in D : IsFiniteSet(exports[n])
  OBVIOUS
<1> HIDE DEF contracts, evidence, len, D
<1>3. \A x : x \in evidence <=> \E of \in names : \E n \in D : x = [id |-> <<of, n>>, content |-> n]
  BY <1>2
<1>4. ASSUME NEW n \in D
      PROVE  IsContract(Package(n, exports[n])) /\ Package(n, exports[n]).id = <<"package", n>>
             /\ CitedBy(Package(n, exports[n])) \subseteq {<<"manifest", n>>, <<"types", n>>}
  <2> DEFINE some == exports[n]
             cited == {<<"types", n>>}
             fact == [value \in some |-> [key |-> "declaration-export", value |-> value,
                                          evidence |-> cited]]
             facts == {[key |-> "declaration-export", value |-> value, evidence |-> cited] :
                          value \in some}
             summary == {"installed", "package", "n" \o ToString(n)}
             made == Package(n, some)
  <2>1. n \in Nat /\ IsFiniteSet(some)
    BY <1>1, <1>9
  <2>2. made = [id |-> <<"package", n>>, availability |-> "unknown", summary |-> summary,
                facts |-> facts, evidence |-> {<<"manifest", n>>, <<"types", n>>}]
    BY DEF Package
  <2>11. cited # {}
    OBVIOUS
  <2> HIDE DEF summary, made, some, cited
  <2>3. facts = {fact[value] : value \in some}
    OBVIOUS
  <2>4. \A f \in facts : IsFact(f) /\ f.evidence = cited
    BY <2>11 DEF IsFact
  <2> HIDE DEF fact, facts
  <2>5. IsFiniteSet(facts)
    BY <2>1, <2>3, ImageIsFinite
  <2>6. "package" \in ToSet(Kinds)
    BY KindsAre
  <2>7. made.id \in ToSet(Kinds) \X Nat /\ made.id[1] = "package" /\ made.id = <<"package", n>>
    BY <2>1, <2>2, <2>6
  <2>8. made.availability = "unknown" /\ made.facts = facts
        /\ made.evidence = {<<"manifest", n>>, <<"types", n>>}
        /\ made = [id |-> made.id, availability |-> made.availability, summary |-> made.summary,
                   facts |-> made.facts, evidence |-> made.evidence]
    BY <2>2
  <2>9. IsContract(made)
    <3>1. \A f \in facts : IsFact(f)
      BY <2>4
    <3> QED BY <2>5, <2>7, <2>8, <3>1 DEF IsContract
  <2>10. CitedBy(made) \subseteq {<<"manifest", n>>, <<"types", n>>}
    BY <2>4, <2>8 DEF CitedBy, cited
  <2> QED BY <2>7, <2>9, <2>10 DEF made, some
<1>5. DOMAIN contracts = 1..len /\ contracts = [n \in 1..len |-> contracts[n]]
      /\ \A n \in D : contracts[n] = Package(n, exports[n])
  BY <1>1, <1>2
<1>6. IsList(contracts) /\ Len(contracts) = len
  BY <1>1, <1>4, <1>5, ListOf
<1>7. IsDistinct(contracts)
  <2> SUFFICES ASSUME NEW i \in D, NEW j \in D, contracts[i].id = contracts[j].id PROVE i = j
    BY <1>1, <1>5 DEF IsDistinct
  <2>1. <<"package", i>> = <<"package", j>>
    BY <1>4, <1>5
  <2> QED BY <2>1
<1>8. IsFiniteSet(evidence)
  <2>1. evidence = {item[p] : p \in names \X D}
    <3>1. \A of \in names : \A n \in D : item[<<of, n>>] = [id |-> <<of, n>>, content |-> n]
      OBVIOUS
    <3>2. \A p \in names \X D : \E of \in names : \E n \in D : p = <<of, n>>
      OBVIOUS
    <3>3. \A of \in names : \A n \in D : <<of, n>> \in names \X D
      OBVIOUS
    <3> HIDE DEF names, item
    <3>4. ASSUME NEW x \in evidence PROVE \E p \in names \X D : x = item[p]
      <4>1. PICK of \in names : \E n \in D : x = [id |-> <<of, n>>, content |-> n]
        BY <1>3
      <4>2. PICK n \in D : x = [id |-> <<of, n>>, content |-> n]
        BY <4>1
      <4>3. x = item[<<of, n>>] /\ <<of, n>> \in names \X D
        BY <4>2, <3>1, <3>3
      <4> QED BY <4>3
    <3>5. ASSUME NEW p \in names \X D PROVE item[p] \in evidence
      <4>1. PICK of \in names : \E n \in D : p = <<of, n>>
        BY <3>2
      <4>2. PICK n \in D : p = <<of, n>>
        BY <4>1
      <4>3. item[p] = [id |-> <<of, n>>, content |-> n]
        BY <4>2, <3>1
      <4> QED BY <4>3, <1>3
    <3>6. \A x : x \in evidence <=> \E p \in names \X D : x = item[p]
      BY <3>4, <3>5
    <3> QED BY <3>6
  <2>2. IsFiniteSet(names)
    <3>1. IsFiniteSet({"manifest"}) /\ names = {"manifest"} \cup {"types"} /\ IsFiniteSet({"types"})
      BY FS_Singleton
    <3> QED BY <3>1, FS_Union
  <2>3. IsFiniteSet(names \X D)
    <3> HIDE DEF names
    <3> QED BY <1>1, <2>2, FS_Product
  <2> HIDE DEF item, names
  <2> QED BY <2>1, <2>3, ImageIsFinite
<1>10. \A l, r \in evidence : l.id = r.id => l = r
  <2> SUFFICES ASSUME NEW l \in evidence, NEW r \in evidence, l.id = r.id PROVE l = r
    OBVIOUS
  <2>1. PICK of \in names : \E n \in D : l = [id |-> <<of, n>>, content |-> n]
    BY <1>3
  <2>2. PICK n \in D : l = [id |-> <<of, n>>, content |-> n]
    BY <2>1
  <2>3. PICK by \in names : \E k \in D : r = [id |-> <<by, k>>, content |-> k]
    BY <1>3
  <2>4. PICK k \in D : r = [id |-> <<by, k>>, content |-> k]
    BY <2>3
  <2>5. <<of, n>> = <<by, k>>
    BY <2>2, <2>4
  <2>6. of = by /\ n = k
    BY <2>5
  <2> QED BY <2>2, <2>4, <2>6
<1>11. \A n \in D : {<<"manifest", n>>, <<"types", n>>} \subseteq {x.id : x \in evidence}
  <2> SUFFICES ASSUME NEW n \in D, NEW of \in names PROVE <<of, n>> \in {x.id : x \in evidence}
    OBVIOUS
  <2> DEFINE x == [id |-> <<of, n>>, content |-> n]
  <2>1. x \in evidence
    BY <1>3
  <2>2. x.id = <<of, n>>
    OBVIOUS
  <2> QED BY <2>1, <2>2
<1>12. \A n \in DOMAIN contracts : CitedBy(contracts[n]) \subseteq {x.id : x \in evidence}
  <2> SUFFICES ASSUME NEW n \in D PROVE CitedBy(contracts[n]) \subseteq {x.id : x \in evidence}
    BY <1>1, <1>5
  <2>1. CitedBy(contracts[n]) \subseteq {<<"manifest", n>>, <<"types", n>>}
    BY <1>4, <1>5
  <2> QED BY <2>1, <1>11
<1> QED BY <1>6, <1>7, <1>8, <1>10, <1>12 DEF IsFacts, HasEvidence, contracts, evidence, len

\* What a provider lists enters with evidence of its own.
LEMMA NormalizedHasEvidence ==
    ASSUME NEW provider \in ToSet(Providers), NEW catalog \in Answering,
           \A i \in DOMAIN catalog.rows : IsFiniteSet(catalog.rows[i].signatures)
    PROVE  HasEvidence(Normalized(provider, catalog))
<1> DEFINE rows == catalog.rows
           cited == {EvidenceId(provider)}
           listed(row) == {[key |-> FactKey(provider), value |-> value, evidence |-> cited] :
                              value \in row.signatures}
           extra == IF provider = "event"
                    THEN {[key |-> "dispatch-mode", value |-> {"c"}, evidence |-> cited]}
                    ELSE {}
           contract(row) ==
               [id |-> <<provider, row.n>>,
                availability |-> IF provider = "tool" THEN "available" ELSE "unknown",
                summary |-> row.words, facts |-> listed(row) \cup extra, evidence |-> cited]
           contracts == Normalized(provider, catalog).contracts
           evidence == Normalized(provider, catalog).evidence
           len == Len(rows)
<1>1. contracts = [i \in DOMAIN rows |-> contract(rows[i])]
      /\ evidence = {[id |-> EvidenceId(provider), content |-> rows]}
  BY DEF Normalized
<1>2. len \in Nat /\ DOMAIN rows = 1..len /\ \A i \in DOMAIN rows : rows[i] \in Rows
  BY DEF Answering
<1>3. provider \in ToSet(Kinds)
  BY KindsAre, ProvidersAre
<1>4. IsFiniteSet(extra) /\ \A f \in extra : IsFact(f) /\ f.evidence = cited
  <2>1. CASE provider = "event"
    <3> DEFINE f == [key |-> "dispatch-mode", value |-> {"c"}, evidence |-> cited]
    <3>1. cited # {}
      OBVIOUS
    <3> HIDE DEF cited
    <3>2. IsFact(f) /\ f.evidence = cited
      BY <3>1 DEF IsFact
    <3>3. extra = {f}
      BY <2>1
    <3> HIDE DEF f, extra
    <3> QED BY <3>2, <3>3, FS_Singleton
  <2>2. CASE provider # "event"
    <3>1. extra = {}
      BY <2>2
    <3> QED BY <3>1, FS_EmptySet
  <2> QED BY <2>1, <2>2
<1>5. ASSUME NEW row \in Rows, IsFiniteSet(row.signatures)
      PROVE  IsContract(contract(row)) /\ CitedBy(contract(row)) \subseteq cited
  <2> DEFINE sigs == row.signatures
             fact == [value \in sigs |-> [key |-> FactKey(provider), value |-> value, evidence |-> cited]]
             all == listed(row)
             facts == all \cup extra
             made == contract(row)
  <2>1. all = {fact[value] : value \in sigs}
    OBVIOUS
  <2>2. \A f \in all : IsFact(f) /\ f.evidence = cited
    BY DEF IsFact
  <2> HIDE DEF fact, sigs
  <2>3. IsFiniteSet(all)
    <3>1. IsFiniteSet(sigs)
      BY <1>5 DEF sigs
    <3> QED BY <2>1, <3>1, ImageIsFinite
  <2>4. IsFiniteSet(facts) /\ \A f \in facts : IsFact(f) /\ f.evidence = cited
    <3> HIDE DEF all, extra
    <3> QED BY <1>4, <2>2, <2>3, FS_Union
  <2>5. made.id = <<provider, row.n>> /\ row.n \in Nat
    BY DEF Rows
  <2>6. made.facts = facts /\ made.evidence = cited /\ cited # {}
        /\ made.availability = (IF provider = "tool" THEN "available" ELSE "unknown")
        /\ made = [id |-> made.id, availability |-> made.availability, summary |-> made.summary,
                   facts |-> made.facts, evidence |-> made.evidence]
    OBVIOUS
  <2> HIDE DEF made, facts, cited
  <2>7. made.id \in ToSet(Kinds) \X Nat /\ made.id[1] = provider
    BY <1>3, <2>5
  <2>8. IsContract(made)
    <3>1. IsFiniteSet(facts) /\ \A f \in facts : IsFact(f)
      BY <2>4
    <3> QED BY <2>6, <2>7, <3>1 DEF IsContract
  <2>9. CitedBy(made) \subseteq cited
    BY <2>4, <2>6 DEF CitedBy
  <2> QED BY <2>8, <2>9 DEF made
<1> HIDE DEF contracts, evidence, rows, contract, len
<1>6. \A i \in DOMAIN rows : contracts[i] = contract(rows[i])
  BY <1>1
<1>7. \A i \in DOMAIN rows : IsFiniteSet(rows[i].signatures)
  BY DEF rows
<1>8. \A i \in DOMAIN rows : IsContract(contracts[i]) /\ CitedBy(contracts[i]) \subseteq cited
  BY <1>2, <1>5, <1>6, <1>7
<1>9. DOMAIN contracts = 1..len /\ contracts = [i \in 1..len |-> contracts[i]]
  BY <1>1, <1>2
<1>10. IsList(contracts)
  BY <1>2, <1>8, <1>9, ListOf
<1>11. cited \subseteq {item.id : item \in evidence}
  <2> DEFINE item == [id |-> EvidenceId(provider), content |-> rows]
  <2>1. item \in evidence /\ item.id = EvidenceId(provider)
    BY <1>1
  <2> QED BY <2>1
<1>12. IsFiniteSet(evidence) /\ \A l, r \in evidence : l.id = r.id => l = r
  BY <1>1, FS_Singleton
<1>13. \A i \in DOMAIN contracts : CitedBy(contracts[i]) \subseteq {item.id : item \in evidence}
  BY <1>2, <1>8, <1>9, <1>11
<1> QED BY <1>10, <1>12, <1>13 DEF HasEvidence, contracts, evidence
-----------------------------------------------------------------------------
(***************************************************************************)
(* The invariant of a call.                                                *)
(***************************************************************************)
\* The inputs are those of a call.
InputsAreSound ==
    /\ IsFacts(base)
    /\ query \in Queries
    /\ host \in [ToSet(Providers) -> Answering]
    /\ \A provider \in ToSet(Providers) : \A i \in DOMAIN host[provider].rows :
           IsFiniteSet(host[provider].rows[i].signatures)
    /\ \/ limits = <<>> /\ Len(base.contracts) <= Len(InverseFrequency)
       \/ /\ limits \in Limits
          /\ Len(base.contracts) + limits.maxContracts <= Len(InverseFrequency)

\* A provider is absent, or what it lists is among these contracts.
KeepsRows(contracts, provider) ==
    \/ host[provider].shape = "absent"
    \/ \A i \in DOMAIN Normalized(provider, host[provider]).contracts :
           Keeps(contracts, Normalized(provider, host[provider]).contracts[i])

\* What was acquired has the rows of all that were asked, within the limit.
AcquiredIsSound ==
    /\ plan \in {<<>>, <<"tool">>, <<"event", "tool">>, <<"service", "event", "tool">>}
    /\ IsFacts(acquired)
    /\ limits # <<>> =>
           /\ Len(acquired.contracts) <= limits.maxContracts
           /\ \A provider \in ToSet(Providers) :
                  provider \in ToSet(plan) \/ KeepsRows(acquired.contracts, provider)

\* The index has everything, its references hold, and the table of Idf is
\* large enough for it.
IndexIsComplete ==
    /\ IsFacts(index)
    /\ Len(index.contracts) <= Len(InverseFrequency)
    /\ \A i \in DOMAIN base.contracts : Keeps(index.contracts, base.contracts[i])
    /\ limits # <<>> =>
           /\ Len(index.contracts) <= Len(base.contracts) + limits.maxContracts
           /\ \A provider \in ToSet(Providers) : KeepsRows(index.contracts, provider)

\* An answer is that of the index.
AnswerIsOfTheIndex ==
    answer = "ok" =>
        /\ index # <<>>
        /\ IsSearch => LET found == Searched(index, query)
                       IN  response = [lane |-> found.lane, matches |-> found.matches,
                                       evidence |-> SearchEvidence(index, found.matches)]
        /\ ~IsSearch => /\ query.id \in Ids(index.contracts)
                        /\ response = Inspected(index, query.id)

AnswerInv ==
    /\ InputsAreSound
    /\ AcquiredIsSound
    /\ index # <<>> => IndexIsComplete
    /\ answer # "internal error"
    /\ AnswerIsOfTheIndex

\* Before the first provider is asked nothing is collected, which may be merged too.
LEMMA NothingIsFacts == IsFacts(Nothing) /\ Len(Nothing.contracts) = 0
<1>1. Nothing.evidence = {} /\ Nothing.contracts = <<>>
  BY DEF Nothing
<1>2. IsList(<<>>) /\ Len(<<>>) = 0
  BY DEF IsList
<1>3. IsFacts(Nothing)
  BY <1>1, <1>2, FS_EmptySet DEF IsFacts, HasEvidence, IsDistinct
<1> QED BY <1>1, <1>2, <1>3

\* Which providers are left to ask, and the next of them.
LEMMA SetsOfPlans ==
    /\ \A x : x \notin ToSet(<<>>)
    /\ ToSet(<<"tool">>) = {"tool"}
    /\ ToSet(<<"event", "tool">>) = {"event", "tool"}
    /\ ToSet(<<"service", "event", "tool">>) = {"service", "event", "tool"}
    /\ Head(<<"tool">>) = "tool" /\ Tail(<<"tool">>) = <<>>
    /\ Head(<<"event", "tool">>) = "event" /\ Tail(<<"event", "tool">>) = <<"tool">>
    /\ Head(<<"service", "event", "tool">>) = "service"
    /\ Tail(<<"service", "event", "tool">>) = <<"event", "tool">>
<1>1. DOMAIN <<"tool">> = 1..1 /\ DOMAIN <<"event", "tool">> = 1..2
      /\ DOMAIN <<"service", "event", "tool">> = 1..3 /\ DOMAIN <<>> = {}
  OBVIOUS
<1>2. 1..1 = {1} /\ 1..2 = {1, 2} /\ 1..3 = {1, 2, 3}
  OBVIOUS
<1>3. ToSet(<<"tool">>) = {"tool"}
  BY DEF ToSet
<1>4. ToSet(<<"event", "tool">>) = {"event", "tool"}
  BY DEF ToSet
<1>5. ToSet(<<"service", "event", "tool">>) = {"service", "event", "tool"}
  BY DEF ToSet
<1>6. \A x : x \notin ToSet(<<>>)
  BY DEF ToSet
<1> QED BY <1>3, <1>4, <1>5, <1>6

\* A call begins with its invariant.
LEMMA InitIsAnswerInv == Init => AnswerInv
<1> SUFFICES ASSUME Init PROVE AnswerInv
  OBVIOUS
<1>1. PICK call \in Calls : /\ base = Packages(call.exports)
                            /\ query = call.query
                            /\ limits = call.limits
                            /\ host = call.host
  BY DEF Init
<1>2. IsCall(call)
  BY <1>1, CallsAssumption
<1>3. IsFacts(base) /\ Len(base.contracts) = Len(call.exports)
  BY <1>1, <1>2, PackagesAreFacts DEF IsCall
<1>4. InputsAreSound
  BY <1>1, <1>2, <1>3 DEF InputsAreSound, IsCall
<1>5. plan \in {<<>>, <<"service", "event", "tool">>} /\ (limits # <<>> => plan = <<"service", "event", "tool">>)
  BY DEF Init, Providers
<1>6. AcquiredIsSound
  <2>1. IsFacts(acquired) /\ Len(acquired.contracts) = 0
    BY NothingIsFacts DEF Init
  <2>2. limits # <<>> => limits \in Limits
    BY <1>4 DEF InputsAreSound
  <2>3. limits # <<>> => limits.maxContracts \in Nat
    BY <2>2 DEF Limits
  <2>4. limits # <<>> => \A provider \in ToSet(Providers) : provider \in ToSet(plan)
    BY <1>5, ProvidersAre, SetsOfPlans
  <2> QED BY <1>5, <2>1, <2>3, <2>4 DEF AcquiredIsSound
<1> QED BY <1>4, <1>6 DEF Init, AnswerInv, AnswerIsOfTheIndex

\* A call that fails keeps the invariant.
LEMMA FailsKeepsInv ==
    ASSUME AnswerInv, NEW code, Fails(code), code \notin {"internal error", "ok"}
    PROVE  AnswerInv'
<1>1. UNCHANGED <<base, query, limits, host, plan, acquired, index, response>> /\ answer' = code
  BY DEF Fails, inputs
<1>2. InputsAreSound'
  BY <1>1 DEF AnswerInv, InputsAreSound
<1>3. AcquiredIsSound'
  BY <1>1 DEF AnswerInv, AcquiredIsSound, KeepsRows
<1>4. (index # <<>> => IndexIsComplete)'
  BY <1>1 DEF AnswerInv, IndexIsComplete, KeepsRows
<1> QED BY <1>1, <1>2, <1>3, <1>4 DEF AnswerInv, AnswerIsOfTheIndex

\* A provider that answers, or fails, keeps the invariant.
LEMMA AskProviderKeepsInv ==
    ASSUME AnswerInv, AskProvider
    PROVE  AnswerInv'
<1> DEFINE provider == Head(plan)
           catalog == host[provider]
           next == Normalized(provider, catalog)
           merged == Merge(acquired, next)
<1>1. /\ answer = "none" /\ plan # <<>>
      /\ \/ /\ catalog.shape = "absent"
            /\ plan' = Tail(plan)
            /\ UNCHANGED <<inputs, acquired, index, response, answer>>
         \/ \E code \in {Invalid, "aborted"} : Fails(code)
         \/ CatalogFailure(provider, catalog) # "none" /\ Fails(CatalogFailure(provider, catalog))
         \/ Fails(Invalid)
         \/ Fails(LimitExceeded)
         \/ /\ ~MergeFails(acquired, next) /\ ~Exceeds(merged.contracts)
            /\ acquired' = merged
            /\ plan' = Tail(plan)
            /\ UNCHANGED <<inputs, index, response, answer>>
  BY DEF AskProvider
<1>2. plan \in {<<>>, <<"tool">>, <<"event", "tool">>, <<"service", "event", "tool">>}
  BY DEF AnswerInv, AcquiredIsSound
<1>3. /\ provider \in ToSet(Providers)
      /\ Tail(plan) \in {<<>>, <<"tool">>, <<"event", "tool">>, <<"service", "event", "tool">>}
      /\ \A other : other \in ToSet(plan) => other = provider \/ other \in ToSet(Tail(plan))
  <2>1. CASE plan = <<"tool">>
    BY <2>1, ProvidersAre, SetsOfPlans
  <2>2. CASE plan = <<"event", "tool">>
    BY <2>2, ProvidersAre, SetsOfPlans
  <2>3. CASE plan = <<"service", "event", "tool">>
    BY <2>3, ProvidersAre, SetsOfPlans
  <2> QED BY <1>1, <1>2, <2>1, <2>2, <2>3
<1>4. CASE \E code \in {Invalid, "aborted"} : Fails(code)
  BY <1>4, FailsKeepsInv DEF Invalid
<1>5. CASE Fails(CatalogFailure(provider, catalog))
  <2>1. CatalogFailure(provider, catalog) \in {"none", Invalid, LimitExceeded}
    BY DEF CatalogFailure
  <2>2. CatalogFailure(provider, catalog) \notin {"internal error", "ok"}
    BY <2>1 DEF Invalid, LimitExceeded
  <2> QED BY <1>5, <2>2, FailsKeepsInv
<1>6. CASE Fails(Invalid)
  BY <1>6, FailsKeepsInv DEF Invalid
<1>7. CASE Fails(LimitExceeded)
  BY <1>7, FailsKeepsInv DEF LimitExceeded
<1>8. ASSUME plan' = Tail(plan), UNCHANGED <<inputs, index, response, answer>>,
             IsFacts(acquired'), limits # <<>> => Len(acquired'.contracts) <= limits.maxContracts,
             \A other \in ToSet(Providers) :
                 KeepsRows(acquired.contracts, other) => KeepsRows(acquired'.contracts, other),
             KeepsRows(acquired'.contracts, provider)
      PROVE  AnswerInv'
  <2>1. UNCHANGED <<base, query, limits, host, index, response, answer>>
    BY <1>8 DEF inputs
  <2>2. InputsAreSound'
    BY <2>1 DEF AnswerInv, InputsAreSound
  <2>3. limits # <<>> => \A other \in ToSet(Providers) :
            other \in ToSet(Tail(plan)) \/ KeepsRows(acquired'.contracts, other)
    <3> SUFFICES ASSUME limits # <<>>, NEW other \in ToSet(Providers), other \notin ToSet(Tail(plan))
                 PROVE  KeepsRows(acquired'.contracts, other)
      OBVIOUS
    <3>1. CASE other = provider
      BY <3>1, <1>8
    <3>2. CASE other # provider
      <4>1. other \notin ToSet(plan)
        BY <3>2, <1>3
      <4>2. KeepsRows(acquired.contracts, other)
        BY <4>1 DEF AnswerInv, AcquiredIsSound
      <4> QED BY <4>2, <1>8
    <3> QED BY <3>1, <3>2
  <2>4. AcquiredIsSound'
    <3>1. \A contracts, other : KeepsRows(contracts, other)' <=> KeepsRows(contracts', other)
      BY <2>1 DEF KeepsRows
    <3>2. limits' = limits /\ plan' = Tail(plan)
      BY <2>1, <1>8
    <3> QED BY <1>3, <1>8, <2>1, <2>3, <3>2 DEF AcquiredIsSound, KeepsRows
  <2>5. (index # <<>> => IndexIsComplete)'
    BY <2>1 DEF AnswerInv, IndexIsComplete, KeepsRows
  <2>6. AnswerIsOfTheIndex'
    BY <1>1, <2>1 DEF AnswerIsOfTheIndex
  <2> QED BY <2>1, <2>2, <2>4, <2>5, <2>6 DEF AnswerInv
<1>9. CASE /\ catalog.shape = "absent"
           /\ plan' = Tail(plan)
           /\ UNCHANGED <<inputs, acquired, index, response, answer>>
  <2>1. KeepsRows(acquired'.contracts, provider)
    BY <1>9 DEF KeepsRows
  <2>2. acquired' = acquired
    BY <1>9
  <2>3. IsFacts(acquired) /\ (limits # <<>> => Len(acquired.contracts) <= limits.maxContracts)
    BY DEF AnswerInv, AcquiredIsSound
  <2> QED BY <1>8, <1>9, <2>1, <2>2, <2>3
<1>10. CASE /\ ~MergeFails(acquired, next) /\ ~Exceeds(merged.contracts)
            /\ acquired' = merged
            /\ plan' = Tail(plan)
            /\ UNCHANGED <<inputs, index, response, answer>>
  <2>1. HasEvidence(next)
    <3>1. catalog \in Answering /\ \A i \in DOMAIN catalog.rows : IsFiniteSet(catalog.rows[i].signatures)
      BY <1>3 DEF AnswerInv, InputsAreSound
    <3> HIDE DEF catalog, provider
    <3> QED BY <1>3, <3>1, NormalizedHasEvidence
  <2>2. HasEvidence(acquired)
    BY DEF AnswerInv, AcquiredIsSound, IsFacts
  <2> HIDE DEF next
  <2>3. /\ IsFacts(merged)
        /\ \A i \in DOMAIN acquired.contracts : Keeps(merged.contracts, acquired.contracts[i])
        /\ \A i \in DOMAIN next.contracts : Keeps(merged.contracts, next.contracts[i])
    BY <1>10, <2>1, <2>2, MergingIsSound
  <2>4. IsList(merged.contracts)
    BY <2>3 DEF IsFacts, HasEvidence
  <2> HIDE DEF merged
  <2>5. limits # <<>> => Len(merged.contracts) <= limits.maxContracts
    <3>1. Len(merged.contracts) \in Nat
      BY <2>4, ListsAre
    <3>2. limits # <<>> => limits.maxContracts \in Nat
      BY DEF AnswerInv, InputsAreSound, Limits
    <3>3. ~(Len(merged.contracts) > limits.maxContracts)
      BY <1>10 DEF Exceeds
    <3> QED BY <3>1, <3>2, <3>3
  <2>6. \A other \in ToSet(Providers) :
            KeepsRows(acquired.contracts, other) => KeepsRows(merged.contracts, other)
    <3> SUFFICES ASSUME NEW other \in ToSet(Providers), KeepsRows(acquired.contracts, other),
                        host[other].shape # "absent",
                        NEW i \in DOMAIN Normalized(other, host[other]).contracts
                 PROVE  Keeps(merged.contracts, Normalized(other, host[other]).contracts[i])
      BY DEF KeepsRows
    <3>1. Keeps(acquired.contracts, Normalized(other, host[other]).contracts[i])
      BY DEF KeepsRows
    <3> QED BY <2>3, <3>1, KeepsOfKept
  <2>7. KeepsRows(merged.contracts, provider)
    BY <2>3 DEF KeepsRows, next
  <2> QED BY <1>8, <1>10, <2>3, <2>5, <2>6, <2>7
<1> QED BY <1>1, <1>4, <1>5, <1>6, <1>7, <1>9, <1>10

\* Building the index keeps the invariant: facts are merged, their references checked.
LEMMA MakeIndexKeepsInv ==
    ASSUME AnswerInv, MakeIndex
    PROVE  AnswerInv'
<1> DEFINE facts == IF limits = <<>> THEN base ELSE Merge(base, acquired)
           made == CreateIndex(facts)
<1>1. /\ answer = "none" /\ plan = <<>>
      /\ \/ Fails(Invalid)
         \/ /\ limits = <<>> \/ ~MergeFails(base, acquired)
            /\ index' = IF ReferencesHold(made) THEN made ELSE index
            /\ answer' = IF ReferencesHold(made) THEN answer ELSE "internal error"
            /\ UNCHANGED <<inputs, plan, acquired, response>>
  BY DEF MakeIndex
<1>2. CASE Fails(Invalid)
  BY <1>2, FailsKeepsInv DEF Invalid
<1>3. CASE /\ limits = <<>> \/ ~MergeFails(base, acquired)
           /\ index' = IF ReferencesHold(made) THEN made ELSE index
           /\ answer' = IF ReferencesHold(made) THEN answer ELSE "internal error"
           /\ UNCHANGED <<inputs, plan, acquired, response>>
  <2>1. IsFacts(base) /\ IsFacts(acquired) /\ HasEvidence(base) /\ HasEvidence(acquired)
    BY DEF AnswerInv, InputsAreSound, AcquiredIsSound, IsFacts
  <2>2. /\ IsFacts(facts)
        /\ \A i \in DOMAIN base.contracts : Keeps(facts.contracts, base.contracts[i])
        /\ limits = <<>> => Len(facts.contracts) = Len(base.contracts)
        /\ limits # <<>> =>
               /\ Len(facts.contracts) <= Len(base.contracts) + Len(acquired.contracts)
               /\ \A i \in DOMAIN acquired.contracts : Keeps(facts.contracts, acquired.contracts[i])
    <3>1. CASE limits = <<>>
      <4>1. facts = base
        BY <3>1
      <4> QED BY <2>1, <3>1, <4>1, KeepsItsOwn
    <3>2. CASE limits # <<>>
      <4>1. facts = Merge(base, acquired) /\ ~MergeFails(base, acquired)
        BY <1>3, <3>2
      <4> HIDE DEF facts
      <4> QED BY <2>1, <3>2, <4>1, MergingIsSound
    <3> QED BY <3>1, <3>2
  <2> HIDE DEF facts
  <2>3. /\ IsFacts(made) /\ ReferencesHold(made)
        /\ Len(made.contracts) = Len(facts.contracts)
        /\ \A i \in DOMAIN facts.contracts : Keeps(made.contracts, facts.contracts[i])
    BY <2>2, IndexIsSound
  <2> HIDE DEF made
  <2>4. index' = made /\ UNCHANGED <<base, query, limits, host, plan, acquired, response, answer>>
    BY <1>3, <2>3 DEF inputs
  <2>5. \A i \in DOMAIN base.contracts : Keeps(made.contracts, base.contracts[i])
    BY <2>2, <2>3, KeepsOfKept
  <2>6. Len(base.contracts) \in Nat /\ Len(acquired.contracts) \in Nat /\ Len(made.contracts) \in Nat
    BY <2>1, <2>3, ListsAre DEF IsFacts, HasEvidence
  <2>7. Len(InverseFrequency) \in Nat
    BY WordsAssumption
  <2>8. (limits # <<>> => limits.maxContracts \in Nat)
        /\ \/ limits = <<>> /\ Len(base.contracts) <= Len(InverseFrequency)
           \/ limits \in Limits /\ Len(base.contracts) + limits.maxContracts <= Len(InverseFrequency)
    BY DEF AnswerInv, InputsAreSound, Limits
  <2>9. limits # <<>> => Len(acquired.contracts) <= limits.maxContracts
    BY DEF AnswerInv, AcquiredIsSound
  <2>10. limits # <<>> => Len(made.contracts) <= Len(base.contracts) + limits.maxContracts
    <3> SUFFICES ASSUME limits # <<>>
                 PROVE  Len(made.contracts) <= Len(base.contracts) + limits.maxContracts
      OBVIOUS
    <3>1. limits.maxContracts \in Nat /\ Len(acquired.contracts) <= limits.maxContracts
      BY <2>8, <2>9
    <3>2. Len(made.contracts) <= Len(base.contracts) + Len(acquired.contracts)
      BY <2>2, <2>3
    <3> DEFINE b == Len(base.contracts)
               a == Len(acquired.contracts)
               l == Len(made.contracts)
               m == limits.maxContracts
    <3>3. b \in Nat /\ a \in Nat /\ l \in Nat /\ m \in Nat /\ a <= m /\ l <= b + a
      BY <2>6, <3>1, <3>2
    <3> HIDE DEF a, b, l, m
    <3>4. l <= b + m
      BY <3>3
    <3> QED BY <3>4 DEF b, l, m
  <2>11. Len(made.contracts) <= Len(InverseFrequency)
    <3>1. CASE limits = <<>>
      <4>1. Len(base.contracts) <= Len(InverseFrequency)
        <5>1. limits \in Limits => limits.maxContracts \in Nat
          BY DEF Limits
        <5> QED BY <5>1, <2>6, <2>7, <2>8
      <4> QED BY <2>2, <2>3, <3>1, <4>1
    <3>2. CASE limits # <<>>
      BY <2>6, <2>7, <2>8, <2>10, <3>2
    <3> QED BY <3>1, <3>2
  <2>12. limits # <<>> => \A provider \in ToSet(Providers) : KeepsRows(made.contracts, provider)
    <3> SUFFICES ASSUME limits # <<>>, NEW provider \in ToSet(Providers), host[provider].shape # "absent",
                        NEW i \in DOMAIN Normalized(provider, host[provider]).contracts
                 PROVE  Keeps(made.contracts, Normalized(provider, host[provider]).contracts[i])
      BY DEF KeepsRows
    <3> DEFINE row == Normalized(provider, host[provider]).contracts[i]
    <3>1. provider \notin ToSet(plan)
      BY <1>1, SetsOfPlans
    <3>2. Keeps(acquired.contracts, row)
      BY <3>1 DEF AnswerInv, AcquiredIsSound, KeepsRows
    <3> HIDE DEF row
    <3>3. Keeps(facts.contracts, row)
      BY <2>2, <3>2, KeepsOfKept
    <3>4. Keeps(made.contracts, row)
      BY <2>3, <3>3, KeepsOfKept
    <3> QED BY <3>4 DEF row
  <2>13. InputsAreSound'
    BY <2>4 DEF AnswerInv, InputsAreSound
  <2>14. AcquiredIsSound'
    BY <2>4 DEF AnswerInv, AcquiredIsSound, KeepsRows
  <2>15. IndexIsComplete'
    BY <2>3, <2>4, <2>5, <2>10, <2>11, <2>12 DEF IndexIsComplete, KeepsRows
  <2>16. answer' = "none"
    BY <1>1, <2>4
  <2> QED BY <2>13, <2>14, <2>15, <2>16 DEF AnswerInv, AnswerIsOfTheIndex
<1> QED BY <1>1, <1>2, <1>3

\* Searching the index or inspecting it keeps the invariant.
LEMMA RespondKeepsInv ==
    ASSUME AnswerInv, Respond
    PROVE  AnswerInv'
<1>1. UNCHANGED <<base, query, limits, host, plan, acquired, index>> /\ index # <<>>
  BY DEF Respond, inputs
<1>2. InputsAreSound'
  BY <1>1 DEF AnswerInv, InputsAreSound
<1>3. AcquiredIsSound'
  BY <1>1 DEF AnswerInv, AcquiredIsSound, KeepsRows
<1>4. (index # <<>> => IndexIsComplete)'
  BY <1>1 DEF AnswerInv, IndexIsComplete, KeepsRows
<1>5. \/ /\ IsSearch /\ answer' = "ok"
         /\ LET found == Searched(index, query)
            IN  response' = [lane |-> found.lane, matches |-> found.matches,
                             evidence |-> SearchEvidence(index, found.matches)]
      \/ /\ ~IsSearch /\ answer' = "ok" /\ query.id \in Ids(index.contracts)
         /\ response' = Inspected(index, query.id)
      \/ answer' = "CONTRACT_NOT_FOUND"
  BY DEF Respond
<1>6. AnswerIsOfTheIndex' /\ answer' # "internal error"
  BY <1>1, <1>5 DEF AnswerIsOfTheIndex, IsSearch
<1> QED BY <1>2, <1>3, <1>4, <1>6 DEF AnswerInv

\* Every step keeps the invariant.
LEMMA NextKeepsInv ==
    ASSUME AnswerInv, [Next]_vars
    PROVE  AnswerInv'
<1>1. CASE RefuseDirectory
  BY <1>1, FailsKeepsInv DEF RefuseDirectory, LimitExceeded
<1>2. CASE AskProvider
  BY <1>2, AskProviderKeepsInv
<1>3. CASE MakeIndex
  BY <1>3, MakeIndexKeepsInv
<1>4. CASE Respond
  BY <1>4, RespondKeepsInv
<1>5. CASE UNCHANGED vars
  <2>1. UNCHANGED <<base, query, limits, host, plan, acquired, index, response, answer>>
    BY <1>5 DEF vars, inputs
  <2>2. InputsAreSound'
    BY <2>1 DEF AnswerInv, InputsAreSound
  <2>3. AcquiredIsSound'
    BY <2>1 DEF AnswerInv, AcquiredIsSound, KeepsRows
  <2>4. (index # <<>> => IndexIsComplete)'
    BY <2>1 DEF AnswerInv, IndexIsComplete, KeepsRows
  <2>5. AnswerIsOfTheIndex'
    BY <2>1 DEF AnswerInv, AnswerIsOfTheIndex, IsSearch
  <2> QED BY <2>1, <2>2, <2>3, <2>4, <2>5 DEF AnswerInv
<1> QED BY <1>1, <1>2, <1>3, <1>4, <1>5 DEF Next, Answered

\* A call keeps its invariant.
THEOREM CallIsSound == Spec => []AnswerInv
<1>1. Init => AnswerInv
  BY InitIsAnswerInv
<1>2. AnswerInv /\ [Next]_vars => AnswerInv'
  BY NextKeepsInv
<1> QED BY <1>1, <1>2, PTL DEF Spec

\* The invariant implies that nothing merged is lost.
LEMMA CompleteKeepsFacts ==
    ASSUME AnswerInv
    PROVE  MergedFactsAreKept
<1> DEFINE facts(id) == {<<f.key, f.value>> : f \in UNION {c.facts : c \in Named(index.contracts, id)}}
           keeps(contract) ==
               /\ contract.id \in Ids(index.contracts)
               /\ {<<f.key, f.value>> : f \in contract.facts} \subseteq facts(contract.id)
<1>1. \A contract : keeps(contract) <=> Keeps(index.contracts, contract)
  BY DEF Keeps, Said, FactsNamed
<1>2. index # <<>> =>
          /\ \A i \in DOMAIN base.contracts : keeps(base.contracts[i])
          /\ limits # <<>> => \A provider \in ToSet(Providers) : KeepsRows(index.contracts, provider)
          /\ limits # <<>> => Len(index.contracts) <= Len(base.contracts) + limits.maxContracts
          /\ \A i \in DOMAIN index.contracts : IsContract(index.contracts[i])
  BY <1>1 DEF AnswerInv, IndexIsComplete, IsFacts, HasEvidence, IsList
<1> HIDE DEF keeps
<1>3. index # <<>> /\ limits # <<>> => \A provider \in DOMAIN host :
          \/ host[provider].shape = "absent"
          \/ LET rows == Normalized(provider, host[provider]).contracts
             IN  \A i \in DOMAIN rows : keeps(rows[i])
  <2>1. DOMAIN host = ToSet(Providers)
    BY DEF AnswerInv, InputsAreSound
  <2> QED BY <1>1, <1>2, <2>1 DEF KeepsRows
<1>4. index # <<>> => \A i \in DOMAIN index.contracts :
          (index.contracts[i].availability = "available") <=> (index.contracts[i].id[1] = "tool")
  BY <1>2 DEF IsContract
<1>5. answer # "internal error"
  BY DEF AnswerInv
<1> QED BY <1>2, <1>3, <1>4, <1>5 DEF MergedFactsAreKept, keeps

\* Whatever providers list, the index keeps every package and every row, with
\* all their facts (mergeAcquiredContractFacts, createContractIndex), its
\* references hold, and it stays within the limit of the enrichment.
THEOREM MergesLoseNothing == Spec => []MergedFactsAreKept
BY CallIsSound, CompleteKeepsFacts, PTL
-----------------------------------------------------------------------------
(***************************************************************************)
(* Ranking and scores.                                                     *)
(***************************************************************************)
\* An index whose references hold, and for which the table of Idf suffices.
IsIndex(built) ==
    /\ IsFacts(built)
    /\ Len(built.contracts) <= Len(InverseFrequency)

\* The contracts of an index are a list with each id once.
LEMMA IndexesAre ==
    ASSUME NEW built, IsIndex(built)
    PROVE  /\ Len(built.contracts) \in Nat /\ DOMAIN built.contracts = 1..Len(built.contracts)
           /\ IsFiniteSet(DOMAIN built.contracts)
           /\ Cardinality(DOMAIN built.contracts) = Len(built.contracts)
           /\ \A i \in DOMAIN built.contracts : IsContract(built.contracts[i])
           /\ IsDistinct(built.contracts)
BY ListsAre DEF IsIndex, IsFacts, HasEvidence, IsList

\* The weighted sum of a score is a number.
LEMMA WeightedIsNumber ==
    ASSUME NEW built, IsIndex(built), NEW contract, NEW words, IsFiniteSet(words)
    PROVE  Weighted(built, contract, words) \in Nat
<1> DEFINE weight(word) == FieldWeight(contract, word) * Idf(built, word)
           w == [word \in words |-> weight(word)]
           some(s) == CHOOSE x \in s : TRUE
           body(f) == [s \in SUBSET words |-> IF s = {} THEN 0 ELSE weight(some(s)) + f[s \ {some(s)}]]
           sum == CHOOSE f : f = body(f)
<1>1. Weighted(built, contract, words) = sum[words]
  BY Zenon DEF Weighted, MapThenSumSet, MapThenFoldSet
<1>2. ASSUME NEW word PROVE Idf(built, word) \in Nat
  <2> DEFINE n == Len(built.contracts)
             d == Frequency(built, word)
  <2>1. n \in Nat /\ IsFiniteSet(DOMAIN built.contracts) /\ Cardinality(DOMAIN built.contracts) = n
    BY IndexesAre
  <2>2. Postings(built, word) \in SUBSET (DOMAIN built.contracts)
    BY DEF Postings
  <2>3. d \in Nat /\ d <= n
    BY <2>1, <2>2, FS_Subset, FS_CardinalityType DEF Frequency
  <2>4. CASE d = 0
    BY <2>4 DEF Idf
  <2>5. CASE d # 0
    <3>1. n \in DOMAIN InverseFrequency
      <4>1. n <= Len(InverseFrequency) /\ InverseFrequency \in Seq(Seq(Nat)) /\ n # 0
        BY <2>1, <2>3, <2>5, WordsAssumption DEF IsIndex
      <4> HIDE DEF n
      <4> QED BY <2>1, <4>1
    <3> HIDE DEF d
    <3>2. Idf(built, word) = InverseFrequency[n][d]
      BY <2>5 DEF Idf, d
    <3> HIDE DEF n
    <3>3. InverseFrequency[n] \in Seq(Nat) /\ Len(InverseFrequency[n]) = n
      BY <3>1, WordsAssumption
    <3>4. d \in 1..n
      BY <2>1, <2>3, <2>5
    <3>5. InverseFrequency[n][d] \in Nat
      BY <3>3, <3>4
    <3> QED BY <3>2, <3>5
  <2> QED BY <2>4, <2>5
<1>3. \A word : FieldWeight(contract, word) \in {0, 1, 4, 6, 8}
  BY DEF FieldWeight
<1>4. \A word : weight(word) \in Nat
  BY <1>2, <1>3
<1>5. w \in [words -> Nat]
  BY <1>4
<1>6. \A s \in SUBSET words : s # {} => w[some(s)] = weight(some(s))
  <2>1. \A s : s # {} => some(s) \in s
    OBVIOUS
  <2> HIDE DEF some, weight
  <2>2. \A word \in words : w[word] = weight(word)
    OBVIOUS
  <2> QED BY <2>1, <2>2
<1>7. \A f : body(f) = [s \in SUBSET words |-> IF s = {} THEN 0 ELSE w[some(s)] + f[s \ {some(s)}]]
  <2> HIDE DEF w, some, weight
  <2> SUFFICES ASSUME NEW f
               PROVE  body(f) = [s \in SUBSET words |-> IF s = {} THEN 0 ELSE w[some(s)] + f[s \ {some(s)}]]
    OBVIOUS
  <2>1. \A s \in SUBSET words : (IF s = {} THEN 0 ELSE weight(some(s)) + f[s \ {some(s)}])
                                = (IF s = {} THEN 0 ELSE w[some(s)] + f[s \ {some(s)}])
    BY <1>6
  <2> QED BY <2>1, Zenon
<1> HIDE DEF weight, w, body
<1>8. \A f : f = body(f) <=> IsSum(f, words, w)
  BY <1>7, Zenon DEF IsSum
<1> HIDE DEF some
<1>9. \E f : f = body(f)
  BY <1>5, <1>8, SumExists
<1>10. sum = body(sum)
  BY <1>9
<1>11. IsSum(sum, words, w)
  BY <1>8, <1>10
<1> HIDE DEF sum
<1>12. sum[words] \in Nat
  BY <1>5, <1>11, SumsAreNumbers
<1> QED BY <1>1, <1>12

\* The coherence of a contract with the words is a number.
LEMMA CoherenceIsNumber ==
    ASSUME NEW contract, IsContract(contract), NEW words, IsFiniteSet(words)
    PROVE  Coherence(contract, words) \in Int
<1> DEFINE number == [fact \in contract.facts |-> Cardinality(words \cap FactWords(fact))]
           some == {Cardinality(words \cap FactWords(fact)) : fact \in contract.facts}
           together == some \cup {1}
<1>1. \A fact \in contract.facts : number[fact] = Cardinality(words \cap FactWords(fact)) /\ number[fact] \in Nat
  <2> SUFFICES ASSUME NEW fact PROVE Cardinality(words \cap FactWords(fact)) \in Nat
    OBVIOUS
  <2>1. IsFiniteSet(words \cap FactWords(fact))
    BY FS_Intersection
  <2> QED BY <2>1, FS_CardinalityType
<1> HIDE DEF number
<1>2. some = {number[fact] : fact \in contract.facts}
  <2>1. \A x : x \in some <=> \E fact \in contract.facts : x = number[fact]
    BY <1>1
  <2> HIDE DEF some
  <2> QED BY <2>1
<1>3. IsFiniteSet(contract.facts)
  BY DEF IsContract
<1> HIDE DEF some
<1>4. \A x \in some : x \in Int
  <2> SUFFICES ASSUME NEW x \in some PROVE x \in Int
    OBVIOUS
  <2>1. x \in {number[fact] : fact \in contract.facts}
    BY <1>2
  <2>2. PICK fact \in contract.facts : x = number[fact]
    BY <2>1, Zenon
  <2>3. number[fact] \in Nat
    BY <1>1
  <2> QED BY <2>2, <2>3
<1>5. IsFiniteSet(some)
  BY <1>2, <1>3, ImageIsFinite
<1>6. IsFiniteSet({1})
  BY FS_Singleton
<1>7. IsFiniteSet(together)
  BY <1>5, <1>6, FS_Union
<1>8. together \in SUBSET Int /\ together # {}
  BY <1>4
<1>9. Coherence(contract, words) = Greatest(together) - 1
  BY Zenon DEF Coherence, together, some
<1> HIDE DEF together
<1>10. Greatest(together) \in Int
  BY <1>7, <1>8, GreatestIs
<1> QED BY <1>9, <1>10

\* The score of a contract in the intent lane is a number.
LEMMA ScoresAreNumbers ==
    ASSUME NEW built, IsIndex(built), NEW i \in DOMAIN built.contracts,
           NEW words, IsFiniteSet(words), words # {}
    PROVE  IntentScore(built, built.contracts[i], words) \in Int
<1> DEFINE contract == built.contracts[i]
           matched == Cardinality(MatchedWords(contract, words))
           all == Cardinality(words)
<1>2. matched \in Nat /\ all \in Nat /\ all # 0
  <2>1. MatchedWords(contract, words) \in SUBSET words
    BY DEF MatchedWords
  <2>2. IsFiniteSet(MatchedWords(contract, words))
    BY <2>1, FS_Subset
  <2> QED BY <2>2, FS_CardinalityType, FS_EmptySet
<1>4. IsContract(contract)
  BY IndexesAre
<1> HIDE DEF contract
<1> DEFINE weighted == Weighted(built, contract, words)
<1>1. weighted \in Nat
  BY WeightedIsNumber
<1>3. IntentScore(built, contract, words)
         = (weighted + 10000) \div 20000 + Coverage(matched, all) + Coherence(contract, words)
  BY DEF IntentScore
<1> HIDE DEF weighted
<1>5. (weighted + 10000) \div 20000 \in Int
  BY <1>1
<1> HIDE DEF matched, all
<1>6. Coverage(matched, all) \in Int
  <2> DEFINE a == 100 * matched + all
             b == 2 * all
  <2>1. a \in Int /\ b \in Int /\ b > 0
    BY <1>2
  <2> HIDE DEF a, b
  <2>2. a \div b \in Int
    BY <2>1
  <2> QED BY <2>2 DEF Coverage, a, b
<1>7. Coherence(contract, words) \in Int
  BY <1>4, CoherenceIsNumber
<1>8. IntentScore(built, contract, words) \in Int
  BY <1>3, <1>5, <1>6, <1>7
<1> QED BY <1>8 DEF contract
-----------------------------------------------------------------------------
(***************************************************************************)
(* The ranking of scored contracts.                                        *)
(***************************************************************************)
\* Matches of different contracts of an index, with numbers as scores.
AreScored(built, scored) ==
    /\ IsFiniteSet(scored)
    /\ \A m \in scored : m.at \in DOMAIN built.contracts /\ m.score \in Int
    /\ \A l, r \in scored : l.at = r.at => l = r

\* The first so many elements of a list.
LEMMA FirstOfList ==
    ASSUME NEW S, NEW n \in Nat, NEW list \in [1..n -> S], NEW c \in 0..n
    PROVE  /\ SubSeq(list, 1, c) \in Seq(S)
           /\ Len(SubSeq(list, 1, c)) = c
           /\ \A i \in 1..c : SubSeq(list, 1, c)[i] = list[i]
<1> DEFINE some == SubSeq(list, 1, c)
<1>1. c \in Int /\ \A i \in 1..c : list[i] \in S
  OBVIOUS
<1>2. /\ some \in Seq(S)
      /\ Len(some) = IF 1 <= c THEN c - 1 + 1 ELSE 0
      /\ \A i \in 1..(c - 1 + 1) : some[i] = list[1 + i - 1]
  BY <1>1, SubSeqProperties
<1> HIDE DEF some
<1>3. Len(some) = c
  BY <1>2
<1>4. \A i \in 1..c : some[i] = list[i]
  BY <1>2
<1> QED BY <1>2, <1>3, <1>4 DEF some

\* Each kind has its place in the order of qualified names.
LEMMA QualifiedKindsAre ==
    /\ DOMAIN QualifiedKinds = 1..4
    /\ \A kind \in ToSet(Kinds) : \E i \in DOMAIN QualifiedKinds : QualifiedKinds[i] = kind
<1>1. /\ QualifiedKinds[1] = "service" /\ QualifiedKinds[2] = "event"
      /\ QualifiedKinds[3] = "package" /\ QualifiedKinds[4] = "tool"
      /\ DOMAIN QualifiedKinds = 1..4
  BY DEF QualifiedKinds
<1>2. 1 \in 1..4 /\ 2 \in 1..4 /\ 3 \in 1..4 /\ 4 \in 1..4
  OBVIOUS
<1> QED BY <1>1, <1>2, KindsAre

\* The comparison of qualified names is a strict total order.
LEMMA QualifiedInOrder ==
    ASSUME NEW left \in ToSet(Kinds) \X Nat, NEW right \in ToSet(Kinds) \X Nat
    PROVE  /\ QualifiedPrecedes(left, right) => ~QualifiedPrecedes(right, left)
           /\ left # right => QualifiedPrecedes(left, right) \/ QualifiedPrecedes(right, left)
           /\ \A other \in ToSet(Kinds) \X Nat :
                  QualifiedPrecedes(left, right) /\ QualifiedPrecedes(right, other)
                      => QualifiedPrecedes(left, other)
<1> DEFINE number(id) == CHOOSE i \in DOMAIN QualifiedKinds : QualifiedKinds[i] = id[1]
<1>1. \A id \in ToSet(Kinds) \X Nat :
         number(id) \in 1..4 /\ QualifiedKinds[number(id)] = id[1] /\ id[2] \in Nat /\ id = <<id[1], id[2]>>
  <2> SUFFICES ASSUME NEW id \in ToSet(Kinds) \X Nat
               PROVE  number(id) \in 1..4 /\ QualifiedKinds[number(id)] = id[1]
    OBVIOUS
  <2>1. id[1] \in ToSet(Kinds)
    OBVIOUS
  <2>2. \E i \in DOMAIN QualifiedKinds : QualifiedKinds[i] = id[1]
    BY <2>1, QualifiedKindsAre
  <2>3. number(id) \in DOMAIN QualifiedKinds /\ QualifiedKinds[number(id)] = id[1]
    BY <2>2
  <2> QED BY <2>3, QualifiedKindsAre
<1>2. \A x, y : QualifiedPrecedes(x, y) <=> (number(x) < number(y) \/ (x[1] = y[1] /\ x[2] < y[2]))
  BY DEF QualifiedPrecedes
<1>3. \A x, y \in ToSet(Kinds) \X Nat : x[1] = y[1] => number(x) = number(y)
  BY Zenon
<1> HIDE DEF number
<1>4. \A x, y \in ToSet(Kinds) \X Nat : number(x) = number(y) => x[1] = y[1]
  BY <1>1
<1>5. \A x \in ToSet(Kinds) \X Nat : number(x) \in Int /\ x[2] \in Int
  BY <1>1
<1>6. QualifiedPrecedes(left, right) => ~QualifiedPrecedes(right, left)
  BY <1>2, <1>3, <1>5
<1>7. left # right => QualifiedPrecedes(left, right) \/ QualifiedPrecedes(right, left)
  <2> SUFFICES ASSUME left # right PROVE QualifiedPrecedes(left, right) \/ QualifiedPrecedes(right, left)
    OBVIOUS
  <2>1. number(left) \in Int /\ number(right) \in Int /\ left[2] \in Int /\ right[2] \in Int
    BY <1>5
  <2>2. CASE number(left) = number(right)
    <3>1. left[1] = right[1]
      BY <2>2, <1>4
    <3>2. left[2] # right[2]
      BY <3>1, <1>1
    <3> QED BY <3>1, <3>2, <2>1, <1>2
  <2> QED BY <2>1, <2>2, <1>2
<1>8. ASSUME NEW other \in ToSet(Kinds) \X Nat,
             QualifiedPrecedes(left, right), QualifiedPrecedes(right, other)
      PROVE  QualifiedPrecedes(left, other)
  <2>1. /\ number(left) \in Int /\ number(right) \in Int /\ number(other) \in Int
        /\ left[2] \in Int /\ right[2] \in Int /\ other[2] \in Int
    BY <1>5
  <2>2. /\ number(left) < number(right) \/ (left[1] = right[1] /\ left[2] < right[2])
        /\ number(right) < number(other) \/ (right[1] = other[1] /\ right[2] < other[2])
    BY <1>2, <1>8
  <2>3. (left[1] = right[1] => number(left) = number(right))
        /\ (right[1] = other[1] => number(right) = number(other))
    BY <1>3
  <2>4. number(left) < number(other) \/ (left[1] = other[1] /\ left[2] < other[2])
    BY <2>1, <2>2, <2>3
  <2> QED BY <2>4, <1>2
<1> QED BY <1>6, <1>7, <1>8

\* Ranked answers matches it was given, by their scores, as many as it may.
LEMMA RankingIs ==
    ASSUME NEW built, IsIndex(built), NEW scored, AreScored(built, scored), NEW most \in Nat \ {0}
    PROVE  LET ranked == Ranked(built, scored, most)
           IN  /\ ranked \in Seq(scored)
               /\ ranked = <<>> <=> scored = {}
               /\ Len(ranked) <= most
               /\ scored # {} => \A m \in scored : m.score <= ranked[1].score
<1> DEFINE id(m) == built.contracts[m.at].id
           before(l, r) == \/ l.score > r.score
                           \/ l.score = r.score /\ QualifiedPrecedes(id(l), id(r))
           R == {p \in scored \X scored : before(p[1], p[2])}
           all == InOrder(scored, R)
           n == Cardinality(scored)
           c == IF n < most THEN n ELSE most
           ranked == Ranked(built, scored, most)
<1>1. \A m \in scored : id(m) \in ToSet(Kinds) \X Nat /\ m.score \in Int
  <2>1. \A i \in DOMAIN built.contracts : IsContract(built.contracts[i])
    BY IndexesAre
  <2>2. \A m \in scored : IsContract(built.contracts[m.at])
    BY <2>1 DEF AreScored
  <2> QED BY <2>2 DEF IsContract, AreScored
<1>2. \A l, r \in scored : id(l) = id(r) => l = r
  <2> SUFFICES ASSUME NEW l \in scored, NEW r \in scored, id(l) = id(r) PROVE l = r
    OBVIOUS
  <2>1. l.at \in DOMAIN built.contracts /\ r.at \in DOMAIN built.contracts
    BY DEF AreScored
  <2>2. l.at = r.at
    BY <2>1, IndexesAre DEF IsDistinct
  <2> QED BY <2>2 DEF AreScored
<1>3. \A l, r \in scored : <<l, r>> \in R <=> before(l, r)
  OBVIOUS
<1>4. ranked = SubSeq(all, 1, IF Len(all) < most THEN Len(all) ELSE most)
  BY DEF Ranked
<1> HIDE DEF R, id, ranked
<1>5. IsOrder(scored, R)
  <2>1. ASSUME NEW x \in scored, NEW y \in scored
        PROVE  /\ <<x, y>> \in R => <<y, x>> \notin R
               /\ x # y => <<x, y>> \in R \/ <<y, x>> \in R
    <3>1. x.score \in Int /\ y.score \in Int /\ id(x) \in ToSet(Kinds) \X Nat /\ id(y) \in ToSet(Kinds) \X Nat
      BY <1>1
    <3>2. x # y => id(x) # id(y)
      BY <1>2
    <3>3. /\ QualifiedPrecedes(id(x), id(y)) => ~QualifiedPrecedes(id(y), id(x))
          /\ id(x) # id(y) => QualifiedPrecedes(id(x), id(y)) \/ QualifiedPrecedes(id(y), id(x))
      BY <3>1, QualifiedInOrder
    <3>4. (<<x, y>> \in R <=> before(x, y)) /\ (<<y, x>> \in R <=> before(y, x))
      BY <1>3
    <3> DEFINE a == x.score
               b == y.score
               p == QualifiedPrecedes(id(x), id(y))
               q == QualifiedPrecedes(id(y), id(x))
    <3>5. (before(x, y) <=> a > b \/ (a = b /\ p)) /\ (before(y, x) <=> b > a \/ (a = b /\ q))
      OBVIOUS
    <3>6. a \in Int /\ b \in Int /\ (p => ~q) /\ (x # y => p \/ q)
      BY <3>1, <3>2, <3>3
    <3> HIDE DEF a, b, p, q, before
    <3>7. (before(x, y) => ~before(y, x)) /\ (x # y => before(x, y) \/ before(y, x))
      BY <3>5, <3>6
    <3> QED BY <3>4, <3>7
  <2>2. ASSUME NEW x \in scored, NEW y \in scored, NEW z \in scored, <<x, y>> \in R, <<y, z>> \in R
        PROVE  <<x, z>> \in R
    <3>1. /\ x.score \in Int /\ y.score \in Int /\ z.score \in Int
          /\ id(x) \in ToSet(Kinds) \X Nat /\ id(y) \in ToSet(Kinds) \X Nat /\ id(z) \in ToSet(Kinds) \X Nat
      BY <1>1
    <3>2. QualifiedPrecedes(id(x), id(y)) /\ QualifiedPrecedes(id(y), id(z)) => QualifiedPrecedes(id(x), id(z))
      BY <3>1, QualifiedInOrder
    <3>3. before(x, y) /\ before(y, z)
      BY <2>2, <1>3
    <3>4. before(x, z)
      BY <3>1, <3>2, <3>3
    <3> QED BY <3>4, <1>3
  <2> QED BY <2>1, <2>2 DEF IsOrder
<1>6. /\ n \in Nat
      /\ all \in [1..n -> scored]
      /\ \A x \in scored : \E k \in 1..n : all[k] = x
      /\ \A j, k \in 1..n : j < k => <<all[j], all[k]>> \in R
  BY <1>5, InOrderSorts DEF AreScored
<1>7. n = 0 <=> scored = {}
  BY FS_EmptySet DEF AreScored
<1> HIDE DEF all, n
<1>8. Len(all) = n
  BY <1>6
<1>9. ranked = SubSeq(all, 1, c) /\ c \in 0..n /\ c <= most
  BY <1>4, <1>6, <1>8
<1>10. (n = 0 <=> c = 0) /\ c \in Nat
  BY <1>6
<1> HIDE DEF c
<1>11. /\ ranked \in Seq(scored) /\ Len(ranked) = c
       /\ \A i \in 1..c : ranked[i] = all[i]
  BY <1>6, <1>9, FirstOfList
<1>12. ranked = <<>> <=> scored = {}
  BY <1>7, <1>10, <1>11, EmptySeq
<1>13. ASSUME scored # {}, NEW m \in scored
       PROVE  m.score <= ranked[1].score
  <2>1. c >= 1 /\ n >= 1
    BY <1>6, <1>7, <1>10, <1>13
  <2>2. ranked[1] = all[1] /\ all[1] \in scored
    BY <2>1, <1>6, <1>10, <1>11
  <2>3. PICK k \in 1..n : all[k] = m
    BY <1>6
  <2>4. CASE k = 1
    BY <2>2, <2>3, <2>4, <1>1
  <2>5. CASE k # 1
    <3>1. 1 \in 1..n /\ 1 < k
      BY <2>1, <2>3, <2>5, <1>6
    <3>2. before(all[1], m)
      BY <3>1, <2>2, <2>3, <1>3, <1>6
    <3> QED BY <3>2, <2>2, <1>1
  <2> QED BY <2>4, <2>5
<1> QED BY <1>9, <1>11, <1>12, <1>13 DEF ranked
-----------------------------------------------------------------------------
(***************************************************************************)
(* Looking only at the rarest words.                                       *)
(***************************************************************************)
LEMMA WordsAre ==
    /\ IsFiniteSet(ToSet(Vocabulary))
    /\ \A word \in ToSet(Vocabulary) :
           WordNumber(word) \in DOMAIN Vocabulary /\ Vocabulary[WordNumber(word)] = word
    /\ DOMAIN Vocabulary \in SUBSET Nat
<1>1. Len(Vocabulary) \in Nat /\ DOMAIN Vocabulary = 1..Len(Vocabulary)
  BY WordsAssumption
<1> DEFINE n == Len(Vocabulary)
           D == 1..n
<1>2. IsFiniteSet(D)
  <2> HIDE DEF n
  <2> QED BY <1>1, FS_Interval DEF n
<1>3. ToSet(Vocabulary) = {Vocabulary[i] : i \in DOMAIN Vocabulary}
  BY DEF ToSet
<1>4. \A word \in ToSet(Vocabulary) : \E i \in DOMAIN Vocabulary : Vocabulary[i] = word
  BY <1>3
<1>5. DOMAIN Vocabulary \in SUBSET Nat
  BY <1>1
<1> HIDE DEF D
<1>6. IsFiniteSet(ToSet(Vocabulary))
  <2>1. DOMAIN Vocabulary = D
    BY <1>1 DEF D
  <2>2. IsFiniteSet({Vocabulary[i] : i \in D})
    BY <1>2, ImageIsFinite
  <2> QED BY <1>3, <2>1, <2>2
<1> QED BY <1>4, <1>5, <1>6 DEF WordNumber

\* How many contracts have a word is a number.
LEMMA FrequenciesAreNumbers ==
    ASSUME NEW built, IsIndex(built), NEW word
    PROVE  Frequency(built, word) \in Nat
<1>1. IsFiniteSet(DOMAIN built.contracts)
  BY IndexesAre
<1>2. Postings(built, word) \in SUBSET (DOMAIN built.contracts)
  BY DEF Postings
<1>3. IsFiniteSet(Postings(built, word))
  BY <1>1, <1>2, FS_Subset
<1> QED BY <1>3, FS_CardinalityType DEF Frequency

\* Which of two words is rarer, or earlier when equally rare, is a strict total order.
LEMMA RarerIsOrder ==
    ASSUME NEW built, IsIndex(built), NEW words \in SUBSET ToSet(Vocabulary)
    PROVE  IsOrder(words, {p \in words \X words : Rarer(built, p[1], p[2])})
<1> DEFINE R == {p \in words \X words : Rarer(built, p[1], p[2])}
           f == [word \in words |-> Frequency(built, word)]
           g == [word \in words |-> WordNumber(word)]
<1>1. \A word \in words : f[word] \in Int /\ g[word] \in Int
  BY FrequenciesAreNumbers, WordsAre
<1>2. \A x, y \in words : g[x] = g[y] => x = y
  <2> SUFFICES ASSUME NEW x \in words, NEW y \in words, g[x] = g[y] PROVE x = y
    OBVIOUS
  <2>1. Vocabulary[WordNumber(x)] = x /\ Vocabulary[WordNumber(y)] = y
    BY WordsAre
  <2> QED BY <2>1
<1>3. \A x, y \in words : <<x, y>> \in R <=> f[x] < f[y] \/ (f[x] = f[y] /\ g[x] < g[y])
  BY DEF Rarer
<1> HIDE DEF f, g, R
<1>4. IsOrder(words, R)
  BY <1>1, <1>2, <1>3 DEF IsOrder
<1> QED BY <1>4 DEF R

\* At least one word must match and never more than there are.
LEMMA RequiredIs ==
    ASSUME NEW n \in Nat, n >= 2
    PROVE  RequiredMatches(n) \in 1..n
<1> DEFINE q == (2 * n + 4) \div 5
           g == Greatest({2, q})
           l == Least({3, g})
<1>1. q \in Int /\ q <= n
  OBVIOUS
<1> HIDE DEF q
<1>2. g = IF q >= 2 THEN q ELSE 2
  <2>1. \E x \in {2, q} : \A y \in {2, q} : x >= y
    BY <1>1
  <2>2. g \in {2, q} /\ \A y \in {2, q} : g >= y
    BY <2>1 DEF Greatest
  <2> QED BY <1>1, <2>2
<1> HIDE DEF g
<1>3. g \in Int /\ g >= 2 /\ g <= n
  BY <1>1, <1>2
<1>4. l = IF g >= 3 THEN 3 ELSE g
  <2>1. \E x \in {3, g} : \A y \in {3, g} : x <= y
    BY <1>3
  <2>2. l \in {3, g} /\ \A y \in {3, g} : l <= y
    BY <2>1 DEF Least
  <2> QED BY <1>3, <2>2
<1>5. RequiredMatches(n) = l
  BY DEF RequiredMatches, l, g, q
<1> HIDE DEF l
<1> QED BY <1>3, <1>4, <1>5

\* A word that has a weight in a contract is one of its terms.
LEMMA FieldsAreTerms ==
    ASSUME NEW contract, NEW word, FieldWeight(contract, word) > 0
    PROVE  word \in Terms(contract)
BY DEF FieldWeight, Terms

\* What matches enough words holds one of the rarest of them.
LEMMA RarestSuffice ==
    ASSUME NEW built, IsIndex(built), NEW words \in SUBSET ToSet(Vocabulary),
           NEW need \in 1..Cardinality(words),
           NEW i \in DOMAIN built.contracts,
           Cardinality(MatchedWords(built.contracts[i], words)) >= need
    PROVE  \E word \in ToSet(RarestWords(built, words, ToCover(words, need))) :
               i \in Postings(built, word)
<1> DEFINE R == {p \in words \X words : Rarer(built, p[1], p[2])}
           list == InOrder(words, R)
           n == Cardinality(words)
           c == n - need + 1
           rarest == RarestWords(built, words, ToCover(words, need))
           matched == MatchedWords(built.contracts[i], words)
           first == {list[k] : k \in 1..c}
           D == 1..c
<1>1. IsFiniteSet(words)
  BY WordsAre, FS_Subset
<1>2. IsOrder(words, R)
  BY RarerIsOrder
<1>3. rarest = SubSeq(list, 1, c)
  BY DEF RarestWords, ToCover
<1> HIDE DEF R
<1>4. /\ n \in Nat
      /\ list \in [1..n -> words]
      /\ \A j, k \in 1..n : list[j] = list[k] => j = k
  BY <1>1, <1>2, InOrderSorts
<1> HIDE DEF list, rarest, n
<1>5. need \in 1..n
  BY DEF n
<1>6. c \in 0..n /\ c >= 1
  BY <1>4, <1>5
<1>7. c + need = n + 1
  BY <1>4, <1>5
<1> HIDE DEF c
<1>8. /\ rarest \in Seq(words) /\ Len(rarest) = c /\ \A k \in 1..c : rarest[k] = list[k]
  BY <1>3, <1>4, <1>6, FirstOfList
<1>9. \A k \in D : list[k] \in words /\ list[k] \in ToSet(rarest)
  <2> SUFFICES ASSUME NEW k \in 1..c PROVE list[k] \in words /\ list[k] \in ToSet(rarest)
    OBVIOUS
  <2>1. k \in DOMAIN rarest /\ rarest[k] = list[k] /\ k \in 1..n
    BY <1>4, <1>6, <1>8
  <2>2. list[k] \in words
    BY <2>1, <1>4
  <2> QED BY <2>1, <2>2 DEF ToSet
<1>10. IsFiniteSet(D) /\ Cardinality(D) = c
  <2>1. c \in Nat
    BY <1>4, <1>6
  <2>2. IsFiniteSet(1..c) /\ Cardinality(1..c) = IF 1 > c THEN 0 ELSE c - 1 + 1
    BY <2>1, FS_Interval
  <2>3. Cardinality(1..c) = c
    BY <2>1, <2>2
  <2> QED BY <2>2, <2>3
<1>11. \A j, k \in D : list[j] = list[k] => j = k
  <2>1. \A k \in D : k \in 1..n
    BY <1>4, <1>6
  <2> HIDE DEF D
  <2> QED BY <2>1, <1>4
<1>12. first = {list[k] : k \in D}
  OBVIOUS
<1> HIDE DEF D, first
<1>13. Cardinality({list[k] : k \in D}) = Cardinality(D)
  BY <1>10, <1>11, ImageIsFinite
<1>14. Cardinality(first) = c
  BY <1>10, <1>12, <1>13
<1>15. first \in SUBSET words /\ \A word \in first : word \in ToSet(rarest)
  BY <1>9, <1>12
<1>16. matched \in SUBSET words
  BY DEF MatchedWords
<1>17. Cardinality(matched) \in Nat
  BY <1>1, <1>16, FS_Subset, FS_CardinalityType
<1>18. \A word \in matched : FieldWeight(built.contracts[i], word) > 0
  BY DEF MatchedWords
<1>19. Cardinality(matched) >= need
  OBVIOUS
<1> HIDE DEF matched
<1>20. Cardinality(first) + Cardinality(matched) > Cardinality(words)
  BY <1>4, <1>5, <1>6, <1>7, <1>14, <1>17, <1>19 DEF n
<1>21. PICK word \in first : word \in matched
  BY <1>1, <1>15, <1>16, <1>20, LargeSubsetsMeet
<1>22. word \in ToSet(rarest) /\ FieldWeight(built.contracts[i], word) > 0
  BY <1>15, <1>18, <1>21
<1>23. i \in Postings(built, word)
  BY <1>22, FieldsAreTerms DEF Postings
<1> QED BY <1>22, <1>23 DEF rarest

\* Among the contracts that have one of the rarest words is each that matches as many
\* words as are needed: what is pruned cannot qualify.
LEMMA CandidatesSuffice ==
    ASSUME NEW built, IsIndex(built), NEW words \in SUBSET ToSet(Vocabulary),
           NEW need \in 1..Cardinality(words), NEW scope \in SUBSET (DOMAIN built.contracts)
    PROVE  /\ Candidates(built, scope, words, need) \subseteq scope
           /\ \A i \in scope : Cardinality(MatchedWords(built.contracts[i], words)) >= need
                  => i \in Candidates(built, scope, words, need)
<1> DEFINE rarest == RarestWords(built, words, ToCover(words, need))
           found == UNION {Postings(built, word) : word \in ToSet(rarest)}
           n == Cardinality(words)
<1>1. n \in Nat
  BY WordsAre, FS_Subset, FS_CardinalityType
<1>2. ~(n < need)
  <2> HIDE DEF n
  <2>1. need \in 1..n
    BY DEF n
  <2> QED BY <1>1, <2>1
<1>3. Candidates(built, scope, words, need) \in {scope, scope \cap found}
  BY <1>2 DEF Candidates
<1>4. \A i \in scope : Cardinality(MatchedWords(built.contracts[i], words)) >= need => i \in found
  BY RarestSuffice
<1> HIDE DEF found
<1> QED BY <1>3, <1>4
\* What the intent lane answers: the best of the contracts that match enough.
LEMMA IntentLaneIsBest ==
    ASSUME NEW built, IsIndex(built), NEW asked, asked.words \in SUBSET ToSet(Vocabulary),
           asked.limit \in Nat \ {0}, Cardinality(IntentWords(asked)) >= 2
    PROVE  LET words == IntentWords(asked)
               eligible == {i \in Scope(built, asked) :
                               Cardinality(MatchedWords(built.contracts[i], words))
                                   >= RequiredMatches(Cardinality(words))}
               score(i) == IntentScore(built, built.contracts[i], words)
               matches == IntentMatches(built, asked)
           IN  \/ eligible = {} /\ matches = <<>>
               \/ \E i \in eligible :
                      /\ matches = <<Match(i, score(i), IntentWitness(built.contracts[i], words))>>
                      /\ \A j \in eligible : score(j) <= score(i)
<1> DEFINE words == IntentWords(asked)
           need == RequiredMatches(Cardinality(words))
           scope == Scope(built, asked)
           eligible == {i \in scope : Cardinality(MatchedWords(built.contracts[i], words)) >= need}
           enough == {i \in Candidates(built, scope, words, need) :
                         Cardinality(MatchedWords(built.contracts[i], words)) >= need}
           score(i) == IntentScore(built, built.contracts[i], words)
           match == [i \in eligible |-> Match(i, score(i), IntentWitness(built.contracts[i], words))]
           scored == {match[i] : i \in eligible}
           matches == IntentMatches(built, asked)
<1>1. words \in SUBSET ToSet(Vocabulary) /\ IsFiniteSet(words) /\ Cardinality(words) \in Nat
  <2>1. words \in SUBSET ToSet(Vocabulary)
    BY DEF IntentWords
  <2> HIDE DEF words
  <2> QED BY <2>1, WordsAre, FS_Subset, FS_CardinalityType
<1>2. need \in 1..Cardinality(words) /\ words # {}
  <2>1. Cardinality(words) >= 2
    OBVIOUS
  <2> HIDE DEF words
  <2> QED BY <1>1, <2>1, RequiredIs, FS_EmptySet
<1>3. scope \in SUBSET (DOMAIN built.contracts)
  BY DEF Scope
<1>4. Least({asked.limit, 1}) = 1
  <2> DEFINE n == asked.limit
  <2>1. n \in Nat /\ n >= 1
    OBVIOUS
  <2> HIDE DEF n
  <2>2. \E x \in {n, 1} : \A y \in {n, 1} : x <= y
    BY <2>1
  <2>3. Least({n, 1}) \in {n, 1} /\ \A y \in {n, 1} : Least({n, 1}) <= y
    BY <2>2 DEF Least
  <2>4. Least({n, 1}) = 1
    BY <2>1, <2>3
  <2> QED BY <2>4 DEF n
<1>5. matches = Ranked(built, {Match(i, score(i), IntentWitness(built.contracts[i], words)) : i \in enough}, 1)
  BY <1>4, Zenon DEF IntentMatches
<1> HIDE DEF matches
<1>6. enough = eligible
  <2> HIDE DEF words, need, scope
  <2>1. /\ Candidates(built, scope, words, need) \subseteq scope
        /\ \A i \in scope : Cardinality(MatchedWords(built.contracts[i], words)) >= need
               => i \in Candidates(built, scope, words, need)
    BY <1>1, <1>2, <1>3, CandidatesSuffice
  <2> QED BY <2>1
<1>7. \A i \in eligible : score(i) \in Int
  <2> HIDE DEF words, need, scope
  <2> SUFFICES ASSUME NEW i \in eligible PROVE score(i) \in Int
    OBVIOUS
  <2>1. i \in DOMAIN built.contracts
    BY <1>3
  <2> QED BY <1>1, <1>2, <2>1, ScoresAreNumbers
<1>8. IsFiniteSet(eligible) /\ eligible \in SUBSET (DOMAIN built.contracts)
  <2>1. eligible \in SUBSET (DOMAIN built.contracts)
    BY <1>3
  <2> HIDE DEF eligible
  <2> QED BY <2>1, IndexesAre, FS_Subset
<1>9. {Match(i, score(i), IntentWitness(built.contracts[i], words)) : i \in enough} = scored
  <2> DEFINE shown(i) == Match(i, score(i), IntentWitness(built.contracts[i], words))
  <2>1. \A i \in eligible : match[i] = shown(i)
    OBVIOUS
  <2> HIDE DEF match, shown, enough, eligible
  <2>2. {shown(i) : i \in enough} = scored
    BY <1>6, <2>1
  <2> QED BY <2>2 DEF shown
<1>10. matches = Ranked(built, scored, 1)
  BY <1>5, <1>9, Zenon
<1>11. \A i \in eligible : /\ match[i] = Match(i, score(i), IntentWitness(built.contracts[i], words))
                           /\ match[i].at = i /\ match[i].score = score(i)
  BY DEF Match
<1> HIDE DEF match, score, eligible, enough, words, need, scope
<1>12. AreScored(built, scored)
  <2>1. IsFiniteSet(scored)
    BY <1>8, ImageIsFinite
  <2>2. \A m \in scored : \E i \in eligible : m = match[i]
    OBVIOUS
  <2> HIDE DEF scored
  <2>3. \A m \in scored : m.at \in DOMAIN built.contracts /\ m.score \in Int
    BY <1>7, <1>8, <1>11, <2>2
  <2>4. \A l, r \in scored : l.at = r.at => l = r
    BY <1>11, <2>2
  <2> QED BY <2>1, <2>3, <2>4 DEF AreScored
<1>13. scored = {} <=> eligible = {}
  OBVIOUS
<1>14. \A i \in eligible : match[i] \in scored
  OBVIOUS
<1>15. \A m \in scored : \E i \in eligible : m = match[i]
  OBVIOUS
<1> HIDE DEF scored
<1>16. /\ matches \in Seq(scored)
       /\ matches = <<>> <=> scored = {}
       /\ Len(matches) <= 1
       /\ scored # {} => \A m \in scored : m.score <= matches[1].score
  <2>1. 1 \in Nat \ {0}
    OBVIOUS
  <2> QED BY <1>10, <1>12, <2>1, RankingIs
<1>17. CASE eligible = {}
  BY <1>13, <1>16, <1>17 DEF eligible, enough, words, need, scope, score, matches
<1>18. CASE eligible # {}
  <2>1. Len(matches) = 1 /\ matches[1] \in scored
    <3>1. matches # <<>>
      BY <1>13, <1>16, <1>18
    <3>2. Len(matches) \in Nat /\ Len(matches) # 0
      BY <1>16, <3>1, EmptySeq
    <3>3. matches \in Seq(scored) /\ Len(matches) <= 1
      BY <1>16
    <3> DEFINE n == Len(matches)
    <3>4. n \in Nat /\ n # 0 /\ n <= 1
      BY <3>2, <3>3
    <3> HIDE DEF n
    <3>5. n = 1
      BY <3>4
    <3>6. Len(matches) = 1
      BY <3>5 DEF n
    <3>7. 1 \in 1..Len(matches)
      BY <3>6
    <3>8. matches[1] \in scored
      BY <3>3, <3>7, ElementOfSeq
    <3> QED BY <3>6, <3>8
  <2>2. PICK i \in eligible : matches[1] = match[i]
    BY <1>15, <2>1
  <2>3. matches = <<match[i]>>
    <3>1. matches = <<matches[1]>>
      BY <1>16, <2>1
    <3> QED BY <2>2, <3>1
  <2>4. \A j \in eligible : score(j) <= score(i)
    <3> SUFFICES ASSUME NEW j \in eligible PROVE score(j) <= score(i)
      OBVIOUS
    <3>1. match[j].score <= matches[1].score
      BY <1>13, <1>14, <1>16, <1>18
    <3> QED BY <1>11, <2>2, <3>1
  <2>5. matches = <<Match(i, score(i), IntentWitness(built.contracts[i], words))>>
    BY <1>11, <2>3
  <2> QED BY <2>4, <2>5, Zenon DEF eligible, enough, words, need, scope, score, matches
<1> QED BY <1>17, <1>18

\* An answer of a search that the strict lane does not give.
LEMMA AnswerLosesNothing ==
    ASSUME AnswerInv
    PROVE  PruningLosesNothing
<1> SUFFICES ASSUME answer = "ok", IsSearch, response.lane # "strict",
                    ~(Cardinality(IntentWords(query)) < 2), ~NamesAbsentApi(index, query)
             PROVE  LET words == IntentWords(query)
                        eligible == {i \in Scope(index, query) :
                                        Cardinality(MatchedWords(index.contracts[i], words))
                                            >= RequiredMatches(Cardinality(words))}
                        score(i) == IntentScore(index, index.contracts[i], words)
                    IN  \/ eligible = {} /\ response.matches = <<>>
                        \/ \E i \in eligible : /\ response.matches # <<>>
                                               /\ response.matches = <<Match(i, score(i), response.matches[1].witness)>>
                                               /\ \A j \in eligible : score(j) <= score(i)
  BY Zenon DEF PruningLosesNothing
<1>1. index # <<>> /\ response.lane = Searched(index, query).lane
      /\ response.matches = Searched(index, query).matches
  BY DEF AnswerInv, AnswerIsOfTheIndex
<1>2. IsIndex(index)
  BY <1>1 DEF AnswerInv, IndexIsComplete, IsIndex
<1>3. query.words \in SUBSET ToSet(Vocabulary) /\ query.limit \in Nat \ {0}
  BY DEF AnswerInv, InputsAreSound, Queries, IsSearch
<1>4. IsFiniteSet(query.words) /\ Cardinality(query.words) \in Nat
  BY <1>3, WordsAre, FS_Subset, FS_CardinalityType
<1>5. IntentWords(query) \in SUBSET query.words
  BY DEF IntentWords
<1>6. Cardinality(IntentWords(query)) \in Nat /\ Cardinality(IntentWords(query)) <= Cardinality(query.words)
  BY <1>4, <1>5, FS_Subset, FS_CardinalityType
<1>7. Cardinality(IntentWords(query)) >= 2 /\ ~(Cardinality(query.words) < 2)
  BY <1>4, <1>6
<1>8. response.matches = IntentMatches(index, query)
  BY <1>1, <1>7 DEF Searched
<1>9. LET words == IntentWords(query)
          eligible == {i \in Scope(index, query) :
                          Cardinality(MatchedWords(index.contracts[i], words))
                              >= RequiredMatches(Cardinality(words))}
          score(i) == IntentScore(index, index.contracts[i], words)
          matches == IntentMatches(index, query)
      IN  \/ eligible = {} /\ matches = <<>>
          \/ \E i \in eligible :
                 /\ matches = <<Match(i, score(i), IntentWitness(index.contracts[i], words))>>
                 /\ \A j \in eligible : score(j) <= score(i)
  BY <1>2, <1>3, <1>7, IntentLaneIsBest
<1>10. \A i, n, witness : /\ <<Match(i, n, witness)>>[1].witness = witness
                          /\ <<Match(i, n, witness)>> # <<>>
  BY DEF Match
<1> QED BY <1>8, <1>9, <1>10

\* Looking up only the rarest words never hides a contract from a search: what
\* the intent lane answers matches enough words, nothing in scope matches
\* better, and it answers nothing only when nothing matches enough
\* (contractSearchCandidatesForRanking).
THEOREM TheRarestWordsSuffice == Spec => []PruningLosesNothing
BY CallIsSound, AnswerLosesNothing, PTL
-----------------------------------------------------------------------------
(***************************************************************************)
(* What an answer cites, and what backs it.                                *)
(***************************************************************************)
\* A table lists each id once, so that references are read back as they were.
LEMMA TablesRestore ==
    ASSUME NEW ids, IsFiniteSet(ids)
    PROVE  /\ ToSet(SetToSeq(ids)) = ids
           /\ \A some \in SUBSET ids : Restored(Refs(some, SetToSeq(ids)), SetToSeq(ids)) = some
<1> DEFINE n == Cardinality(ids)
           P == 1..n
           table == SetToSeq(ids)
<1>1. n \in Nat /\ \E f : f \in Bijection(P, ids)
  BY FS_CardinalityType DEF ExistsBijection
<1>2. IsFiniteSet(P) /\ Cardinality(P) = n
  <2> HIDE DEF n
  <2>1. IsFiniteSet(1..n) /\ Cardinality(1..n) = IF 1 > n THEN 0 ELSE n - 1 + 1
    BY <1>1, FS_Interval
  <2>2. Cardinality(1..n) = n
    BY <1>1, <2>1
  <2> QED BY <2>1, <2>2
<1>3. table = CHOOSE f \in [P -> ids] : IsInjective(f)
  BY DEF SetToSeq
<1> HIDE DEF P, table
<1>4. \E f \in [P -> ids] : IsInjective(f)
  BY <1>1 DEF Bijection, Injection
<1>5. table \in [P -> ids] /\ IsInjective(table)
  BY <1>3, <1>4
<1>6. table \in Injection(P, ids)
  BY <1>5 DEF Injection
<1>7. table \in Surjection(P, ids)
  BY <1>2, <1>6, FS_Injection DEF n
<1>8. DOMAIN table = P /\ \A id \in ids : \E i \in P : table[i] = id
  BY <1>5, <1>7 DEF Surjection
<1>9. ToSet(table) = ids
  BY <1>5, <1>8 DEF ToSet
<1>10. ASSUME NEW some \in SUBSET ids
       PROVE  Restored(Refs(some, table), table) = some
  <2>1. \A x : x \in Restored(Refs(some, table), table) <=> \E i \in P : table[i] \in some /\ table[i] = x
    BY <1>8 DEF Restored, Refs
  <2>2. \A x : x \in Restored(Refs(some, table), table) <=> x \in some
    BY <2>1, <1>8
  <2> QED BY <2>2
<1> QED BY <1>9, <1>10 DEF table

\* The evidence of a selection has the ids it was selected for.
LEMMA EvidenceOf ==
    ASSUME NEW built, IsFacts(built), NEW ids,
           ids \subseteq UNION {CitedBy(built.contracts[i]) : i \in DOMAIN built.contracts}
    PROVE  {item.id : item \in EvidenceFor(built, ids)} = ids /\ IsFiniteSet(ids)
<1> DEFINE known == {item.id : item \in built.evidence}
           some == EvidenceFor(built, ids)
           id == [item \in built.evidence |-> item.id]
<1>1. ids \subseteq known
  <2>1. \A i \in DOMAIN built.contracts : CitedBy(built.contracts[i]) \subseteq known
    BY DEF IsFacts, HasEvidence
  <2> HIDE DEF known
  <2> QED BY <2>1
<1>2. {item.id : item \in some} = ids
  BY <1>1 DEF EvidenceFor
<1>3. IsFiniteSet(built.evidence)
  BY DEF IsFacts, HasEvidence
<1>4. known = {id[item] : item \in built.evidence}
  OBVIOUS
<1> HIDE DEF id, known
<1>5. IsFiniteSet(known)
  BY <1>3, <1>4, ImageIsFinite
<1>6. IsFiniteSet(ids)
  BY <1>1, <1>5, FS_Subset
<1> QED BY <1>2, <1>6

\* A contract has evidence that it exists.
LEMMA ExistenceIs ==
    ASSUME NEW contract, IsContract(contract)
    PROVE  Existence(contract) # {} /\ Existence(contract) \subseteq contract.evidence
<1>1. contract.evidence # {}
  BY DEF IsContract
<1>2. \E id : id \in contract.evidence
  BY <1>1
<1>3. Existence(contract) = {CHOOSE id \in contract.evidence : TRUE}
  BY <1>1 DEF Existence
<1> QED BY <1>2, <1>3

\* The words that the facts of a contract have are those of one of them.
LEMMA FactsOfWords ==
    ASSUME NEW contract, NEW word
    PROVE  word \in WordsOfFacts(contract) <=> \E fact \in contract.facts : word \in FactWords(fact)
BY DEF WordsOfFacts

\* A contract cites its evidence and that of its facts.
LEMMA FactsAreCited ==
    ASSUME NEW contract
    PROVE  /\ contract.evidence \subseteq CitedBy(contract)
           /\ \A fact \in contract.facts : fact.evidence \subseteq CitedBy(contract)
BY DEF CitedBy

\* Existence backs what stands in the names, the summary or the kind.
LEMMA ExistenceBacks ==
    ASSUME NEW contract, IsContract(contract), NEW word, NEW witness,
           word \in IdentityWords(contract) \cup contract.summary \cup KindWords(contract),
           Existence(contract) \subseteq witness
    PROVE  Backed(contract, word, witness)
<1>1. witness \cap contract.evidence # {}
  BY ExistenceIs
<1> QED BY <1>1 DEF Backed

\* A match of the strict lane has evidence of its contract for each word.
LEMMA StrictIsBacked ==
    ASSUME NEW contract, IsContract(contract), NEW words, StrictScore(contract, words) > 0
    PROVE  /\ StrictWitness(contract, words) \subseteq CitedBy(contract)
           /\ \A word \in words : Backed(contract, word, StrictWitness(contract, words))
<1> DEFINE shown == {word \in words : word \in WordsOfFacts(contract)}
           fact(word) == CHOOSE f \in contract.facts : word \in FactWords(f)
           whole == {f \in contract.facts : words \subseteq FactWords(f)}
           first == CHOOSE f \in whole : TRUE
           witness == StrictWitness(contract, words)
<1>1. /\ StrictScore(contract, words) > 200 => words \subseteq IdentityWords(contract)
      /\ ~(StrictScore(contract, words) > 200) => words \subseteq WordsOfFacts(contract) \cup contract.summary
  BY DEF StrictScore, IdentityWords
<1>2. Existence(contract) # {} /\ Existence(contract) \subseteq contract.evidence
  BY ExistenceIs
<1>3. CASE StrictScore(contract, words) > 200
  <2>1. witness = Existence(contract)
    BY <1>3 DEF StrictWitness
  <2> HIDE DEF witness
  <2>2. \A word \in words : Backed(contract, word, witness)
    BY <1>1, <1>3, <2>1, ExistenceBacks
  <2> QED BY <1>2, <2>1, <2>2, FactsAreCited DEF witness
<1>4. CASE ~(StrictScore(contract, words) > 200) /\ whole # {}
  <2>1. witness = first.evidence
    BY <1>4 DEF StrictWitness
  <2>2. first \in contract.facts /\ words \subseteq FactWords(first)
    BY <1>4
  <2> HIDE DEF witness, first
  <2>3. \A word \in words : Backed(contract, word, witness)
    BY <2>1, <2>2 DEF Backed
  <2> QED BY <2>1, <2>2, <2>3, FactsAreCited DEF witness
<1>5. CASE ~(StrictScore(contract, words) > 200) /\ whole = {} /\ words \subseteq contract.summary
  <2>1. witness = Existence(contract)
    BY <1>5 DEF StrictWitness
  <2> HIDE DEF witness
  <2>2. \A word \in words : Backed(contract, word, witness)
    BY <1>5, <2>1, ExistenceBacks
  <2> QED BY <1>2, <2>1, <2>2, FactsAreCited DEF witness
<1>6. CASE ~(StrictScore(contract, words) > 200) /\ whole = {} /\ ~(words \subseteq contract.summary)
  <2>1. witness = (UNION {fact(word).evidence : word \in shown})
                      \cup (IF shown = words THEN {} ELSE Existence(contract))
    BY <1>6 DEF StrictWitness
  <2>2. \A word \in shown : fact(word) \in contract.facts /\ word \in FactWords(fact(word))
    <3> SUFFICES ASSUME NEW word \in shown
                 PROVE  fact(word) \in contract.facts /\ word \in FactWords(fact(word))
      OBVIOUS
    <3>1. \E f \in contract.facts : word \in FactWords(f)
      BY FactsOfWords
    <3> QED BY <3>1
  <2> HIDE DEF witness, fact
  <2>3. \A word \in shown : fact(word).evidence \subseteq witness
    BY <2>1
  <2>4. ASSUME NEW word \in words
        PROVE  Backed(contract, word, witness)
    <3>1. CASE word \in shown
      BY <2>2, <2>3, <3>1 DEF Backed
    <3>2. CASE word \notin shown
      <4>1. word \in contract.summary
        BY <1>1, <1>6, <3>2
      <4>2. Existence(contract) \subseteq witness
        BY <2>1, <3>2
      <4> QED BY <4>1, <4>2, ExistenceBacks
    <3> QED BY <3>1, <3>2
  <2>5. witness \subseteq CitedBy(contract)
    <3>1. \A word \in shown : fact(word).evidence \subseteq CitedBy(contract)
      BY <2>2, FactsAreCited
    <3>2. Existence(contract) \subseteq CitedBy(contract)
      BY <1>2, FactsAreCited
    <3> QED BY <2>1, <3>1, <3>2
  <2> QED BY <2>4, <2>5 DEF witness
<1> QED BY <1>3, <1>4, <1>5, <1>6

\* A match of the intent lane has evidence of its contract for each word matched.
LEMMA IntentIsBacked ==
    ASSUME NEW contract, IsContract(contract), NEW words
    PROVE  /\ IntentWitness(contract, words) \subseteq CitedBy(contract)
           /\ \A word \in MatchedWords(contract, words) :
                  Backed(contract, word, IntentWitness(contract, words))
<1> DEFINE witness == IntentWitness(contract, words)
           matched == MatchedWords(contract, words)
<1>1. witness = UNION {WordEvidence(contract, word) : word \in matched}
  BY DEF IntentWitness
<1>2. Existence(contract) # {} /\ Existence(contract) \subseteq CitedBy(contract)
  BY ExistenceIs, FactsAreCited
<1>3. ASSUME NEW word, FieldWeight(contract, word) = 6
      PROVE  /\ WordEvidence(contract, word) \subseteq CitedBy(contract)
             /\ \E fact \in contract.facts : word \in FactWords(fact)
                                             /\ fact.evidence \subseteq WordEvidence(contract, word)
  <2>1. word \in WordsOfFacts(contract)
    BY <1>3 DEF FieldWeight
  <2>2. WordEvidence(contract, word)
          = UNION {fact.evidence : fact \in {f \in contract.facts : word \in FactWords(f)}}
    BY <1>3 DEF WordEvidence
  <2>3. PICK fact \in contract.facts : word \in FactWords(fact)
    BY <2>1, FactsOfWords
  <2>4. fact.evidence \subseteq WordEvidence(contract, word)
    BY <2>2, <2>3
  <2>5. WordEvidence(contract, word) \subseteq CitedBy(contract)
    BY <2>2, FactsAreCited
  <2> QED BY <2>3, <2>4, <2>5
<1>4. ASSUME NEW word, FieldWeight(contract, word) # 6
      PROVE  /\ WordEvidence(contract, word) = Existence(contract)
             /\ FieldWeight(contract, word) > 0 =>
                    word \in IdentityWords(contract) \cup contract.summary \cup KindWords(contract)
  BY <1>4 DEF WordEvidence, FieldWeight
<1>5. \A word : WordEvidence(contract, word) \subseteq CitedBy(contract)
  BY <1>2, <1>3, <1>4
<1>6. \A word \in matched : FieldWeight(contract, word) > 0
  BY DEF MatchedWords
<1> HIDE DEF witness, matched
<1>7. witness \subseteq CitedBy(contract)
  BY <1>1, <1>5
<1>8. ASSUME NEW word \in matched
      PROVE  Backed(contract, word, witness)
  <2>1. WordEvidence(contract, word) \subseteq witness
    BY <1>1
  <2>2. CASE FieldWeight(contract, word) = 6
    <3>1. PICK fact \in contract.facts : word \in FactWords(fact)
                                         /\ fact.evidence \subseteq WordEvidence(contract, word)
      BY <1>3, <2>2
    <3>2. fact.evidence \subseteq witness
      BY <2>1, <3>1
    <3> QED BY <3>1, <3>2 DEF Backed
  <2>3. CASE FieldWeight(contract, word) # 6
    <3>1. Existence(contract) \subseteq witness
      BY <1>4, <2>1, <2>3
    <3>2. word \in IdentityWords(contract) \cup contract.summary \cup KindWords(contract)
      BY <1>4, <1>6, <2>3
    <3> QED BY <3>1, <3>2, ExistenceBacks
  <2> QED BY <2>2, <2>3
<1> QED BY <1>7, <1>8 DEF witness, matched
-----------------------------------------------------------------------------
\* A match of a contract of the index, citing evidence of that contract.
IsMatch(built, m) ==
    /\ m = Match(m.at, m.score, m.witness)
    /\ m.at \in DOMAIN built.contracts
    /\ m.witness \subseteq CitedBy(built.contracts[m.at])
BackedWords(built, asked, m) ==
    {word \in asked.words : Backed(built.contracts[m.at], word, m.witness)}

\* Each match of the strict lane cites evidence for every word.
LEMMA StrictLaneIsBacked ==
    ASSUME NEW built, IsIndex(built), NEW asked, asked.limit \in Nat \ {0}
    PROVE  \A k \in DOMAIN StrictMatches(built, asked) :
               /\ IsMatch(built, StrictMatches(built, asked)[k])
               /\ BackedWords(built, asked, StrictMatches(built, asked)[k]) = asked.words
<1> DEFINE strict(i) == StrictScore(built.contracts[i], asked.words)
           some == {j \in Scope(built, asked) : strict(j) > 0}
           match == [i \in some |-> Match(i, strict(i), StrictWitness(built.contracts[i], asked.words))]
           scored == {match[i] : i \in some}
           matches == StrictMatches(built, asked)
<1>1. some \in SUBSET (DOMAIN built.contracts)
  BY DEF Scope
<1>2. IsFiniteSet(some)
  <2> HIDE DEF some
  <2> QED BY <1>1, IndexesAre, FS_Subset
<1>3. \A i : strict(i) \in {550, 500, 400, 200, 0}
  BY DEF StrictScore
<1>4. \A i \in some : /\ match[i] = Match(i, strict(i), StrictWitness(built.contracts[i], asked.words))
                      /\ match[i].at = i /\ match[i].score = strict(i)
                      /\ match[i].witness = StrictWitness(built.contracts[i], asked.words)
  BY DEF Match
<1>5. matches = Ranked(built, {Match(i, strict(i), StrictWitness(built.contracts[i], asked.words)) : i \in some},
                       asked.limit)
  BY Zenon DEF StrictMatches
<1>6. {Match(i, strict(i), StrictWitness(built.contracts[i], asked.words)) : i \in some} = scored
  <2> DEFINE shown(i) == Match(i, strict(i), StrictWitness(built.contracts[i], asked.words))
  <2>1. \A i \in some : match[i] = shown(i)
    OBVIOUS
  <2> HIDE DEF match, shown, some
  <2>2. {shown(i) : i \in some} = scored
    BY <2>1
  <2> QED BY <2>2 DEF shown
<1>7. \A i \in some : strict(i) > 0
  OBVIOUS
<1> HIDE DEF match, some, strict, matches
<1>8. \A m \in scored : \E i \in some : m = match[i]
  OBVIOUS
<1>9. IsFiniteSet(scored)
  BY <1>2, ImageIsFinite
<1> HIDE DEF scored
<1>10. AreScored(built, scored)
  <2>1. \A m \in scored : m.at \in DOMAIN built.contracts /\ m.score \in Int
    BY <1>1, <1>3, <1>4, <1>8
  <2>2. \A l, r \in scored : l.at = r.at => l = r
    BY <1>4, <1>8
  <2> QED BY <1>9, <2>1, <2>2 DEF AreScored
<1>11. matches \in Seq(scored)
  <2>1. matches = Ranked(built, scored, asked.limit)
    BY <1>5, <1>6, Zenon
  <2> QED BY <1>10, <2>1, RankingIs
<1> SUFFICES ASSUME NEW k \in DOMAIN matches
             PROVE  IsMatch(built, matches[k]) /\ BackedWords(built, asked, matches[k]) = asked.words
  BY DEF matches
<1>12. matches[k] \in scored
  BY <1>11
<1>13. PICK i \in some : matches[k] = match[i]
  BY <1>8, <1>12
<1> DEFINE m == matches[k]
           contract == built.contracts[i]
<1>14. /\ m = Match(i, strict(i), StrictWitness(contract, asked.words))
       /\ m.at = i /\ m.score = strict(i) /\ m.witness = StrictWitness(contract, asked.words)
  BY <1>4, <1>13
<1>15. IsContract(contract) /\ i \in DOMAIN built.contracts
  BY <1>1, IndexesAre
<1>16. /\ StrictWitness(contract, asked.words) \subseteq CitedBy(contract)
       /\ \A word \in asked.words : Backed(contract, word, StrictWitness(contract, asked.words))
  <2>1. StrictScore(contract, asked.words) > 0
    BY <1>7 DEF strict
  <2> HIDE DEF contract
  <2> QED BY <1>15, <2>1, StrictIsBacked
<1>17. IsMatch(built, m)
  <2> HIDE DEF m
  <2> QED BY <1>14, <1>15, <1>16 DEF IsMatch
<1>18. BackedWords(built, asked, m) = asked.words
  <2> HIDE DEF m
  <2> QED BY <1>14, <1>16 DEF BackedWords
<1> QED BY <1>17, <1>18

\* Each match of the intent lane cites evidence for as many words as must match.
LEMMA IntentLaneIsBacked ==
    ASSUME NEW built, IsIndex(built), NEW asked, asked.words \in SUBSET ToSet(Vocabulary),
           asked.limit \in Nat \ {0}, Cardinality(IntentWords(asked)) >= 2
    PROVE  \A k \in DOMAIN IntentMatches(built, asked) :
               /\ IsMatch(built, IntentMatches(built, asked)[k])
               /\ Cardinality(BackedWords(built, asked, IntentMatches(built, asked)[k]) \cap IntentWords(asked))
                      >= RequiredMatches(Cardinality(IntentWords(asked)))
<1> DEFINE words == IntentWords(asked)
           need == RequiredMatches(Cardinality(words))
           eligible == {i \in Scope(built, asked) :
                           Cardinality(MatchedWords(built.contracts[i], words)) >= need}
           score(i) == IntentScore(built, built.contracts[i], words)
           matches == IntentMatches(built, asked)
<1>1. \/ matches = <<>>
      \/ \E i \in eligible : matches = <<Match(i, score(i), IntentWitness(built.contracts[i], words))>>
  BY IntentLaneIsBest, Zenon
<1>2. \A i \in eligible : i \in DOMAIN built.contracts
                          /\ Cardinality(MatchedWords(built.contracts[i], words)) >= need
  BY DEF Scope
<1>3. words \subseteq asked.words /\ IsFiniteSet(words) /\ Cardinality(words) \in Nat
  <2>1. words \subseteq asked.words
    BY DEF IntentWords
  <2> HIDE DEF words
  <2> QED BY <2>1, WordsAre, FS_Subset, FS_CardinalityType
<1>4. need \in Nat
  <2>1. Cardinality(words) >= 2
    OBVIOUS
  <2> HIDE DEF words
  <2>2. need \in 1..Cardinality(words)
    BY <1>3, <2>1, RequiredIs
  <2> QED BY <1>3, <2>2
<1> HIDE DEF eligible, score, matches
<1> SUFFICES ASSUME NEW k \in DOMAIN matches
             PROVE  /\ IsMatch(built, matches[k])
                    /\ Cardinality(BackedWords(built, asked, matches[k]) \cap words) >= need
  BY DEF matches
<1>5. PICK i \in eligible : matches = <<Match(i, score(i), IntentWitness(built.contracts[i], words))>>
  BY <1>1
<1> DEFINE m == matches[k]
           contract == built.contracts[i]
           matched == MatchedWords(contract, words)
           backed == BackedWords(built, asked, m) \cap words
<1>6. m = Match(i, score(i), IntentWitness(contract, words))
  BY <1>5
<1> HIDE DEF m, words, need
<1>7. m.at = i /\ m.score = score(i) /\ m.witness = IntentWitness(contract, words)
  BY <1>6 DEF Match
<1>8. i \in DOMAIN built.contracts /\ IsContract(contract) /\ Cardinality(matched) >= need
  BY <1>2, IndexesAre
<1> HIDE DEF contract
<1>9. /\ IntentWitness(contract, words) \subseteq CitedBy(contract)
      /\ \A word \in matched : Backed(contract, word, IntentWitness(contract, words))
  BY <1>8, IntentIsBacked
<1>10. IsMatch(built, m)
  BY <1>6, <1>7, <1>8, <1>9 DEF IsMatch, contract
<1>11. matched \subseteq backed
  <2>1. matched \subseteq words
    BY DEF MatchedWords
  <2> QED BY <1>3, <1>7, <1>9, <2>1 DEF BackedWords, contract
<1>12. backed \subseteq words
  OBVIOUS
<1> HIDE DEF matched, backed
<1>13. Cardinality(matched) <= Cardinality(backed)
       /\ Cardinality(matched) \in Nat /\ Cardinality(backed) \in Nat
  <2>1. IsFiniteSet(backed)
    BY <1>3, <1>12, FS_Subset
  <2> QED BY <1>11, <2>1, FS_Subset, FS_CardinalityType
<1>14. Cardinality(backed) >= need
  BY <1>4, <1>8, <1>13
<1> QED BY <1>10, <1>14 DEF backed, m

\* Each match of a search is backed by what it cites.
LEMMA SearchIsBacked ==
    ASSUME NEW built, IsIndex(built), NEW asked, asked.words \in SUBSET ToSet(Vocabulary),
           asked.limit \in Nat \ {0}
    PROVE  LET found == Searched(built, asked)
           IN  \A k \in DOMAIN found.matches :
                   /\ IsMatch(built, found.matches[k])
                   /\ IF found.lane = "strict"
                      THEN BackedWords(built, asked, found.matches[k]) = asked.words
                      ELSE Cardinality(BackedWords(built, asked, found.matches[k]) \cap IntentWords(asked))
                               >= RequiredMatches(Cardinality(IntentWords(asked)))
<1> DEFINE found == Searched(built, asked)
           strict == StrictMatches(built, asked)
           intent == IntentMatches(built, asked)
<1>1. \/ found = [lane |-> "strict", matches |-> strict]
      \/ found = [lane |-> "none", matches |-> <<>>]
      \/ /\ ~(Cardinality(IntentWords(asked)) < 2)
         /\ found.lane \in {"none", "intent"} /\ found.matches = intent
  BY DEF Searched
<1> HIDE DEF found, strict, intent
<1>2. CASE found = [lane |-> "strict", matches |-> strict]
  <2>1. found.lane = "strict" /\ found.matches = strict
    BY <1>2
  <2> QED BY <2>1, StrictLaneIsBacked DEF found, strict
<1>3. CASE found = [lane |-> "none", matches |-> <<>>]
  <2>1. DOMAIN found.matches = {}
    BY <1>3
  <2> QED BY <2>1 DEF found
<1>4. CASE /\ ~(Cardinality(IntentWords(asked)) < 2)
           /\ found.lane \in {"none", "intent"} /\ found.matches = intent
  <2>1. Cardinality(IntentWords(asked)) >= 2
    <3>1. Cardinality(IntentWords(asked)) \in Nat
      <4>1. IntentWords(asked) \subseteq ToSet(Vocabulary)
        BY DEF IntentWords
      <4> QED BY <4>1, WordsAre, FS_Subset, FS_CardinalityType
    <3> QED BY <1>4, <3>1
  <2>2. found.lane # "strict" /\ found.matches = intent
    BY <1>4
  <2> QED BY <2>1, <2>2, IntentLaneIsBacked DEF found, intent
<1> QED BY <1>1, <1>2, <1>3, <1>4
-----------------------------------------------------------------------------
\* The compact projection of a match is read back as it was.
LEMMA MatchesRestore ==
    ASSUME NEW found, NEW table, NEW k \in DOMAIN found.matches, NEW a, NEW s, NEW w,
           found.matches[k] = Match(a, s, w), Restored(Refs(w, table), table) = w
    PROVE  Restored(CompactSearch(found, table)[k].witness, table) = w
<1>1. CompactSearch(found, table)[k] = [found.matches[k] EXCEPT !.witness = Refs(@, table)]
  BY DEF CompactSearch
<1>2. CompactSearch(found, table)[k] = [Match(a, s, w) EXCEPT !.witness = Refs(w, table)]
  BY <1>1 DEF Match
<1>3. CompactSearch(found, table)[k].witness = Refs(w, table)
  BY <1>2 DEF Match
<1> QED BY <1>3

\* Facts with positions for their evidence, and read back.
Shown(facts, table) == {[fact EXCEPT !.evidence = Refs(@, table)] : fact \in facts}
ReadBack(facts, table) == {[fact EXCEPT !.evidence = Restored(@, table)] : fact \in facts}

\* Facts whose references are replaced by places in the table are read back as they
\* were.
LEMMA FactsRestore ==
    ASSUME NEW facts, NEW ids, NEW table, \A fact \in facts : IsFact(fact) /\ fact.evidence \subseteq ids,
           \A some \in SUBSET ids : Restored(Refs(some, table), table) = some
    PROVE  ReadBack(Shown(facts, table), table) = facts
<1> DEFINE compact == Shown(facts, table)
           there(fact) == [fact EXCEPT !.evidence = Refs(@, table)]
           back(fact) == [fact EXCEPT !.evidence = Restored(@, table)]
<1>1. ASSUME NEW fact \in facts PROVE back(there(fact)) = fact
  <2> DEFINE k == fact.key
             v == fact.value
             e == fact.evidence
             r == Refs(e, table)
             x == Restored(r, table)
  <2>1. fact = [key |-> k, value |-> v, evidence |-> e]
    BY DEF IsFact
  <2>2. x = e
    OBVIOUS
  <2> DEFINE y == Refs(fact.evidence, table)
  <2>3. there(fact) = [fact EXCEPT !.evidence = r]
    OBVIOUS
  <2> HIDE DEF k, v, e, r, x
  <2>4. there(fact) = [[key |-> k, value |-> v, evidence |-> e] EXCEPT !.evidence = r]
    BY <2>1, <2>3, Zenon
  <2>5. [[key |-> k, value |-> v, evidence |-> e] EXCEPT !.evidence = r] = [key |-> k, value |-> v, evidence |-> r]
    OBVIOUS
  <2>6. there(fact) = [key |-> k, value |-> v, evidence |-> r]
    BY <2>4, <2>5, Zenon
  <2>7. back([key |-> k, value |-> v, evidence |-> r])
          = [[key |-> k, value |-> v, evidence |-> r] EXCEPT !.evidence = x]
    BY DEF x
  <2>8. [[key |-> k, value |-> v, evidence |-> r] EXCEPT !.evidence = x] = [key |-> k, value |-> v, evidence |-> x]
    OBVIOUS
  <2> HIDE DEF there, back
  <2>9. back(there(fact)) = [key |-> k, value |-> v, evidence |-> x]
    BY <2>6, <2>7, <2>8, Zenon
  <2> QED BY <2>1, <2>2, <2>9
<1>2. compact = {there(fact) : fact \in facts}
  BY DEF Shown
<1> HIDE DEF there, compact
<1>3. {back(fact) : fact \in compact} = facts
  <2> HIDE DEF back
  <2>1. \A x : x \in {back(fact) : fact \in compact} <=> \E fact \in compact : x = back(fact)
    OBVIOUS
  <2>2. \A x : x \in compact <=> \E fact \in facts : x = there(fact)
    BY <1>2
  <2> HIDE DEF compact
  <2> DEFINE all == {back(fact) : fact \in compact}
  <2>3. \A x : x \in all <=> x \in facts
    BY <1>1, <2>1, <2>2
  <2> HIDE DEF all
  <2>4. all = facts
    BY <2>3
  <2> QED BY <2>4 DEF all
<1> QED BY <1>3, Zenon DEF compact, ReadBack, back

\* The compact projection of a contract is read back as it was.
LEMMA ContractRestores ==
    ASSUME NEW inspected, IsContract(inspected.contract), NEW table,
           \A some \in SUBSET CitedBy(inspected.contract) : Restored(Refs(some, table), table) = some
    PROVE  LET compact == CompactInspection(inspected, table)
           IN  [compact EXCEPT
                   !.evidence = Restored(@, table),
                   !.facts = {[fact EXCEPT !.evidence = Restored(@, table)] : fact \in @}]
               = inspected.contract
<1> DEFINE contract == inspected.contract
           i == contract.id
           a == contract.availability
           s == contract.summary
           f == contract.facts
           e == contract.evidence
           r == Refs(e, table)
           g == Shown(f, table)
           x == Restored(r, table)
           h == ReadBack(g, table)
           compact == CompactInspection(inspected, table)
           read == [compact EXCEPT
                       !.evidence = Restored(@, table),
                       !.facts = {[fact EXCEPT !.evidence = Restored(@, table)] : fact \in @}]
<1>1. contract = [id |-> i, availability |-> a, summary |-> s, facts |-> f, evidence |-> e]
  BY DEF IsContract
<1>2. x = e
  BY FactsAreCited
<1>3. h = f
  <2> DEFINE ids == CitedBy(contract)
  <2>1. \A fact \in f : IsFact(fact) /\ fact.evidence \subseteq ids
    BY FactsAreCited DEF IsContract
  <2>2. \A some \in SUBSET ids : Restored(Refs(some, table), table) = some
    OBVIOUS
  <2> HIDE DEF ids, f
  <2> QED BY <2>1, <2>2, FactsRestore
<1>4. compact = [contract EXCEPT !.evidence = r, !.facts = g]
  BY Zenon DEF CompactInspection, Shown
<1> HIDE DEF i, a, s, f, e, r, g, x, h, contract, compact
<1>5. compact = [id |-> i, availability |-> a, summary |-> s, facts |-> g, evidence |-> r]
  <2>1. compact = [[id |-> i, availability |-> a, summary |-> s, facts |-> f, evidence |-> e]
                      EXCEPT !.evidence = r, !.facts = g]
    BY <1>1, <1>4, Zenon
  <2>2. [[id |-> i, availability |-> a, summary |-> s, facts |-> f, evidence |-> e]
            EXCEPT !.evidence = r, !.facts = g]
          = [id |-> i, availability |-> a, summary |-> s, facts |-> g, evidence |-> r]
    <3>1. [[id |-> i, availability |-> a, summary |-> s, facts |-> f, evidence |-> e]
              EXCEPT !.evidence = r, !.facts = g]
            \in [id : {i}, availability : {a}, summary : {s}, facts : {g}, evidence : {r}]
      OBVIOUS
    <3>2. \A c \in [id : {i}, availability : {a}, summary : {s}, facts : {g}, evidence : {r}] :
              c = [id |-> i, availability |-> a, summary |-> s, facts |-> g, evidence |-> r]
      OBVIOUS
    <3> QED BY <3>1, <3>2, Zenon
  <2> QED BY <2>1, <2>2, Zenon
<1>6. compact.evidence = r /\ compact.facts = g
  BY <1>5
<1>7. read = [compact EXCEPT !.evidence = x, !.facts = h]
  BY <1>6, Zenon DEF x, h, ReadBack
<1>8. [compact EXCEPT !.evidence = x, !.facts = h]
        = [id |-> i, availability |-> a, summary |-> s, facts |-> h, evidence |-> x]
  <2>1. [[id |-> i, availability |-> a, summary |-> s, facts |-> g, evidence |-> r]
            EXCEPT !.evidence = x, !.facts = h]
          = [id |-> i, availability |-> a, summary |-> s, facts |-> h, evidence |-> x]
    <3>1. [[id |-> i, availability |-> a, summary |-> s, facts |-> g, evidence |-> r]
              EXCEPT !.evidence = x, !.facts = h]
            \in [id : {i}, availability : {a}, summary : {s}, facts : {h}, evidence : {x}]
      OBVIOUS
    <3>2. \A c \in [id : {i}, availability : {a}, summary : {s}, facts : {h}, evidence : {x}] :
              c = [id |-> i, availability |-> a, summary |-> s, facts |-> h, evidence |-> x]
      OBVIOUS
    <3> QED BY <3>1, <3>2, Zenon
  <2> QED BY <1>5, <2>1, Zenon
<1> HIDE DEF read
<1>9. read = contract
  BY <1>1, <1>2, <1>3, <1>7, <1>8
<1> QED BY <1>9 DEF read, compact, contract
\* What an answer cites, its table, and how a search is backed.
Cited ==
    IF IsSearch THEN UNION {response.matches[i].witness : i \in DOMAIN response.matches}
    ELSE CitedBy(response.contract)
Table == EvidenceTable(response.evidence)
IsReadBack ==
    IF IsSearch
    THEN \A i \in DOMAIN response.matches :
             Restored(CompactSearch(response, Table)[i].witness, Table) = response.matches[i].witness
    ELSE LET compact == CompactInspection(response, Table)
         IN  [compact EXCEPT
                 !.evidence = Restored(@, Table),
                 !.facts = {[fact EXCEPT !.evidence = Restored(@, Table)] : fact \in @}]
             = response.contract
IsBacked ==
    IsSearch => \A i \in DOMAIN response.matches :
        LET match == response.matches[i]
            backed == {word \in query.words : Backed(index.contracts[match.at], word, match.witness)}
        IN  IF response.lane = "strict" THEN backed = query.words
            ELSE Cardinality(backed \cap IntentWords(query))
                     >= RequiredMatches(Cardinality(IntentWords(query)))

\* The property, in its parts.
LEMMA CarryingInParts ==
    ASSUME answer = "ok" => /\ {item.id : item \in response.evidence} = Cited
                            /\ IsCompactable(Cited, Table)
                            /\ IsReadBack
                            /\ IsBacked
    PROVE  AnswersCarryTheirEvidence
BY Zenon DEF AnswersCarryTheirEvidence, Cited, Table, IsReadBack, IsBacked

\* The table of an answer lists what the answer cites.
LEMMA TableIs ==
    ASSUME NEW built, IsFacts(built), NEW ids, NEW evidence,
           ids \subseteq UNION {CitedBy(built.contracts[i]) : i \in DOMAIN built.contracts},
           evidence = EvidenceFor(built, ids)
    PROVE  /\ {item.id : item \in evidence} = ids
           /\ IsCompactable(ids, EvidenceTable(evidence))
           /\ \A some \in SUBSET ids :
                  Restored(Refs(some, EvidenceTable(evidence)), EvidenceTable(evidence)) = some
<1>1. {item.id : item \in evidence} = ids /\ IsFiniteSet(ids)
  BY EvidenceOf
<1>2. EvidenceTable(evidence) = SetToSeq(ids)
  BY <1>1 DEF EvidenceTable
<1>3. /\ ToSet(SetToSeq(ids)) = ids
      /\ \A some \in SUBSET ids : Restored(Refs(some, SetToSeq(ids)), SetToSeq(ids)) = some
  BY <1>1, TablesRestore
<1>4. IsCompactable(ids, EvidenceTable(evidence))
  BY <1>2, <1>3 DEF IsCompactable
<1> QED BY <1>1, <1>2, <1>3, <1>4

\* The invariant implies that an answer carries its evidence.
LEMMA AnswerIsBacked ==
    ASSUME AnswerInv
    PROVE  AnswersCarryTheirEvidence
<1> SUFFICES ASSUME answer = "ok"
             PROVE  /\ {item.id : item \in response.evidence} = Cited
                    /\ IsCompactable(Cited, Table)
                    /\ IsReadBack
                    /\ IsBacked
  BY CarryingInParts
<1> DEFINE all == UNION {CitedBy(index.contracts[i]) : i \in DOMAIN index.contracts}
<1>1. index # <<>> /\ IsFacts(index) /\ IsIndex(index)
  BY DEF AnswerInv, AnswerIsOfTheIndex, IndexIsComplete, IsIndex
<1>2. \A i \in DOMAIN index.contracts : CitedBy(index.contracts[i]) \subseteq all
  OBVIOUS
<1>3. ASSUME Cited \subseteq all, response.evidence = EvidenceFor(index, Cited)
      PROVE  /\ {item.id : item \in response.evidence} = Cited
             /\ IsCompactable(Cited, Table)
             /\ \A some \in SUBSET Cited : Restored(Refs(some, Table), Table) = some
  BY <1>1, <1>3, TableIs DEF Table
<1> HIDE DEF all
<1>4. CASE IsSearch
  <2>1. /\ response.lane = Searched(index, query).lane
        /\ response.matches = Searched(index, query).matches
        /\ response.evidence = SearchEvidence(index, Searched(index, query).matches)
    BY <1>4 DEF AnswerInv, AnswerIsOfTheIndex
  <2>2. query.words \in SUBSET ToSet(Vocabulary) /\ query.limit \in Nat \ {0}
    BY <1>4 DEF AnswerInv, InputsAreSound, Queries, IsSearch
  <2>3. \A k \in DOMAIN response.matches :
            /\ IsMatch(index, response.matches[k])
            /\ IF response.lane = "strict"
               THEN BackedWords(index, query, response.matches[k]) = query.words
               ELSE Cardinality(BackedWords(index, query, response.matches[k]) \cap IntentWords(query))
                        >= RequiredMatches(Cardinality(IntentWords(query)))
    BY <1>1, <2>1, <2>2, SearchIsBacked
  <2>4. Cited = UNION {response.matches[k].witness : k \in DOMAIN response.matches}
    BY <1>4 DEF Cited
  <2>5. \A k \in DOMAIN response.matches : response.matches[k].witness \subseteq all
    BY <1>2, <2>3 DEF IsMatch
  <2>6. Cited \subseteq all
    BY <2>4, <2>5
  <2>7. response.evidence = EvidenceFor(index, Cited)
    BY <2>1, <2>4 DEF SearchEvidence
  <2>8. IsReadBack
    <3> SUFFICES ASSUME NEW k \in DOMAIN response.matches
                 PROVE  Restored(CompactSearch(response, Table)[k].witness, Table) = response.matches[k].witness
      BY <1>4 DEF IsReadBack
    <3> DEFINE m == response.matches[k]
    <3>1. m = Match(m.at, m.score, m.witness)
      BY <2>3 DEF IsMatch
    <3>2. m.witness \in SUBSET Cited
      BY <2>4
    <3>3. Restored(Refs(m.witness, Table), Table) = m.witness
      BY <1>3, <2>6, <2>7, <3>2
    <3> QED BY <3>1, <3>3, MatchesRestore
  <2>9. IsBacked
    BY <2>3 DEF IsBacked, BackedWords
  <2> QED BY <1>3, <2>6, <2>7, <2>8, <2>9
<1>5. CASE ~IsSearch
  <2>1. query.id \in Ids(index.contracts) /\ response = Inspected(index, query.id)
    BY <1>5 DEF AnswerInv, AnswerIsOfTheIndex
  <2> DEFINE named == Named(index.contracts, query.id)
             contract == CHOOSE c \in named : TRUE
  <2>2. response.contract = contract /\ response.evidence = EvidenceFor(index, CitedBy(contract))
    BY <2>1 DEF Inspected
  <2>3. \E c : c \in named
    BY <2>1, IdsAre
  <2>4. contract \in named
    BY <2>3
  <2>5. PICK i \in DOMAIN index.contracts : index.contracts[i] = contract
    BY <2>4, IdsAre
  <2> HIDE DEF contract
  <2>6. Cited = CitedBy(contract)
    BY <1>5, <2>2 DEF Cited
  <2>7. Cited \subseteq all
    BY <1>2, <2>5, <2>6
  <2>8. response.evidence = EvidenceFor(index, Cited)
    BY <2>2, <2>6
  <2>9. IsContract(response.contract)
    BY <1>1, <2>2, <2>5, IndexesAre
  <2>10. IsReadBack
    <3>1. \A some \in SUBSET CitedBy(response.contract) : Restored(Refs(some, Table), Table) = some
      BY <1>3, <2>2, <2>6, <2>7, <2>8
    <3>2. LET compact == CompactInspection(response, Table)
          IN  [compact EXCEPT
                  !.evidence = Restored(@, Table),
                  !.facts = {[fact EXCEPT !.evidence = Restored(@, Table)] : fact \in @}]
              = response.contract
      BY <2>9, <3>1, ContractRestores
    <3> QED BY <1>5, <3>2, Zenon DEF IsReadBack
  <2>11. IsBacked
    BY <1>5 DEF IsBacked
  <2> QED BY <1>3, <2>7, <2>8, <2>10, <2>11
<1> QED BY <1>4, <1>5

\* A response carries exactly the evidence it cites, its compact form is read
\* back as it was, and each match is backed by the evidence it cites for the
\* words it was answered for (evidenceSubset, createCompactEvidenceTable,
\* strictLexicalMatch, intentMatch).
THEOREM AnswersAreBacked == Spec => []AnswersCarryTheirEvidence
BY CallIsSound, AnswerIsBacked, PTL
================================================================================
