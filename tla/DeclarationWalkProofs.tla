------------------------ MODULE DeclarationWalkProofs ------------------------
(***************************************************************************)
(* Theorems about the walk over the declarations of a package, for any     *)
(* number of files and statements: what an answered package was made of,   *)
(* that a limit which refuses one is real, and that the exported names are *)
(* those a closure without caps and without an order would find.           *)
(***************************************************************************)
EXTENDS DeclarationWalk, WellFoundedInduction, FiniteSetTheorems,
        SequenceTheorems, TLAPS

-----------------------------------------------------------------------------
\* Induction over the natural numbers, for a set instead of a predicate.
LEMMA SomeIsLeast ==
    ASSUME NEW S \in SUBSET Nat, S # {}
    PROVE  \E n \in S : \A m \in S : n <= m
<1>1. PICK n \in S : \A m \in S : ~(<<m, n>> \in OpToRel(<, Nat))
  BY NatLessThanWellFounded, WFMin
<1>2. \A m \in S : ~(m < n)
  BY <1>1 DEF OpToRel
<1> QED BY <1>2

LEMMA AllNumbers ==
    ASSUME NEW S, 0 \in S, \A n \in Nat : n \in S => n + 1 \in S
    PROVE  \A n \in Nat : n \in S
<1> DEFINE others == {n \in Nat : n \notin S}
<1>1. SUFFICES ASSUME others # {} PROVE FALSE
  OBVIOUS
<1>2. PICK n \in others : \A m \in others : n <= m
  BY <1>1, SomeIsLeast
<1>3. n # 0 /\ n - 1 \in Nat /\ n - 1 \notin others
  BY <1>2
<1> QED BY <1>2, <1>3

-----------------------------------------------------------------------------
(***************************************************************************)
(* Rounds of a closure: each adds to what is known what it leads to.       *)
(***************************************************************************)
AreRounds(after, start, grow) ==
    after = [n \in Nat |-> IF n = 0 THEN start ELSE after[n - 1] \cup grow[after[n - 1]]]

\* The first rounds, up to a number.
FirstRounds(first, start, grow, n) ==
    first = [m \in 0..n |-> IF m = 0 THEN start ELSE first[m - 1] \cup grow[first[m - 1]]]

LEMMA FirstRoundsExist ==
    ASSUME NEW start, NEW grow
    PROVE  \A n \in Nat : \E first : FirstRounds(first, start, grow, n)
<1> DEFINE S == {n \in Nat : \E first : FirstRounds(first, start, grow, n)}
<1>1. 0 \in S
  <2>1. FirstRounds([m \in 0..0 |-> start], start, grow, 0)
    BY DEF FirstRounds
  <2> QED BY <2>1
<1>2. ASSUME NEW n \in Nat, n \in S
      PROVE  n + 1 \in S
  <2>1. PICK first : FirstRounds(first, start, grow, n)
    BY <1>2
  <2> DEFINE next == [m \in 0..(n + 1) |-> IF m = n + 1 THEN first[n] \cup grow[first[n]] ELSE first[m]]
             body == [m \in 0..(n + 1) |-> IF m = 0 THEN start ELSE next[m - 1] \cup grow[next[m - 1]]]
  <2>2. \A m \in 0..n : first[m] = IF m = 0 THEN start ELSE first[m - 1] \cup grow[first[m - 1]]
    BY <2>1 DEF FirstRounds
  <2>3. ASSUME NEW m \in 0..(n + 1)
        PROVE  next[m] = IF m = 0 THEN start ELSE next[m - 1] \cup grow[next[m - 1]]
    <3>1. CASE m = n + 1
      BY <3>1
    <3>2. CASE m # n + 1
      <4>1. m \in 0..n /\ (m # 0 => m - 1 \in 0..n /\ m - 1 # n + 1)
        BY <3>2
      <4>2. next[m] = first[m] /\ (m # 0 => next[m - 1] = first[m - 1])
        BY <4>1
      <4> QED BY <4>1, <4>2, <2>2
    <3> QED BY <3>1, <3>2
  <2>4. next = [m \in 0..(n + 1) |-> next[m]]
    OBVIOUS
  <2>5. [m \in 0..(n + 1) |-> next[m]] = body
    BY <2>3, Zenon
  <2> HIDE DEF next
  <2>6. FirstRounds(next, start, grow, n + 1)
    BY <2>4, <2>5, Zenon DEF FirstRounds
  <2> QED BY <2>6
<1> HIDE DEF S
<1>3. \A n \in Nat : n \in S
  BY <1>1, <1>2, AllNumbers
<1> QED BY <1>3 DEF S

LEMMA RoundsExist ==
    ASSUME NEW start, NEW grow
    PROVE  \E after : AreRounds(after, start, grow)
<1> DEFINE first == [n \in Nat |-> CHOOSE f : FirstRounds(f, start, grow, n)]
           after == [n \in Nat |-> first[n][n]]
<1>1. \A n \in Nat : FirstRounds(first[n], start, grow, n)
  BY FirstRoundsExist
<1> HIDE DEF first
<1> HIDE DEF after
<1>2. ASSUME NEW n \in Nat
      PROVE  /\ first[n][0] = start
             /\ \A m \in 0..n : m + 1 <= n => first[n][m + 1] = first[n][m] \cup grow[first[n][m]]
  <2> DEFINE f == first[n]
  <2>1. FirstRounds(f, start, grow, n)
    BY <1>1
  <2> HIDE DEF f
  <2>2. f = [m \in 0..n |-> IF m = 0 THEN start ELSE f[m - 1] \cup grow[f[m - 1]]]
    BY <2>1 DEF FirstRounds
  <2>3. f[0] = start
    BY <2>2
  <2>4. ASSUME NEW m \in 0..n, m + 1 <= n
        PROVE  f[m + 1] = f[m] \cup grow[f[m]]
    <3>1. m + 1 \in 0..n /\ m + 1 # 0 /\ (m + 1) - 1 = m
      BY <2>4
    <3> QED BY <3>1, <2>2
  <2> QED BY <2>3, <2>4 DEF f
<1>3. \A m \in Nat : \A n \in Nat : m <= n => first[n][m] = first[m][m]
  <2> DEFINE S == {m \in Nat : \A n \in Nat : m <= n => first[n][m] = first[m][m]}
  <2>1. 0 \in S
    BY <1>2
  <2>2. ASSUME NEW m \in Nat, m \in S
        PROVE  m + 1 \in S
    <3>1. ASSUME NEW n \in Nat, m + 1 <= n
          PROVE  first[n][m + 1] = first[m][m] \cup grow[first[m][m]]
      <4>1. first[n][m + 1] = first[n][m] \cup grow[first[n][m]]
        <5>1. m \in 0..n
          BY <3>1
        <5> QED BY <5>1, <3>1, <1>2
      <4>2. first[n][m] = first[m][m]
        BY <2>2, <3>1
      <4> QED BY <4>1, <4>2
    <3>2. first[m + 1][m + 1] = first[m][m] \cup grow[first[m][m]]
      BY <3>1
    <3> QED BY <3>1, <3>2
  <2> HIDE DEF S
  <2>3. \A m \in Nat : m \in S
    BY <2>1, <2>2, AllNumbers
  <2> QED BY <2>3 DEF S
<1>4. ASSUME NEW n \in Nat
      PROVE  after[n] = IF n = 0 THEN start ELSE after[n - 1] \cup grow[after[n - 1]]
  <2>1. CASE n = 0
    BY <1>2, <2>1 DEF after
  <2>2. CASE n # 0
    <3>1. n - 1 \in Nat /\ n - 1 <= n /\ n - 1 \in 0..n /\ (n - 1) + 1 = n
      BY <2>2
    <3>2. first[n][n - 1] = first[n - 1][n - 1]
      BY <3>1, <1>3
    <3>3. first[n][(n - 1) + 1] = first[n][n - 1] \cup grow[first[n][n - 1]]
      <4> DEFINE k == n - 1
      <4>1. k \in 0..n /\ k + 1 <= n
        BY <3>1
      <4> HIDE DEF k
      <4>2. first[n][k + 1] = first[n][k] \cup grow[first[n][k]]
        BY <4>1, <1>2
      <4> QED BY <4>2 DEF k
    <3> QED BY <3>1, <3>2, <3>3, <2>2 DEF after
  <2> QED BY <2>1, <2>2
<1> USE DEF after
<1>5. after = [n \in Nat |-> after[n]]
  OBVIOUS
<1>6. [n \in Nat |-> after[n]] = [n \in Nat |-> IF n = 0 THEN start ELSE after[n - 1] \cup grow[after[n - 1]]]
  BY <1>4, Zenon
<1> HIDE DEF after
<1> QED BY <1>5, <1>6, Zenon DEF AreRounds

\* A round is one more step, and the rounds stay in the universe.
LEMMA RoundByRound ==
    ASSUME NEW after, NEW start, NEW grow, AreRounds(after, start, grow)
    PROVE  /\ after[0] = start
           /\ \A n \in Nat : after[n + 1] = after[n] \cup grow[after[n]]
<1>1. \A n \in Nat : after[n] = IF n = 0 THEN start ELSE after[n - 1] \cup grow[after[n - 1]]
  BY DEF AreRounds
<1>2. after[0] = start
  BY <1>1
<1>3. ASSUME NEW n \in Nat
      PROVE  after[n + 1] = after[n] \cup grow[after[n]]
  <2>1. n + 1 \in Nat /\ n + 1 # 0 /\ (n + 1) - 1 = n
    OBVIOUS
  <2> QED BY <2>1, <1>1
<1> QED BY <1>2, <1>3

\* Whatever has the start and is closed has every round.
LEMMA RoundsStayWithin ==
    ASSUME NEW after, NEW start, NEW grow, AreRounds(after, start, grow),
           NEW closed, start \subseteq closed,
           \A known \in SUBSET closed : grow[known] \subseteq closed
    PROVE  \A n \in Nat : after[n] \subseteq closed
<1> DEFINE S == {n \in Nat : after[n] \subseteq closed}
<1>1. 0 \in S
  BY RoundByRound
<1>2. ASSUME NEW n \in Nat, n \in S
      PROVE  n + 1 \in S
  BY <1>2, RoundByRound
<1> HIDE DEF S
<1>3. \A n \in Nat : n \in S
  BY <1>1, <1>2, AllNumbers
<1> QED BY <1>3 DEF S

\* Later rounds have what earlier ones have.
LEMMA RoundsGrow ==
    ASSUME NEW after, NEW start, NEW grow, AreRounds(after, start, grow), NEW m \in Nat
    PROVE  \A n \in Nat : m <= n => after[m] \subseteq after[n]
<1> DEFINE S == {k \in Nat : after[m] \subseteq after[m + k]}
<1>1. 0 \in S
  OBVIOUS
<1>2. ASSUME NEW k \in Nat, k \in S
      PROVE  k + 1 \in S
  <2>1. after[(m + k) + 1] = after[m + k] \cup grow[after[m + k]]
    BY RoundByRound
  <2>2. (m + k) + 1 = m + (k + 1)
    OBVIOUS
  <2> QED BY <2>1, <2>2, <1>2
<1> HIDE DEF S
<1>3. \A k \in Nat : k \in S
  BY <1>1, <1>2, AllNumbers
<1>4. ASSUME NEW n \in Nat, m <= n
      PROVE  after[m] \subseteq after[n]
  <2>1. n - m \in Nat /\ m + (n - m) = n
    BY <1>4
  <2>2. n - m \in S
    BY <2>1, <1>3
  <2> QED BY <2>1, <2>2 DEF S
<1> QED BY <1>4

\* A round that adds nothing is the last.
LEMMA RoundsSettle ==
    ASSUME NEW after, NEW start, NEW grow, AreRounds(after, start, grow),
           NEW m \in Nat, after[m + 1] = after[m]
    PROVE  \A n \in Nat : m <= n => after[n] = after[m]
<1> DEFINE S == {k \in Nat : after[m + k] = after[m]}
<1>1. 0 \in S
  OBVIOUS
<1>2. ASSUME NEW k \in Nat, k \in S
      PROVE  k + 1 \in S
  <2>1. after[(m + k) + 1] = after[m + k] \cup grow[after[m + k]]
    BY RoundByRound
  <2>2. (m + k) + 1 = m + (k + 1)
    OBVIOUS
  <2>3. after[m + 1] = after[m] \cup grow[after[m]]
    BY RoundByRound
  <2> QED BY <2>1, <2>2, <2>3, <1>2
<1> HIDE DEF S
<1>3. \A k \in Nat : k \in S
  BY <1>1, <1>2, AllNumbers
<1>4. ASSUME NEW n \in Nat, m <= n
      PROVE  after[n] = after[m]
  <2>1. n - m \in Nat /\ m + (n - m) = n
    BY <1>4
  <2>2. n - m \in S
    BY <2>1, <1>3
  <2> QED BY <2>1, <2>2 DEF S
<1> QED BY <1>4

\* In a finite universe some round adds nothing: each that does takes one
\* more of what is left.
LEMMA SomeRoundSettles ==
    ASSUME NEW after, NEW start, NEW grow, AreRounds(after, start, grow),
           NEW universe, IsFiniteSet(universe), \A n \in Nat : after[n] \subseteq universe,
           NEW bound \in Nat, Cardinality(universe) - Cardinality(start) <= bound
    PROVE  \E n \in 0..bound : after[n + 1] = after[n]
<1>1. SUFFICES ASSUME \A n \in 0..bound : after[n + 1] # after[n]
               PROVE  FALSE
  OBVIOUS
<1>2. ASSUME NEW n \in Nat
      PROVE  /\ IsFiniteSet(after[n]) /\ Cardinality(after[n]) \in Nat
             /\ Cardinality(after[n]) <= Cardinality(universe)
  <2>1. after[n] \in SUBSET universe
    OBVIOUS
  <2> QED BY <2>1, FS_Subset, FS_CardinalityType
<1>3. Cardinality(universe) \in Nat
  BY FS_CardinalityType
<1>4. after[0] = start
  BY RoundByRound
<1> DEFINE S == {n \in Nat : n <= bound + 1 => Cardinality(after[n]) >= Cardinality(start) + n}
<1>5. 0 \in S
  BY <1>2, <1>4
<1>6. ASSUME NEW n \in Nat, n \in S
      PROVE  n + 1 \in S
  <2>1. SUFFICES ASSUME n + 1 <= bound + 1
                 PROVE  Cardinality(after[n + 1]) >= Cardinality(start) + (n + 1)
    OBVIOUS
  <2>2. after[n] \subseteq after[n + 1] /\ after[n] # after[n + 1]
    BY <1>1, <2>1, RoundByRound
  <2>3. Cardinality(after[n]) <= Cardinality(after[n + 1]) /\ Cardinality(after[n]) # Cardinality(after[n + 1])
    BY <2>2, <1>2, FS_Subset
  <2>4. Cardinality(after[n]) >= Cardinality(start) + n
    BY <1>6, <2>1
  <2>5. Cardinality(after[n]) \in Nat /\ Cardinality(after[n + 1]) \in Nat /\ Cardinality(start) \in Nat
    BY <1>2, <1>4
  <2> HIDE DEF S
  <2> QED BY <2>3, <2>4, <2>5
<1> HIDE DEF S
<1>7. \A n \in Nat : n \in S
  BY <1>5, <1>6, AllNumbers
<1>8. Cardinality(after[bound + 1]) >= Cardinality(start) + (bound + 1)
  <2>1. bound + 1 \in Nat /\ bound + 1 \in S
    BY <1>7
  <2> QED BY <2>1 DEF S
<1>9. Cardinality(start) \in Nat
  BY <1>2, <1>4
<1> QED BY <1>8, <1>9, <1>2, <1>3

-----------------------------------------------------------------------------
(***************************************************************************)
(* The closure of the references: the rounds from the entries.             *)
(***************************************************************************)
IsText(statements) == \A s \in statements : s.file \in Files /\ s.to \in Files
ClosureOf(statements) == Within(statements)[FileCount]
LeadsTo(statements) ==
    [known \in SUBSET Files |-> UNION {Successors(statements, file) : file \in known}]

LEMMA FilesAreFinite ==
    /\ IsFiniteSet(Files) /\ Cardinality(Files) = FileCount
    /\ Entries \subseteq Files /\ Entries = {1} /\ Cardinality(Entries) = 1
    /\ IsFiniteSet(Entries)
<1>1. FileCount \in Nat \ {0}
  BY WalkAssumption
<1>2. IsFiniteSet(1..FileCount) /\ Cardinality(1..FileCount) = FileCount
  BY <1>1, FS_Interval
<1>3. IsFiniteSet({1}) /\ Cardinality({1}) = 1
  BY FS_Singleton
<1> QED BY <1>1, <1>2, <1>3 DEF Files, Entries

LEMMA SuccessorsAreFiles ==
    ASSUME NEW statements, IsText(statements), NEW file
    PROVE  Successors(statements, file) \subseteq Files
BY DEF IsText, Successors, ReexportsOf, PathReferencesOf, StatementsOf

LEMMA WithinIsRounds ==
    ASSUME NEW statements, IsText(statements)
    PROVE  /\ AreRounds(Within(statements), Entries, LeadsTo(statements))
           /\ \A n \in Nat : Within(statements)[n] \subseteq Files
<1> DEFINE grow == LeadsTo(statements)
           body(w) == [n \in Nat |-> IF n = 0 THEN Entries
                                     ELSE w[n - 1] \cup UNION {Successors(statements, file) : file \in w[n - 1]}]
<1>1. \A known \in SUBSET Files :
          /\ grow[known] = UNION {Successors(statements, file) : file \in known}
          /\ grow[known] \subseteq Files
  <2> TAKE known \in SUBSET Files
  <2>1. grow[known] = UNION {Successors(statements, file) : file \in known}
    BY DEF LeadsTo
  <2> QED BY <2>1, SuccessorsAreFiles
<1> HIDE DEF grow
<1>2. PICK after : AreRounds(after, Entries, grow)
  BY RoundsExist
<1>3. \A n \in Nat : after[n] \subseteq Files
  BY <1>1, <1>2, RoundsStayWithin, FilesAreFinite
<1>4. \A w : (\A n \in Nat : w[n] \subseteq Files) => (w = body(w) <=> AreRounds(w, Entries, grow))
  <2> TAKE w
  <2> SUFFICES ASSUME \A n \in Nat : w[n] \subseteq Files
               PROVE  w = body(w) <=> AreRounds(w, Entries, grow)
    OBVIOUS
  <2>1. \A n \in Nat : (IF n = 0 THEN Entries
                        ELSE w[n - 1] \cup UNION {Successors(statements, file) : file \in w[n - 1]})
                       = (IF n = 0 THEN Entries ELSE w[n - 1] \cup grow[w[n - 1]])
    <3> TAKE n \in Nat
    <3>1. CASE n = 0
      BY <3>1
    <3>2. CASE n # 0
      <4>1. w[n - 1] \in SUBSET Files
        BY <3>2
      <4> QED BY <4>1, <1>1, <3>2
    <3> QED BY <3>1, <3>2
  <2>2. body(w) = [n \in Nat |-> IF n = 0 THEN Entries ELSE w[n - 1] \cup grow[w[n - 1]]]
    BY <2>1, Zenon
  <2> QED BY <2>2 DEF AreRounds
<1>5. after = body(after)
  BY <1>2, <1>3, <1>4
<1> DEFINE within == CHOOSE w : w = body(w)
<1>6. within = body(within)
  BY <1>5
<1>7. Within(statements) = within
  BY DEF Within
<1> HIDE DEF within
<1>8. \A n \in Nat : within[n] \subseteq Files
  <2> DEFINE S == {n \in Nat : within[n] \subseteq Files}
  <2>1. 0 \in S
    <3>1. within[0] = Entries
      BY <1>6
    <3> QED BY <3>1, FilesAreFinite
  <2>2. ASSUME NEW n \in Nat, n \in S
        PROVE  n + 1 \in S
    <3>1. n + 1 \in Nat /\ n + 1 # 0 /\ (n + 1) - 1 = n
      OBVIOUS
    <3>2. within[n + 1] = within[n] \cup UNION {Successors(statements, file) : file \in within[n]}
      BY <3>1, <1>6
    <3> QED BY <3>2, <2>2, SuccessorsAreFiles
  <2> HIDE DEF S
  <2>3. \A n \in Nat : n \in S
    BY <2>1, <2>2, AllNumbers
  <2> QED BY <2>3 DEF S
<1> HIDE DEF body
<1>9. AreRounds(within, Entries, grow)
  BY <1>4, <1>6, <1>8
<1> QED BY <1>7, <1>8, <1>9 DEF grow

\* What is within n references, and the files at distance n.
LEMMA WithinSteps ==
    ASSUME NEW statements, IsText(statements)
    PROVE  /\ Within(statements)[0] = Entries
           /\ \A n \in Nat :
                  /\ Within(statements)[n] \subseteq Files
                  /\ Within(statements)[n] \subseteq Within(statements)[n + 1]
                  /\ \A file \in Within(statements)[n] :
                         Successors(statements, file) \subseteq Within(statements)[n + 1]
                  /\ \A to \in Within(statements)[n + 1] :
                         \/ to \in Within(statements)[n]
                         \/ \E file \in Within(statements)[n] : to \in Successors(statements, file)
           /\ \A m, n \in Nat : m <= n => Within(statements)[m] \subseteq Within(statements)[n]
<1> DEFINE w == Within(statements)
           grow == LeadsTo(statements)
<1>1. AreRounds(w, Entries, grow) /\ \A n \in Nat : w[n] \subseteq Files
  BY WithinIsRounds
<1>2. \A known \in SUBSET Files : grow[known] = UNION {Successors(statements, file) : file \in known}
  BY DEF LeadsTo
<1> HIDE DEF w, grow
<1>3. \A n \in Nat : w[n + 1] = w[n] \cup UNION {Successors(statements, file) : file \in w[n]}
  <2> TAKE n \in Nat
  <2>1. w[n] \in SUBSET Files
    BY <1>1
  <2>2. w[n + 1] = w[n] \cup grow[w[n]]
    BY <1>1, RoundByRound
  <2> QED BY <2>1, <2>2, <1>2
<1>4. w[0] = Entries
  BY <1>1, RoundByRound
<1>5. \A m, n \in Nat : m <= n => w[m] \subseteq w[n]
  BY <1>1, RoundsGrow
<1>6. \A n \in Nat :
          /\ w[n] \subseteq w[n + 1]
          /\ \A file \in w[n] : Successors(statements, file) \subseteq w[n + 1]
          /\ \A to \in w[n + 1] : to \in w[n] \/ \E file \in w[n] : to \in Successors(statements, file)
  BY <1>3
<1> QED BY <1>1, <1>4, <1>5, <1>6 DEF w

\* The closure is closed, and has whatever is within any number of references:
\* with FileCount files, FileCount - 1 references lead everywhere.
LEMMA ClosureIsClosed ==
    ASSUME NEW statements, IsText(statements)
    PROVE  /\ ClosureOf(statements) \subseteq Files
           /\ Entries \subseteq ClosureOf(statements)
           /\ IsFiniteSet(ClosureOf(statements)) /\ Cardinality(ClosureOf(statements)) \in Nat
           /\ \A file \in ClosureOf(statements) : Successors(statements, file) \subseteq ClosureOf(statements)
           /\ \A n \in Nat : Within(statements)[n] \subseteq ClosureOf(statements)
<1> DEFINE w == Within(statements)
           grow == LeadsTo(statements)
<1>1. AreRounds(w, Entries, grow) /\ \A n \in Nat : w[n] \subseteq Files
  BY WithinIsRounds
<1> HIDE DEF grow
<1>2. FileCount \in Nat /\ FileCount - 1 \in Nat
  BY WalkAssumption
<1>3. PICK n \in 0..(FileCount - 1) : w[n + 1] = w[n]
  <2>1. Cardinality(Files) - Cardinality(Entries) <= FileCount - 1
    BY FilesAreFinite, <1>2
  <2> HIDE DEF w
  <2> QED BY <2>1, <1>1, <1>2, SomeRoundSettles, FilesAreFinite
<1>4. n \in Nat /\ n <= FileCount
  BY <1>2
<1>5. \A m \in Nat : n <= m => w[m] = w[n]
  <2> HIDE DEF w
  <2> QED BY <1>1, <1>3, <1>4, RoundsSettle
<1>6. w[FileCount] = w[n] /\ w[FileCount + 1] = w[n]
  BY <1>5, <1>4, <1>2
<1>7. ClosureOf(statements) = w[FileCount]
  BY DEF ClosureOf
<1>8. ASSUME NEW m \in Nat
      PROVE  w[m] \subseteq w[FileCount]
  <2>1. CASE n <= m
    BY <2>1, <1>5, <1>6
  <2>2. CASE ~(n <= m)
    <3>1. m <= FileCount
      BY <2>2, <1>4, <1>2
    <3> QED BY <3>1, <1>2, WithinSteps
  <2> QED BY <2>1, <2>2
<1>9. \A file \in w[FileCount] : Successors(statements, file) \subseteq w[FileCount + 1]
  BY WithinSteps, <1>2
<1>10. Entries \subseteq w[FileCount]
  BY <1>8, WithinSteps
<1>11. IsFiniteSet(w[FileCount]) /\ Cardinality(w[FileCount]) \in Nat
  <2>1. w[FileCount] \in SUBSET Files
    BY <1>1, <1>2
  <2> QED BY <2>1, FilesAreFinite, FS_Subset, FS_CardinalityType
<1> QED BY <1>1, <1>2, <1>6, <1>7, <1>8, <1>9, <1>10, <1>11

-----------------------------------------------------------------------------
(***************************************************************************)
(* The reference of the exports: the rounds from the direct declarations.  *)
(***************************************************************************)
NamesIn(statements) == {s.exported : s \in statements}
OriginUniverse(statements, files) == files \X NamesIn(statements) \X AllOrigins(statements)
Passes(statements, files) ==
    [known \in SUBSET OriginUniverse(statements, files) |->
        UNION {Reexported(statements, known, edge) : edge \in EdgesAmong(statements, files)}]

LEMMA ImagesAreFinite ==
    ASSUME NEW S, IsFiniteSet(S), NEW f
    PROVE  /\ IsFiniteSet({f[x] : x \in S})
           /\ Cardinality({f[x] : x \in S}) <= Cardinality(S)
<1> DEFINE g == [x \in S |-> f[x]]
<1>1. g \in Surjection(S, {f[x] : x \in S})
  BY DEF Surjection
<1> QED BY <1>1, FS_Surjection

LEMMA TriplesAreFinite ==
    ASSUME NEW A, NEW B, NEW C, IsFiniteSet(A), IsFiniteSet(B), IsFiniteSet(C)
    PROVE  /\ IsFiniteSet(A \X B \X C)
           /\ Cardinality(A \X B \X C) <= Cardinality(A) * Cardinality(B) * Cardinality(C)
<1>1. IsFiniteSet(A \X B) /\ Cardinality(A \X B) = Cardinality(A) * Cardinality(B)
  BY FS_Product
<1>2. /\ IsFiniteSet((A \X B) \X C)
      /\ Cardinality((A \X B) \X C) = Cardinality(A) * Cardinality(B) * Cardinality(C)
  BY <1>1, FS_Product
<1> DEFINE nested == [t \in A \X B \X C |-> <<<<t[1], t[2]>>, t[3]>>]
<1>3. nested \in Injection(A \X B \X C, (A \X B) \X C)
  <2>1. nested \in [A \X B \X C -> (A \X B) \X C]
    OBVIOUS
  <2>2. \A s, t \in A \X B \X C : nested[s] = nested[t] => s = t
    OBVIOUS
  <2> QED BY <2>1, <2>2 DEF Injection, IsInjective
<1> HIDE DEF nested
<1> QED BY <1>2, <1>3, FS_Injection

LEMMA UniverseIsFinite ==
    ASSUME NEW statements, IsFiniteSet(statements), NEW files, IsFiniteSet(files)
    PROVE  /\ IsFiniteSet(OriginUniverse(statements, files))
           /\ Cardinality(OriginUniverse(statements, files)) <= MostRounds(statements, files)
           /\ MostRounds(statements, files) \in Nat
<1> DEFINE exported == [s \in statements |-> s.exported]
           direct == [s \in statements |-> <<s.file, "direct", s.exported>>]
           declared == [s \in statements |-> Declares(s).origin]
<1>1. IsFiniteSet(NamesIn(statements))
  <2>1. NamesIn(statements) = {exported[s] : s \in statements}
    BY DEF NamesIn
  <2> HIDE DEF exported
  <2> QED BY <2>1, ImagesAreFinite
<1>2. IsFiniteSet({<<s.file, "direct", s.exported>> : s \in statements})
  <2>1. {<<s.file, "direct", s.exported>> : s \in statements} = {direct[s] : s \in statements}
    OBVIOUS
  <2> HIDE DEF direct
  <2> QED BY <2>1, ImagesAreFinite
<1>3. IsFiniteSet({Declares(s).origin : s \in statements})
  <2>1. {Declares(s).origin : s \in statements} = {declared[s] : s \in statements}
    OBVIOUS
  <2> HIDE DEF declared
  <2> QED BY <2>1, ImagesAreFinite
<1>4. IsFiniteSet(AllOrigins(statements))
  BY <1>2, <1>3, FS_Union DEF AllOrigins
<1>5. /\ Cardinality(files) \in Nat /\ Cardinality(NamesIn(statements)) \in Nat
      /\ Cardinality(AllOrigins(statements)) \in Nat
  BY <1>1, <1>4, FS_CardinalityType
<1>6. MostRounds(statements, files)
          = Cardinality(files) * Cardinality(NamesIn(statements)) * Cardinality(AllOrigins(statements))
  BY DEF MostRounds, NamesIn
<1> QED BY <1>1, <1>4, <1>5, <1>6, TriplesAreFinite DEF OriginUniverse

\* What a re-export makes of origins is an origin again; more origins make more.
LEMMA ReexportsStayInUniverse ==
    ASSUME NEW statements, NEW files, NEW edge \in EdgesAmong(statements, files),
           NEW known, known \subseteq OriginUniverse(statements, files)
    PROVE  Reexported(statements, known, edge) \subseteq OriginUniverse(statements, files)
<1>1. edge \in statements /\ edge.file \in files
  BY DEF EdgesAmong
<1>2. edge.exported \in NamesIn(statements) /\ Declares(edge).origin \in AllOrigins(statements)
  BY <1>1 DEF NamesIn, AllOrigins
<1>3. CASE edge.kind = "star"
  BY <1>1, <1>3 DEF Reexported, OriginUniverse
<1>4. CASE edge.kind = "named"
  BY <1>1, <1>2, <1>4 DEF Reexported, OriginUniverse
<1>5. CASE edge.kind \notin {"star", "named"}
  BY <1>1, <1>2, <1>5 DEF Reexported, OriginUniverse
<1> QED BY <1>3, <1>4, <1>5

LEMMA ReexportsAreMonotone ==
    ASSUME NEW statements, NEW edge, NEW known, NEW more, known \subseteq more
    PROVE  Reexported(statements, known, edge) \subseteq Reexported(statements, more, edge)
<1>1. CASE edge.kind = "star"
  BY <1>1 DEF Reexported
<1>2. CASE edge.kind = "named"
  BY <1>2 DEF Reexported
<1>3. CASE edge.kind \notin {"star", "named"}
  BY <1>3 DEF Reexported
<1> QED BY <1>1, <1>2, <1>3

LEMMA DirectOriginsAreInUniverse ==
    ASSUME NEW statements, NEW files
    PROVE  DirectOrigins(statements, files) \subseteq OriginUniverse(statements, files)
<1> SUFFICES ASSUME NEW file \in files, NEW entry \in DirectSurface(statements, file)
             PROVE  <<file, entry.name, entry.origin>> \in OriginUniverse(statements, files)
  BY DEF DirectOrigins
<1>1. PICK name \in ExportsOf(statements, file) :
          entry = [name |-> name, origin |-> <<file, "direct", name>>, witness |-> {file}]
  BY DEF DirectSurface
<1>2. PICK s \in statements : s.file = file /\ s.exported = name
  BY DEF ExportsOf, StatementsOf
<1>3. name \in NamesIn(statements) /\ <<file, "direct", name>> \in AllOrigins(statements)
  BY <1>2 DEF NamesIn, AllOrigins
<1> QED BY <1>1, <1>3 DEF OriginUniverse

LEMMA PassesIsReexported ==
    ASSUME NEW statements, NEW files
    PROVE  \A known \in SUBSET OriginUniverse(statements, files) :
              /\ Passes(statements, files)[known]
                     = UNION {Reexported(statements, known, edge) : edge \in EdgesAmong(statements, files)}
              /\ Passes(statements, files)[known] \subseteq OriginUniverse(statements, files)
<1> TAKE known \in SUBSET OriginUniverse(statements, files)
<1>1. Passes(statements, files)[known]
          = UNION {Reexported(statements, known, edge) : edge \in EdgesAmong(statements, files)}
  BY DEF Passes
<1>2. \A edge \in EdgesAmong(statements, files) :
          Reexported(statements, known, edge) \subseteq OriginUniverse(statements, files)
  BY ReexportsStayInUniverse
<1> QED BY <1>1, <1>2

LEMMA OriginsAfterIsRounds ==
    ASSUME NEW statements, NEW files
    PROVE  /\ AreRounds(OriginsAfter(statements, files), DirectOrigins(statements, files),
                        Passes(statements, files))
           /\ \A n \in Nat : OriginsAfter(statements, files)[n] \subseteq OriginUniverse(statements, files)
<1> DEFINE grow == Passes(statements, files)
           direct == DirectOrigins(statements, files)
           universe == OriginUniverse(statements, files)
           all(known) == UNION {Reexported(statements, known, edge) : edge \in EdgesAmong(statements, files)}
           body(w) == [n \in Nat |-> IF n = 0 THEN direct ELSE w[n - 1] \cup all(w[n - 1])]
<1>1. \A known \in SUBSET universe : grow[known] = all(known) /\ grow[known] \subseteq universe
  BY PassesIsReexported
<1>a. direct \subseteq universe
  BY DirectOriginsAreInUniverse
<1>b. OriginsAfter(statements, files) = CHOOSE w : w = body(w)
  BY DEF OriginsAfter
<1> HIDE DEF grow, direct, universe, all
<1>2. PICK after : AreRounds(after, direct, grow)
  BY RoundsExist
<1>3. \A n \in Nat : after[n] \subseteq universe
  BY <1>1, <1>2, <1>a, RoundsStayWithin
<1>4. \A w : (\A n \in Nat : w[n] \subseteq universe) => (w = body(w) <=> AreRounds(w, direct, grow))
  <2> TAKE w
  <2> SUFFICES ASSUME \A n \in Nat : w[n] \subseteq universe
               PROVE  w = body(w) <=> AreRounds(w, direct, grow)
    OBVIOUS
  <2>1. \A n \in Nat : (IF n = 0 THEN direct ELSE w[n - 1] \cup all(w[n - 1]))
                       = (IF n = 0 THEN direct ELSE w[n - 1] \cup grow[w[n - 1]])
    <3> TAKE n \in Nat
    <3>1. CASE n = 0
      BY <3>1
    <3>2. CASE n # 0
      <4>1. w[n - 1] \in SUBSET universe
        BY <3>2
      <4> QED BY <4>1, <1>1, <3>2
    <3> QED BY <3>1, <3>2
  <2>2. body(w) = [n \in Nat |-> IF n = 0 THEN direct ELSE w[n - 1] \cup grow[w[n - 1]]]
    BY <2>1, Zenon
  <2> QED BY <2>2 DEF AreRounds
<1>5. after = body(after)
  BY <1>2, <1>3, <1>4
<1> DEFINE within == CHOOSE w : w = body(w)
<1>6. within = body(within)
  BY <1>5
<1>7. OriginsAfter(statements, files) = within
  BY <1>b
<1> HIDE DEF within
<1>8. \A n \in Nat : within[n] \subseteq universe
  <2> DEFINE S == {n \in Nat : within[n] \subseteq universe}
  <2>1. 0 \in S
    <3>1. within[0] = direct
      BY <1>6
    <3> QED BY <3>1, <1>a
  <2>2. ASSUME NEW n \in Nat, n \in S
        PROVE  n + 1 \in S
    <3>1. n + 1 \in Nat /\ n + 1 # 0 /\ (n + 1) - 1 = n
      OBVIOUS
    <3>2. within[n + 1] = within[n] \cup all(within[n])
      BY <3>1, <1>6
    <3>3. within[n] \in SUBSET universe
      BY <2>2
    <3> QED BY <3>2, <3>3, <1>1
  <2> HIDE DEF S
  <2>3. \A n \in Nat : n \in S
    BY <2>1, <2>2, AllNumbers
  <2> QED BY <2>3 DEF S
<1> HIDE DEF body
<1>9. AreRounds(within, direct, grow)
  BY <1>4, <1>6, <1>8
<1> QED BY <1>7, <1>8, <1>9 DEF grow, direct, universe

\* The reference is the least set that has the direct declarations and what
\* the re-exports make of its members.
LEMMA OriginsAreClosed ==
    ASSUME NEW statements, IsFiniteSet(statements), NEW files, IsFiniteSet(files)
    PROVE  LET origins == ReachableOrigins(statements, files)
           IN  /\ origins \subseteq OriginUniverse(statements, files)
               /\ IsFiniteSet(origins)
               /\ DirectOrigins(statements, files) \subseteq origins
               /\ \A edge \in EdgesAmong(statements, files) :
                      Reexported(statements, origins, edge) \subseteq origins
<1> DEFINE after == OriginsAfter(statements, files)
           grow == Passes(statements, files)
           direct == DirectOrigins(statements, files)
           universe == OriginUniverse(statements, files)
           bound == MostRounds(statements, files)
           last == CHOOSE n \in 0..bound : after[n + 1] = after[n]
<1>1. AreRounds(after, direct, grow) /\ \A n \in Nat : after[n] \subseteq universe
  BY OriginsAfterIsRounds
<1>2. IsFiniteSet(universe) /\ Cardinality(universe) <= bound /\ bound \in Nat
  BY UniverseIsFinite
<1>3. IsFiniteSet(direct)
  BY <1>2, DirectOriginsAreInUniverse, FS_Subset
<1>4. Cardinality(direct) \in Nat /\ Cardinality(universe) \in Nat
  BY <1>2, <1>3, FS_CardinalityType
<1>5. Cardinality(universe) - Cardinality(direct) <= bound
  BY <1>2, <1>4
<1>a. ReachableOrigins(statements, files) = after[last]
  BY DEF ReachableOrigins
<1>b. \A known \in SUBSET universe :
          grow[known] = UNION {Reexported(statements, known, edge) : edge \in EdgesAmong(statements, files)}
  BY PassesIsReexported
<1> HIDE DEF after, grow, direct, universe, bound
<1>6. \E n \in 0..bound : after[n + 1] = after[n]
  BY <1>1, <1>2, <1>5, SomeRoundSettles
<1>7. last \in Nat /\ after[last + 1] = after[last]
  BY <1>6, <1>2
<1> HIDE DEF last
<1>8. after[last + 1] = after[last] \cup grow[after[last]]
  BY <1>1, <1>7, RoundByRound
<1>9. after[last] \in SUBSET universe
  BY <1>1, <1>7
<1>10. IsFiniteSet(after[last])
  BY <1>2, <1>9, FS_Subset
<1>11. direct \subseteq after[last]
  <2>1. after[0] = direct
    BY <1>1, RoundByRound
  <2>2. 0 \in Nat /\ 0 <= last
    BY <1>7
  <2> QED BY <2>1, <2>2, <1>1, <1>7, RoundsGrow
<1>12. \A edge \in EdgesAmong(statements, files) :
           Reexported(statements, after[last], edge) \subseteq after[last]
  BY <1>7, <1>8, <1>9, <1>b
<1> QED BY <1>a, <1>9, <1>10, <1>11, <1>12 DEF direct, universe

LEMMA OriginsAreLeast ==
    ASSUME NEW statements, IsFiniteSet(statements), NEW files, IsFiniteSet(files), NEW closed,
           DirectOrigins(statements, files) \subseteq closed,
           \A edge \in EdgesAmong(statements, files) :
               Reexported(statements, closed, edge) \subseteq closed
    PROVE  ReachableOrigins(statements, files) \subseteq closed
<1> DEFINE after == OriginsAfter(statements, files)
           grow == Passes(statements, files)
           direct == DirectOrigins(statements, files)
           universe == OriginUniverse(statements, files)
           bound == MostRounds(statements, files)
           last == CHOOSE n \in 0..bound : after[n + 1] = after[n]
           inside == closed \cap universe
<1>1. AreRounds(after, direct, grow) /\ \A n \in Nat : after[n] \subseteq universe
  BY OriginsAfterIsRounds
<1>2. IsFiniteSet(universe) /\ Cardinality(universe) <= bound /\ bound \in Nat
  BY UniverseIsFinite
<1>3. IsFiniteSet(direct) /\ direct \subseteq universe
  BY <1>2, DirectOriginsAreInUniverse, FS_Subset
<1>4. Cardinality(direct) \in Nat /\ Cardinality(universe) \in Nat
  BY <1>2, <1>3, FS_CardinalityType
<1>5. Cardinality(universe) - Cardinality(direct) <= bound
  BY <1>2, <1>4
<1>a. ReachableOrigins(statements, files) = after[last]
  BY DEF ReachableOrigins
<1>b. \A known \in SUBSET inside : grow[known] \subseteq inside
  <2> TAKE known \in SUBSET inside
  <2>1. known \in SUBSET universe
    OBVIOUS
  <2>2. /\ grow[known] = UNION {Reexported(statements, known, edge) : edge \in EdgesAmong(statements, files)}
        /\ grow[known] \subseteq universe
    BY <2>1, PassesIsReexported
  <2>3. \A edge \in EdgesAmong(statements, files) : Reexported(statements, known, edge) \subseteq closed
    <3> TAKE edge \in EdgesAmong(statements, files)
    <3>1. Reexported(statements, known, edge) \subseteq Reexported(statements, closed, edge)
      BY ReexportsAreMonotone
    <3> QED BY <3>1
  <2> QED BY <2>2, <2>3
<1>c. direct \subseteq inside
  BY <1>3
<1> HIDE DEF after, grow, direct, universe, bound
<1>6. \E n \in 0..bound : after[n + 1] = after[n]
  BY <1>1, <1>2, <1>5, SomeRoundSettles
<1>7. last \in Nat
  BY <1>6, <1>2
<1> HIDE DEF last, inside
<1>8. \A n \in Nat : after[n] \subseteq inside
  BY <1>1, <1>b, <1>c, RoundsStayWithin
<1>9. after[last] \subseteq inside
  BY <1>7, <1>8
<1> QED BY <1>a, <1>9 DEF inside

\* What is found from the text of some files is found from that of more.
LEMMA MoreFilesFindMore ==
    ASSUME NEW statements, IsFiniteSet(statements), NEW files, IsFiniteSet(files),
           NEW others, IsFiniteSet(others), NEW more, IsFiniteSet(more), files \subseteq more,
           \A file \in files : StatementsOf(statements, file) = StatementsOf(others, file)
    PROVE  ReachableOrigins(statements, files) \subseteq ReachableOrigins(others, more)
<1> DEFINE closed == ReachableOrigins(others, more)
<1>1. /\ DirectOrigins(others, more) \subseteq closed
      /\ \A edge \in EdgesAmong(others, more) : Reexported(others, closed, edge) \subseteq closed
  BY OriginsAreClosed
<1> HIDE DEF closed
<1>2. \A file \in files : /\ ExportsOf(statements, file) = ExportsOf(others, file)
                          /\ ReexportsOf(statements, file) = ReexportsOf(others, file)
  BY DEF ExportsOf, ReexportsOf
<1>3. \A file \in files : DirectSurface(statements, file) = DirectSurface(others, file)
  <2> TAKE file \in files
  <2>1. RelativeExplicitNames(statements, file) = RelativeExplicitNames(others, file)
    BY <1>2 DEF RelativeExplicitNames
  <2> QED BY <2>1, <1>2 DEF DirectSurface
<1>4. DirectOrigins(statements, files) \subseteq DirectOrigins(others, more)
  BY <1>3 DEF DirectOrigins
<1>5. ASSUME NEW edge \in EdgesAmong(statements, files)
      PROVE  Reexported(statements, closed, edge) \subseteq closed
  <2>1. edge \in statements /\ edge.file \in files /\ edge.to \in files /\ edge.kind \in Reexports
    BY DEF EdgesAmong
  <2>2. edge \in StatementsOf(statements, edge.file)
    BY <2>1 DEF StatementsOf
  <2>3. edge \in others
    BY <2>1, <2>2 DEF StatementsOf
  <2>4. edge \in EdgesAmong(others, more)
    BY <2>1, <2>3 DEF EdgesAmong
  <2>5. Reexported(statements, closed, edge) = Reexported(others, closed, edge)
    <3>1. \A name : PassesStar(statements, edge, name) <=> PassesStar(others, edge, name)
      BY <1>2, <2>1 DEF PassesStar
    <3>2. CASE edge.kind = "star"
      BY <3>1, <3>2 DEF Reexported
    <3>3. CASE edge.kind # "star"
      BY <3>3 DEF Reexported
    <3> QED BY <3>2, <3>3
  <2> QED BY <1>1, <2>4, <2>5
<1>6. ReachableOrigins(statements, files) \subseteq closed
  BY <1>1, <1>4, <1>5, OriginsAreLeast
<1> QED BY <1>6 DEF closed

-----------------------------------------------------------------------------
(***************************************************************************)
(* Surfaces, while the re-exports are followed.                            *)
(***************************************************************************)
Shown(statements, witness) == {s \in statements : s.file \in witness}

\* The witness of an entry proves it: from the text of its files alone the
\* name of the file stands for the origin.
IsProven(statements, file, entry) ==
    /\ file \in entry.witness
    /\ <<file, entry.name, entry.origin>>
           \in ReachableOrigins(Shown(statements, entry.witness), entry.witness)

\* Entries are proven within the files of the walk, and no direct declaration
\* is forgotten.
SurfacesAreProven ==
    /\ surfaces = [file \in records |-> surfaces[file]]
    /\ \A file \in records :
         /\ \A entry \in surfaces[file] : entry.witness \subseteq records /\ IsProven(text, file, entry)
         /\ \A entry \in DirectSurface(text, file) :
                entry.origin \in OriginsOf(surfaces[file], entry.name)

\* The walk has come to its end.
GraphIsWhole ==
    /\ IsText(text) /\ IsFiniteSet(text)
    /\ records = Closure /\ IsFiniteSet(records) /\ records \subseteq Files
    /\ Entries \subseteq records
    /\ \A file \in records : Successors(text, file) \subseteq records

LEMMA ShownIsFinite ==
    ASSUME NEW statements, IsFiniteSet(statements), NEW witness
    PROVE  IsFiniteSet(Shown(statements, witness))
<1>1. Shown(statements, witness) \in SUBSET statements
  BY DEF Shown
<1> QED BY <1>1, FS_Subset

LEMMA ShownMonotone ==
    ASSUME NEW statements, IsFiniteSet(statements), NEW files, IsFiniteSet(files),
           NEW witness, witness \subseteq files
    PROVE  /\ ReachableOrigins(Shown(statements, witness), witness) \subseteq ReachableOrigins(statements, files)
           /\ ReachableOrigins(Shown(statements, witness), witness)
                  \subseteq ReachableOrigins(Shown(statements, files), files)
<1>1. IsFiniteSet(witness)
  BY FS_Subset
<1>2. IsFiniteSet(Shown(statements, witness)) /\ IsFiniteSet(Shown(statements, files))
  BY ShownIsFinite
<1>3. \A file \in witness :
          /\ StatementsOf(Shown(statements, witness), file) = StatementsOf(statements, file)
          /\ StatementsOf(Shown(statements, witness), file) = StatementsOf(Shown(statements, files), file)
  BY DEF StatementsOf, Shown
<1> QED BY <1>1, <1>2, <1>3, MoreFilesFindMore

\* What the surface of a file shows is what the reference knows.
LEMMA ProvenIsReachable ==
    ASSUME GraphIsWhole, SurfacesAreProven, NEW file \in records
    PROVE  /\ \A entry \in surfaces[file] :
                 <<file, entry.name, entry.origin>> \in ReachableOrigins(text, records)
           /\ \A name : OriginsOf(surfaces[file], name)
                            \subseteq StandsFor(ReachableOrigins(text, records), file, name)
<1> DEFINE all == ReachableOrigins(text, records)
<1>1. ASSUME NEW entry \in surfaces[file]
      PROVE  <<file, entry.name, entry.origin>> \in all
  <2>1. entry.witness \subseteq records /\ IsProven(text, file, entry)
    BY DEF SurfacesAreProven
  <2> QED BY <2>1, ShownMonotone DEF IsProven, GraphIsWhole
<1> HIDE DEF all
<1>2. ASSUME NEW name
      PROVE  OriginsOf(surfaces[file], name) \subseteq StandsFor(all, file, name)
  <2> SUFFICES ASSUME NEW entry \in surfaces[file], entry.name = name
               PROVE  entry.origin \in StandsFor(all, file, name)
    BY DEF OriginsOf
  <2> DEFINE triple == <<file, entry.name, entry.origin>>
  <2>1. triple \in all /\ triple[1] = file /\ triple[2] = name /\ triple[3] = entry.origin
    BY <1>1
  <2> HIDE DEF triple
  <2> QED BY <2>1 DEF StandsFor
<1> QED BY <1>1, <1>2 DEF all

LEMMA StandsForIsFinite ==
    ASSUME NEW origins, IsFiniteSet(origins), NEW file, NEW name
    PROVE  IsFiniteSet(StandsFor(origins, file, name))
<1> DEFINE of == {k \in origins : k[1] = file /\ k[2] = name}
           third == [k \in of |-> k[3]]
<1>1. IsFiniteSet(of)
  BY FS_Subset
<1>2. StandsFor(origins, file, name) = {third[k] : k \in of}
  BY DEF StandsFor
<1> HIDE DEF third, of
<1> QED BY <1>1, <1>2, ImagesAreFinite

\* A re-export offers entries that are proven of its file.
LEMMA OffersAreProven ==
    ASSUME GraphIsWhole, SurfacesAreProven, NEW offer \in Offers
    PROVE  LET edge == offer[1]
               entry == offer[2]
           IN  /\ edge \in text /\ edge.file \in records /\ edge.to \in records
               /\ edge \in EdgesAmong(text, records)
               /\ entry \in Offered(text, surfaces, edge)
               /\ entry.witness \subseteq records /\ IsProven(text, edge.file, entry)
<1> DEFINE edge == offer[1]
           entry == offer[2]
<1>1. PICK file \in records : edge \in ReexportsOf(text, file) /\ entry \in Offered(text, surfaces, edge)
  BY DEF Offers
<1>2. edge \in text /\ edge.file = file /\ edge.kind \in Reexports
  BY <1>1 DEF ReexportsOf, StatementsOf
<1>3. edge.to \in records
  BY <1>1, <1>2 DEF GraphIsWhole, Successors
<1>4. edge \in EdgesAmong(text, records)
  BY <1>2, <1>3 DEF EdgesAmong
<1>5. ASSUME NEW witness, witness \subseteq records, edge.file \in witness, edge.to \in witness
      PROVE  /\ edge \in EdgesAmong(Shown(text, witness), witness)
             /\ \A name : PassesStar(Shown(text, witness), edge, name) <=> PassesStar(text, edge, name)
             /\ Reexported(Shown(text, witness), ReachableOrigins(Shown(text, witness), witness), edge)
                    \subseteq ReachableOrigins(Shown(text, witness), witness)
  <2>1. edge \in EdgesAmong(Shown(text, witness), witness)
    BY <1>2, <1>5 DEF EdgesAmong, Shown
  <2>2. StatementsOf(Shown(text, witness), edge.file) = StatementsOf(text, edge.file)
    BY <1>5 DEF StatementsOf, Shown
  <2>3. IsFiniteSet(witness) /\ IsFiniteSet(Shown(text, witness))
    BY <1>5, FS_Subset, ShownIsFinite DEF GraphIsWhole
  <2> QED BY <2>1, <2>2, <2>3, OriginsAreClosed DEF PassesStar, ExportsOf
<1>6. ASSUME NEW e \in surfaces[edge.to], NEW name, entry = Through(edge, e, name),
             edge.kind = "star" => PassesStar(text, edge, e.name) /\ name = e.name,
             edge.kind = "named" => e.name = edge.imported /\ name = edge.exported,
             edge.kind \in {"star", "named"}
      PROVE  entry.witness \subseteq records /\ IsProven(text, edge.file, entry)
  <2> DEFINE witness == e.witness \cup {edge.file}
             known == ReachableOrigins(Shown(text, witness), witness)
             triple == <<edge.to, e.name, e.origin>>
  <2>1. e.witness \subseteq records /\ IsProven(text, edge.to, e)
    BY <1>3 DEF SurfacesAreProven
  <2>2. entry.name = name /\ entry.origin = e.origin /\ entry.witness = witness
    BY <1>6 DEF Through
  <2>3. witness \subseteq records /\ edge.file \in witness /\ edge.to \in witness /\ e.witness \subseteq witness
    BY <1>2, <2>1 DEF IsProven
  <2>4. IsFiniteSet(witness) /\ IsFiniteSet(text)
    BY <2>3, FS_Subset DEF GraphIsWhole
  <2>5. triple \in known
    BY <2>1, <2>3, <2>4, ShownMonotone DEF IsProven
  <2> HIDE DEF witness
  <2>6. /\ \A n : PassesStar(Shown(text, witness), edge, n) <=> PassesStar(text, edge, n)
        /\ Reexported(Shown(text, witness), known, edge) \subseteq known
    BY <1>5, <2>3
  <2>7. triple[1] = edge.to /\ triple[2] = e.name /\ triple[3] = e.origin
    OBVIOUS
  <2> HIDE DEF known, triple
  <2>8. <<edge.file, name, e.origin>> \in Reexported(Shown(text, witness), known, edge)
    <3>1. CASE edge.kind = "star"
      <4>1. triple \in {k \in known : k[1] = edge.to /\ PassesStar(Shown(text, witness), edge, k[2])}
        BY <3>1, <1>6, <2>5, <2>6, <2>7
      <4>2. <<edge.file, name, e.origin>> = <<edge.file, triple[2], triple[3]>>
        BY <3>1, <1>6, <2>7
      <4> QED BY <3>1, <4>1, <4>2 DEF Reexported
    <3>2. CASE edge.kind = "named"
      <4>1. triple \in {k \in known : k[1] = edge.to /\ k[2] = edge.imported}
        BY <3>2, <1>6, <2>5, <2>7
      <4>2. <<edge.file, name, e.origin>> = <<edge.file, edge.exported, triple[3]>>
        BY <3>2, <1>6, <2>7
      <4> QED BY <3>2, <4>1, <4>2 DEF Reexported
    <3> QED BY <3>1, <3>2, <1>6
  <2>9. <<edge.file, name, e.origin>> \in known
    BY <2>6, <2>8
  <2> QED BY <2>2, <2>3, <2>9 DEF IsProven, known
<1>7. CASE edge.kind = "star"
  <2>1. PICK e \in surfaces[edge.to] : PassesStar(text, edge, e.name) /\ entry = Through(edge, e, e.name)
    BY <1>1, <1>7 DEF Offered
  <2> QED BY <1>1, <1>2, <1>3, <1>4, <1>6, <1>7, <2>1
<1>8. CASE edge.kind = "named"
  <2>1. PICK e \in surfaces[edge.to] : e.name = edge.imported /\ entry = Through(edge, e, edge.exported)
    BY <1>1, <1>8 DEF Offered
  <2> QED BY <1>1, <1>2, <1>3, <1>4, <1>6, <1>8, <2>1
<1>9. CASE edge.kind \notin {"star", "named"}
  <2>1. entry = Declares(edge)
    BY <1>1, <1>9 DEF Offered
  <2>2. /\ entry.witness = {edge.file, edge.to} /\ entry.name = edge.exported
        /\ entry.origin = Declares(edge).origin
    BY <2>1 DEF Declares
  <2>3. entry.witness \subseteq records /\ edge.file \in entry.witness /\ edge.to \in entry.witness
    BY <1>2, <1>3, <2>2
  <2>4. <<edge.file, entry.name, entry.origin>>
            \in Reexported(Shown(text, entry.witness),
                           ReachableOrigins(Shown(text, entry.witness), entry.witness), edge)
    BY <1>9, <2>2 DEF Reexported
  <2>5. IsProven(text, edge.file, entry)
    BY <1>5, <2>3, <2>4 DEF IsProven
  <2> QED BY <1>1, <1>2, <1>3, <1>4, <2>3, <2>5
<1> QED BY <1>7, <1>8, <1>9

\* addSurfaceOrigin keeps every origin, and adds the one it was given.
LEMMA ImprovedOrigins ==
    ASSUME NEW surface, NEW entry
    PROVE  /\ NamesOf(Improved(surface, entry)) = NamesOf(surface) \cup {entry.name}
           /\ \A name : OriginsOf(surface, name) \subseteq OriginsOf(Improved(surface, entry), name)
           /\ \A e \in Improved(surface, entry) : e = entry \/ e \in surface
<1>1. \A e \in surface : e \in Improved(surface, entry) \/ (e.name = entry.name /\ e.origin = entry.origin)
  BY DEF Improved, Known
<1>2. entry \in Improved(surface, entry)
  BY DEF Improved
<1>3. \A e \in Improved(surface, entry) : e = entry \/ e \in surface
  BY DEF Improved
<1>4. NamesOf(Improved(surface, entry)) = NamesOf(surface) \cup {entry.name}
  BY <1>1, <1>2, <1>3 DEF NamesOf
<1>5. ASSUME NEW name, NEW e \in surface, e.name = name
      PROVE  e.origin \in OriginsOf(Improved(surface, entry), name)
  BY <1>1, <1>2, <1>5 DEF OriginsOf
<1>6. \A name : OriginsOf(surface, name) \subseteq OriginsOf(Improved(surface, entry), name)
  BY <1>5 DEF OriginsOf
<1> QED BY <1>3, <1>4, <1>6

LEMMA ReexportKeepsProofs ==
    ASSUME GraphIsWhole, SurfacesAreProven, NEW offer \in Offers,
           text' = text, records' = records,
           surfaces' = [surfaces EXCEPT ![offer[1].file] = Improved(@, offer[2])]
    PROVE  SurfacesAreProven'
<1> DEFINE home == offer[1].file
           entry == offer[2]
<1>1. home \in records /\ entry.witness \subseteq records /\ IsProven(text, home, entry)
  BY OffersAreProven
<1>2. /\ surfaces' = [file \in records |-> surfaces'[file]]
      /\ \A file \in records :
             surfaces'[file] = IF file = home THEN Improved(surfaces[file], entry) ELSE surfaces[file]
  BY <1>1 DEF SurfacesAreProven
<1> HIDE DEF home, entry
<1>3. ASSUME NEW file \in records
      PROVE  /\ \A e \in surfaces'[file] : e.witness \subseteq records /\ IsProven(text, file, e)
             /\ \A e \in DirectSurface(text, file) : e.origin \in OriginsOf(surfaces'[file], e.name)
  <2>1. CASE file = home
    <3>1. surfaces'[file] = Improved(surfaces[file], entry)
      BY <1>2, <2>1
    <3>2. \A e \in surfaces'[file] : e = entry \/ e \in surfaces[file]
      BY <3>1, ImprovedOrigins
    <3>3. \A name : OriginsOf(surfaces[file], name) \subseteq OriginsOf(surfaces'[file], name)
      BY <3>1, ImprovedOrigins
    <3> QED BY <1>1, <2>1, <3>2, <3>3 DEF SurfacesAreProven
  <2>2. CASE file # home
    BY <1>2, <2>2 DEF SurfacesAreProven
  <2> QED BY <2>1, <2>2
<1>4. text' = text /\ records' = records
  OBVIOUS
<1> QED BY <1>2, <1>3, <1>4 DEF SurfacesAreProven

\* The surfaces begin with the direct declarations.
LEMMA DirectSurfacesAreProven ==
    ASSUME GraphIsWhole, text' = text, records' = records,
           surfaces' = [file \in records |-> DirectSurface(text, file)]
    PROVE  SurfacesAreProven'
<1>1. ASSUME NEW file \in records, NEW entry \in DirectSurface(text, file)
      PROVE  /\ entry.witness \subseteq records /\ IsProven(text, file, entry)
             /\ entry.origin \in OriginsOf(DirectSurface(text, file), entry.name)
  <2>1. entry.witness = {file}
    BY DEF DirectSurface
  <2>2. StatementsOf(Shown(text, {file}), file) = StatementsOf(text, file)
    BY DEF StatementsOf, Shown
  <2>3. DirectSurface(Shown(text, {file}), file) = DirectSurface(text, file)
    <3>1. ExportsOf(Shown(text, {file}), file) = ExportsOf(text, file)
      BY <2>2 DEF ExportsOf
    <3>2. RelativeExplicitNames(Shown(text, {file}), file) = RelativeExplicitNames(text, file)
      BY <2>2 DEF RelativeExplicitNames, ReexportsOf
    <3> QED BY <3>1, <3>2 DEF DirectSurface
  <2>4. <<file, entry.name, entry.origin>> \in DirectOrigins(Shown(text, {file}), {file})
    BY <2>3 DEF DirectOrigins
  <2>5. IsFiniteSet(Shown(text, {file})) /\ IsFiniteSet({file})
    BY ShownIsFinite, FS_Singleton DEF GraphIsWhole
  <2>6. IsProven(text, file, entry)
    BY <2>1, <2>4, <2>5, OriginsAreClosed DEF IsProven
  <2> QED BY <2>1, <2>6 DEF OriginsOf
<1> QED BY <1>1 DEF SurfacesAreProven

\* When no re-export changes a surface any more, a name has the origins of the
\* reference, or two of them: enough to know that it is ambiguous.
HasTwo(S) == \E a, b \in S : a # b

LEMMA SettledOffers ==
    ASSUME GraphIsWhole, SurfacesAreProven, Changes = {}, NEW offer \in Offers
    PROVE  LET found == OriginsOf(surfaces[offer[1].file], offer[2].name)
           IN  offer[2].origin \in found \/ HasTwo(found)
<1> DEFINE file == offer[1].file
           entry == offer[2]
           found == OriginsOf(surfaces[file], entry.name)
<1>1. ~Improves(surfaces[file], entry)
  BY DEF Changes
<1>2. CASE Known(surfaces[file], entry) # {}
  BY <1>2 DEF Known, OriginsOf
<1>3. CASE Known(surfaces[file], entry) = {}
  <2>1. ~(Cardinality(found) < 2)
    BY <1>1, <1>3 DEF Improves, OriginCap
  <2>2. file \in records
    BY OffersAreProven
  <2>3. IsFiniteSet(found)
    <3> DEFINE all == ReachableOrigins(text, records)
    <3>1. found \subseteq StandsFor(all, file, entry.name)
      BY <2>2, ProvenIsReachable
    <3>2. IsFiniteSet(all)
      BY OriginsAreClosed DEF GraphIsWhole
    <3> HIDE DEF all, found
    <3> QED BY <3>1, <3>2, StandsForIsFinite, FS_Subset
  <2> HIDE DEF found
  <2>4. found # {}
    BY <2>1, FS_EmptySet
  <2>5. PICK a \in found : TRUE
    BY <2>4
  <2>0. Cardinality({a}) = 1
    BY FS_Singleton
  <2>6. found # {a}
    BY <2>1, <2>0
  <2>7. HasTwo(found)
    BY <2>5, <2>6 DEF HasTwo
  <2> QED BY <2>7 DEF found
<1> QED BY <1>2, <1>3

LEMMA SettledSurfacesAreComplete ==
    ASSUME GraphIsWhole, SurfacesAreProven, Changes = {}
    PROVE  \A o \in ReachableOrigins(text, records) :
               /\ o[1] \in records
               /\ \/ o[3] \in OriginsOf(surfaces[o[1]], o[2])
                  \/ HasTwo(OriginsOf(surfaces[o[1]], o[2]))
<1> DEFINE found(file, name) == OriginsOf(surfaces[file], name)
           covered(file, name, origin) == origin \in found(file, name) \/ HasTwo(found(file, name))
           closed == {o \in OriginUniverse(text, records) : covered(o[1], o[2], o[3])}
<1>1. DirectOrigins(text, records) \subseteq closed
  <2> SUFFICES ASSUME NEW file \in records, NEW entry \in DirectSurface(text, file)
               PROVE  <<file, entry.name, entry.origin>> \in closed
    BY DEF DirectOrigins
  <2>1. <<file, entry.name, entry.origin>> \in OriginUniverse(text, records)
    BY DirectOriginsAreInUniverse DEF DirectOrigins
  <2>2. entry.origin \in found(file, entry.name)
    BY DEF SurfacesAreProven
  <2> QED BY <2>1, <2>2
<1>2. ASSUME NEW edge \in EdgesAmong(text, records), NEW entry \in Offered(text, surfaces, edge)
      PROVE  covered(edge.file, entry.name, entry.origin)
  <2>1. edge \in text /\ edge.file \in records /\ edge.kind \in Reexports
    BY DEF EdgesAmong
  <2>2. edge \in ReexportsOf(text, edge.file)
    BY <2>1 DEF ReexportsOf, StatementsOf
  <2>3. <<edge, entry>> \in Offers
    BY <2>1, <2>2 DEF Offers
  <2> QED BY <2>3, SettledOffers
<1>3. ASSUME NEW edge \in EdgesAmong(text, records), NEW o \in closed, NEW name, o[1] = edge.to,
             edge.kind = "star" => PassesStar(text, edge, o[2]) /\ name = o[2],
             edge.kind = "named" => o[2] = edge.imported /\ name = edge.exported,
             edge.kind \in {"star", "named"}
      PROVE  covered(edge.file, name, o[3])
  <2>1. ASSUME NEW entry \in surfaces[edge.to], entry.name = o[2]
        PROVE  covered(edge.file, name, entry.origin)
    <3>1. Through(edge, entry, name) \in Offered(text, surfaces, edge)
      <4>1. CASE edge.kind = "star"
        BY <1>3, <2>1, <4>1 DEF Offered
      <4>2. CASE edge.kind = "named"
        BY <1>3, <2>1, <4>2 DEF Offered
      <4> QED BY <1>3, <4>1, <4>2
    <3>2. Through(edge, entry, name).name = name /\ Through(edge, entry, name).origin = entry.origin
      BY DEF Through
    <3> HIDE DEF covered
    <3> QED BY <3>1, <3>2, <1>2
  <2>2. CASE o[3] \in found(edge.to, o[2])
    <3>1. PICK entry \in surfaces[edge.to] : entry.name = o[2] /\ entry.origin = o[3]
      BY <2>2 DEF OriginsOf
    <3> HIDE DEF covered
    <3> QED BY <2>1, <3>1
  <2>3. CASE HasTwo(found(edge.to, o[2]))
    <3>1. PICK a, b \in found(edge.to, o[2]) : a # b
      BY <2>3 DEF HasTwo
    <3>2. PICK e \in surfaces[edge.to] : e.name = o[2] /\ e.origin = a
      BY DEF OriginsOf
    <3>3. PICK f \in surfaces[edge.to] : f.name = o[2] /\ f.origin = b
      BY DEF OriginsOf
    <3>4. covered(edge.file, name, a) /\ covered(edge.file, name, b)
      BY <2>1, <3>2, <3>3
    <3> HIDE DEF found
    <3>5. HasTwo(found(edge.file, name))
      BY <3>1, <3>4 DEF HasTwo
    <3> QED BY <3>5
  <2>4. covered(o[1], o[2], o[3])
    OBVIOUS
  <2> QED BY <1>3, <2>2, <2>3, <2>4
<1>4. ASSUME NEW edge \in EdgesAmong(text, records), NEW r \in Reexported(text, closed, edge)
      PROVE  r \in closed
  <2>1. r \in OriginUniverse(text, records)
    BY ReexportsStayInUniverse
  <2>2. covered(r[1], r[2], r[3])
    <3>1. CASE edge.kind = "star"
      <4>1. PICK o \in closed : /\ o[1] = edge.to /\ PassesStar(text, edge, o[2])
                                /\ r = <<edge.file, o[2], o[3]>>
        BY <1>4, <3>1 DEF Reexported
      <4>2. covered(edge.file, o[2], o[3])
        BY <1>3, <3>1, <4>1
      <4> HIDE DEF covered
      <4> QED BY <4>1, <4>2
    <3>2. CASE edge.kind = "named"
      <4>1. PICK o \in closed : /\ o[1] = edge.to /\ o[2] = edge.imported
                                /\ r = <<edge.file, edge.exported, o[3]>>
        BY <1>4, <3>2 DEF Reexported
      <4>2. covered(edge.file, edge.exported, o[3])
        BY <1>3, <3>2, <4>1
      <4> HIDE DEF covered
      <4> QED BY <4>1, <4>2
    <3>3. CASE edge.kind \notin {"star", "named"}
      <4>1. r = <<edge.file, edge.exported, Declares(edge).origin>>
        BY <1>4, <3>3 DEF Reexported
      <4>2. Declares(edge) \in Offered(text, surfaces, edge)
        BY <3>3 DEF Offered
      <4>3. Declares(edge).name = edge.exported
        BY DEF Declares
      <4>4. covered(edge.file, edge.exported, Declares(edge).origin)
        <5> HIDE DEF covered
        <5> QED BY <1>2, <4>2, <4>3
      <4> HIDE DEF covered
      <4> QED BY <4>1, <4>4
    <3> QED BY <3>1, <3>2, <3>3
  <2> QED BY <2>1, <2>2
<1>5. ReachableOrigins(text, records) \subseteq closed
  <2> HIDE DEF closed
  <2> QED BY <1>1, <1>4, OriginsAreLeast DEF GraphIsWhole
<1>6. \A o \in OriginUniverse(text, records) : o[1] \in records
  BY DEF OriginUniverse
<1> QED BY <1>5, <1>6

-----------------------------------------------------------------------------
(***************************************************************************)
(* The order of witnesses: strict and total, so finitely many have a least. *)
(***************************************************************************)
\* The first number by which two sets differ is one of the left.
DiffersFirst(left, right) ==
    \E n \in left \ right : \A m \in left \cup right : m < n => (m \in left <=> m \in right)

LEMMA PrecedesIsLexical ==
    ASSUME NEW left \in SUBSET Nat, NEW right \in SUBSET Nat
    PROVE  Precedes(left, right) <=>
               \/ Cardinality(left) < Cardinality(right)
               \/ Cardinality(left) = Cardinality(right) /\ DiffersFirst(left, right)
<1> DEFINE differing == (left \cup right) \ (left \cap right)
<1>1. ASSUME left # right
      PROVE  Min(differing) \in left <=> DiffersFirst(left, right)
  <2>1. differing \in SUBSET Nat /\ differing # {}
    BY <1>1
  <2>2. \E n \in differing : \A m \in differing : n <= m
    <3> HIDE DEF differing
    <3> QED BY <2>1, SomeIsLeast
  <2> DEFINE least == Min(differing)
  <2>3. least \in differing /\ \A m \in differing : least <= m
    BY <2>2 DEF Min
  <2> HIDE DEF least
  <2>4. ASSUME least \in left PROVE DiffersFirst(left, right)
    BY <2>1, <2>3, <2>4 DEF DiffersFirst
  <2>5. ASSUME DiffersFirst(left, right) PROVE least \in left
    <3>1. PICK n \in left \ right : \A m \in left \cup right : m < n => (m \in left <=> m \in right)
      BY <2>5 DEF DiffersFirst
    <3>2. n \in differing /\ least <= n
      BY <3>1, <2>3
    <3>3. ~(least < n)
      BY <3>1, <2>3
    <3>4. least \in Nat /\ n \in Nat
      BY <2>1, <2>3, <3>2
    <3> QED BY <3>1, <3>2, <3>3, <3>4
  <2> QED BY <2>4, <2>5 DEF least
<1>2. left = right => ~DiffersFirst(left, right)
  BY DEF DiffersFirst
<1> QED BY <1>1, <1>2 DEF Precedes

LEMMA DiffersFirstIsAnOrder ==
    ASSUME NEW a \in SUBSET Nat, NEW b \in SUBSET Nat, NEW c \in SUBSET Nat
    PROVE  /\ ~DiffersFirst(a, a)
           /\ a = b \/ DiffersFirst(a, b) \/ DiffersFirst(b, a)
           /\ DiffersFirst(a, b) /\ DiffersFirst(b, c) => DiffersFirst(a, c)
<1>1. ~DiffersFirst(a, a)
  BY DEF DiffersFirst
<1>2. ASSUME a # b PROVE DiffersFirst(a, b) \/ DiffersFirst(b, a)
  <2> DEFINE differing == (a \cup b) \ (a \cap b)
  <2>1. differing \in SUBSET Nat /\ differing # {}
    BY <1>2
  <2>2. \E n \in differing : \A m \in differing : n <= m
    <3> HIDE DEF differing
    <3> QED BY <2>1, SomeIsLeast
  <2>3. PICK n \in differing : \A m \in differing : n <= m
    BY <2>2
  <2>4. \A m \in a \cup b : m < n => (m \in a <=> m \in b)
    BY <2>3
  <2>5. CASE n \in a \ b
    BY <2>4, <2>5 DEF DiffersFirst
  <2>6. CASE n \in b \ a
    BY <2>4, <2>6 DEF DiffersFirst
  <2> QED BY <2>3, <2>5, <2>6
<1>3. ASSUME DiffersFirst(a, b), DiffersFirst(b, c)
      PROVE  DiffersFirst(a, c)
  <2>1. PICK m \in a \ b : \A k \in a \cup b : k < m => (k \in a <=> k \in b)
    BY <1>3 DEF DiffersFirst
  <2>2. PICK n \in b \ c : \A k \in b \cup c : k < n => (k \in b <=> k \in c)
    BY <1>3 DEF DiffersFirst
  <2>3. m \in Nat /\ n \in Nat /\ m # n
    BY <2>1, <2>2
  <2>4. CASE m < n
    <3>1. m \in a \ c
      BY <2>1, <2>2, <2>4
    <3>2. ASSUME NEW k \in a \cup c, k < m PROVE k \in a <=> k \in c
      <4>1. k \in Nat /\ k < n
        BY <2>3, <2>4, <3>2
      <4> QED BY <4>1, <2>1, <2>2, <3>2
    <3> QED BY <3>1, <3>2 DEF DiffersFirst
  <2>5. CASE n < m
    <3>1. n \in a \ c
      BY <2>1, <2>2, <2>5
    <3>2. ASSUME NEW k \in a \cup c, k < n PROVE k \in a <=> k \in c
      <4>1. k \in Nat /\ k < m
        BY <2>3, <2>5, <3>2
      <4> QED BY <4>1, <2>1, <2>2, <3>2
    <3> QED BY <3>1, <3>2 DEF DiffersFirst
  <2> QED BY <2>3, <2>4, <2>5
<1> QED BY <1>1, <1>2, <1>3

Witnesses == {w \in SUBSET Files : IsFiniteSet(w)}

LEMMA PrecedesIsAnOrder ==
    ASSUME NEW a \in Witnesses, NEW b \in Witnesses, NEW c \in Witnesses
    PROVE  /\ ~Precedes(a, a)
           /\ a = b \/ Precedes(a, b) \/ Precedes(b, a)
           /\ Precedes(a, b) /\ Precedes(b, c) => Precedes(a, c)
<1>1. a \in SUBSET Nat /\ b \in SUBSET Nat /\ c \in SUBSET Nat
  BY WalkAssumption DEF Witnesses, Files
<1>2. Cardinality(a) \in Nat /\ Cardinality(b) \in Nat /\ Cardinality(c) \in Nat
  BY FS_CardinalityType DEF Witnesses
<1>3. \A x, y \in {a, b, c} :
          Precedes(x, y) <=> \/ Cardinality(x) < Cardinality(y)
                             \/ Cardinality(x) = Cardinality(y) /\ DiffersFirst(x, y)
  BY <1>1, PrecedesIsLexical
<1>4. /\ ~DiffersFirst(a, a)
      /\ a = b \/ DiffersFirst(a, b) \/ DiffersFirst(b, a)
      /\ DiffersFirst(a, b) /\ DiffersFirst(b, c) => DiffersFirst(a, c)
  BY <1>1, DiffersFirstIsAnOrder
<1> QED BY <1>2, <1>3, <1>4

LEMMA SomeIsMinimal ==
    ASSUME NEW some \in SUBSET Witnesses, some # {}
    PROVE  \E least \in some : \A other \in some : ~Precedes(other, least)
<1> DEFINE before == [w \in some |-> {other \in some : Precedes(other, w)}]
           counts == {Cardinality(before[w]) : w \in some}
<1>1. IsFiniteSet(some)
  <2>1. some \in SUBSET (SUBSET Files)
    BY DEF Witnesses
  <2>2. IsFiniteSet(SUBSET Files)
    BY FilesAreFinite, FS_SUBSET
  <2> QED BY <2>1, <2>2, FS_Subset
<1>2. \A w \in some : /\ IsFiniteSet(before[w]) /\ before[w] \in SUBSET some
                      /\ Cardinality(before[w]) \in Nat
  <2> TAKE w \in some
  <2>1. before[w] \in SUBSET some
    OBVIOUS
  <2> HIDE DEF before
  <2> QED BY <1>1, <2>1, FS_Subset, FS_CardinalityType
<1>3. counts \in SUBSET Nat /\ counts # {}
  BY <1>2
<1>4. PICK n \in counts : \A m \in counts : n <= m
  <2> HIDE DEF counts
  <2> QED BY <1>3, SomeIsLeast
<1>5. PICK least \in some : n = Cardinality(before[least])
  BY <1>4
<1>6. ASSUME NEW other \in some, Precedes(other, least)
      PROVE  FALSE
  <2>1. before[other] \subseteq before[least]
    BY <1>6, PrecedesIsAnOrder
  <2>2. other \in before[least] \ before[other]
    BY <1>6, PrecedesIsAnOrder
  <2>3. Cardinality(before[other]) \in counts
    OBVIOUS
  <2> HIDE DEF before, counts
  <2>4. Cardinality(before[least]) <= Cardinality(before[other])
    BY <1>4, <1>5, <2>3
  <2>5. before[other] \in SUBSET before[least]
    BY <2>1
  <2>6. /\ Cardinality(before[other]) <= Cardinality(before[least])
        /\ Cardinality(before[least]) = Cardinality(before[other]) => before[least] = before[other]
    BY <1>2, <2>5, FS_Subset
  <2>7. Cardinality(before[least]) = Cardinality(before[other])
    BY <1>2, <2>4, <2>6
  <2> QED BY <2>2, <2>6, <2>7
<1> QED BY <1>6

-----------------------------------------------------------------------------
(***************************************************************************)
(* What is exported when no re-export changes anything any more.           *)
(***************************************************************************)
LEMMA OneOriginIsExact ==
    ASSUME GraphIsWhole, SurfacesAreProven, Changes = {}, NEW file \in records, NEW name
    PROVE  /\ Cardinality(OriginsOf(surfaces[file], name)) = 1
              <=> Cardinality(StandsFor(Origins, file, name)) = 1
           /\ Cardinality(StandsFor(Origins, file, name)) = 1
              => /\ \E entry \in surfaces[file] : entry.name = name
                 /\ name \in {o[2] : o \in Origins}
<1> DEFINE found == OriginsOf(surfaces[file], name)
           true == StandsFor(Origins, file, name)
<1>1. Origins = ReachableOrigins(text, records)
  BY DEF Origins, GraphIsWhole
<1>2. found \subseteq true
  BY <1>1, ProvenIsReachable
<1>3. \A o \in Origins : \/ o[3] \in OriginsOf(surfaces[o[1]], o[2])
                         \/ HasTwo(OriginsOf(surfaces[o[1]], o[2]))
  BY <1>1, SettledSurfacesAreComplete
<1>4. \A origin \in true : /\ origin \in found \/ HasTwo(found)
                           /\ name \in {o[2] : o \in Origins}
  BY <1>3 DEF StandsFor
<1>5. IsFiniteSet(Origins)
  BY <1>1, OriginsAreClosed DEF GraphIsWhole
<1>6. IsFiniteSet(true)
  BY <1>5, StandsForIsFinite
<1>7. found # {} => \E entry \in surfaces[file] : entry.name = name
  BY DEF OriginsOf
<1> HIDE DEF found, true
<1>8. IsFiniteSet(found)
  BY <1>2, <1>6, FS_Subset
<1>9. ASSUME Cardinality(true) = 1
      PROVE  found = true /\ found # {} /\ name \in {o[2] : o \in Origins}
  <2>1. PICK origin : true = {origin}
    BY <1>6, <1>9, FS_Singleton
  <2>2. ~HasTwo(found)
    BY <1>2, <2>1 DEF HasTwo
  <2> QED BY <1>2, <1>4, <2>1, <2>2
<1>10. ASSUME Cardinality(found) = 1
       PROVE  found = true
  <2>1. PICK origin : found = {origin}
    BY <1>8, <1>10, FS_Singleton
  <2>2. ~HasTwo(found)
    BY <2>1 DEF HasTwo
  <2> QED BY <1>2, <1>4, <2>2
<1>11. Cardinality(found) = 1 <=> Cardinality(true) = 1
  BY <1>9, <1>10
<1> QED BY <1>7, <1>9, <1>11 DEF found, true

LEMMA ExportsAreExact ==
    ASSUME GraphIsWhole, SurfacesAreProven, Changes = {}
    PROVE  LET exported == PackageSurface(surfaces, Entries)
           IN  /\ NamesOf(exported) = ExportedNames
               /\ IsFiniteSet(exported) /\ IsFiniteSet(ExportedNames)
               /\ Cardinality(exported) <= Cardinality(ExportedNames)
               /\ Cardinality(exported) \in Nat /\ Cardinality(ExportedNames) \in Nat
               /\ \A fact \in exported : \E file \in Entries :
                      StandsFor(ReachableOrigins(Shown(text, fact.witness), fact.witness), file, fact.name) # {}
<1> DEFINE all == UNION {ExportedAt(surfaces[file]) : file \in Entries}
           exported == PackageSurface(surfaces, Entries)
<1>0. Entries \subseteq records /\ IsFiniteSet(records) /\ records \subseteq Files
  BY DEF GraphIsWhole
<1>1. ASSUME NEW e \in all
      PROVE  \E file \in Entries :
                 /\ e \in surfaces[file] /\ Cardinality(StandsFor(Origins, file, e.name)) = 1
                 /\ e.witness \in Witnesses /\ IsProven(text, file, e)
                 /\ e.name \in {o[2] : o \in Origins}
  <2>1. PICK file \in Entries : e \in surfaces[file] /\ Cardinality(OriginsOf(surfaces[file], e.name)) = 1
    BY DEF ExportedAt
  <2>2. file \in records
    BY <1>0
  <2>3. e.witness \subseteq records /\ IsProven(text, file, e)
    BY <2>1, <2>2 DEF SurfacesAreProven
  <2>4. e.witness \in Witnesses
    BY <1>0, <2>3, FS_Subset DEF Witnesses
  <2>5. Cardinality(StandsFor(Origins, file, e.name)) = 1 /\ e.name \in {o[2] : o \in Origins}
    BY <2>1, <2>2, OneOriginIsExact
  <2> QED BY <2>1, <2>3, <2>4, <2>5
<1>2. \A fact \in exported : \E e \in all :
          /\ fact.name = e.name /\ fact.witness = e.witness
          /\ fact = [name |-> e.name, witness |-> e.witness]
          /\ \A other \in all : other.name = e.name => ~Precedes(other.witness, e.witness)
  BY DEF PackageSurface
<1>3. \A e \in all : (\A other \in all : other.name = e.name => ~Precedes(other.witness, e.witness))
                      => [name |-> e.name, witness |-> e.witness] \in exported
  BY DEF PackageSurface
<1>4. NamesOf(exported) \subseteq ExportedNames
  <2> SUFFICES ASSUME NEW fact \in exported PROVE fact.name \in ExportedNames
    BY DEF NamesOf
  <2>1. PICK e \in all : fact.name = e.name
    BY <1>2
  <2> QED BY <2>1, <1>1 DEF ExportedNames
<1>5. ASSUME NEW name \in ExportedNames
      PROVE  name \in NamesOf(exported)
  <2>1. PICK file \in Entries : Cardinality(StandsFor(Origins, file, name)) = 1
    BY DEF ExportedNames
  <2>2. file \in records
    BY <1>0
  <2>3. PICK entry \in surfaces[file] : entry.name = name
    BY <2>1, <2>2, OneOriginIsExact
  <2>4. entry \in all
    BY <2>1, <2>2, <2>3, OneOriginIsExact DEF ExportedAt
  <2> DEFINE some == {e.witness : e \in {e \in all : e.name = name}}
  <2> HIDE DEF all, exported
  <2>5. some \subseteq Witnesses /\ some # {}
    BY <1>1, <2>3, <2>4
  <2>6. PICK least \in some : \A other \in some : ~Precedes(other, least)
    <3> HIDE DEF some
    <3> QED BY <2>5, SomeIsMinimal
  <2>7. PICK e \in all : e.name = name /\ e.witness = least
    BY <2>6
  <2>8. \A other \in all : other.name = e.name => ~Precedes(other.witness, e.witness)
    BY <2>6, <2>7
  <2>9. [name |-> e.name, witness |-> e.witness] \in exported
    BY <1>3, <2>8
  <2> QED BY <2>7, <2>9 DEF NamesOf
<1>6. IsFiniteSet(ExportedNames)
  <2>1. Origins = ReachableOrigins(text, records)
    BY DEF Origins, GraphIsWhole
  <2>2. IsFiniteSet(Origins)
    BY <2>1, OriginsAreClosed DEF GraphIsWhole
  <2> DEFINE second == [o \in Origins |-> o[2]]
  <2>3. ExportedNames \in SUBSET {second[o] : o \in Origins}
    BY DEF ExportedNames
  <2> HIDE DEF second
  <2>4. IsFiniteSet({second[o] : o \in Origins})
    BY <2>2, ImagesAreFinite
  <2> QED BY <2>3, <2>4, FS_Subset
<1>7. IsFiniteSet(exported) /\ Cardinality(exported) <= Cardinality(ExportedNames)
  <2> DEFINE nameOf == [fact \in exported |-> fact.name]
  <2>1. nameOf \in [exported -> ExportedNames]
    BY <1>4 DEF NamesOf
  <2>2. ASSUME NEW f \in exported, NEW g \in exported, f.name = g.name
        PROVE  f = g
    <3>1. PICK e \in all : /\ f = [name |-> e.name, witness |-> e.witness]
                           /\ \A other \in all : other.name = e.name => ~Precedes(other.witness, e.witness)
      BY <1>2
    <3>2. PICK h \in all : /\ g = [name |-> h.name, witness |-> h.witness]
                           /\ \A other \in all : other.name = h.name => ~Precedes(other.witness, h.witness)
      BY <1>2
    <3> HIDE DEF all, exported
    <3>3. e.name = h.name /\ ~Precedes(e.witness, h.witness) /\ ~Precedes(h.witness, e.witness)
      BY <2>2, <3>1, <3>2
    <3>4. e.witness = h.witness
      BY <1>1, <3>3, PrecedesIsAnOrder
    <3> QED BY <3>1, <3>2, <3>3, <3>4
  <2>3. nameOf \in Injection(exported, ExportedNames)
    <3> HIDE DEF exported
    <3> QED BY <2>1, <2>2 DEF Injection, IsInjective
  <2> HIDE DEF nameOf, exported
  <2> QED BY <1>6, <2>3, FS_Injection
<1>8. ASSUME NEW fact \in exported
      PROVE  \E file \in Entries :
                 StandsFor(ReachableOrigins(Shown(text, fact.witness), fact.witness), file, fact.name) # {}
  <2>1. PICK e \in all : fact.name = e.name /\ fact.witness = e.witness
    BY <1>2
  <2>2. PICK file \in Entries : IsProven(text, file, e)
    BY <1>1
  <2> DEFINE triple == <<file, e.name, e.origin>>
             known == ReachableOrigins(Shown(text, e.witness), e.witness)
  <2>3. triple \in known /\ triple[1] = file /\ triple[2] = e.name /\ triple[3] = e.origin
    BY <2>2 DEF IsProven
  <2> HIDE DEF triple, known
  <2>4. triple[3] \in StandsFor(known, file, e.name)
    BY <2>3 DEF StandsFor
  <2> QED BY <2>1, <2>4 DEF known
<1>9. Cardinality(exported) \in Nat /\ Cardinality(ExportedNames) \in Nat
  BY <1>6, <1>7, FS_CardinalityType
<1>10. NamesOf(exported) = ExportedNames
  BY <1>4, <1>5
<1> QED BY <1>6, <1>7, <1>8, <1>9, <1>10

-----------------------------------------------------------------------------
(***************************************************************************)
(* The inductive invariant of the walk.                                    *)
(***************************************************************************)
InputsAreGiven ==
    /\ IsText(text) /\ IsFiniteSet(text)
    /\ growth \in 0..1
    /\ budget \in [maxDeclarationFilesPerPackage : Nat \ {0},
                   maxDeclarationBytesPerFile : Nat \ {0},
                   maxDeclarationBytesPerPackage : Nat \ {0},
                   maxDeclarationDepth : Nat \ {0},
                   maxDeclarationReferenceEdgesPerPackage : Nat \ {0},
                   maxNormalizedFactsPerPackage : Nat \ {0},
                   maxTotalDeclarationFiles : Nat \ {0},
                   maxTotalDeclarationBytes : Nat \ {0},
                   maxTotalNormalizedFacts : Nat \ {0}]

Walking == {"take", "read", "follow"}
Current == IF step \in {"read", "follow"} THEN {item.file} ELSE {}
FilesRead == IF step = "follow" THEN records \cup {item.file} ELSE records
FilesIn(q) == {q[i].file : i \in DOMAIN q}
Met == records \cup Current \cup FilesIn(queue)

CountsAreKept ==
    /\ IsFiniteSet(FilesRead)
    /\ totals = [files |-> Earlier.files + Cardinality(FilesRead),
                 bytes |-> Earlier.bytes + bytes, facts |-> Earlier.facts]
    /\ bytes = Cardinality(FilesRead) * (Size + growth)
    /\ Cardinality(FilesRead) <= budget.maxDeclarationFilesPerPackage
    /\ bytes <= budget.maxDeclarationBytesPerPackage
    /\ totals.files <= budget.maxTotalDeclarationFiles
    /\ totals.bytes <= budget.maxTotalDeclarationBytes
    /\ IsFiniteSet(edges)
    /\ Cardinality(edges) <= budget.maxDeclarationReferenceEdgesPerPackage
    /\ step = "read" => /\ Cardinality(records) < budget.maxDeclarationFilesPerPackage
                        /\ totals.files < budget.maxTotalDeclarationFiles

EdgesAreKept ==
    /\ edges \subseteq ReferenceEdges
    /\ \A file \in records : {file} \X ReferencesOf(file) \subseteq edges

\* The files are read level by level: those within a distance are met before
\* one of them is followed, and the queue holds no more than two levels.
IsLevel(d) ==
    /\ Within(text)[d] \subseteq Met
    /\ \A i \in DOMAIN queue : d <= queue[i].depth /\ queue[i].depth <= d + 1

InOrder(q, known) ==
    /\ q \in Seq([file : Files, depth : Nat])
    /\ \A i \in DOMAIN q :
          /\ q[i].depth <= budget.maxDeclarationDepth
          /\ q[i].file \in known \cup AtDistance(q[i].depth)
          /\ \A j \in DOMAIN q : i <= j => q[i].depth <= q[j].depth

WalkIsInOrder ==
    /\ InOrder(queue, records \cup Current)
    /\ records \subseteq Closure
    /\ records \subseteq Within(text)[budget.maxDeclarationDepth]
    /\ Entries \subseteq Met
    /\ \A file \in records : Successors(text, file) \subseteq Met
    /\ step = "take" /\ queue # <<>> => IsLevel(queue[1].depth)
    /\ step \in {"read", "follow"} =>
          /\ item \in [file : Files, depth : Nat]
          /\ item.depth <= budget.maxDeclarationDepth
          /\ item.file \in AtDistance(item.depth) \ records
          /\ IsLevel(item.depth)
    /\ step = "follow" =>
          /\ toFollow \subseteq ReferencesOf(item.file)
          /\ \A r \in ReferencesOf(item.file) \ toFollow : r[1] \in Met /\ EdgeId(r) \in edges

GraphIsKept ==
    /\ edges = ReferenceEdges
    /\ AtDistance(budget.maxDeclarationDepth + 1) = {}

WalkInv ==
    /\ InputsAreGiven
    /\ step \in {"entries", "surfaces", "done"} \cup Walking
    /\ step = "entries" => records = {} /\ edges = {} /\ bytes = 0 /\ totals = Earlier
    /\ step \in Walking => CountsAreKept /\ EdgesAreKept /\ WalkIsInOrder
    /\ step = "surfaces" => CountsAreKept /\ GraphIsKept /\ GraphIsWhole /\ SurfacesAreProven
    /\ step # "done" => answer = "none"
    /\ ClosureIsReadWithinBudgets /\ LimitsAreReal /\ ExportsAreProven

-----------------------------------------------------------------------------
(***************************************************************************)
(* The inputs.                                                             *)
(***************************************************************************)
LEMMA SomeAreFinite ==
    ASSUME NEW n \in Nat, NEW set
    PROVE  \A s \in Some(n, set) : s \subseteq set /\ IsFiniteSet(s)
<1> DEFINE none == {{}}
           good == {s \in SUBSET set : IsFiniteSet(s)}
           more(known) == UNION {{s \cup {x} : x \in set} : s \in known}
           grow == [known \in SUBSET good |-> more(known)]
           body(u) == [k \in 0..n |-> IF k = 0 THEN none ELSE u[k - 1] \cup more(u[k - 1])]
           upTo == CHOOSE u : u = body(u)
<1>1. \A known \in SUBSET good : more(known) \subseteq good
  <2> TAKE known \in SUBSET good
  <2>1. \A y \in more(known) : \E s \in known, x \in set : y = s \cup {x}
    OBVIOUS
  <2>2. \A s \in known, x \in set : s \cup {x} \in good
    BY FS_AddElement
  <2> HIDE DEF more
  <2> QED BY <2>1, <2>2
<1>2. none \subseteq good
  BY FS_EmptySet
<1>3. Some(n, set) = upTo[n]
  BY DEF Some
<1>4. \A known \in SUBSET good : grow[known] = more(known)
  OBVIOUS
<1> HIDE DEF none, good, more, grow
<1>5. PICK first : FirstRounds(first, none, grow, n)
  BY FirstRoundsExist
<1>6. \A u : (\A k \in 0..n : u[k] = IF k = 0 THEN none ELSE u[k - 1] \cup grow[u[k - 1]])
             => \A k \in 0..n : u[k] \in SUBSET good
  <2> SUFFICES ASSUME NEW u,
                      \A k \in 0..n : u[k] = IF k = 0 THEN none ELSE u[k - 1] \cup grow[u[k - 1]]
               PROVE  \A k \in 0..n : u[k] \in SUBSET good
    OBVIOUS
  <2> DEFINE S == {k \in Nat : k <= n => u[k] \in SUBSET good}
  <2>a. 0 \in 0..n
    OBVIOUS
  <2>0. u[0] = none
    BY <2>a
  <2>1. 0 \in S
    BY <1>2, <2>0
  <2>2. ASSUME NEW k \in Nat, k \in S PROVE k + 1 \in S
    <3> SUFFICES ASSUME k + 1 <= n PROVE u[k + 1] \in SUBSET good
      OBVIOUS
    <3>1. k + 1 \in 0..n /\ k + 1 # 0 /\ (k + 1) - 1 = k /\ k <= n
      OBVIOUS
    <3>2. u[k + 1] = u[k] \cup grow[u[k]]
      BY <3>1
    <3>3. u[k] \in SUBSET good
      BY <2>2, <3>1
    <3> QED BY <3>2, <3>3, <1>1, <1>4
  <2> HIDE DEF S
  <2>3. \A k \in Nat : k \in S
    BY <2>1, <2>2, AllNumbers
  <2> QED BY <2>3 DEF S
<1>7. \A u : (\A k \in 0..n : u[k] = IF k = 0 THEN none ELSE u[k - 1] \cup more(u[k - 1]))
             => \A k \in 0..n : u[k] \in SUBSET good
  <2> SUFFICES ASSUME NEW u,
                      \A k \in 0..n : u[k] = IF k = 0 THEN none ELSE u[k - 1] \cup more(u[k - 1])
               PROVE  \A k \in 0..n : u[k] \in SUBSET good
    OBVIOUS
  <2> DEFINE S == {k \in Nat : k <= n => u[k] \in SUBSET good}
  <2>a. 0 \in 0..n
    OBVIOUS
  <2>0. u[0] = none
    BY <2>a
  <2>1. 0 \in S
    BY <1>2, <2>0
  <2>2. ASSUME NEW k \in Nat, k \in S PROVE k + 1 \in S
    <3> SUFFICES ASSUME k + 1 <= n PROVE u[k + 1] \in SUBSET good
      OBVIOUS
    <3>1. k + 1 \in 0..n /\ k + 1 # 0 /\ (k + 1) - 1 = k /\ k <= n
      OBVIOUS
    <3>2. u[k + 1] = u[k] \cup more(u[k])
      BY <3>1
    <3>3. u[k] \in SUBSET good
      BY <2>2, <3>1
    <3> QED BY <3>2, <3>3, <1>1
  <2> HIDE DEF S
  <2>3. \A k \in Nat : k \in S
    BY <2>1, <2>2, AllNumbers
  <2> QED BY <2>3 DEF S
<1>8. first = body(first)
  <2>1. first = [k \in 0..n |-> IF k = 0 THEN none ELSE first[k - 1] \cup grow[first[k - 1]]]
    BY <1>5 DEF FirstRounds
  <2>2. \A k \in 0..n : first[k] = IF k = 0 THEN none ELSE first[k - 1] \cup grow[first[k - 1]]
    BY <2>1
  <2>3. \A k \in 0..n : first[k] \in SUBSET good
    BY <2>2, <1>6
  <2>4. \A k \in 0..n : (IF k = 0 THEN none ELSE first[k - 1] \cup grow[first[k - 1]])
                         = (IF k = 0 THEN none ELSE first[k - 1] \cup more(first[k - 1]))
    <3> TAKE k \in 0..n
    <3>1. CASE k = 0
      BY <3>1
    <3>2. CASE k # 0
      <4>1. first[k - 1] \in SUBSET good
        BY <3>2, <2>3
      <4> QED BY <4>1, <3>2, <1>4
    <3> QED BY <3>1, <3>2
  <2>5. body(first) = [k \in 0..n |-> IF k = 0 THEN none ELSE first[k - 1] \cup grow[first[k - 1]]]
    BY <2>4, Zenon
  <2> QED BY <2>1, <2>5
<1>9. upTo = body(upTo)
  BY <1>8
<1> HIDE DEF upTo
<1>10. \A k \in 0..n : upTo[k] = IF k = 0 THEN none ELSE upTo[k - 1] \cup more(upTo[k - 1])
  BY <1>9
<1>11. upTo[n] \in SUBSET good
  <2>1. n \in 0..n
    OBVIOUS
  <2> QED BY <2>1, <1>7, <1>10
<1> QED BY <1>3, <1>11 DEF good

LEMMA InitialInputs ==
    ASSUME Init
    PROVE  InputsAreGiven
<1>1. IsText(References) /\ IsText(Locals) /\ IsFiniteSet(Locals)
  <2>1. IsText(References)
    BY DEF IsText, References, ReferencesTo
  <2>2. IsText(Locals)
    <3>1. \A s \in Locals : \E file \in Files : s = Statement(file, "local", file, "", "x")
      BY DEF Locals, LocalsOf
    <3>2. \A file \in Files : LET s == Statement(file, "local", file, "", "x")
                             IN  s.file = file /\ s.to = file
      BY DEF Statement
    <3> QED BY <3>1, <3>2 DEF IsText
  <2>3. IsFiniteSet(Locals)
    <3> DEFINE at == [file \in Files |-> Statement(file, "local", file, "", "x")]
    <3>1. Locals = {at[file] : file \in Files}
      BY DEF Locals, LocalsOf
    <3> HIDE DEF at
    <3> QED BY <3>1, FilesAreFinite, ImagesAreFinite
  <2> QED BY <2>1, <2>2, <2>3
<1>2. \E n \in Nat : \E refs, locals :
          /\ refs \in Some(n, References) \cup Some(n, {r \in References : r.kind \in {"star", "path"}})
          /\ locals \subseteq Locals /\ text = refs \cup locals
  BY WalkAssumption DEF Init
<1>3. PICK n, refs, locals :
          /\ n \in Nat
          /\ refs \in Some(n, References) \cup Some(n, {r \in References : r.kind \in {"star", "path"}})
          /\ locals \subseteq Locals /\ text = refs \cup locals
  BY <1>2
<1>4. refs \subseteq References /\ IsFiniteSet(refs)
  BY <1>3, SomeAreFinite
<1>5. IsFiniteSet(locals)
  BY <1>1, <1>3, FS_Subset
<1>6. IsFiniteSet(text)
  BY <1>3, <1>4, <1>5, FS_Union
<1>7. IsText(text)
  BY <1>1, <1>3, <1>4 DEF IsText
<1>8. growth \in 0..1
  BY DEF Init
<1> DEFINE Budgets == [maxDeclarationFilesPerPackage : Nat \ {0},
                       maxDeclarationBytesPerFile : Nat \ {0},
                       maxDeclarationBytesPerPackage : Nat \ {0},
                       maxDeclarationDepth : Nat \ {0},
                       maxDeclarationReferenceEdgesPerPackage : Nat \ {0},
                       maxNormalizedFactsPerPackage : Nat \ {0},
                       maxTotalDeclarationFiles : Nat \ {0},
                       maxTotalDeclarationBytes : Nat \ {0},
                       maxTotalNormalizedFacts : Nat \ {0}]
<1>9. budget \in Budgets
  <2>1. Generous \in Budgets
    BY DEF Generous
  <2>2. \A limit \in DOMAIN Generous, n_1 \in 1..3 : [Generous EXCEPT ![limit] = n_1] \in Budgets
    BY DEF Generous
  <2>3. budget = Generous \/ \E limit \in DOMAIN Generous, n_1 \in 1..3 : budget = [Generous EXCEPT ![limit] = n_1]
    BY DEF Init
  <2> HIDE DEF Budgets
  <2> QED BY <2>1, <2>2, <2>3
<1> QED BY <1>6, <1>7, <1>8, <1>9 DEF InputsAreGiven

LEMMA InitIsWalkInv ==
    ASSUME Init
    PROVE  WalkInv
<1>1. InputsAreGiven
  BY InitialInputs
<1>2. step = "entries" /\ records = {} /\ edges = {} /\ bytes = 0 /\ totals = Earlier /\ answer = "none"
  BY DEF Init
<1> QED BY <1>1, <1>2 DEF WalkInv, Walking, ClosureIsReadWithinBudgets, LimitsAreReal, ExportsAreProven

-----------------------------------------------------------------------------
(***************************************************************************)
(* What the steps rely on.                                                 *)
(***************************************************************************)
LEMMA Distances ==
    ASSUME InputsAreGiven
    PROVE  /\ Closure \subseteq Files /\ Entries \subseteq Closure
           /\ IsFiniteSet(Closure) /\ Cardinality(Closure) \in Nat
           /\ \A file \in Closure : Successors(text, file) \subseteq Closure
           /\ \A n \in Nat :
                  /\ AtDistance(n) \subseteq Within(text)[n]
                  /\ Within(text)[n] \subseteq Closure
                  /\ AtDistance(n + 1) = Within(text)[n + 1] \ Within(text)[n]
           /\ AtDistance(0) = Entries
<1>1. IsText(text) /\ Closure = ClosureOf(text)
  BY DEF InputsAreGiven, Closure, ClosureOf
<1>2. Within(text)[0] = Entries
  BY <1>1, WithinSteps
<1>3. \A n \in Nat : n + 1 # 0 /\ (n + 1) - 1 = n
  OBVIOUS
<1>4. \A n \in Nat : AtDistance(n) \subseteq Within(text)[n]
  BY <1>2 DEF AtDistance
<1>5. \A n \in Nat : AtDistance(n + 1) = Within(text)[n + 1] \ Within(text)[n]
  BY <1>3 DEF AtDistance
<1>6. AtDistance(0) = Entries
  BY DEF AtDistance
<1> QED BY <1>1, <1>4, <1>5, <1>6, ClosureIsClosed

\* Whatever has the entries and is closed has the closure.
LEMMA ClosureIsLeast ==
    ASSUME IsText(text), NEW files, Entries \subseteq files,
           \A file \in files : Successors(text, file) \subseteq files
    PROVE  Closure \subseteq files
<1> DEFINE S == {n \in Nat : Within(text)[n] \subseteq files}
<1>1. 0 \in S
  BY WithinSteps
<1>2. ASSUME NEW n \in Nat, n \in S PROVE n + 1 \in S
  <2>1. \A to \in Within(text)[n + 1] : \/ to \in Within(text)[n]
                                        \/ \E file \in Within(text)[n] : to \in Successors(text, file)
    BY WithinSteps
  <2> QED BY <1>2, <2>1
<1> HIDE DEF S
<1>3. \A n \in Nat : n \in S
  BY <1>1, <1>2, AllNumbers
<1>4. FileCount \in S
  BY <1>3, WalkAssumption
<1> QED BY <1>4 DEF S, Closure

LEMMA ReferencesLead ==
    ASSUME NEW file
    PROVE  /\ \A r \in ReferencesOf(file) : r[1] \in Successors(text, file)
           /\ \A to \in Successors(text, file) : \E r \in ReferencesOf(file) : r[1] = to
<1> DEFINE some == ReexportsOf(text, file) \cup PathReferencesOf(text, file)
           end(s) == <<s.to, IF s.kind = "path" THEN "path-reference" ELSE "reexport">>
<1>1. ReferencesOf(file) = {end(s) : s \in some} /\ Successors(text, file) = {s.to : s \in some}
  BY DEF ReferencesOf, Successors
<1>2. \A s : end(s)[1] = s.to
  OBVIOUS
<1> HIDE DEF end, some
<1> QED BY <1>1, <1>2

LEMMA ReferenceEdgesAreFinite ==
    ASSUME InputsAreGiven
    PROVE  IsFiniteSet(ReferenceEdges)
<1> DEFINE ends == Files \X {"path-reference", "reexport"}
<1>1. IsText(text) /\ IsFiniteSet(Closure) /\ IsFiniteSet(Files)
  BY Distances, FilesAreFinite DEF InputsAreGiven
<1>2. \A file : ReferencesOf(file) \subseteq ends
  BY <1>1 DEF ReferencesOf, IsText, ReexportsOf, PathReferencesOf, StatementsOf
<1>3. IsFiniteSet({"path-reference", "reexport"})
  <2>1. {"path-reference", "reexport"} = {"path-reference"} \cup {"reexport"}
    OBVIOUS
  <2>2. IsFiniteSet({"path-reference"}) /\ IsFiniteSet({"reexport"})
    BY FS_Singleton
  <2> QED BY <2>1, <2>2, FS_Union
<1>4. IsFiniteSet(ends)
  BY <1>1, <1>3, FS_Product
<1>5. ReferenceEdges \in SUBSET (Closure \X ends)
  <2> HIDE DEF ends
  <2> QED BY <1>2 DEF ReferenceEdges
<1> HIDE DEF ends
<1>6. IsFiniteSet(Closure \X ends)
  BY <1>1, <1>4, FS_Product
<1> QED BY <1>5, <1>6, FS_Subset

\* The reference is a matter of the inputs.
LEMMA SameReference ==
    ASSUME UNCHANGED inputs
    PROVE  /\ Closure' = Closure /\ ReferenceEdges' = ReferenceEdges
           /\ Origins' = Origins /\ ExportedNames' = ExportedNames /\ FactCount' = FactCount
           /\ InputsAreGiven' = InputsAreGiven
           /\ \A n \in Nat : AtDistance(n)' = AtDistance(n)
           /\ \A file : ReferencesOf(file)' = ReferencesOf(file)
<1>1. text' = text /\ budget' = budget /\ growth' = growth
  BY DEF inputs
<1>2. Closure' = Closure
  BY <1>1 DEF Closure
<1>3. \A file : ReferencesOf(file)' = ReferencesOf(file)
  BY <1>1 DEF ReferencesOf
<1>4. ReferenceEdges' = ReferenceEdges
  BY <1>2, <1>3 DEF ReferenceEdges
<1>5. Origins' = Origins
  BY <1>1, <1>2 DEF Origins
<1>6. ExportedNames' = ExportedNames
  BY <1>5 DEF ExportedNames
<1>7. FactCount' = FactCount
  BY <1>6 DEF FactCount
<1>8. \A n \in Nat : AtDistance(n)' = AtDistance(n)
  BY <1>1 DEF AtDistance
<1>9. InputsAreGiven' = InputsAreGiven
  BY <1>1 DEF InputsAreGiven
<1> QED BY <1>2, <1>3, <1>4, <1>5, <1>6, <1>7, <1>8, <1>9

\* When the first file of a queue is of the next level, that level is met.
LEMMA NextLevel ==
    ASSUME InputsAreGiven, NEW q \in Seq([file : Files, depth : Nat]), q # <<>>, NEW read, NEW d \in Nat,
           Within(text)[d] \subseteq read \cup FilesIn(q),
           \A i \in DOMAIN q : /\ d <= q[i].depth /\ q[i].depth <= d + 1
                               /\ q[i].file \in read \cup AtDistance(q[i].depth)
                               /\ \A j \in DOMAIN q : i <= j => q[i].depth <= q[j].depth,
           \A file \in read : Successors(text, file) \subseteq read \cup FilesIn(q)
    PROVE  /\ Within(text)[q[1].depth] \subseteq read \cup FilesIn(q)
           /\ \A i \in DOMAIN q : q[1].depth <= q[i].depth /\ q[i].depth <= q[1].depth + 1
<1>1. 1 \in DOMAIN q /\ \A i \in DOMAIN q : 1 <= i /\ q[i].depth \in Nat
  <2>1. DOMAIN q = 1..Len(q) /\ Len(q) \in Nat /\ Len(q) # 0
    BY EmptySeq
  <2>2. \A i \in 1..Len(q) : q[i] \in [file : Files, depth : Nat]
    BY ElementOfSeq
  <2> QED BY <2>1, <2>2
<1>2. q[1].depth = d \/ q[1].depth = d + 1
  BY <1>1
<1>3. \A i \in DOMAIN q : q[1].depth <= q[i].depth /\ q[i].depth <= q[1].depth + 1
  BY <1>1, <1>2
<1>4. CASE q[1].depth = d
  BY <1>3, <1>4
<1>5. CASE q[1].depth = d + 1
  <2>1. \A i \in DOMAIN q : q[i].depth = d + 1
    BY <1>1, <1>5
  <2>2. Within(text)[d] \subseteq read
    <3> SUFFICES ASSUME NEW file \in Within(text)[d], NEW i \in DOMAIN q, q[i].file = file,
                        file \notin read
                 PROVE  FALSE
      BY DEF FilesIn
    <3>1. file \in AtDistance(d + 1)
      BY <2>1
    <3> QED BY <3>1, Distances
  <2>3. IsText(text)
    BY DEF InputsAreGiven
  <2>4. \A to \in Within(text)[d + 1] : \/ to \in Within(text)[d]
                                        \/ \E file \in Within(text)[d] : to \in Successors(text, file)
    BY <2>3, WithinSteps
  <2>5. Within(text)[d + 1] \subseteq read \cup FilesIn(q)
    BY <2>2, <2>4
  <2> QED BY <1>3, <1>5, <2>5
<1> QED BY <1>2, <1>4, <1>5

LEMMA TailOfQueue ==
    ASSUME NEW S, NEW q \in Seq(S), q # <<>>
    PROVE  /\ Tail(q) \in Seq(S) /\ Head(q) = q[1] /\ 1 \in DOMAIN q /\ q[1] \in S
           /\ \A i \in DOMAIN Tail(q) : i + 1 \in DOMAIN q /\ Tail(q)[i] = q[i + 1] /\ i \in Nat
           /\ \A i \in DOMAIN q : i # 1 => i - 1 \in DOMAIN Tail(q) /\ Tail(q)[i - 1] = q[i]
           /\ Tail(q) # <<>> => 2 \in DOMAIN q /\ Tail(q)[1] = q[2]
           /\ FilesIn(q) = {q[1].file} \cup FilesIn(Tail(q))
<1>1. Tail(q) \in Seq(S) /\ Len(Tail(q)) = Len(q) - 1 /\ \A i \in 1..Len(Tail(q)) : Tail(q)[i] = q[i + 1]
  BY HeadTailProperties
<1>2. Head(q) = q[1] /\ Len(q) \in Nat /\ Len(q) # 0 /\ DOMAIN q = 1..Len(q) /\ DOMAIN Tail(q) = 1..(Len(q) - 1)
  BY <1>1
<1>3. \A i \in DOMAIN Tail(q) : i + 1 \in DOMAIN q /\ Tail(q)[i] = q[i + 1] /\ i \in Nat
  BY <1>1, <1>2
<1>4. \A i \in DOMAIN q : i # 1 => i - 1 \in DOMAIN Tail(q) /\ Tail(q)[i - 1] = q[i]
  <2> TAKE i \in DOMAIN q
  <2> HAVE i # 1
  <2>1. i - 1 \in DOMAIN Tail(q) /\ (i - 1) + 1 = i
    BY <1>2
  <2> QED BY <2>1, <1>3
<1>5. Tail(q) # <<>> => 2 \in DOMAIN q /\ Tail(q)[1] = q[2]
  <2> HAVE Tail(q) # <<>>
  <2>1. 1 \in DOMAIN Tail(q) /\ 1 + 1 = 2
    BY <1>1
  <2> QED BY <2>1, <1>3
<1>6. 1 \in DOMAIN q /\ q[1] \in S
  BY <1>2
<1>7. FilesIn(q) = {q[1].file} \cup FilesIn(Tail(q))
  <2>1. FilesIn(q) \subseteq {q[1].file} \cup FilesIn(Tail(q))
    BY <1>4 DEF FilesIn
  <2>2. {q[1].file} \cup FilesIn(Tail(q)) \subseteq FilesIn(q)
    BY <1>3, <1>6 DEF FilesIn
  <2> QED BY <2>1, <2>2
<1> QED BY <1>1, <1>2, <1>3, <1>4, <1>5, <1>6, <1>7

\* The part of LimitsAreReal about one code.
LimitIsReal(code) ==
    LET files == Cardinality(Closure)
        origins == Origins
        names(file) == Cardinality({o[2] : o \in {k \in origins : k[1] = file}})
    IN  /\ code = "maxDeclarationFilesPerPackage" => files > budget.maxDeclarationFilesPerPackage
        /\ code = "maxTotalDeclarationFiles" =>
               Earlier.files + files > budget.maxTotalDeclarationFiles
        /\ code = "maxDeclarationBytesPerFile" => Size + growth > budget.maxDeclarationBytesPerFile
        /\ code = "maxDeclarationBytesPerPackage" =>
               (Size + growth) * files > budget.maxDeclarationBytesPerPackage
        /\ code = "maxTotalDeclarationBytes" =>
               Earlier.bytes + (Size + growth) * files > budget.maxTotalDeclarationBytes
        /\ code = "maxDeclarationReferenceEdgesPerPackage" =>
               Cardinality(ReferenceEdges) > budget.maxDeclarationReferenceEdgesPerPackage
        /\ code = "maxDeclarationDepth" =>
               \E file \in AtDistance(budget.maxDeclarationDepth), to \in Files :
                   /\ to \in Successors(text, file)
                   /\ to = file \/ to \in AtDistance(budget.maxDeclarationDepth + 1)
        /\ code = "maxNormalizedFactsPerPackage" =>
               \/ FactCount > budget.maxNormalizedFactsPerPackage
               \/ \E file \in Closure : names(file) > budget.maxNormalizedFactsPerPackage
               \/ \E file \in Closure :
                      Cardinality(ExportsOf(text, file)) > budget.maxNormalizedFactsPerPackage
        /\ code = "maxTotalNormalizedFacts" =>
               Earlier.facts + FactCount > budget.maxTotalNormalizedFacts

\* A refusal with a limit that is real ends the walk as it should.
LEMMA RefusalKeepsInv ==
    ASSUME WalkInv, NEW code, code \notin {"none", "ok"}, LimitIsReal(code),
           UNCHANGED inputs, answer' = code, step' = "done"
    PROVE  WalkInv'
<1>1. InputsAreGiven'
  BY SameReference DEF WalkInv
<1>2. LimitsAreReal' <=> LimitIsReal(code)'
  BY DEF LimitsAreReal, LimitIsReal
<1>3. LimitIsReal(code)' <=> LimitIsReal(code)
  <2>1. text' = text /\ budget' = budget /\ growth' = growth
    BY DEF inputs
  <2> QED BY <2>1, SameReference DEF LimitIsReal, AtDistance
<1>4. LimitsAreReal'
  BY <1>2, <1>3
<1>5. ClosureIsReadWithinBudgets' /\ ExportsAreProven'
  BY DEF ClosureIsReadWithinBudgets, ExportsAreProven
<1> QED BY <1>1, <1>4, <1>5 DEF WalkInv, Walking

-----------------------------------------------------------------------------
(***************************************************************************)
(* The steps of the walk.                                                  *)
(***************************************************************************)
\* What a step does that neither ends the walk nor finishes it.
LEMMA WalkGoesOn ==
    ASSUME WalkInv, UNCHANGED <<inputs, answer>>, answer = "none", step' \in Walking,
           CountsAreKept', EdgesAreKept', WalkIsInOrder'
    PROVE  WalkInv'
<1>1. InputsAreGiven'
  BY SameReference DEF WalkInv
<1>2. ClosureIsReadWithinBudgets' /\ LimitsAreReal' /\ ExportsAreProven'
  BY DEF ClosureIsReadWithinBudgets, LimitsAreReal, ExportsAreProven
<1> QED BY <1>1, <1>2 DEF WalkInv, Walking

LEMMA OtherErrorsAreReal ==
    ASSUME NEW code \in {"CONTRACT_DECLARATION_INVALID", "CONTRACT_EVIDENCE_READ_FAILED"}
    PROVE  LimitIsReal(code) /\ code \notin {"none", "ok"}
BY DEF LimitIsReal

LEMMA FailureKeepsInv ==
    ASSUME WalkInv, NEW code, code \notin {"none", "ok"}, LimitIsReal(code), Fails(code)
    PROVE  WalkInv'
BY RefusalKeepsInv DEF Fails

LEMMA ResolveEntriesKeepsInv ==
    ASSUME WalkInv, ResolveEntries
    PROVE  WalkInv'
<1>1. CASE \E file \in Entries : ~Resolves(file) /\ Fails(ResolutionFailure(file))
  <2>1. PICK file \in Entries : Fails(ResolutionFailure(file))
    BY <1>1
  <2>2. ResolutionFailure(file) \in {"CONTRACT_DECLARATION_INVALID", "CONTRACT_EVIDENCE_READ_FAILED"}
    BY DEF ResolutionFailure
  <2> QED BY <2>1, <2>2, OtherErrorsAreReal, FailureKeepsInv
<1>2. CASE ~(\E file \in Entries : ~Resolves(file) /\ Fails(ResolutionFailure(file)))
  <2>1. /\ step = "entries" /\ step' = "take"
        /\ queue' = [i \in 1..Cardinality(Entries) |-> [file |-> SetToSeq(Entries)[i], depth |-> 0]]
        /\ UNCHANGED <<inputs, item, toFollow, records, edges, bytes, totals, surfaces, facts, answer>>
    BY <1>2 DEF ResolveEntries
  <2>2. Entries = {1} /\ Cardinality(Entries) = 1 /\ 1 \in Files
    BY FilesAreFinite
  <2>3. SetToSeq(Entries)[1] = 1
    <3> DEFINE one == [i \in 1..1 |-> 1]
    <3>1. one \in [1..1 -> {1}] /\ IsInjective(one)
      BY DEF IsInjective
    <3>2. SetToSeq(Entries) = CHOOSE f \in [1..1 -> {1}] : IsInjective(f)
      BY <2>2 DEF SetToSeq
    <3> HIDE DEF one
    <3>3. SetToSeq(Entries) \in [1..1 -> {1}]
      BY <3>1, <3>2
    <3> QED BY <3>3
  <2>4. queue' = [i \in 1..1 |-> [file |-> 1, depth |-> 0]]
    <3>1. queue' = [i \in 1..1 |-> [file |-> SetToSeq(Entries)[i], depth |-> 0]]
      BY <2>1, <2>2
    <3>2. \A i \in 1..1 : SetToSeq(Entries)[i] = 1
      BY <2>3
    <3> QED BY <3>1, <3>2
  <2>5. /\ queue' \in Seq([file : Files, depth : Nat]) /\ DOMAIN queue' = 1..1
        /\ queue'[1].file = 1 /\ queue'[1].depth = 0
    BY <2>2, <2>4
  <2>6. records' = {} /\ edges' = {} /\ bytes' = 0 /\ totals' = Earlier /\ answer = "none"
    BY <2>1 DEF WalkInv
  <2>7. InputsAreGiven
    BY DEF WalkInv
  <2>8. CountsAreKept'
    <3>1. FilesRead' = {}
      BY <2>1, <2>6 DEF FilesRead
    <3>2. IsFiniteSet({}) /\ Cardinality({}) = 0
      BY FS_EmptySet
    <3>3. Earlier = [files |-> 1, bytes |-> 1, facts |-> 1]
      BY DEF Earlier
    <3>4. budget' = budget /\ growth' = growth
      BY <2>1 DEF inputs
    <3>5. 0 * (Size + growth) = 0
      BY <2>7 DEF InputsAreGiven, Size
    <3> QED BY <2>1, <2>6, <2>7, <3>1, <3>2, <3>3, <3>4, <3>5 DEF CountsAreKept, InputsAreGiven
  <2>9. EdgesAreKept'
    BY <2>6 DEF EdgesAreKept
  <2>10. WalkIsInOrder'
    <3>1. Met' = {1} /\ Current' = {}
      BY <2>1, <2>5, <2>6 DEF Met, Current, FilesIn
    <3>2. text' = text /\ budget' = budget
      BY <2>1 DEF inputs
    <3>3. IsText(text) /\ Within(text)[0] = Entries
      BY <2>7, WithinSteps DEF InputsAreGiven
    <3>4. IsLevel(0)'
      BY <2>2, <2>5, <3>1, <3>2, <3>3 DEF IsLevel
    <3>5. 1 \in AtDistance(0)'
      BY <2>2 DEF AtDistance
    <3>6. IsLevel(queue[1].depth)'
      BY <2>5, <3>4
    <3>7. \A i \in DOMAIN queue' : /\ i = 1 /\ queue'[i].depth = 0 /\ queue'[i].file = 1
      BY <2>5
    <3>8. budget.maxDeclarationDepth \in Nat
      BY <2>7 DEF InputsAreGiven
    <3> QED BY <2>1, <2>2, <2>5, <2>6, <3>1, <3>2, <3>5, <3>6, <3>7, <3>8 DEF WalkIsInOrder, InOrder
  <2> QED BY <2>1, <2>6, <2>8, <2>9, <2>10, WalkGoesOn DEF Walking
<1> QED BY <1>1, <1>2

LEMMA SameOrder ==
    ASSUME UNCHANGED inputs
    PROVE  \A q, known : InOrder(q, known)' <=> InOrder(q, known)
<1>1. text' = text /\ budget' = budget
  BY DEF inputs
<1> QED BY <1>1 DEF InOrder, AtDistance

LEMMA TailInOrder ==
    ASSUME NEW q, NEW known, InOrder(q, known), q # <<>>, InputsAreGiven
    PROVE  InOrder(Tail(q), known)
<1>1. q \in Seq([file : Files, depth : Nat])
  BY DEF InOrder
<1>2. /\ Tail(q) \in Seq([file : Files, depth : Nat])
      /\ \A i \in DOMAIN Tail(q) : i + 1 \in DOMAIN q /\ Tail(q)[i] = q[i + 1] /\ i \in Nat
  BY <1>1, TailOfQueue
<1>3. \A i, j \in DOMAIN Tail(q) : i <= j => i + 1 <= j + 1
  BY <1>2
<1> QED BY <1>2, <1>3 DEF InOrder

LEMMA SkipRecordedKeepsInv ==
    ASSUME WalkInv, SkipRecorded
    PROVE  WalkInv'
<1>1. /\ step = "take" /\ queue # <<>> /\ Head(queue).file \in records /\ queue' = Tail(queue)
      /\ step' = "take"
      /\ UNCHANGED <<inputs, item, toFollow, records, edges, bytes, totals, surfaces, facts, answer>>
  BY DEF SkipRecorded
<1>2. InputsAreGiven /\ CountsAreKept /\ EdgesAreKept /\ WalkIsInOrder /\ answer = "none"
  BY <1>1 DEF WalkInv, Walking
<1>3. text' = text /\ budget' = budget /\ growth' = growth
  BY <1>1 DEF inputs
<1>4. CountsAreKept'
  BY <1>1, <1>2, <1>3 DEF CountsAreKept, FilesRead
<1>5. EdgesAreKept'
  BY <1>1, <1>2, <1>3, SameReference DEF EdgesAreKept
<1>6. WalkIsInOrder'
  <2>1. Current = {} /\ Current' = {}
    BY <1>1 DEF Current
  <2>2. InOrder(queue, records)
    <3>1. records \cup Current = records
      BY <2>1
    <3> QED BY <1>2, <3>1 DEF WalkIsInOrder
  <2>3. queue \in Seq([file : Files, depth : Nat])
    BY <2>2 DEF InOrder
  <2>4. FilesIn(queue) = {queue[1].file} \cup FilesIn(Tail(queue)) /\ Head(queue) = queue[1]
        /\ Tail(queue) \in Seq([file : Files, depth : Nat])
    BY <1>1, <2>3, TailOfQueue
  <2>5. Met = records \cup FilesIn(Tail(queue)) /\ Met' = Met
    BY <1>1, <2>1, <2>4 DEF Met
  <2>6. InOrder(Tail(queue), records)
    BY <1>1, <1>2, <2>2, TailInOrder
  <2>7. InOrder(queue, records)'
    BY <1>1, <2>6, SameOrder
  <2>8. InOrder(queue, records \cup Current)'
    <3>1. (records \cup Current)' = records'
      BY <2>1
    <3> QED BY <2>7, <3>1
  <2>9. queue' # <<>> => IsLevel(queue[1].depth)'
    <3> HAVE queue' # <<>>
    <3> DEFINE q == Tail(queue)
               d == queue[1].depth
    <3>1. IsLevel(d)
      BY <1>1, <1>2 DEF WalkIsInOrder
    <3>0. /\ queue[1] \in [file : Files, depth : Nat]
          /\ \A i \in DOMAIN q : i + 1 \in DOMAIN queue /\ q[i] = queue[i + 1]
      BY <1>1, <2>3, TailOfQueue
    <3>2. d \in Nat /\ \A i \in DOMAIN q : i + 1 \in DOMAIN queue /\ q[i] = queue[i + 1]
      BY <3>0
    <3>3. Within(text)[d] \subseteq records \cup FilesIn(q)
      BY <2>5, <3>1 DEF IsLevel
    <3>4. \A i \in DOMAIN q : d <= q[i].depth /\ q[i].depth <= d + 1
      BY <3>1, <3>2 DEF IsLevel
    <3>5. \A file \in records : Successors(text, file) \subseteq records \cup FilesIn(q)
      BY <1>2, <2>5 DEF WalkIsInOrder
    <3>6. q # <<>> /\ queue' = q
      BY <1>1
    <3>7. q \in Seq([file : Files, depth : Nat])
          /\ \A i \in DOMAIN q : /\ q[i].file \in records \cup AtDistance(q[i].depth)
                                 /\ \A j \in DOMAIN q : i <= j => q[i].depth <= q[j].depth
      BY <2>6 DEF InOrder
    <3> HIDE DEF q, d
    <3>8. /\ Within(text)[q[1].depth] \subseteq records \cup FilesIn(q)
          /\ \A i \in DOMAIN q : q[1].depth <= q[i].depth /\ q[i].depth <= q[1].depth + 1
      BY <1>2, <3>2, <3>3, <3>4, <3>5, <3>6, <3>7, NextLevel
    <3>9. Met' = records \cup FilesIn(q)
      BY <2>5 DEF q
    <3> QED BY <1>3, <3>6, <3>8, <3>9 DEF IsLevel
  <2> QED BY <1>1, <1>2, <1>3, <2>5, <2>8, <2>9, SameReference DEF WalkIsInOrder
<1> QED BY <1>1, <1>2, <1>4, <1>5, <1>6, WalkGoesOn DEF Walking

LEMMA TakeNextKeepsInv ==
    ASSUME WalkInv, TakeNext
    PROVE  WalkInv'
<1>1. step = "take" /\ queue # <<>> /\ Head(queue).file \notin records
  BY DEF TakeNext
<1>2. InputsAreGiven /\ CountsAreKept /\ EdgesAreKept /\ WalkIsInOrder /\ answer = "none"
  BY <1>1 DEF WalkInv, Walking
<1> DEFINE head == Head(queue)
           n == Cardinality(records)
           files == Cardinality(Closure)
<1>3. Current = {} /\ FilesRead = records /\ records \cup Current = records
  BY <1>1 DEF Current, FilesRead
<1>4. InOrder(queue, records)
  BY <1>2, <1>3 DEF WalkIsInOrder
<1>5. queue \in Seq([file : Files, depth : Nat])
  BY <1>4 DEF InOrder
<1>6. /\ head = queue[1] /\ 1 \in DOMAIN queue /\ head \in [file : Files, depth : Nat]
      /\ Tail(queue) \in Seq([file : Files, depth : Nat])
      /\ FilesIn(queue) = {head.file} \cup FilesIn(Tail(queue))
  <2>1. head = queue[1] /\ 1 \in DOMAIN queue /\ queue[1] \in [file : Files, depth : Nat]
    BY <1>1, <1>5, TailOfQueue
  <2>2. Tail(queue) \in Seq([file : Files, depth : Nat])
    BY <1>1, <1>5, TailOfQueue
  <2>3. FilesIn(queue) = {queue[1].file} \cup FilesIn(Tail(queue))
    BY <1>1, <1>5, TailOfQueue
  <2> QED BY <2>1, <2>2, <2>3
<1>7. /\ head.file \in Files /\ head.depth \in Nat /\ head.depth <= budget.maxDeclarationDepth
      /\ head.file \in AtDistance(head.depth)
  BY <1>1, <1>4, <1>6 DEF InOrder
<1>8. head.file \in Closure
  BY <1>2, <1>7, Distances
<1>9. n \in Nat /\ files \in Nat /\ n + 1 <= files
  <2>1. records \cup {head.file} \subseteq Closure
    BY <1>2, <1>8 DEF WalkIsInOrder
  <2>2. IsFiniteSet(records) /\ Cardinality(records \cup {head.file}) = n + 1 /\ n \in Nat
    BY <1>1, <1>2, <1>3, FS_AddElement, FS_CardinalityType DEF CountsAreKept
  <2>3. IsFiniteSet(Closure) /\ files \in Nat
    BY <1>2, Distances
  <2>4. Cardinality(records \cup {head.file}) <= files
    BY <2>1, <2>3, FS_Subset
  <2> QED BY <2>2, <2>3, <2>4
<1>10. /\ totals.files = 1 + n /\ totals.bytes = 1 + bytes /\ bytes = n * (Size + growth)
       /\ growth \in 0..1 /\ Size = 1 /\ Earlier.files = 1 /\ Earlier.bytes = 1
  BY <1>2, <1>3 DEF CountsAreKept, InputsAreGiven, Size, Earlier
<1> HIDE DEF head, n, files
<1>11. bytes + Size <= (Size + growth) * files
  <2>1. CASE growth = 0
    BY <2>1, <1>9, <1>10
  <2>2. CASE growth = 1
    BY <2>2, <1>9, <1>10
  <2> QED BY <2>1, <2>2, <1>10
<1>12. CASE TakeLimit # "none" /\ Fails(TakeLimit)
  <2>1. TakeLimit \in {"maxDeclarationFilesPerPackage", "maxTotalDeclarationFiles"}
    BY <1>7, <1>12, <1>2 DEF TakeLimit, head, InputsAreGiven
  <2>2. /\ TakeLimit = "maxDeclarationFilesPerPackage" => n >= budget.maxDeclarationFilesPerPackage
        /\ TakeLimit = "maxTotalDeclarationFiles" => totals.files >= budget.maxTotalDeclarationFiles
    BY DEF TakeLimit, n
  <2>3. /\ budget.maxDeclarationFilesPerPackage \in Nat /\ budget.maxTotalDeclarationFiles \in Nat
    BY <1>2 DEF InputsAreGiven
  <2>4. /\ TakeLimit = "maxDeclarationFilesPerPackage" => files > budget.maxDeclarationFilesPerPackage
        /\ TakeLimit = "maxTotalDeclarationFiles" => Earlier.files + files > budget.maxTotalDeclarationFiles
    BY <2>2, <2>3, <1>9, <1>10
  <2>5. LimitIsReal(TakeLimit)
    BY <2>1, <2>4 DEF LimitIsReal, files
  <2> QED BY <1>12, <2>1, <2>5, FailureKeepsInv
<1>13. CASE ByteLimit(Size) # "none" /\ Fails(ByteLimit(Size))
  <2> DEFINE code == ByteLimit(Size)
  <2>1. /\ code \in {"maxDeclarationBytesPerFile", "maxDeclarationBytesPerPackage", "maxTotalDeclarationBytes"}
        /\ code = "maxDeclarationBytesPerFile" => Size > budget.maxDeclarationBytesPerFile
        /\ code = "maxDeclarationBytesPerPackage" => bytes + Size > budget.maxDeclarationBytesPerPackage
        /\ code = "maxTotalDeclarationBytes" => totals.bytes + Size > budget.maxTotalDeclarationBytes
    BY <1>13 DEF ByteLimit
  <2> HIDE DEF code
  <2>2. /\ budget.maxDeclarationBytesPerFile \in Nat /\ budget.maxDeclarationBytesPerPackage \in Nat
        /\ budget.maxTotalDeclarationBytes \in Nat
    BY <1>2 DEF InputsAreGiven
  <2> DEFINE most == (Size + growth) * files
  <2>3. most \in Nat /\ bytes \in Nat
    BY <1>9, <1>10
  <2>4. bytes + Size <= most
    BY <1>11
  <2> HIDE DEF most
  <2>5. /\ code = "maxDeclarationBytesPerFile" => Size + growth > budget.maxDeclarationBytesPerFile
        /\ code = "maxDeclarationBytesPerPackage" => most > budget.maxDeclarationBytesPerPackage
        /\ code = "maxTotalDeclarationBytes" => Earlier.bytes + most > budget.maxTotalDeclarationBytes
    BY <2>1, <2>2, <2>3, <2>4, <1>10
  <2>6. LimitIsReal(code)
    BY <2>1, <2>5 DEF LimitIsReal, files, most
  <2>7. code \notin {"none", "ok"} /\ Fails(code)
    BY <2>1, <1>13 DEF code
  <2> QED BY <2>6, <2>7, FailureKeepsInv
<1>14. CASE /\ TakeLimit = "none" /\ ByteLimit(Size) = "none"
            /\ item' = head /\ queue' = Tail(queue) /\ step' = "read"
            /\ UNCHANGED <<inputs, toFollow, records, edges, bytes, totals, surfaces, facts, answer>>
  <2>1. text' = text /\ budget' = budget /\ growth' = growth
    BY <1>14 DEF inputs
  <2>2. n < budget.maxDeclarationFilesPerPackage /\ totals.files < budget.maxTotalDeclarationFiles
    <3>1. budget.maxDeclarationFilesPerPackage \in Nat /\ budget.maxTotalDeclarationFiles \in Nat
      BY <1>2 DEF InputsAreGiven
    <3>2. /\ ~(n >= budget.maxDeclarationFilesPerPackage)
          /\ ~(totals.files >= budget.maxTotalDeclarationFiles)
      BY <1>14 DEF TakeLimit, n
    <3> QED BY <3>1, <3>2, <1>9, <1>10
  <2>3. CountsAreKept'
    <3>1. FilesRead' = records
      BY <1>14 DEF FilesRead
    <3> QED BY <1>2, <1>3, <1>14, <2>1, <2>2, <3>1 DEF CountsAreKept, n
  <2>4. EdgesAreKept'
    BY <1>2, <1>14, SameReference DEF EdgesAreKept
  <2>5. Met' = Met /\ Current' = {head.file}
    BY <1>3, <1>6, <1>14 DEF Met, Current
  <2>6. InOrder(Tail(queue), records)
    BY <1>1, <1>2, <1>4, TailInOrder
  <2>7. InOrder(queue, records \cup Current)'
    <3>1. InOrder(Tail(queue), records \cup {head.file})
      BY <2>6 DEF InOrder
    <3>2. (records \cup Current)' = records \cup {head.file}
      BY <1>14, <2>5
    <3> QED BY <1>14, <3>1, <3>2, SameOrder
  <2>8. IsLevel(head.depth)
    BY <1>1, <1>2, <1>6 DEF WalkIsInOrder
  <2>9. IsLevel(item.depth)'
    <3>1. \A i \in DOMAIN Tail(queue) : i + 1 \in DOMAIN queue /\ Tail(queue)[i] = queue[i + 1]
      BY <1>1, <1>5, TailOfQueue
    <3> QED BY <1>14, <2>1, <2>5, <2>8, <3>1 DEF IsLevel
  <2>10. item.file' \in AtDistance(item.depth)' \ records'
    BY <1>1, <1>7, <1>14, SameReference DEF head
  <2> QED BY <1>2, <1>6, <1>7, <1>14, <2>1, <2>3, <2>4, <2>5, <2>7, <2>9, <2>10, SameReference, WalkGoesOn
          DEF WalkIsInOrder, Walking
<1> QED BY <1>12, <1>13, <1>14 DEF TakeNext, head

LEMMA ReadFileKeepsInv ==
    ASSUME WalkInv, ReadFile
    PROVE  WalkInv'
<1>1. step = "read"
  BY DEF ReadFile
<1>2. InputsAreGiven /\ CountsAreKept /\ EdgesAreKept /\ WalkIsInOrder /\ answer = "none"
  BY <1>1 DEF WalkInv, Walking
<1> DEFINE n == Cardinality(records)
           files == Cardinality(Closure)
           size == Size + growth
           code == ByteLimit(size)
<1>3. /\ item \in [file : Files, depth : Nat] /\ item.depth <= budget.maxDeclarationDepth
      /\ item.file \in AtDistance(item.depth) \ records /\ IsLevel(item.depth)
  BY <1>1, <1>2 DEF WalkIsInOrder
<1>4. item.file \in Closure
  BY <1>2, <1>3, Distances
<1>5. n \in Nat /\ files \in Nat /\ n + 1 <= files /\ FilesRead = records
      /\ IsFiniteSet(records \cup {item.file}) /\ Cardinality(records \cup {item.file}) = n + 1
  <2>1. records \cup {item.file} \subseteq Closure
    BY <1>2, <1>4 DEF WalkIsInOrder
  <2>2. FilesRead = records
    BY <1>1 DEF FilesRead
  <2>3. IsFiniteSet(records)
    BY <1>2, <2>2 DEF CountsAreKept
  <2>4. IsFiniteSet(records \cup {item.file}) /\ Cardinality(records \cup {item.file}) = n + 1 /\ n \in Nat
    BY <1>3, <2>3, FS_AddElement, FS_CardinalityType
  <2>5. IsFiniteSet(Closure) /\ files \in Nat
    BY <1>2, Distances
  <2>6. Cardinality(records \cup {item.file}) <= files
    BY <2>1, <2>5, FS_Subset
  <2> QED BY <2>2, <2>4, <2>5, <2>6
<1>6. /\ totals = [files |-> 1 + n, bytes |-> 1 + bytes, facts |-> 1]
      /\ bytes = n * size /\ growth \in 0..1 /\ Size = 1 /\ size = 1 + growth
      /\ Earlier.files = 1 /\ Earlier.bytes = 1 /\ Earlier.facts = 1
  BY <1>2, <1>5 DEF CountsAreKept, InputsAreGiven, Size, Earlier
<1> HIDE DEF n, files, size
<1> DEFINE most == size * files
<1>7. bytes + size <= most /\ bytes + size = (n + 1) * size /\ most \in Nat /\ bytes \in Nat /\ size \in Nat
  <2>1. CASE growth = 0
    BY <2>1, <1>5, <1>6
  <2>2. CASE growth = 1
    BY <2>2, <1>5, <1>6
  <2> QED BY <2>1, <2>2, <1>6
<1> HIDE DEF most
<1>8. /\ budget.maxDeclarationBytesPerFile \in Nat /\ budget.maxDeclarationBytesPerPackage \in Nat
      /\ budget.maxTotalDeclarationBytes \in Nat
      /\ budget.maxDeclarationFilesPerPackage \in Nat /\ budget.maxTotalDeclarationFiles \in Nat
  BY <1>2 DEF InputsAreGiven
<1>9. CASE code # "none" /\ Fails(code)
  <2>1. /\ code \in {"maxDeclarationBytesPerFile", "maxDeclarationBytesPerPackage", "maxTotalDeclarationBytes"}
        /\ code = "maxDeclarationBytesPerFile" => size > budget.maxDeclarationBytesPerFile
        /\ code = "maxDeclarationBytesPerPackage" => bytes + size > budget.maxDeclarationBytesPerPackage
        /\ code = "maxTotalDeclarationBytes" => totals.bytes + size > budget.maxTotalDeclarationBytes
    BY <1>9 DEF ByteLimit
  <2> HIDE DEF code
  <2>2. /\ code = "maxDeclarationBytesPerFile" => Size + growth > budget.maxDeclarationBytesPerFile
        /\ code = "maxDeclarationBytesPerPackage" => most > budget.maxDeclarationBytesPerPackage
        /\ code = "maxTotalDeclarationBytes" => Earlier.bytes + most > budget.maxTotalDeclarationBytes
    BY <2>1, <1>6, <1>7, <1>8
  <2>3. LimitIsReal(code)
    BY <2>1, <2>2 DEF LimitIsReal, files, most, size
  <2>4. code \notin {"none", "ok"}
    BY <2>1
  <2> QED BY <1>9, <2>3, <2>4, FailureKeepsInv
<1>10. CASE Fails("CONTRACT_DECLARATION_INVALID")
  BY <1>10, OtherErrorsAreReal, FailureKeepsInv
<1>11. CASE /\ Cardinality(ExportsOf(text, item.file)) > budget.maxNormalizedFactsPerPackage
            /\ answer' = "maxNormalizedFactsPerPackage" /\ step' = "done"
            /\ UNCHANGED inputs
  <2>1. LimitIsReal("maxNormalizedFactsPerPackage")
    BY <1>4, <1>11 DEF LimitIsReal
  <2> QED BY <1>11, <2>1, RefusalKeepsInv
<1>12. CASE /\ code = "none" /\ bytes' = bytes + size
            /\ totals' = [totals EXCEPT !.files = @ + 1, !.bytes = @ + size]
            /\ toFollow' = ReferencesOf(item.file) /\ step' = "follow"
            /\ UNCHANGED <<inputs, queue, item, records, edges, surfaces, facts, answer>>
  <2>1. text' = text /\ budget' = budget /\ growth' = growth
    BY <1>12 DEF inputs
  <2>2. /\ ~(size > budget.maxDeclarationBytesPerFile)
        /\ ~(bytes + size > budget.maxDeclarationBytesPerPackage)
        /\ ~(totals.bytes + size > budget.maxTotalDeclarationBytes)
    BY <1>12 DEF ByteLimit
  <2>3. n < budget.maxDeclarationFilesPerPackage /\ totals.files < budget.maxTotalDeclarationFiles
    BY <1>1, <1>2 DEF CountsAreKept, n
  <2>4. totals' = [files |-> 1 + (n + 1), bytes |-> 1 + bytes', facts |-> 1]
    <3>1. totals' = [files |-> (1 + n) + 1, bytes |-> (1 + bytes) + size, facts |-> 1]
      BY <1>6, <1>12
    <3>2. (1 + n) + 1 = 1 + (n + 1) /\ (1 + bytes) + size = 1 + bytes'
      BY <1>5, <1>7, <1>12
    <3> QED BY <3>1, <3>2
  <2>5. FilesRead' = records \cup {item.file} /\ Cardinality(FilesRead') = n + 1 /\ IsFiniteSet(FilesRead')
    BY <1>5, <1>12 DEF FilesRead
  <2>6. bytes' = (n + 1) * (Size + growth)
    BY <1>7, <1>12 DEF size
  <2>7. /\ n + 1 <= budget.maxDeclarationFilesPerPackage /\ bytes' <= budget.maxDeclarationBytesPerPackage
        /\ totals'.files <= budget.maxTotalDeclarationFiles /\ totals'.bytes <= budget.maxTotalDeclarationBytes
    BY <2>2, <2>3, <2>4, <1>5, <1>6, <1>7, <1>8, <1>12
  <2>8. CountsAreKept'
    <3>1. step' # "read" /\ edges' = edges
      BY <1>12
    <3>2. IsFiniteSet(edges) /\ Cardinality(edges) <= budget.maxDeclarationReferenceEdgesPerPackage
      BY <1>2 DEF CountsAreKept
    <3>3. totals' = [files |-> Earlier.files + Cardinality(FilesRead'),
                     bytes |-> Earlier.bytes + bytes', facts |-> Earlier.facts]
      BY <2>4, <2>5, <1>6
    <3> QED BY <2>1, <2>5, <2>6, <2>7, <3>1, <3>2, <3>3 DEF CountsAreKept
  <2>9. EdgesAreKept'
    BY <1>2, <1>12, SameReference DEF EdgesAreKept
  <2>10. Met' = Met /\ Current' = Current
    BY <1>1, <1>12 DEF Met, Current
  <2>11. InOrder(queue, records \cup Current)'
    <3>1. InOrder(queue, records \cup Current)
      BY <1>2 DEF WalkIsInOrder
    <3>2. queue' = queue /\ (records \cup Current)' = records \cup Current
      BY <1>12, <2>10
    <3> QED BY <1>12, <3>1, <3>2, SameOrder
  <2>12. IsLevel(item.depth)'
    BY <1>3, <1>12, <2>1, <2>10 DEF IsLevel
  <2>13. item.file' \in AtDistance(item.depth)' \ records'
    BY <1>3, <1>12, SameReference
  <2>14. toFollow' = ReferencesOf(item.file)'
    BY <1>12, SameReference
  <2> QED BY <1>2, <1>3, <1>12, <2>1, <2>8, <2>9, <2>10, <2>11, <2>12, <2>13, <2>14, SameReference, WalkGoesOn
          DEF WalkIsInOrder, Walking
<1> HIDE DEF code
<1> QED BY <1>9, <1>10, <1>11, <1>12 DEF ReadFile, size, code

LEMMA RecordFileKeepsInv ==
    ASSUME WalkInv, RecordFile
    PROVE  WalkInv'
<1>1. /\ step = "follow" /\ toFollow = {} /\ records' = records \cup {item.file} /\ step' = "take"
      /\ UNCHANGED <<inputs, queue, toFollow, edges, bytes, totals, surfaces, facts, answer>>
  BY DEF RecordFile
<1>2. InputsAreGiven /\ CountsAreKept /\ EdgesAreKept /\ WalkIsInOrder /\ answer = "none"
  BY <1>1 DEF WalkInv, Walking
<1>3. text' = text /\ budget' = budget /\ growth' = growth
  BY <1>1 DEF inputs
<1>4. /\ item \in [file : Files, depth : Nat] /\ item.depth <= budget.maxDeclarationDepth
      /\ item.file \in AtDistance(item.depth) \ records /\ IsLevel(item.depth)
      /\ \A r \in ReferencesOf(item.file) : r[1] \in Met /\ EdgeId(r) \in edges
  BY <1>1, <1>2 DEF WalkIsInOrder
<1>5. CountsAreKept'
  <2>1. FilesRead' = FilesRead
    BY <1>1 DEF FilesRead
  <2> QED BY <1>1, <1>2, <1>3, <2>1 DEF CountsAreKept
<1>6. EdgesAreKept'
  <2>1. \A r \in ReferencesOf(item.file) : <<item.file, r>> \in edges
    BY <1>4 DEF EdgeId
  <2>2. {item.file} \X ReferencesOf(item.file) \subseteq edges
    BY <2>1
  <2> QED BY <1>1, <1>2, <2>2, SameReference DEF EdgesAreKept
<1>7. Current = {item.file} /\ Current' = {} /\ Met' = Met /\ records' \cup Current' = records \cup Current
  BY <1>1 DEF Current, Met
<1>8. Met = records' \cup FilesIn(queue)
  BY <1>1, <1>7 DEF Met
<1>9. InOrder(queue, records')
  BY <1>2, <1>7 DEF WalkIsInOrder
<1>10. InOrder(queue, records \cup Current)'
  <2>1. queue' = queue /\ (records \cup Current)' = records'
    BY <1>1, <1>7
  <2> QED BY <1>1, <1>9, <2>1, SameOrder
<1>11. \A file \in records' : Successors(text, file) \subseteq Met
  <2>1. Successors(text, item.file) \subseteq Met
    BY <1>4, ReferencesLead
  <2> QED BY <1>1, <1>2, <2>1 DEF WalkIsInOrder
<1>12. item.file \in Closure /\ item.file \in Within(text)[budget.maxDeclarationDepth]
  <2>1. item.depth \in Nat /\ item.file \in Within(text)[item.depth] /\ item.file \in Closure
    BY <1>2, <1>4, Distances
  <2>2. budget.maxDeclarationDepth \in Nat /\ IsText(text)
    BY <1>2 DEF InputsAreGiven
  <2> QED BY <1>4, <2>1, <2>2, WithinSteps
<1>13. queue' # <<>> => IsLevel(queue[1].depth)'
  <2> HAVE queue' # <<>>
  <2> DEFINE d == item.depth
             read == records'
  <2>1. queue \in Seq([file : Files, depth : Nat]) /\ queue # <<>> /\ d \in Nat
    BY <1>1, <1>4, <1>9 DEF InOrder
  <2>2. /\ Within(text)[d] \subseteq read \cup FilesIn(queue)
        /\ \A i \in DOMAIN queue : /\ d <= queue[i].depth /\ queue[i].depth <= d + 1
                                   /\ queue[i].file \in read \cup AtDistance(queue[i].depth)
                                   /\ \A j \in DOMAIN queue : i <= j => queue[i].depth <= queue[j].depth
    BY <1>4, <1>8, <1>9 DEF IsLevel, InOrder
  <2>3. \A file \in read : Successors(text, file) \subseteq read \cup FilesIn(queue)
    BY <1>8, <1>11
  <2> HIDE DEF read, d
  <2>4. /\ Within(text)[queue[1].depth] \subseteq read \cup FilesIn(queue)
        /\ \A i \in DOMAIN queue : queue[1].depth <= queue[i].depth /\ queue[i].depth <= queue[1].depth + 1
    BY <1>2, <2>1, <2>2, <2>3, NextLevel
  <2> QED BY <1>1, <1>3, <1>7, <1>8, <2>4 DEF IsLevel, read
<1> QED BY <1>1, <1>2, <1>3, <1>5, <1>6, <1>7, <1>10, <1>11, <1>12, <1>13, SameReference, WalkGoesOn
        DEF WalkIsInOrder, Walking

LEMMA FollowReferenceKeepsInv ==
    ASSUME WalkInv, FollowReference
    PROVE  WalkInv'
<1>1. step = "follow"
  BY DEF FollowReference
<1>2. InputsAreGiven /\ CountsAreKept /\ EdgesAreKept /\ WalkIsInOrder /\ answer = "none"
  BY <1>1 DEF WalkInv, Walking
<1> DEFINE d == item.depth
           max == budget.maxDeclarationDepth
           edge(r) == EdgeId(r)
<1>3. PICK reference \in toFollow :
          \/ FollowLimit(reference) # "none" /\ Fails(FollowLimit(reference))
          \/ Fails(ResolutionFailure(reference[1]))
          \/ /\ FollowLimit(reference) = "none" /\ Resolves(reference[1])
             /\ edges' = edges \cup {EdgeId(reference)}
             /\ queue' = IF IsKnown(reference[1]) THEN queue
                         ELSE Append(queue, [file |-> reference[1], depth |-> item.depth + 1])
             /\ toFollow' = toFollow \ {reference}
             /\ UNCHANGED <<inputs, step, item, records, bytes, totals, surfaces, facts, answer>>
  BY DEF FollowReference
<1> DEFINE file == reference[1]
<1>4. /\ item \in [file : Files, depth : Nat] /\ d <= max /\ d \in Nat /\ max \in Nat
      /\ item.file \in AtDistance(d) \ records /\ IsLevel(d)
      /\ toFollow \subseteq ReferencesOf(item.file)
      /\ \A r \in ReferencesOf(item.file) \ toFollow : r[1] \in Met /\ EdgeId(r) \in edges
  BY <1>1, <1>2 DEF WalkIsInOrder, InputsAreGiven
<1>5. Current = {item.file} /\ Met = records \cup {item.file} \cup FilesIn(queue)
  BY <1>1 DEF Current, Met
<1>6. item.file \in Closure /\ item.file \in Within(text)[d]
  BY <1>2, <1>4, Distances
<1>7. IsText(text) /\ file \in Successors(text, item.file)
  BY <1>2, <1>4, ReferencesLead DEF InputsAreGiven
<1>8. file \in Files /\ file \in Within(text)[d + 1]
  BY <1>4, <1>6, <1>7, WithinSteps, SuccessorsAreFiles
<1>9. IsKnown(file) <=> file \in records \cup FilesIn(queue)
  BY DEF IsKnown, FilesIn
<1>10. ~IsKnown(file) => file = item.file \/ file \in AtDistance(d + 1)
  <2> HAVE ~IsKnown(file)
  <2>1. Within(text)[d] \subseteq records \cup {item.file} \cup FilesIn(queue)
    BY <1>4, <1>5 DEF IsLevel
  <2>2. file = item.file \/ file \notin Within(text)[d]
    BY <1>9, <2>1
  <2>3. AtDistance(d + 1) = Within(text)[d + 1] \ Within(text)[d]
    BY <1>2, <1>4, Distances
  <2> QED BY <1>8, <2>2, <2>3
<1>11. EdgeId(reference) \in ReferenceEdges
  <2>1. reference \in ReferencesOf(item.file)
    BY <1>4
  <2> QED BY <1>6, <2>1 DEF EdgeId, ReferenceEdges
<1>12. /\ IsFiniteSet(edges) /\ Cardinality(edges) \in Nat /\ edges \subseteq ReferenceEdges
       /\ Cardinality(edges) <= budget.maxDeclarationReferenceEdgesPerPackage
       /\ budget.maxDeclarationReferenceEdgesPerPackage \in Nat
  BY <1>2, FS_CardinalityType DEF CountsAreKept, EdgesAreKept, InputsAreGiven
<1> HIDE DEF d, max, file
<1>13. CASE FollowLimit(reference) # "none" /\ Fails(FollowLimit(reference))
  <2> DEFINE code == FollowLimit(reference)
  <2>1. \/ /\ code = "maxDeclarationReferenceEdgesPerPackage"
           /\ EdgeId(reference) \notin edges
           /\ Cardinality(edges) >= budget.maxDeclarationReferenceEdgesPerPackage
        \/ code = "maxDeclarationDepth" /\ ~IsKnown(file) /\ d + 1 > max
    BY <1>13 DEF FollowLimit, d, max, file
  <2> HIDE DEF code
  <2>2. ASSUME code = "maxDeclarationReferenceEdgesPerPackage", EdgeId(reference) \notin edges,
               Cardinality(edges) >= budget.maxDeclarationReferenceEdgesPerPackage
        PROVE  LimitIsReal(code)
    <3> DEFINE more == edges \cup {EdgeId(reference)}
    <3>1. more \in SUBSET ReferenceEdges
      BY <1>11, <1>12
    <3>2. IsFiniteSet(ReferenceEdges)
      BY <1>2, ReferenceEdgesAreFinite
    <3>3. Cardinality(more) = Cardinality(edges) + 1
      BY <1>12, <2>2, FS_AddElement
    <3>4. Cardinality(more) <= Cardinality(ReferenceEdges) /\ Cardinality(ReferenceEdges) \in Nat
      <4> HIDE DEF more
      <4> QED BY <3>1, <3>2, FS_Subset, FS_CardinalityType
    <3> HIDE DEF more
    <3>5. Cardinality(ReferenceEdges) > budget.maxDeclarationReferenceEdgesPerPackage
      BY <1>12, <2>2, <3>3, <3>4
    <3>6. LimitIsReal("maxDeclarationReferenceEdgesPerPackage")
      BY <3>5 DEF LimitIsReal
    <3> QED BY <2>2, <3>6
  <2>3. ASSUME code = "maxDeclarationDepth", ~IsKnown(file), d + 1 > max
        PROVE  LimitIsReal(code)
    <3>1. d = max
      BY <1>4, <2>3
    <3>2. item.file \in AtDistance(max) /\ file \in Successors(text, item.file)
      BY <1>4, <1>7, <3>1
    <3>3. file = item.file \/ file \in AtDistance(max + 1)
      BY <1>10, <2>3, <3>1
    <3>4. LimitIsReal("maxDeclarationDepth")
      BY <3>2, <3>3, <1>8 DEF LimitIsReal, max
    <3> QED BY <2>3, <3>4
  <2>4. LimitIsReal(code) /\ code \notin {"none", "ok"}
    <3>1. code \notin {"none", "ok"}
      BY <2>1
    <3> QED BY <2>1, <2>2, <2>3, <3>1
  <2> QED BY <1>13, <2>4, FailureKeepsInv DEF code
<1>14. CASE Fails(ResolutionFailure(file))
  <2>1. ResolutionFailure(file) \in {"CONTRACT_DECLARATION_INVALID", "CONTRACT_EVIDENCE_READ_FAILED"}
    BY DEF ResolutionFailure
  <2> QED BY <1>14, <2>1, OtherErrorsAreReal, FailureKeepsInv
<1>15. CASE /\ FollowLimit(reference) = "none" /\ Resolves(file)
            /\ edges' = edges \cup {EdgeId(reference)}
            /\ queue' = IF IsKnown(file) THEN queue
                        ELSE Append(queue, [file |-> file, depth |-> d + 1])
            /\ toFollow' = toFollow \ {reference}
            /\ UNCHANGED <<inputs, step, item, records, bytes, totals, surfaces, facts, answer>>
  <2>1. text' = text /\ budget' = budget /\ growth' = growth
    BY <1>15 DEF inputs
  <2>2. /\ EdgeId(reference) \notin edges => Cardinality(edges) < budget.maxDeclarationReferenceEdgesPerPackage
        /\ ~IsKnown(file) => d + 1 <= max
    <3>1. /\ ~(EdgeId(reference) \notin edges
               /\ Cardinality(edges) >= budget.maxDeclarationReferenceEdgesPerPackage)
          /\ ~(~IsKnown(file) /\ d + 1 > max)
      BY <1>15 DEF FollowLimit, d, max, file
    <3> QED BY <1>4, <1>12, <3>1
  <2>3. CountsAreKept'
    <3>1. FilesRead' = FilesRead
      BY <1>15 DEF FilesRead
    <3>2. IsFiniteSet(edges') /\ Cardinality(edges') <= budget.maxDeclarationReferenceEdgesPerPackage
      <4>1. /\ IsFiniteSet(edges')
            /\ Cardinality(edges') = IF EdgeId(reference) \in edges THEN Cardinality(edges)
                                     ELSE Cardinality(edges) + 1
        BY <1>12, <1>15, FS_AddElement
      <4> QED BY <1>12, <2>2, <4>1
    <3> QED BY <1>1, <1>2, <1>15, <2>1, <3>1, <3>2 DEF CountsAreKept
  <2>4. EdgesAreKept'
    BY <1>2, <1>11, <1>15, SameReference DEF EdgesAreKept
  <2> DEFINE known == records \cup {item.file}
  <2>5. InOrder(queue, known) /\ queue \in Seq([file : Files, depth : Nat])
    BY <1>2, <1>5 DEF WalkIsInOrder, InOrder
  <2>6. \A i \in DOMAIN queue : d <= queue[i].depth /\ queue[i].depth <= d + 1
    BY <1>4 DEF IsLevel
  <2>7. /\ InOrder(queue', known)
        /\ FilesIn(queue') = FilesIn(queue) \cup (IF IsKnown(file) THEN {} ELSE {file})
        /\ \A i \in DOMAIN queue' : d <= queue'[i].depth /\ queue'[i].depth <= d + 1
    <3>1. CASE IsKnown(file)
      BY <1>15, <2>5, <2>6, <3>1
    <3>2. CASE ~IsKnown(file)
      <4> DEFINE new == [file |-> file, depth |-> d + 1]
                 last == Len(queue) + 1
      <4>1. new \in [file : Files, depth : Nat] /\ new.file = file /\ new.depth = d + 1
        BY <1>4, <1>8
      <4>2. queue' = Append(queue, new)
        BY <1>15, <3>2
      <4> HIDE DEF new
      <4>3. /\ queue' \in Seq([file : Files, depth : Nat])
            /\ DOMAIN queue' = 1..last /\ DOMAIN queue = 1..Len(queue) /\ Len(queue) \in Nat
            /\ queue'[last] = new
            /\ \A i \in 1..Len(queue) : queue'[i] = queue[i]
        BY <2>5, <4>1, <4>2, AppendProperties
      <4>4. \A i \in DOMAIN queue' : i = last \/ i \in DOMAIN queue
        BY <4>3
      <4>5. \A i \in DOMAIN queue' : d <= queue'[i].depth /\ queue'[i].depth <= d + 1
        BY <2>6, <4>1, <4>3, <4>4, <1>4
      <4>6. FilesIn(queue') = FilesIn(queue) \cup {file}
        <5>1. last \in DOMAIN queue' /\ \A i \in DOMAIN queue : i \in DOMAIN queue'
          BY <4>3
        <5>2. FilesIn(queue') \subseteq FilesIn(queue) \cup {file}
          BY <4>1, <4>3, <4>4 DEF FilesIn
        <5>3. FilesIn(queue) \cup {file} \subseteq FilesIn(queue')
          BY <4>1, <4>3, <5>1 DEF FilesIn
        <5> QED BY <5>2, <5>3
      <4>7. InOrder(queue', known)
        <5>1. ASSUME NEW i \in DOMAIN queue'
              PROVE  queue'[i].depth <= max /\ queue'[i].file \in known \cup AtDistance(queue'[i].depth)
          <6>1. CASE i = last
            BY <6>1, <4>1, <4>3, <2>2, <3>2, <1>10
          <6>2. CASE i \in DOMAIN queue
            BY <6>2, <4>3, <2>5 DEF InOrder, max
          <6> QED BY <4>4, <6>1, <6>2
        <5>2. ASSUME NEW i \in DOMAIN queue', NEW j \in DOMAIN queue', i <= j
              PROVE  queue'[i].depth <= queue'[j].depth
          <6>1. CASE j = last
            BY <6>1, <4>1, <4>3, <4>5
          <6>2. CASE j # last
            <7>1. i \in DOMAIN queue /\ j \in DOMAIN queue
              BY <5>2, <6>2, <4>3
            <7> QED BY <5>2, <7>1, <4>3, <2>5 DEF InOrder
          <6> QED BY <6>1, <6>2
        <5> QED BY <4>3, <5>1, <5>2 DEF InOrder, max
      <4> QED BY <3>2, <4>5, <4>6, <4>7
    <3> QED BY <3>1, <3>2
  <2>8. Current' = {item.file} /\ Met' = Met \cup {file} /\ (records \cup Current)' = known
    BY <1>1, <1>5, <1>9, <1>15, <2>7 DEF Current, Met
  <2>9. InOrder(queue, records \cup Current)'
    BY <1>15, <2>7, <2>8, SameOrder
  <2>10. IsLevel(item.depth)'
    BY <1>4, <1>15, <2>1, <2>7, <2>8 DEF IsLevel, d
  <2>11. item.file' \in AtDistance(item.depth)' \ records'
    BY <1>4, <1>15, SameReference DEF d
  <2>12. /\ toFollow' \subseteq ReferencesOf(item.file)'
         /\ \A r \in ReferencesOf(item.file)' \ toFollow' : r[1] \in Met' /\ EdgeId(r)' \in edges'
    <3>1. ReferencesOf(item.file)' = ReferencesOf(item.file)
      BY <1>15, SameReference
    <3>2. \A r : EdgeId(r)' = EdgeId(r)
      BY <1>15 DEF EdgeId
    <3> QED BY <1>4, <1>15, <2>8, <3>1, <3>2 DEF file
  <2> QED BY <1>1, <1>2, <1>4, <1>15, <2>1, <2>3, <2>4, <2>8, <2>9, <2>10, <2>11, <2>12, SameReference, WalkGoesOn
          DEF WalkIsInOrder, Walking, d, max
<1> QED BY <1>3, <1>13, <1>14, <1>15 DEF file, d

\* What a step does that is about the surfaces only.
LEMMA SurfacesGoOn ==
    ASSUME WalkInv, UNCHANGED <<inputs, answer, records, edges, bytes, totals>>, answer = "none",
           step # "follow", step' = "surfaces",
           CountsAreKept, GraphIsKept, GraphIsWhole, SurfacesAreProven'
    PROVE  WalkInv'
<1>1. text' = text /\ budget' = budget /\ growth' = growth
  BY DEF inputs
<1>2. InputsAreGiven /\ budget.maxDeclarationDepth \in Nat
  BY DEF WalkInv, InputsAreGiven
<1>3. InputsAreGiven'
  BY <1>2, SameReference
<1>4. CountsAreKept'
  BY <1>1 DEF CountsAreKept, FilesRead
<1>5. GraphIsKept'
  BY <1>1, SameReference DEF GraphIsKept, AtDistance
<1>6. GraphIsWhole'
  BY <1>1, SameReference DEF GraphIsWhole
<1>7. ClosureIsReadWithinBudgets' /\ LimitsAreReal' /\ ExportsAreProven'
  BY DEF ClosureIsReadWithinBudgets, LimitsAreReal, ExportsAreProven
<1> QED BY <1>3, <1>4, <1>5, <1>6, <1>7 DEF WalkInv, Walking

LEMMA GraphIsReadKeepsInv ==
    ASSUME WalkInv, GraphIsRead
    PROVE  WalkInv'
<1>1. /\ step = "take" /\ queue = <<>> /\ step' = "surfaces"
      /\ surfaces' = [file \in records |-> DirectSurface(text, file)]
      /\ UNCHANGED <<inputs, walk, facts, answer>>
  BY DEF GraphIsRead
<1>2. InputsAreGiven /\ CountsAreKept /\ EdgesAreKept /\ WalkIsInOrder /\ answer = "none"
  BY <1>1 DEF WalkInv, Walking
<1>3. IsText(text) /\ IsFiniteSet(text) /\ budget.maxDeclarationDepth \in Nat
  BY <1>2 DEF InputsAreGiven
<1>4. Met = records
  BY <1>1 DEF Met, Current, FilesIn
<1>5. Closure = records
  <2>1. Closure \subseteq records
    BY <1>2, <1>3, <1>4, ClosureIsLeast DEF WalkIsInOrder
  <2> QED BY <1>2, <2>1 DEF WalkIsInOrder
<1>6. GraphIsWhole
  BY <1>2, <1>3, <1>5, Distances DEF GraphIsWhole
<1>7. GraphIsKept
  <2>1. edges = ReferenceEdges
    <3>1. \A file \in Closure : {file} \X ReferencesOf(file) \subseteq edges
      BY <1>2, <1>5 DEF EdgesAreKept
    <3> QED BY <1>2, <3>1 DEF EdgesAreKept, ReferenceEdges
  <2>2. AtDistance(budget.maxDeclarationDepth + 1) = {}
    <3>1. records \subseteq Within(text)[budget.maxDeclarationDepth]
      BY <1>2 DEF WalkIsInOrder
    <3>2. budget.maxDeclarationDepth + 1 \in Nat
      BY <1>3
    <3>3. Within(text)[budget.maxDeclarationDepth + 1] \subseteq Closure
      BY <1>2, <3>2, Distances
    <3>4. AtDistance(budget.maxDeclarationDepth + 1)
              = Within(text)[budget.maxDeclarationDepth + 1] \ Within(text)[budget.maxDeclarationDepth]
      BY <1>2, <1>3, Distances
    <3> QED BY <1>5, <3>1, <3>3, <3>4
  <2> QED BY <2>1, <2>2 DEF GraphIsKept
<1>8. text' = text /\ records' = records /\ UNCHANGED <<edges, bytes, totals>>
  BY <1>1 DEF inputs, walk
<1>9. SurfacesAreProven'
  BY <1>1, <1>6, <1>8, DirectSurfacesAreProven
<1> QED BY <1>1, <1>2, <1>6, <1>7, <1>8, <1>9, SurfacesGoOn

LEMMA ReexportKeepsInv ==
    ASSUME WalkInv, Reexport
    PROVE  WalkInv'
<1>1. step = "surfaces"
  BY DEF Reexport
<1>2. /\ InputsAreGiven /\ CountsAreKept /\ GraphIsKept /\ GraphIsWhole /\ SurfacesAreProven
      /\ answer = "none"
  BY <1>1 DEF WalkInv, Walking
<1>3. PICK offer \in Changes :
          LET file == offer[1].file
              entry == offer[2]
              names == NamesOf(surfaces[file])
          IN  \/ /\ entry.name \notin names
                 /\ Cardinality(names) >= budget.maxNormalizedFactsPerPackage
                 /\ Fails("maxNormalizedFactsPerPackage")
              \/ /\ surfaces' = [surfaces EXCEPT ![file] = Improved(@, entry)]
                 /\ UNCHANGED <<inputs, step, walk, facts, answer>>
  BY DEF Reexport
<1> DEFINE file == offer[1].file
           entry == offer[2]
           names == NamesOf(surfaces[file])
<1>4. offer \in Offers
  BY DEF Changes
<1>5. file \in records /\ entry.witness \subseteq records /\ IsProven(text, file, entry)
  BY <1>2, <1>4, OffersAreProven
<1>6. CASE /\ entry.name \notin names
           /\ Cardinality(names) >= budget.maxNormalizedFactsPerPackage
           /\ Fails("maxNormalizedFactsPerPackage")
  <2> DEFINE all == {o[2] : o \in {k \in Origins : k[1] = file}}
  <2>1. Origins = ReachableOrigins(text, records) /\ file \in Closure
    BY <1>2, <1>5 DEF Origins, GraphIsWhole
  <2>2. <<file, entry.name, entry.origin>> \in Origins
    BY <1>2, <1>5, <2>1, ShownMonotone DEF IsProven, GraphIsWhole
  <2>3. \A e \in surfaces[file] : <<file, e.name, e.origin>> \in Origins
    BY <1>2, <1>5, <2>1, ProvenIsReachable
  <2>4. names \cup {entry.name} \subseteq all
    <3>1. \A name, origin : <<file, name, origin>> \in Origins => name \in all
      <4> SUFFICES ASSUME NEW name, NEW origin, <<file, name, origin>> \in Origins
                   PROVE  name \in all
        OBVIOUS
      <4> DEFINE triple == <<file, name, origin>>
      <4>1. triple \in Origins /\ triple[1] = file /\ triple[2] = name
        OBVIOUS
      <4> HIDE DEF triple
      <4> QED BY <4>1
    <3> HIDE DEF all
    <3> QED BY <2>2, <2>3, <3>1 DEF NamesOf
  <2>5. IsFiniteSet(all)
    <3> DEFINE of == {k \in Origins : k[1] = file}
               second == [k \in of |-> k[2]]
    <3>1. IsFiniteSet(Origins)
      BY <1>2, <2>1, OriginsAreClosed DEF GraphIsWhole
    <3>2. IsFiniteSet(of)
      BY <3>1, FS_Subset
    <3>3. all = {second[k] : k \in of}
      OBVIOUS
    <3> HIDE DEF second, of, all
    <3> QED BY <3>2, <3>3, ImagesAreFinite
  <2>6. Cardinality(all) \in Nat /\ Cardinality(all) > budget.maxNormalizedFactsPerPackage
    <3>1. names \in SUBSET all /\ names \cup {entry.name} \in SUBSET all
      BY <2>4
    <3> HIDE DEF all, names
    <3>2. IsFiniteSet(names) /\ Cardinality(names \cup {entry.name}) <= Cardinality(all)
      BY <2>5, <3>1, FS_Subset
    <3>3. Cardinality(names \cup {entry.name}) = Cardinality(names) + 1
      BY <1>6, <3>2, FS_AddElement
    <3>4. Cardinality(names) \in Nat /\ Cardinality(all) \in Nat
      BY <2>5, <3>2, FS_CardinalityType
    <3>5. budget.maxNormalizedFactsPerPackage \in Nat
      BY <1>2 DEF InputsAreGiven
    <3> QED BY <1>6, <3>2, <3>3, <3>4, <3>5
  <2>7. LimitIsReal("maxNormalizedFactsPerPackage")
    <3> DEFINE home == file
    <3> HIDE DEF home
    <3> QED BY <2>1, <2>6 DEF LimitIsReal
  <2> QED BY <1>6, <2>7, FailureKeepsInv
<1>7. CASE /\ surfaces' = [surfaces EXCEPT ![file] = Improved(@, entry)]
           /\ UNCHANGED <<inputs, step, walk, facts, answer>>
  <2>1. text' = text /\ records' = records /\ UNCHANGED <<edges, bytes, totals>>
    BY <1>7 DEF inputs, walk
  <2>2. SurfacesAreProven'
    BY <1>2, <1>4, <1>7, <2>1, ReexportKeepsProofs
  <2> QED BY <1>1, <1>2, <1>7, <2>1, <2>2, SurfacesGoOn
<1> QED BY <1>3, <1>6, <1>7

LEMMA PushFactsKeepsInv ==
    ASSUME WalkInv, PushFacts
    PROVE  WalkInv'
<1>1. step = "surfaces" /\ Changes = {}
  BY DEF PushFacts
<1>2. /\ InputsAreGiven /\ CountsAreKept /\ GraphIsKept /\ GraphIsWhole /\ SurfacesAreProven
      /\ answer = "none"
  BY <1>1 DEF WalkInv, Walking
<1> DEFINE exported == PackageSurface(surfaces, Entries)
           pushed == Cardinality(exported)
           count == 1 + Cardinality(Entries) + pushed
           left == budget.maxTotalNormalizedFacts - totals.facts
<1>3. \/ /\ count > budget.maxNormalizedFactsPerPackage
         /\ Fails("maxNormalizedFactsPerPackage")
      \/ count > left /\ Fails("maxTotalNormalizedFacts")
      \/ /\ count <= budget.maxNormalizedFactsPerPackage /\ count <= left
         /\ facts' = exported
         /\ totals' = [totals EXCEPT !.facts = @ + count]
         /\ answer' = "ok" /\ step' = "done"
         /\ UNCHANGED <<inputs, queue, item, toFollow, records, edges, bytes, surfaces>>
  BY DEF PushFacts
<1>4. /\ pushed \in Nat /\ Cardinality(ExportedNames) \in Nat /\ pushed <= Cardinality(ExportedNames)
      /\ NamesOf(exported) = ExportedNames
      /\ \A fact \in exported : \E file \in Entries :
             StandsFor(ReachableOrigins(Shown(text, fact.witness), fact.witness), file, fact.name) # {}
  BY <1>1, <1>2, ExportsAreExact
<1>5. /\ FactCount = 2 + Cardinality(ExportedNames) /\ count = 2 + pushed /\ Cardinality(Entries) = 1
  <2>1. Cardinality(Entries) = 1
    BY FilesAreFinite
  <2> QED BY <1>4, <2>1 DEF FactCount
<1>6. /\ budget.maxNormalizedFactsPerPackage \in Nat /\ budget.maxTotalNormalizedFacts \in Nat
      /\ totals.facts = 1 /\ Earlier.facts = 1 /\ Earlier.files = 1 /\ Earlier.bytes = 1
  BY <1>2 DEF InputsAreGiven, CountsAreKept, Earlier
<1>7. FilesRead = records /\ records = Closure
  BY <1>1, <1>2 DEF FilesRead, GraphIsWhole
<1> HIDE DEF exported, pushed
<1>8. CASE count > budget.maxNormalizedFactsPerPackage /\ Fails("maxNormalizedFactsPerPackage")
  <2>1. FactCount > budget.maxNormalizedFactsPerPackage
    BY <1>4, <1>5, <1>6, <1>8
  <2>2. LimitIsReal("maxNormalizedFactsPerPackage")
    BY <2>1 DEF LimitIsReal
  <2> QED BY <1>8, <2>2, FailureKeepsInv
<1>9. CASE count > left /\ Fails("maxTotalNormalizedFacts")
  <2>1. Earlier.facts + FactCount > budget.maxTotalNormalizedFacts
    BY <1>4, <1>5, <1>6, <1>9
  <2>2. LimitIsReal("maxTotalNormalizedFacts")
    BY <2>1 DEF LimitIsReal
  <2> QED BY <1>9, <2>2, FailureKeepsInv
<1>10. CASE /\ count <= budget.maxNormalizedFactsPerPackage /\ count <= left
            /\ facts' = exported
            /\ totals' = [totals EXCEPT !.facts = @ + count]
            /\ answer' = "ok" /\ step' = "done"
            /\ UNCHANGED <<inputs, queue, item, toFollow, records, edges, bytes, surfaces>>
  <2>1. text' = text /\ budget' = budget /\ growth' = growth
    BY <1>10 DEF inputs
  <2>2. totals' = [files |-> 1 + Cardinality(records), bytes |-> 1 + bytes, facts |-> 1 + count]
    <3>1. totals = [files |-> 1 + Cardinality(records), bytes |-> 1 + bytes, facts |-> 1]
      BY <1>2, <1>6, <1>7 DEF CountsAreKept
    <3> QED BY <1>10, <3>1
  <2>3. ClosureIsReadWithinBudgets'
    <3>1. /\ records' = Closure' /\ totals'.files = Earlier.files + Cardinality(Closure)'
          /\ totals'.bytes = Earlier.bytes + bytes'
      BY <1>6, <1>7, <1>10, <2>2, SameReference
    <3>2. totals'.facts = Earlier.facts + 1 + Cardinality(Entries) + Cardinality(facts')
      BY <1>4, <1>5, <1>6, <1>10, <2>2 DEF pushed
    <3>3. /\ Cardinality(records') <= budget'.maxDeclarationFilesPerPackage
          /\ bytes' <= budget'.maxDeclarationBytesPerPackage
          /\ totals'.files <= budget'.maxTotalDeclarationFiles
          /\ totals'.bytes <= budget'.maxTotalDeclarationBytes
      BY <1>2, <1>7, <1>10, <2>1, <2>2 DEF CountsAreKept
    <3>4. /\ Cardinality(ReferenceEdges)' <= budget'.maxDeclarationReferenceEdgesPerPackage
      BY <1>2, <1>10, <2>1, SameReference DEF CountsAreKept, GraphIsKept
    <3>5. (AtDistance(budget.maxDeclarationDepth + 1) = {})'
      BY <1>2, <2>1 DEF GraphIsKept, AtDistance
    <3>6. /\ totals'.facts - Earlier.facts <= budget'.maxNormalizedFactsPerPackage
          /\ totals'.facts <= budget'.maxTotalNormalizedFacts
      BY <1>4, <1>5, <1>6, <1>10, <2>1, <2>2
    <3> QED BY <3>1, <3>2, <3>3, <3>4, <3>5, <3>6 DEF ClosureIsReadWithinBudgets
  <2>4. LimitsAreReal'
    BY <1>10 DEF LimitsAreReal
  <2>5. ExportsAreProven'
    <3>1. NamesOf(facts') = ExportedNames'
      BY <1>4, <1>10, SameReference
    <3>2. \A fact \in facts' : \E file \in Entries :
              StandsFor(ReachableOrigins(Shown(text', fact.witness), fact.witness), file, fact.name) # {}
      BY <1>4, <1>10, <2>1
    <3> QED BY <3>1, <3>2 DEF ExportsAreProven, Shown
  <2>6. InputsAreGiven'
    BY <1>2, <1>10, SameReference
  <2> QED BY <1>10, <2>3, <2>4, <2>5, <2>6 DEF WalkInv, Walking
<1> QED BY <1>3, <1>8, <1>9, <1>10

-----------------------------------------------------------------------------
(***************************************************************************)
(* The theorems.                                                           *)
(***************************************************************************)
\* Nothing about a package changes once it is answered.
LEMMA NothingElseKeepsInv ==
    ASSUME WalkInv, UNCHANGED vars
    PROVE  WalkInv'
<1>1. UNCHANGED <<inputs, step, walk, surfaces, facts, answer>>
  BY DEF vars
<1>2. UNCHANGED <<text, place, growth, budget, step, queue, item, toFollow, records, edges, bytes,
                  totals, surfaces, facts, answer>>
  BY <1>1 DEF inputs, walk
<1>3. /\ UNCHANGED inputs /\ step' = step /\ budget' = budget /\ text' = text
  BY <1>1, <1>2
<1>4. InputsAreGiven' = InputsAreGiven
  BY <1>3, SameReference
<1>5. FilesRead' = FilesRead /\ Met' = Met /\ Current' = Current
  BY <1>2 DEF FilesRead, Met, Current
<1>6. CountsAreKept => CountsAreKept'
  BY <1>2, <1>5 DEF CountsAreKept
<1>7. EdgesAreKept => EdgesAreKept'
  BY <1>2, <1>3, SameReference DEF EdgesAreKept
<1>8. InputsAreGiven /\ WalkIsInOrder => WalkIsInOrder'
  <2> HAVE InputsAreGiven /\ WalkIsInOrder
  <2>1. InOrder(queue, records \cup Current)'
    <3>1. queue' = queue /\ (records \cup Current)' = records \cup Current
      BY <1>2, <1>5
    <3> QED BY <1>3, <3>1, SameOrder DEF WalkIsInOrder
  <2>2. \A d : IsLevel(d) => IsLevel(d)'
    BY <1>2, <1>5 DEF IsLevel
  <2>3. step = "take" /\ queue # <<>> => IsLevel(queue[1].depth)'
    BY <1>2, <2>2 DEF WalkIsInOrder
  <2>4. step \in {"read", "follow"} => /\ IsLevel(item.depth)'
                                       /\ item.file' \in AtDistance(item.depth)' \ records'
    <3> HAVE step \in {"read", "follow"}
    <3>1. /\ item \in [file : Files, depth : Nat] /\ item.file \in AtDistance(item.depth) \ records
          /\ IsLevel(item.depth)
      BY DEF WalkIsInOrder
    <3> QED BY <1>2, <1>3, <2>2, <3>1, SameReference
  <2>5. step = "follow" =>
          /\ toFollow' \subseteq ReferencesOf(item.file)'
          /\ \A r \in ReferencesOf(item.file)' \ toFollow' : r[1] \in Met' /\ EdgeId(r)' \in edges'
    <3> HAVE step = "follow"
    <3>1. ReferencesOf(item.file)' = ReferencesOf(item.file)
      BY <1>2, <1>3, SameReference
    <3>2. \A r : EdgeId(r)' = EdgeId(r)
      BY <1>2 DEF EdgeId
    <3> QED BY <1>2, <1>5, <3>1, <3>2 DEF WalkIsInOrder
  <2> QED BY <1>2, <1>3, <1>5, <2>1, <2>3, <2>4, <2>5, SameReference DEF WalkIsInOrder
<1>9. GraphIsKept => GraphIsKept'
  BY <1>2, <1>3, SameReference DEF GraphIsKept, AtDistance
<1>10. GraphIsWhole => GraphIsWhole'
  BY <1>2, <1>3, SameReference DEF GraphIsWhole
<1>11. SurfacesAreProven => SurfacesAreProven'
  BY <1>2 DEF SurfacesAreProven
<1>12. ClosureIsReadWithinBudgets => ClosureIsReadWithinBudgets'
  BY <1>2, <1>3, SameReference DEF ClosureIsReadWithinBudgets, AtDistance
<1>13. LimitsAreReal => LimitsAreReal'
  BY <1>2, <1>3, SameReference DEF LimitsAreReal, AtDistance
<1>14. ExportsAreProven => ExportsAreProven'
  BY <1>2, <1>3, SameReference DEF ExportsAreProven
<1> QED BY <1>2, <1>4, <1>6, <1>7, <1>8, <1>9, <1>10, <1>11, <1>12, <1>13, <1>14 DEF WalkInv, Walking

LEMMA NextKeepsInv ==
    ASSUME WalkInv, [Next]_vars
    PROVE  WalkInv'
<1>1. CASE ResolveEntries BY <1>1, ResolveEntriesKeepsInv
<1>2. CASE SkipRecorded BY <1>2, SkipRecordedKeepsInv
<1>3. CASE TakeNext BY <1>3, TakeNextKeepsInv
<1>4. CASE ReadFile BY <1>4, ReadFileKeepsInv
<1>5. CASE FollowReference BY <1>5, FollowReferenceKeepsInv
<1>6. CASE RecordFile BY <1>6, RecordFileKeepsInv
<1>7. CASE GraphIsRead BY <1>7, GraphIsReadKeepsInv
<1>8. CASE Reexport BY <1>8, ReexportKeepsInv
<1>9. CASE PushFacts BY <1>9, PushFactsKeepsInv
<1>10. CASE Answered BY <1>10, NothingElseKeepsInv DEF Answered
<1>11. CASE UNCHANGED vars BY <1>11, NothingElseKeepsInv
<1> QED BY <1>1, <1>2, <1>3, <1>4, <1>5, <1>6, <1>7, <1>8, <1>9, <1>10, <1>11 DEF Next

\* The walk is always in the order of the distances, its counts and edges are
\* those of the files it has read, and every entry of a surface is proven.
THEOREM WalkIsKept == Spec => []WalkInv
<1>1. Init => WalkInv
  BY InitIsWalkInv
<1>2. WalkInv /\ [Next]_vars => WalkInv'
  BY NextKeepsInv
<1> QED BY <1>1, <1>2, PTL DEF Spec

\* readDeclarationGraph: however the references of a package go round, an
\* answer was made of exactly the files its entries lead to, and all of it was
\* within the budgets, for any number of files and statements.
THEOREM ClosuresAreReadWithinBudgets == Spec => []ClosureIsReadWithinBudgets
<1>1. WalkInv => ClosureIsReadWithinBudgets
  BY DEF WalkInv
<1> QED BY <1>1, WalkIsKept, PTL

\* A package is refused only for a limit its own files go beyond.
THEOREM RefusedLimitsAreReal == Spec => []LimitsAreReal
<1>1. WalkInv => LimitsAreReal
  BY DEF WalkInv
<1> QED BY <1>1, WalkIsKept, PTL

\* declarationSurfaces and packageExportSurface: the loop that stops at two
\* origins of a name, follows the re-exports in any order and forgets all but
\* the least witness exports exactly the names the full closure of the
\* re-exports gives one declaration, and their witnesses show it.
THEOREM ExportedNamesAreProven == Spec => []ExportsAreProven
<1>1. WalkInv => ExportsAreProven
  BY DEF WalkInv
<1> QED BY <1>1, WalkIsKept, PTL

=============================================================================
