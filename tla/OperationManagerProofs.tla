----------------------- MODULE OperationManagerProofs -----------------------
(***************************************************************************)
(* Theorems about the operation manager, for any limits, any set of ids,   *)
(* any number of operations and any calls of close().  The last part is    *)
(* about the DSH service: it adds nothing to what its operation manager    *)
(* does, so it is one, everything proved of the manager holds of it, and   *)
(* the end of the service is a close().  What the service does add, the    *)
(* tools an agent sees, is proved from the registrations.                  *)
(***************************************************************************)
EXTENDS ToolchainService, FiniteSetTheorems, FunctionTheorems, SequenceTheorems,
        TLAPS

(***************************************************************************)
(* What ties an entry to the microtask queue, the Set of tasks and the     *)
(* calls of close().  The properties of OperationManager need it: that a   *)
(* shut down manager is at rest, for one, needs every running operation to *)
(* be among the tasks each waiting close() awaits.                         *)
(***************************************************************************)
TasksInv ==
    /\ \A op \in Ops :
        /\ state[op] = "unborn" => /\ op \notin scheduled \cup running
                                   /\ ~requested[op]
                                   /\ idOf[op] = NoId
        /\ state[op] \in {"unborn", "queued"} => executions[op] = 0
        /\ state[op] \in {"unborn", "queued", "running"} => receipt[op] = "none"
        /\ state[op] = "queued" => op \in scheduled
        /\ state[op] = "running" => op \in running /\ executions[op] = 1
        /\ op \in scheduled => state[op] # "running" /\ executions[op] = 0
    /\ \A c \in Closers :
        /\ closePhase[c] # "idle" => closed
        /\ closePhase[c] = "waiting" =>
               \A op \in Ops : state[op] = "running" => op \in awaited[c]

IInv ==
    /\ TypeOK
    /\ RegistrySound
    /\ RetentionExact
    /\ CapacityRespected
    /\ ExecutionMatchesReceipt
    /\ AbortMatchesRequest
    /\ ShutdownQuiescent
    /\ TasksInv

-----------------------------------------------------------------------------
\* An order of completions that is at most as long as the code lets it grow:
\* what pruning keeps of it.
LEMMA SurplusBounds ==
    ASSUME NEW order \in Seq(Ids)
    PROVE  /\ Surplus(order) \in 0..Len(order)
           /\ Len(order) - Surplus(order) <= MaxRetained
           /\ Len(order) - Surplus(order) \in Nat
BY ManagerAssumption, LenProperties DEF Surplus

\* What n completions exceed the retention by.
Excess(n) == IF n > MaxRetained THEN n - MaxRetained ELSE 0

\* The completed operations that are visible, and the members of two
\* sequences one after the other.
Retained == [i \in 1..Len(completedOrder) |-> entries[completedOrder[i]]]
Joined(s, t, i) == IF i <= Len(s) THEN s[i] ELSE t[i - Len(s)]

\* What is visible is a sequence of operations.
LEMMA RetainedIsASequence ==
    ASSUME TypeOK, RetentionExact
    PROVE  /\ Len(completedOrder) \in Nat
           /\ Retained \in Seq(Ops)
           /\ Len(Retained) = Len(completedOrder)
           /\ \A i \in 1..Len(completedOrder) : Retained[i] = entries[completedOrder[i]]
<1>1. Len(completedOrder) \in Nat
  BY LenProperties DEF TypeOK
<1>2. \A i \in 1..Len(completedOrder) : entries[completedOrder[i]] \in Ops
  BY ElementOfSeq, ManagerAssumption DEF TypeOK, RetentionExact, Ops
<1>3. Retained \in [1..Len(completedOrder) -> Ops]
  BY <1>2 DEF Retained
<1>4. Retained \in Seq(Ops)
  BY <1>1, <1>3, SeqDef
<1> QED BY <1>1, <1>3, <1>4, LenProperties DEF Retained

\* Committing a batch of distinct active operations keeps the Map and the
\* order of completions exact: the batch's ids join the order without
\* repetition, and the keys pruned are the ones that leave the order.  Through
\* the Map the new order leads where the old one and then the batch led, but
\* for the ones that were pruned.
LEMMA CommitKeepsRegistry ==
    ASSUME TypeOK, RegistrySound, RetentionExact,
           NEW batch \in Seq(Ops),
           NEW terminal \in TerminalStates, NEW kind \in Receipts,
           \A i \in 1..Len(batch) : IsActive(batch[i]),
           \A i, j \in 1..Len(batch) : batch[i] = batch[j] => i = j,
           CommitTerminal(batch, terminal, kind), idOf' = idOf
    PROVE  /\ state' \in [Ops -> States]
           /\ receipt' \in [Ops -> Receipts]
           /\ entries' \in [Ids -> 0..MaxStarts]
           /\ completedOrder' \in Seq(Ids)
           /\ RegistrySound'
           /\ RetentionExact'
           /\ \E m, e \in Nat :
                 /\ m = Len(completedOrder) + Len(batch) /\ e = Excess(m)
                 /\ Len(completedOrder') = m - e
                 /\ \A i \in 1..(m - e) :
                        entries'[completedOrder'[i]] = Joined(Retained, batch, e + i)
\* old, new and all are the positions of the order before pruning that the
\* retained completions and the batch take, and all of them; pos gives the
\* position of a member of the batch, and from the old position of one that
\* is kept.
<1> DEFINE n == Len(completedOrder)
           k == Len(batch)
           ids == [i \in 1..k |-> idOf[batch[i]]]
           order == completedOrder \o ids
           s == Surplus(order)
           old == 1..n
           new == 1..k
           all == 1..(n + k)
           gone == 1..s
           kept == 1..((n + k) - s)
           pos(j) == n + j
           from(i) == s + i
<1>1. n \in Nat /\ k \in Nat
  BY LenProperties DEF TypeOK
<1>2. \A j \in new : batch[j] \in Ops /\ IsActive(batch[j])
  BY ElementOfSeq
<1>3. \A j \in new : idOf[batch[j]] \in Ids /\ entries[idOf[batch[j]]] = batch[j]
  BY <1>2 DEF RegistrySound
<1>4. ids \in Seq(Ids) /\ Len(ids) = k
  <2>1. ids \in [1..k -> Ids]
    BY <1>3
  <2>2. ids \in Seq(Ids)
    BY <2>1, <1>1, SeqDef
  <2> QED BY <2>1, <2>2, <1>1, LenProperties
<1>5. /\ order \in Seq(Ids) /\ Len(order) = n + k
      /\ \A i \in all : order[i] = IF i <= n THEN completedOrder[i] ELSE ids[i - n]
  BY <1>1, <1>4, ConcatProperties DEF TypeOK
<1>6. \A i \in old : i \in all /\ order[i] = completedOrder[i]
  BY <1>1, <1>5
<1>7. \A j \in new : pos(j) \in all /\ order[pos(j)] = idOf[batch[j]]
  <2> TAKE j \in new
  <2>1. pos(j) \in all /\ ~(pos(j) <= n) /\ pos(j) - n = j
    BY <1>1
  <2> QED BY <2>1, <1>5
<1>8. \A i \in all : i \in old \/ \E j \in new : i = pos(j)
  <2> TAKE i \in all
  <2>1. i \in old \/ (i - n \in new /\ i = pos(i - n))
    BY <1>1
  <2> QED BY <2>1
<1> HIDE DEF order, ids
<1>9. /\ s \in 0..(n + k)
      /\ (n + k) - s <= MaxRetained
      /\ (n + k) - s \in Nat
  BY <1>5, SurplusBounds
<1>10. s = Excess(n + k)
  BY <1>5 DEF Surplus, Excess
<1> HIDE DEF s
<1>11. /\ \A i \in kept : from(i) \in all /\ from(i) \notin gone
       /\ \A i, j \in kept : from(i) = from(j) => i = j
       /\ gone \subseteq all
  BY <1>1, <1>9
<1>12. \A i \in all : i \in gone \/ \E j \in kept : i = from(j)
  <2> TAKE i \in all
  <2>1. i \in gone \/ (i - s \in kept /\ i = from(i - s))
    BY <1>1, <1>9
  <2> QED BY <2>1
<1>13. /\ completedOrder' \in Seq(Ids)
       /\ Len(completedOrder') = (n + k) - s
       /\ \A i \in kept : completedOrder'[i] = order[from(i)]
  <2>1. completedOrder' = SubSeq(order, s + 1, n + k)
    BY <1>5 DEF CommitTerminal, order, ids, s
  <2>2. s + 1 \in Int /\ n + k \in Int /\ \A i \in (s + 1)..(n + k) : order[i] \in Ids
    BY <1>1, <1>5, <1>9, ElementOfSeq
  <2>3. /\ SubSeq(order, s + 1, n + k) \in Seq(Ids)
        /\ Len(SubSeq(order, s + 1, n + k))
             = IF s + 1 <= n + k THEN (n + k) - (s + 1) + 1 ELSE 0
        /\ \A i \in 1 .. ((n + k) - (s + 1) + 1) :
               SubSeq(order, s + 1, n + k)[i] = order[(s + 1) + i - 1]
    BY <2>2, SubSeqProperties
  <2>4. (n + k) - (s + 1) + 1 = (n + k) - s
    BY <1>1, <1>9
  <2>5. Len(completedOrder') = (n + k) - s
    BY <2>1, <2>3, <2>4, <1>1, <1>9
  <2>6. ASSUME NEW i \in kept
        PROVE  completedOrder'[i] = order[from(i)]
    <3>1. (s + 1) + i - 1 = from(i)
      BY <1>1, <1>9
    <3> QED BY <2>1, <2>3, <2>4, <3>1
  <2> QED BY <2>1, <2>3, <2>5, <2>6
<1>14. /\ entries' \in [Ids -> 0..MaxStarts]
       /\ \A id \in Ids : entries'[id] = IF \E i \in gone : order[i] = id
                                         THEN 0 ELSE entries[id]
  <2>1. entries' = [id \in Ids |-> IF id \in Evicted(order) THEN 0 ELSE entries[id]]
    BY DEF CommitTerminal, order, ids
  <2>2. Evicted(order) = {order[i] : i \in gone}
    BY DEF Evicted, s
  <2>3. 0 \in 0..MaxStarts
    BY ManagerAssumption
  <2> QED BY <2>1, <2>2, <2>3 DEF TypeOK
<1>15. /\ state' \in [Ops -> States]
       /\ receipt' \in [Ops -> Receipts]
       /\ \A op \in Ops : state'[op] = IF \E i \in new : batch[i] = op
                                       THEN terminal ELSE state[op]
  BY DEF CommitTerminal, TypeOK, States
<1>16. /\ \A i \in old : completedOrder[i] \in Ids
       /\ \A i, j \in old : completedOrder[i] = completedOrder[j] => i = j
       /\ \A i \in old : /\ entries[completedOrder[i]] # 0
                         /\ IsTerminal(entries[completedOrder[i]])
       /\ \A id \in Ids : entries[id] # 0 /\ IsTerminal(entries[id])
                          => \E i \in old : completedOrder[i] = id
  BY ElementOfSeq DEF RetentionExact, TypeOK
<1>17. \A i, j \in new : batch[i] = batch[j] => i = j
  OBVIOUS
<1>18. /\ RetentionExact' <=>
              /\ Len(completedOrder') <= MaxRetained
              /\ \A i, j \in 1..Len(completedOrder') :
                     completedOrder'[i] = completedOrder'[j] => i = j
              /\ \A i \in 1..Len(completedOrder') :
                     /\ entries'[completedOrder'[i]] # 0
                     /\ state'[entries'[completedOrder'[i]]] \in TerminalStates
              /\ \A id \in Ids : entries'[id] # 0 /\ state'[entries'[id]] \in TerminalStates
                     => \E i \in 1..Len(completedOrder') : completedOrder'[i] = id
  BY DEF RetentionExact, IsTerminal
<1> HIDE DEF n, k, ids, order, s, old, new, all, gone, kept, pos, from
<1>19. \A i \in all : order[i] \in Ids /\ entries[order[i]] \in Ops
  <2> TAKE i \in all
  <2>1. CASE i \in old
    <3>1. order[i] \in Ids /\ entries[order[i]] # 0
      BY <2>1, <1>6, <1>16
    <3> QED BY <3>1, ManagerAssumption DEF TypeOK, Ops
  <2>2. CASE \E j \in new : i = pos(j)
    BY <2>2, <1>2, <1>3, <1>7
  <2> QED BY <2>1, <2>2, <1>8
<1>20. \A i \in old, j \in new : order[i] # order[pos(j)]
  BY <1>2, <1>3, <1>6, <1>7, <1>16 DEF IsActive, IsTerminal, TerminalStates
<1>21. \A i, j \in all : order[i] = order[j] => i = j
  <2> TAKE i, j \in all
  <2> HAVE order[i] = order[j]
  <2>1. CASE i \in old /\ j \in old
    BY <2>1, <1>6, <1>16
  <2>2. CASE \E a, b \in new : i = pos(a) /\ j = pos(b)
    BY <2>2, <1>3, <1>7, <1>17
  <2> QED BY <2>1, <2>2, <1>8, <1>20
<1>22. \A i \in all : state'[entries[order[i]]] \in TerminalStates
  <2> TAKE i \in all
  <2>1. CASE i \in old
    BY <2>1, <1>6, <1>16, <1>15, <1>19 DEF IsTerminal
  <2>2. CASE \E j \in new : i = pos(j)
    <3>1. PICK j \in new : i = pos(j)
      BY <2>2
    <3>2. entries[order[i]] = batch[j] /\ batch[j] \in Ops
      BY <3>1, <1>2, <1>3, <1>7
    <3> QED BY <3>2, <1>15
  <2> QED BY <2>1, <2>2, <1>8
<1>23. RegistrySound'
  <2>1. ASSUME NEW op \in Ops, IsActive(op)'
        PROVE  idOf[op] \in Ids /\ entries'[idOf[op]] = op
    <3>1. IsActive(op) /\ state'[op] \notin TerminalStates
      BY <2>1, <1>15 DEF IsActive, TerminalStates
    <3>2. idOf[op] \in Ids /\ entries[idOf[op]] = op
      BY <3>1 DEF RegistrySound
    <3>3. ~ \E i \in gone : order[i] = idOf[op]
      BY <3>1, <3>2, <1>11, <1>22
    <3> QED BY <3>2, <3>3, <1>14
  <2>2. ASSUME NEW id \in Ids, entries'[id] # 0
        PROVE  idOf[entries'[id]] = id /\ state'[entries'[id]] # "unborn"
    <3>1. entries'[id] = entries[id] /\ entries[id] \in Ops
      BY <2>2, <1>14, ManagerAssumption DEF TypeOK, Ops
    <3> QED BY <2>2, <3>1, <1>15 DEF RegistrySound, TerminalStates
  <2> QED BY <2>1, <2>2 DEF RegistrySound
<1>24. RetentionExact'
  <2>1. 1..Len(completedOrder') = kept /\ Len(completedOrder') <= MaxRetained
    BY <1>9, <1>13 DEF kept
  <2>2. \A i, j \in kept : completedOrder'[i] = completedOrder'[j] => i = j
    BY <1>11, <1>13, <1>21
  <2>3. ASSUME NEW i \in kept
        PROVE  /\ entries'[completedOrder'[i]] # 0
               /\ state'[entries'[completedOrder'[i]]] \in TerminalStates
    <3>1. completedOrder'[i] = order[from(i)] /\ from(i) \in all /\ from(i) \notin gone
      BY <1>11, <1>13
    <3>2. entries'[order[from(i)]] = entries[order[from(i)]]
      BY <3>1, <1>11, <1>14, <1>19, <1>21
    <3> QED BY <3>1, <3>2, <1>19, <1>22, ManagerAssumption DEF Ops
  <2>4. ASSUME NEW id \in Ids, entries'[id] # 0, state'[entries'[id]] \in TerminalStates
        PROVE  \E i \in kept : completedOrder'[i] = id
    <3>1. entries'[id] = entries[id] /\ entries[id] \in Ops
      BY <2>4, <1>14, ManagerAssumption DEF TypeOK, Ops
    <3>2. idOf[entries[id]] = id
      BY <3>1, <2>4 DEF RegistrySound
    <3>3. \E i \in all : order[i] = id
      <4>1. CASE IsTerminal(entries[id])
        BY <4>1, <3>1, <2>4, <1>6, <1>16
      <4>2. CASE ~IsTerminal(entries[id])
        <5>1. state'[entries[id]] # state[entries[id]]
          BY <4>2, <3>1, <2>4 DEF IsTerminal
        <5>2. PICK i \in new : batch[i] = entries[id]
          BY <5>1, <3>1, <1>15
        <5> QED BY <5>2, <3>2, <1>7
      <4> QED BY <4>1, <4>2
    <3>4. PICK i \in all : order[i] = id
      BY <3>3
    <3>5. i \notin gone
      BY <2>4, <3>4, <1>14
    <3> QED BY <3>4, <3>5, <1>12, <1>13
  <2> QED BY <2>1, <2>2, <2>3, <2>4, <1>18
<1>25. ASSUME NEW i \in kept
       PROVE  entries'[completedOrder'[i]] = Joined(Retained, batch, from(i))
  <2>1. completedOrder'[i] = order[from(i)] /\ from(i) \in all /\ from(i) \notin gone
    BY <1>11, <1>13
  <2>2. entries'[order[from(i)]] = entries[order[from(i)]]
    BY <2>1, <1>11, <1>14, <1>19, <1>21
  <2>3. Len(Retained) = n /\ \A j \in old : Retained[j] = entries[completedOrder[j]]
    BY RetainedIsASequence DEF n, old
  <2>4. CASE from(i) <= n
    <3>1. from(i) \in old
      BY <2>1, <2>4, <1>1 DEF all, old
    <3>2. Joined(Retained, batch, from(i)) = entries[completedOrder[from(i)]]
      BY <3>1, <2>3, <2>4 DEF Joined
    <3> QED BY <3>1, <3>2, <2>1, <2>2, <1>6
  <2>5. CASE ~(from(i) <= n)
    <3>1. from(i) - n \in new /\ pos(from(i) - n) = from(i)
      BY <2>1, <2>5, <1>1 DEF all, new, pos
    <3>2. entries[order[from(i)]] = batch[from(i) - n]
      BY <3>1, <1>3, <1>7
    <3>3. Joined(Retained, batch, from(i)) = batch[from(i) - n]
      BY <2>3, <2>5 DEF Joined
    <3> QED BY <3>2, <3>3, <2>1, <2>2
  <2> QED BY <2>4, <2>5
<1>26. \E m, e \in Nat :
          /\ m = n + k /\ e = Excess(m)
          /\ Len(completedOrder') = m - e
          /\ \A i \in 1..(m - e) :
                 entries'[completedOrder'[i]] = Joined(Retained, batch, e + i)
  <2>1. n + k \in Nat /\ s \in Nat
    BY <1>1, <1>9
  <2>2. ASSUME NEW i \in 1..((n + k) - s)
        PROVE  entries'[completedOrder'[i]] = Joined(Retained, batch, s + i)
    <3>1. i \in kept
      BY DEF kept
    <3>2. entries'[completedOrder'[i]] = Joined(Retained, batch, from(i))
      BY <3>1, <1>25
    <3> QED BY <3>2 DEF from
  <2> DEFINE Leads(m, e) ==
                 /\ Len(completedOrder') = m - e
                 /\ \A i \in 1..(m - e) :
                        entries'[completedOrder'[i]] = Joined(Retained, batch, e + i)
  <2>3. Leads(n + k, s)
    BY <2>2, <1>13
  <2> HIDE DEF Leads
  <2>4. \E m, e \in Nat : m = n + k /\ e = Excess(m) /\ Leads(m, e)
    BY <2>1, <2>3, <1>10
  <2> QED BY <2>4 DEF Leads
<1> QED BY <1>13, <1>14, <1>15, <1>23, <1>24, <1>26 DEF n, k

\* The case of a single operation.
LEMMA CommitOne ==
    ASSUME TypeOK, RegistrySound, RetentionExact, NEW op \in Ops, IsActive(op),
           NEW terminal \in TerminalStates, NEW kind \in Receipts,
           CommitTerminal(<<op>>, terminal, kind), idOf' = idOf
    PROVE  /\ entries' \in [Ids -> 0..MaxStarts]
           /\ completedOrder' \in Seq(Ids)
           /\ state' = [state EXCEPT ![op] = terminal]
           /\ receipt' = [receipt EXCEPT ![op] = kind]
           /\ RegistrySound'
           /\ RetentionExact'
<1>1. <<op>> \in Seq(Ops) /\ Len(<<op>>) = 1 /\ <<op>>[1] = op
  OBVIOUS
<1>2. /\ \A i \in 1..Len(<<op>>) : IsActive(<<op>>[i])
      /\ \A i, j \in 1..Len(<<op>>) : <<op>>[i] = <<op>>[j] => i = j
  BY <1>1
<1>3. {<<op>>[i] : i \in 1..Len(<<op>>)} = {op}
  BY <1>1
<1>4. /\ state' = [state EXCEPT ![op] = terminal]
      /\ receipt' = [receipt EXCEPT ![op] = kind]
  BY <1>3 DEF CommitTerminal, TypeOK
<1> QED BY <1>1, <1>2, <1>4, CommitKeepsRegistry

\* The entries that are not terminal can be counted.
LEMMA ActiveOpsFinite == IsFiniteSet(ActiveOps)
<1>1. 1 \in Int /\ MaxStarts \in Int
  BY ManagerAssumption
<1>2. IsFiniteSet(Ops)
  BY <1>1, FS_Interval DEF Ops
<1>3. ActiveOps \in SUBSET Ops
  BY DEF ActiveOps
<1> QED BY <1>2, <1>3, FS_Subset

\* A step that activates no operation respects the capacity.
LEMMA CapacityKept ==
    ASSUME CapacityRespected, ActiveOps' \subseteq ActiveOps
    PROVE  CapacityRespected'
<1>1. IsFiniteSet(ActiveOps)
  BY ActiveOpsFinite
<1>2. /\ Cardinality(ActiveOps) \in Nat /\ Cardinality(ActiveOps') \in Nat
      /\ Cardinality(ActiveOps') <= Cardinality(ActiveOps)
  BY <1>1, FS_Subset, FS_CardinalityType
<1> QED BY <1>2, ManagerAssumption DEF CapacityRespected

\* Counting the entries of the Map that are not terminal counts the active
\* operations.
LEMMA ActiveIdsCountActiveOps ==
    ASSUME TypeOK, RegistrySound
    PROVE  /\ IsFiniteSet(ActiveOps)
           /\ Cardinality(ActiveOps) = Cardinality(ActiveIds)
<1> DEFINE f == [op \in ActiveOps |-> idOf[op]]
<1>1. IsFiniteSet(ActiveOps)
  BY ActiveOpsFinite
<1>2. \A op \in ActiveOps : /\ idOf[op] \in ActiveIds
                            /\ entries[idOf[op]] = op
  BY ManagerAssumption
     DEF ActiveOps, ActiveIds, RegistrySound, IsActive, IsTerminal, TerminalStates, Ops
<1>3. \A id \in ActiveIds : entries[id] \in ActiveOps /\ idOf[entries[id]] = id
  BY ManagerAssumption
     DEF ActiveOps, ActiveIds, RegistrySound, IsActive, IsTerminal, TypeOK, States, Ops
<1>4. f \in [ActiveOps -> ActiveIds]
  BY <1>2
<1>5. \A a, b \in ActiveOps : f[a] = f[b] => a = b
  BY <1>2
<1>6. \A id \in ActiveIds : \E op \in ActiveOps : f[op] = id
  BY <1>3
<1>7. f \in Bijection(ActiveOps, ActiveIds)
  BY <1>4, <1>5, <1>6, Fun_IsBij
<1>8. ExistsBijection(ActiveOps, ActiveIds)
  BY <1>7 DEF ExistsBijection
<1> QED BY <1>1, <1>8, FS_Bijection

-----------------------------------------------------------------------------
\* Walking the Map, close() meets every active operation.
LEMMA ToAbortIsActive ==
    ASSUME TypeOK, RegistrySound
    PROVE  ToAbort = ActiveOps
<1>1. \A op \in ActiveOps : idOf[op] \in ActiveIds /\ entries[idOf[op]] = op
  BY ManagerAssumption
     DEF ActiveOps, ActiveIds, RegistrySound, IsActive, IsTerminal, TerminalStates, Ops
<1>2. \A id \in ActiveIds : entries[id] \in ActiveOps
  BY ManagerAssumption
     DEF ActiveOps, ActiveIds, RegistrySound, IsActive, IsTerminal, TypeOK, States, Ops
<1> QED BY <1>1, <1>2 DEF ToAbort

\* The operations close() commits, oldest first, are a batch without
\* repetition.
LEMMA EnumerationIsABatch ==
    ASSUME NEW queued \in SUBSET ActiveOps, NEW batch \in Enumeration(queued)
    PROVE  /\ batch \in Seq(Ops)
           /\ Len(batch) = Cardinality(queued)
           /\ \A i \in 1..Len(batch) : batch[i] \in queued
           /\ \A op \in queued : \E i \in 1..Len(batch) : batch[i] = op
           /\ \A i, j \in 1..Len(batch) : batch[i] = batch[j] => i = j
<1> DEFINE n == Cardinality(queued)
<1>1. n \in Nat
  BY ActiveOpsFinite, FS_Subset, FS_CardinalityType
<1>2. /\ batch \in [1..n -> queued]
      /\ \A i, j \in 1..n : i < j => batch[i] < batch[j]
      /\ \A op \in queued : \E i \in 1..n : batch[i] = op
  BY DEF Enumeration
<1>3. n = Cardinality(queued)
  OBVIOUS
<1> HIDE DEF n
<1>4. queued \in SUBSET Ops
  BY DEF ActiveOps
<1>5. batch \in Seq(Ops)
  <2>1. batch \in [1..n -> Ops]
    BY <1>2, <1>4
  <2> QED BY <2>1, <1>1, SeqDef
<1>6. Len(batch) = n
  BY <1>1, <1>2, <1>5, LenProperties
<1>7. ASSUME NEW i \in 1..n, NEW j \in 1..n, batch[i] = batch[j]
      PROVE  i = j
  <2>1. batch[i] \in Ops /\ batch[j] \in Ops
    BY <1>2, <1>4
  <2>2. ~(batch[i] < batch[j]) /\ ~(batch[j] < batch[i])
    BY <2>1, <1>7, ManagerAssumption DEF Ops
  <2>3. ~(i < j) /\ ~(j < i)
    BY <2>2, <1>2
  <2> QED BY <2>3
<1> QED BY <1>2, <1>3, <1>5, <1>6, <1>7

-----------------------------------------------------------------------------
\* A manager just created satisfies the invariant.
LEMMA InitIInv == Init => IInv
<1> SUFFICES ASSUME Init PROVE IInv
  OBVIOUS
<1>1. TypeOK
  <2>1. 0 \in 0..MaxStarts /\ 0 \in Nat /\ <<>> \in Seq(Ids)
    BY ManagerAssumption, EmptySeq
  <2> QED BY <2>1 DEF Init, TypeOK, States, Receipts
<1>2. RegistrySound
  BY DEF Init, RegistrySound, IsActive
<1>3. RetentionExact
  <2>1. Len(completedOrder) = 0
    BY DEF Init
  <2> QED BY <2>1, ManagerAssumption DEF Init, RetentionExact
<1>4. CapacityRespected
  <2>1. ActiveOps = {}
    BY DEF Init, ActiveOps, IsActive
  <2> QED BY <2>1, FS_EmptySet, ManagerAssumption DEF CapacityRespected
<1>5. ExecutionMatchesReceipt /\ AbortMatchesRequest /\ ShutdownQuiescent /\ TasksInv
  BY DEF Init, ExecutionMatchesReceipt, AbortMatchesRequest, ShutdownQuiescent,
         TasksInv, IsTerminal, TerminalStates
<1> QED BY <1>1, <1>2, <1>3, <1>4, <1>5 DEF IInv

\* start keeps the invariant: a free key, a count within the capacity and an
\* open manager are what its three rejections leave.
LEMMA StartStep ==
    ASSUME IInv, NEW op \in Ops, NEW id \in Ids, Start(op, id)
    PROVE  IInv'
<1> USE DEF IInv
<1>1. /\ state' = [state EXCEPT ![op] = "queued"]
      /\ idOf' = [idOf EXCEPT ![op] = id]
      /\ entries' = [entries EXCEPT ![id] = op]
      /\ scheduled' = scheduled \cup {op}
      /\ UNCHANGED <<requested, aborted, receipt, executions, completedOrder,
                     running, closed, closePhase, awaited>>
      /\ ~closed /\ Cardinality(ActiveIds) < MaxActive /\ entries[id] = 0
      /\ state[op] = "unborn"
  BY DEF Start, Accepting, HasCapacity, KeyIsFree, IsNext, closing
<1>2. TypeOK'
  BY <1>1, ManagerAssumption DEF TypeOK, States, Ops
<1>3. \A i \in Ids : entries[i] # op
  BY <1>1, ManagerAssumption DEF RegistrySound, Ops
<1>4. RegistrySound'
  BY <1>1, <1>3, ManagerAssumption DEF TypeOK, RegistrySound, IsActive, Ops
<1>5. RetentionExact'
  <2>1. \A i \in 1..Len(completedOrder) : completedOrder[i] \in Ids
    BY ElementOfSeq DEF TypeOK
  <2>2. \A i \in 1..Len(completedOrder) : completedOrder[i] # id
    BY <1>1 DEF RetentionExact
  <2>3. \A i \in 1..Len(completedOrder) :
            LET o == entries'[completedOrder[i]] IN o # 0 /\ state'[o] \in TerminalStates
    BY <2>1, <2>2, <1>1, <1>3 DEF RetentionExact, TypeOK, IsTerminal
  <2>4. \A i \in Ids : entries'[i] # 0 /\ state'[entries'[i]] \in TerminalStates
            => \E j \in 1..Len(completedOrder) : completedOrder[j] = i
    BY <1>1, <1>3 DEF RetentionExact, TypeOK, IsTerminal, TerminalStates
  <2> QED BY <2>3, <2>4, <1>1 DEF RetentionExact, IsTerminal
<1>6. CapacityRespected'
  <2>1. ActiveOps' = ActiveOps \cup {op} /\ op \notin ActiveOps
    BY <1>1 DEF ActiveOps, IsActive, TypeOK
  <2>2. /\ IsFiniteSet(ActiveOps)
        /\ Cardinality(ActiveOps) < MaxActive
    BY <1>1, ActiveIdsCountActiveOps
  <2>3. Cardinality(ActiveOps') = Cardinality(ActiveOps) + 1
    BY <2>1, <2>2, FS_AddElement
  <2>4. Cardinality(ActiveOps) \in Nat
    BY <2>2, FS_CardinalityType
  <2> QED BY <2>2, <2>3, <2>4, ManagerAssumption DEF CapacityRespected
<1>7. ExecutionMatchesReceipt'
  BY <1>1 DEF TypeOK, ExecutionMatchesReceipt, IsTerminal, TerminalStates
<1>8. AbortMatchesRequest'
  BY <1>1 DEF TypeOK, AbortMatchesRequest, TasksInv
<1>9. ShutdownQuiescent'
  BY <1>1 DEF ShutdownQuiescent, TasksInv
<1>10. TasksInv'
  BY <1>1, ManagerAssumption DEF TypeOK, TasksInv
<1> QED BY <1>2, <1>4, <1>5, <1>6, <1>7, <1>8, <1>9, <1>10

\* A microtask keeps the invariant, whether it finds its entry terminal,
\* aborted or queued.
LEMMA RunMicrotaskStep ==
    ASSUME IInv, NEW op \in Ops, RunMicrotask(op)
    PROVE  IInv'
<1> USE DEF IInv
<1>1. /\ op \in scheduled
      /\ scheduled' = scheduled \ {op}
      /\ running' = running \cup {op}
      /\ UNCHANGED <<idOf, requested, aborted, closed, closePhase, awaited>>
  BY DEF RunMicrotask, IsFirstMicrotask, closing
<1>2. state[op] \notin {"unborn", "running"} /\ executions[op] = 0
  BY <1>1 DEF TasksInv
<1>3. CASE IsTerminal(op)
  <2>1. UNCHANGED <<state, receipt, executions, entries, completedOrder>>
    BY <1>3 DEF RunMicrotask, registry
  <2>2. TypeOK'
    BY <1>1, <2>1 DEF TypeOK
  <2>3. RegistrySound' /\ RetentionExact'
    BY <1>1, <2>1 DEF RegistrySound, RetentionExact, IsActive, IsTerminal
  <2>4. CapacityRespected'
    BY <2>1 DEF CapacityRespected, ActiveOps, IsActive
  <2>5. ExecutionMatchesReceipt' /\ AbortMatchesRequest' /\ ShutdownQuiescent'
    BY <1>1, <2>1 DEF ExecutionMatchesReceipt, AbortMatchesRequest, ShutdownQuiescent,
                      ActiveOps, IsActive, IsTerminal
  <2>6. TasksInv'
    BY <1>1, <1>3, <2>1 DEF TasksInv, IsTerminal, TerminalStates
  <2> QED BY <2>2, <2>3, <2>4, <2>5, <2>6
<1>4. CASE ~IsTerminal(op)
  <2>1. state[op] = "queued" /\ ~aborted[op] /\ ~closed
    BY <1>2, <1>4 DEF TypeOK, States, IsTerminal, AbortMatchesRequest
  <2>2. /\ state' = [state EXCEPT ![op] = "running"]
        /\ executions' = [executions EXCEPT ![op] = 1]
        /\ UNCHANGED <<receipt, entries, completedOrder>>
    BY <1>2, <1>4, <2>1 DEF RunMicrotask, registry
  <2>3. TypeOK'
    BY <1>1, <2>2 DEF TypeOK, States
  <2>4. RegistrySound'
    BY <1>1, <2>1, <2>2, ManagerAssumption DEF RegistrySound, IsActive, TypeOK, Ops
  <2>5. RetentionExact'
    <3>1. \A o \in 0..MaxStarts : o # 0 =>
              (state'[o] \in TerminalStates <=> state[o] \in TerminalStates)
      BY <2>1, <2>2, ManagerAssumption DEF TypeOK, TerminalStates, Ops
    <3>2. \A i \in 1..Len(completedOrder) : completedOrder[i] \in Ids
      BY ElementOfSeq DEF TypeOK
    <3> QED BY <2>2, <3>1, <3>2 DEF TypeOK, RetentionExact, IsTerminal
  <2>6. CapacityRespected'
    <3>1. ActiveOps' \subseteq ActiveOps
      BY <2>1, <2>2 DEF ActiveOps, IsActive, TypeOK
    <3> QED BY <3>1, CapacityKept
  <2>7. ExecutionMatchesReceipt'
    BY <2>1, <2>2, <1>1 DEF TypeOK, ExecutionMatchesReceipt, IsTerminal, TerminalStates
  <2>8. AbortMatchesRequest'
    BY <1>1, <2>1, <2>2 DEF TypeOK, AbortMatchesRequest
  <2>9. ShutdownQuiescent'
    BY <1>1, <2>1 DEF ShutdownQuiescent
  <2>10. TasksInv'
    BY <1>1, <2>1, <2>2 DEF TypeOK, TasksInv
  <2> QED BY <2>3, <2>4, <2>5, <2>6, <2>7, <2>8, <2>9, <2>10
<1> QED BY <1>3, <1>4

\* The settling of options.execute keeps the invariant.
LEMMA SettleStep ==
    ASSUME IInv, NEW op \in Ops, NEW kind \in Receipts, Settle(op, kind)
    PROVE  IInv'
<1> USE DEF IInv
<1>1. /\ state[op] = "running"
      /\ kind \in {"report", "cancelledReport", "failure", "diagnostic"}
      /\ kind = "cancelledReport" => aborted[op]
      /\ CommitTerminal(<<op>>, TerminalOf(op, kind), kind)
      /\ UNCHANGED <<idOf, requested, aborted, executions, scheduled, running,
                     closed, closePhase, awaited>>
  BY DEF Settle, Settlements, closing
<1> DEFINE terminal == TerminalOf(op, kind)
<1>2. /\ terminal \in TerminalStates
      /\ terminal = "cancelled" <=> kind = "cancelledReport"
  BY <1>1 DEF TerminalOf, TerminalStates
<1> HIDE DEF terminal
<1>3. CommitTerminal(<<op>>, terminal, kind)
  BY <1>1 DEF terminal
<1>4. /\ entries' \in [Ids -> 0..MaxStarts]
      /\ completedOrder' \in Seq(Ids)
      /\ state' = [state EXCEPT ![op] = terminal]
      /\ receipt' = [receipt EXCEPT ![op] = kind]
      /\ RegistrySound'
      /\ RetentionExact'
  BY <1>1, <1>2, <1>3, CommitOne DEF IsActive
<1>5. TypeOK'
  BY <1>1, <1>2, <1>4 DEF TypeOK, States
<1>6. CapacityRespected'
  <2>1. ActiveOps' \subseteq ActiveOps
    BY <1>2, <1>4 DEF ActiveOps, IsActive, TypeOK, TerminalStates
  <2> QED BY <2>1, CapacityKept
<1>7. ExecutionMatchesReceipt'
  <2>1. executions[op] = 1
    BY <1>1 DEF TasksInv
  <2>2. aborted[op] = requested[op]
    BY DEF AbortMatchesRequest
  <2> QED
    BY <1>1, <1>2, <1>4, <2>1, <2>2
       DEF TypeOK, ExecutionMatchesReceipt, IsTerminal, TerminalStates
<1>8. AbortMatchesRequest'
  BY <1>1, <1>2, <1>4 DEF TypeOK, AbortMatchesRequest, TerminalStates
<1>9. ShutdownQuiescent'
  BY <1>1 DEF ShutdownQuiescent, ActiveOps, IsActive
<1>10. TasksInv'
  BY <1>1, <1>2, <1>4 DEF TypeOK, TasksInv, TerminalStates
<1> QED BY <1>4, <1>5, <1>6, <1>7, <1>8, <1>9, <1>10

\* A task that leaves the Set running keeps the invariant: its entry is
\* terminal, so no close() that comes later needs to await it.
LEMMA FinallyTaskStep ==
    ASSUME IInv, NEW op \in Ops, FinallyTask(op)
    PROVE  IInv'
<1> USE DEF IInv
<1>1. /\ state[op] \in TerminalStates
      /\ running' = running \ {op}
      /\ UNCHANGED <<state, idOf, requested, aborted, receipt, executions,
                     entries, completedOrder, scheduled, closed, closePhase, awaited>>
  BY DEF FinallyTask, TaskSettled, IsTerminal, registry, closing
<1>2. TypeOK'
  BY <1>1 DEF TypeOK
<1>3. RegistrySound' /\ RetentionExact'
  BY <1>1 DEF RegistrySound, RetentionExact, IsActive, IsTerminal
<1>4. CapacityRespected'
  BY <1>1 DEF CapacityRespected, ActiveOps, IsActive
<1>5. ExecutionMatchesReceipt' /\ AbortMatchesRequest' /\ ShutdownQuiescent'
  BY <1>1 DEF ExecutionMatchesReceipt, AbortMatchesRequest, ShutdownQuiescent,
              ActiveOps, IsActive, IsTerminal
<1>6. TasksInv'
  BY <1>1 DEF TasksInv, TerminalStates
<1> QED BY <1>2, <1>3, <1>4, <1>5, <1>6

\* cancel keeps the invariant, of a queued and of a running operation.
LEMMA CancelStep ==
    ASSUME IInv, NEW id \in Ids, Cancel(id)
    PROVE  IInv'
<1> USE DEF IInv
<1> DEFINE op == entries[id]
<1>1. /\ op # 0 /\ ~IsTerminal(op)
      /\ requested' = [requested EXCEPT ![op] = TRUE]
      /\ aborted' = [aborted EXCEPT ![op] = TRUE]
      /\ IF state[op] = "queued"
         THEN CommitTerminal(<<op>>, "cancelled", "none")
         ELSE UNCHANGED <<state, receipt, entries, completedOrder>>
      /\ UNCHANGED <<idOf, executions, scheduled, running, closed, closePhase, awaited>>
  BY DEF Cancel, Cancellable, registry, closing
<1>2. op \in Ops /\ IsActive(op)
  BY <1>1, ManagerAssumption
     DEF TypeOK, Ops, States, IsTerminal, IsActive, RegistrySound
<1> HIDE DEF op
<1>3. CASE state[op] = "queued"
  <2>1. /\ entries' \in [Ids -> 0..MaxStarts]
        /\ completedOrder' \in Seq(Ids)
        /\ state' = [state EXCEPT ![op] = "cancelled"]
        /\ receipt' = [receipt EXCEPT ![op] = "none"]
        /\ RegistrySound'
        /\ RetentionExact'
    BY <1>1, <1>2, <1>3, CommitOne DEF TerminalStates, Receipts
  <2>2. TypeOK'
    BY <1>1, <2>1 DEF TypeOK, States, TerminalStates, Receipts
  <2>3. CapacityRespected'
    <3>1. ActiveOps' \subseteq ActiveOps
      BY <2>1 DEF ActiveOps, IsActive, TypeOK
    <3> QED BY <3>1, CapacityKept
  <2>4. ExecutionMatchesReceipt'
    <3>1. executions[op] = 0
      BY <1>2, <1>3 DEF TasksInv
    <3> QED
      BY <1>1, <1>2, <2>1, <3>1
         DEF TypeOK, ExecutionMatchesReceipt, IsTerminal, TerminalStates
  <2>5. AbortMatchesRequest'
    BY <1>1, <1>2, <2>1 DEF TypeOK, AbortMatchesRequest
  <2>6. ShutdownQuiescent'
    BY <1>1, <1>2 DEF ShutdownQuiescent, ActiveOps
  <2>7. TasksInv'
    BY <1>1, <1>2, <1>3, <2>1 DEF TypeOK, TasksInv
  <2> QED BY <2>1, <2>2, <2>3, <2>4, <2>5, <2>6, <2>7
<1>4. CASE state[op] # "queued"
  <2>1. UNCHANGED <<state, receipt, entries, completedOrder>> /\ state[op] = "running"
    BY <1>1, <1>2, <1>4 DEF IsActive
  <2>2. TypeOK'
    BY <1>1, <2>1 DEF TypeOK
  <2>3. RegistrySound' /\ RetentionExact'
    BY <1>1, <2>1 DEF RegistrySound, RetentionExact, IsActive, IsTerminal
  <2>4. CapacityRespected'
    BY <2>1 DEF CapacityRespected, ActiveOps, IsActive
  <2>5. ExecutionMatchesReceipt' /\ AbortMatchesRequest' /\ ShutdownQuiescent'
    BY <1>1, <1>2, <2>1
       DEF TypeOK, ExecutionMatchesReceipt, AbortMatchesRequest, ShutdownQuiescent,
           ActiveOps, IsActive, IsTerminal, TerminalStates
  <2>6. TasksInv'
    BY <1>1, <1>2, <2>1 DEF TypeOK, TasksInv
  <2> QED BY <2>2, <2>3, <2>4, <2>5, <2>6
<1> QED BY <1>3, <1>4

\* close() up to its await keeps the invariant: the batch of queued
\* operations is committed, and what still runs is aborted and awaited.
LEMMA CloseStep ==
    ASSUME IInv, NEW c \in Closers, Close(c)
    PROVE  IInv'
<1> USE DEF IInv
<1> DEFINE queued == {op \in ToAbort : state[op] = "queued"}
<1>1. PICK batch \in Enumeration(queued) : CommitTerminal(batch, "cancelled", "none")
  BY DEF Close
<1>2. /\ closed' = TRUE
      /\ requested' = [op \in Ops |-> requested[op] \/ op \in ToAbort]
      /\ aborted' = [op \in Ops |-> aborted[op] \/ op \in ToAbort]
      /\ closePhase' = [closePhase EXCEPT ![c] = "waiting"]
      /\ awaited' = [awaited EXCEPT ![c] = running]
      /\ closePhase[c] = "idle"
      /\ UNCHANGED <<idOf, executions, scheduled, running>>
  BY DEF Close, ToAwait
<1>3. ToAbort = ActiveOps
  BY ToAbortIsActive
<1>4. queued = {op \in Ops : state[op] = "queued"} /\ queued \in SUBSET ActiveOps
  BY <1>3 DEF ActiveOps, IsActive
<1> HIDE DEF queued
<1>5. /\ batch \in Seq(Ops)
      /\ \A i \in 1..Len(batch) : batch[i] \in queued
      /\ \A op \in queued : \E i \in 1..Len(batch) : batch[i] = op
      /\ \A i, j \in 1..Len(batch) : batch[i] = batch[j] => i = j
  BY <1>1, <1>4, EnumerationIsABatch
<1>6. /\ entries' \in [Ids -> 0..MaxStarts]
      /\ completedOrder' \in Seq(Ids)
      /\ state' \in [Ops -> States]
      /\ receipt' \in [Ops -> Receipts]
      /\ RegistrySound'
      /\ RetentionExact'
  <2>1. \A i \in 1..Len(batch) : IsActive(batch[i])
    BY <1>4, <1>5 DEF ActiveOps
  <2> QED BY <1>1, <1>2, <1>5, <2>1, CommitKeepsRegistry DEF TerminalStates, Receipts
<1>7. \A op \in Ops : /\ state'[op] = IF state[op] = "queued" THEN "cancelled" ELSE state[op]
                      /\ receipt'[op] = receipt[op]
  <2>1. {batch[i] : i \in 1..Len(batch)} = queued
    BY <1>5
  <2>2. \A op \in Ops : /\ state'[op] = IF op \in queued THEN "cancelled" ELSE state[op]
                        /\ receipt'[op] = IF op \in queued THEN "none" ELSE receipt[op]
    BY <1>1, <2>1 DEF CommitTerminal
  <2>3. \A op \in queued : receipt[op] = "none"
    BY <1>4 DEF TasksInv
  <2> QED BY <2>2, <2>3, <1>4
<1>8. TypeOK'
  BY <1>2, <1>6, ManagerAssumption DEF TypeOK
<1>9. CapacityRespected'
  <2>1. ActiveOps' \subseteq ActiveOps
    BY <1>7 DEF ActiveOps, IsActive
  <2> QED BY <2>1, CapacityKept
<1>10. \A op \in Ops : /\ requested'[op] = (requested[op] \/ IsActive(op))
                       /\ aborted'[op] = (aborted[op] \/ IsActive(op))
  BY <1>2, <1>3 DEF ActiveOps
<1>11. ExecutionMatchesReceipt'
  <2> SUFFICES ASSUME NEW op \in Ops
               PROVE  /\ executions[op] <= 1
                      /\ state'[op] \in TerminalStates =>
                             (executions[op] = 0) = (receipt[op] = "none")
                      /\ state'[op] = "cancelled" =>
                             requested'[op] /\ receipt[op] \in {"none", "cancelledReport"}
                      /\ state'[op] \in {"succeeded", "failed"} =>
                             receipt[op] \in {"report", "failure", "diagnostic"}
    BY <1>2, <1>7 DEF ExecutionMatchesReceipt, IsTerminal
  <2>1. CASE state[op] = "queued"
    <3>1. /\ state'[op] = "cancelled" /\ requested'[op]
          /\ executions[op] = 0 /\ receipt[op] = "none"
      BY <2>1, <1>7, <1>10 DEF TasksInv, IsActive
    <3> QED BY <3>1
  <2>2. CASE state[op] # "queued"
    <3>1. state'[op] = state[op] /\ (requested[op] => requested'[op])
      BY <2>2, <1>7, <1>10
    <3> QED BY <3>1 DEF ExecutionMatchesReceipt, IsTerminal
  <2> QED BY <2>1, <2>2
<1>12. AbortMatchesRequest'
  BY <1>2, <1>7, <1>10 DEF AbortMatchesRequest, IsActive
<1>13. ShutdownQuiescent'
  <2>1. ActiveOps' \subseteq ActiveOps
    BY <1>7 DEF ActiveOps, IsActive
  <2> QED BY <2>1, <1>2 DEF ShutdownQuiescent, TypeOK
<1>14. TasksInv'
  <2>1. ASSUME NEW op \in Ops
        PROVE  /\ state'[op] = "unborn" => /\ op \notin scheduled \cup running
                                           /\ ~requested'[op]
                                           /\ idOf[op] = NoId
               /\ state'[op] \in {"unborn", "queued"} => executions[op] = 0
               /\ state'[op] \in {"unborn", "queued", "running"} => receipt[op] = "none"
               /\ state'[op] # "queued"
               /\ state'[op] = "running" => op \in running /\ executions[op] = 1
               /\ op \in scheduled => state'[op] # "running" /\ executions[op] = 0
    BY <1>7, <1>10 DEF TasksInv, IsActive
  <2>2. ASSUME NEW d \in Closers, closePhase'[d] = "waiting", NEW op \in Ops,
               state'[op] = "running"
        PROVE  op \in awaited'[d]
    <3>1. state[op] = "running" /\ op \in running
      BY <2>1, <2>2, <1>7
    <3> QED BY <3>1, <2>2, <1>2 DEF TypeOK, TasksInv
  <2> QED BY <2>1, <2>2, <1>2, <1>7 DEF TasksInv
<1> QED BY <1>6, <1>8, <1>9, <1>11, <1>12, <1>13, <1>14

\* The return of close() keeps the invariant: with every awaited task
\* settled nothing is left active.
LEMMA CloseReturnsStep ==
    ASSUME IInv, NEW c \in Closers, CloseReturns(c)
    PROVE  IInv'
<1> USE DEF IInv
<1>1. /\ closePhase[c] = "waiting"
      /\ \A op \in awaited[c] : state[op] \in TerminalStates
      /\ closePhase' = [closePhase EXCEPT ![c] = "returned"]
      /\ UNCHANGED <<state, idOf, requested, aborted, receipt, executions,
                     entries, completedOrder, scheduled, running, closed, awaited>>
  BY DEF CloseReturns, IsTerminal, registry
<1>2. TypeOK'
  BY <1>1 DEF TypeOK
<1>3. RegistrySound' /\ RetentionExact'
  BY <1>1 DEF RegistrySound, RetentionExact, IsActive, IsTerminal
<1>4. CapacityRespected'
  BY <1>1 DEF CapacityRespected, ActiveOps, IsActive
<1>5. ExecutionMatchesReceipt' /\ AbortMatchesRequest'
  BY <1>1 DEF ExecutionMatchesReceipt, AbortMatchesRequest, IsTerminal
<1>6. ShutdownQuiescent'
  <2>1. closed /\ \A op \in Ops : state[op] # "queued" /\ state[op] # "running"
    BY <1>1 DEF TasksInv, AbortMatchesRequest, TerminalStates
  <2>2. ActiveOps' = {}
    BY <2>1, <1>1 DEF ActiveOps, IsActive
  <2> QED BY <2>1, <2>2, <1>1 DEF ShutdownQuiescent
<1>7. TasksInv'
  BY <1>1 DEF TypeOK, TasksInv
<1> QED BY <1>2, <1>3, <1>4, <1>5, <1>6, <1>7

\* Every step of the manager keeps the invariant.
LEMMA NextIInv == IInv /\ [Next]_vars => IInv'
<1> SUFFICES ASSUME IInv, [Next]_vars PROVE IInv'
  OBVIOUS
<1>1. ASSUME NEW op \in Ops, NEW id \in Ids, Start(op, id) PROVE IInv'
  BY <1>1, StartStep
<1>2. ASSUME NEW op \in Ops, RunMicrotask(op) PROVE IInv'
  BY <1>2, RunMicrotaskStep
<1>3. ASSUME NEW op \in Ops, NEW kind \in Receipts, Settle(op, kind) PROVE IInv'
  BY <1>3, SettleStep
<1>4. ASSUME NEW op \in Ops, FinallyTask(op) PROVE IInv'
  BY <1>4, FinallyTaskStep
<1>5. ASSUME NEW id \in Ids, Cancel(id) PROVE IInv'
  BY <1>5, CancelStep
<1>6. ASSUME NEW c \in Closers, Close(c) PROVE IInv'
  BY <1>6, CloseStep
<1>7. ASSUME NEW c \in Closers, CloseReturns(c) PROVE IInv'
  BY <1>7, CloseReturnsStep
<1>8. CASE UNCHANGED vars
  BY <1>8 DEF vars, IInv, TypeOK, RegistrySound, RetentionExact, CapacityRespected,
              ExecutionMatchesReceipt, AbortMatchesRequest, ShutdownQuiescent,
              TasksInv, ActiveOps, IsActive, IsTerminal
<1> QED BY <1>1, <1>2, <1>3, <1>4, <1>5, <1>6, <1>7, <1>8 DEF Next

\* The invariant holds throughout.
THEOREM Invariance == Spec => []IInv
<1>1. Init => IInv
  BY InitIInv
<1>2. IInv /\ [Next]_vars => IInv'
  BY NextIInv
<1> QED BY <1>1, <1>2, PTL DEF Spec

\* Every variable keeps to its type.
THEOREM TypeCorrect == Spec => []TypeOK
<1>1. IInv => TypeOK
  BY DEF IInv
<1> QED BY <1>1, Invariance, PTL

\* Ids lead to the operations they were returned for, however many
\* completions the Map was pruned of.
THEOREM RegistryIsSound == Spec => []RegistrySound
<1>1. IInv => RegistrySound
  BY DEF IInv
<1> QED BY <1>1, Invariance, PTL

\* Exactly the last completed operations are retained.
THEOREM RetentionIsExact == Spec => []RetentionExact
<1>1. IInv => RetentionExact
  BY DEF IInv
<1> QED BY <1>1, Invariance, PTL

\* Counting keys bounds the operations: the capacity is respected.
THEOREM CapacityIsRespected == Spec => []CapacityRespected
<1>1. IInv => CapacityRespected
  BY DEF IInv
<1> QED BY <1>1, Invariance, PTL

\* An operation is executed at most once, and its terminal state is the one
\* its receipt calls for.
THEOREM ReceiptsAreHonest == Spec => []ExecutionMatchesReceipt
<1>1. IInv => ExecutionMatchesReceipt
  BY DEF IInv
<1> QED BY <1>1, Invariance, PTL

\* The signal is aborted for those, and only those, asked to stop.
THEOREM AbortsAreRequested == Spec => []AbortMatchesRequest
<1>1. IInv => AbortMatchesRequest
  BY DEF IInv
<1> QED BY <1>1, Invariance, PTL

\* When close() has returned the manager is at rest.
THEOREM ShutdownIsQuiescent == Spec => []ShutdownQuiescent
<1>1. IInv => ShutdownQuiescent
  BY DEF IInv
<1> QED BY <1>1, Invariance, PTL

-----------------------------------------------------------------------------
\* A terminal entry is never written again, by any step.
THEOREM TerminalStaysFinal == Spec => TerminalIsFinal
<1> DEFINE Final == \A op \in Ops : IsTerminal(op) =>
                        /\ state'[op] = state[op]
                        /\ receipt'[op] = receipt[op]
                        /\ requested'[op] = requested[op]
<1>1. ASSUME IInv, Next PROVE Final
  <2> SUFFICES ASSUME NEW op \in Ops, IsTerminal(op)
               PROVE  /\ state'[op] = state[op]
                      /\ receipt'[op] = receipt[op]
                      /\ requested'[op] = requested[op]
    OBVIOUS
  <2> USE <1>1 DEF IInv, TypeOK
  <2>0. state[op] \in TerminalStates /\ state[op] \notin {"unborn", "queued", "running"}
    BY DEF IsTerminal, TerminalStates
  <2>1. ASSUME NEW other \in Ops, NEW terminal, NEW kind, other # op,
               CommitTerminal(<<other>>, terminal, kind)
        PROVE  state'[op] = state[op] /\ receipt'[op] = receipt[op]
    <3>1. Len(<<other>>) = 1 /\ <<other>>[1] = other
      OBVIOUS
    <3>2. {<<other>>[i] : i \in 1..Len(<<other>>)} = {other}
      BY <3>1
    <3> QED BY <2>1, <3>2 DEF CommitTerminal
  <2>2. ASSUME NEW other \in Ops, NEW id \in Ids, Start(other, id)
        PROVE  /\ state'[op] = state[op]
               /\ receipt'[op] = receipt[op]
               /\ requested'[op] = requested[op]
    BY <2>0, <2>2 DEF Start, IsNext
  <2>3. ASSUME NEW other \in Ops, RunMicrotask(other)
        PROVE  /\ state'[op] = state[op]
               /\ receipt'[op] = receipt[op]
               /\ requested'[op] = requested[op]
    <3>1. requested' = requested
      BY <2>3 DEF RunMicrotask
    <3>2. CASE IsTerminal(other)
      BY <3>1, <3>2, <2>3 DEF RunMicrotask
    <3>3. CASE ~IsTerminal(other) /\ aborted[other]
      BY <3>1, <3>3, <2>3, <2>1 DEF RunMicrotask
    <3>4. CASE ~IsTerminal(other) /\ ~aborted[other]
      BY <3>1, <3>4, <2>3 DEF RunMicrotask
    <3> QED BY <3>2, <3>3, <3>4
  <2>4. ASSUME NEW other \in Ops, NEW kind \in Receipts, Settle(other, kind)
        PROVE  /\ state'[op] = state[op]
               /\ receipt'[op] = receipt[op]
               /\ requested'[op] = requested[op]
    BY <2>0, <2>1, <2>4 DEF Settle
  <2>5. ASSUME NEW other \in Ops, FinallyTask(other)
        PROVE  /\ state'[op] = state[op]
               /\ receipt'[op] = receipt[op]
               /\ requested'[op] = requested[op]
    BY <2>5 DEF FinallyTask
  <2>6. ASSUME NEW id \in Ids, Cancel(id)
        PROVE  /\ state'[op] = state[op]
               /\ receipt'[op] = receipt[op]
               /\ requested'[op] = requested[op]
    <3>1. entries[id] \in Ops /\ entries[id] # op
      BY <2>6, ManagerAssumption DEF Cancel, Cancellable, Ops
    <3> QED BY <3>1, <2>1, <2>6 DEF Cancel
  <2>7. ASSUME NEW c \in Closers, Close(c)
        PROVE  /\ state'[op] = state[op]
               /\ receipt'[op] = receipt[op]
               /\ requested'[op] = requested[op]
    <3>1. op \notin ToAbort
      BY DEF ToAbort, ActiveIds
    <3> DEFINE queued == {other \in ToAbort : state[other] = "queued"}
    <3>2. PICK batch \in Enumeration(queued) : CommitTerminal(batch, "cancelled", "none")
      BY <2>7 DEF Close
    <3>3. \A i \in 1..Len(batch) : batch[i] # op
      <4>1. queued \subseteq ActiveOps
        BY ManagerAssumption DEF ToAbort, ActiveIds, ActiveOps, IsActive, Ops
      <4>5. op \notin queued
        BY <3>1
      <4>6. \A i \in 1..Len(batch) : batch[i] \in queued
        BY <3>2, <4>1, EnumerationIsABatch
      <4> QED BY <4>5, <4>6
    <3>4. op \notin {batch[i] : i \in 1..Len(batch)}
      BY <3>3
    <3>5. state'[op] = state[op] /\ receipt'[op] = receipt[op]
      BY <3>2, <3>4 DEF CommitTerminal
    <3> QED BY <3>1, <3>5, <2>7 DEF Close
  <2>8. ASSUME NEW c \in Closers, CloseReturns(c)
        PROVE  /\ state'[op] = state[op]
               /\ receipt'[op] = receipt[op]
               /\ requested'[op] = requested[op]
    BY <2>8 DEF CloseReturns
  <2> QED BY <2>2, <2>3, <2>4, <2>5, <2>6, <2>7, <2>8 DEF Next
<1>2. IInv /\ [Next]_vars => [Final]_vars
  BY <1>1
<1> QED BY <1>2, Invariance, PTL DEF Spec, TerminalIsFinal

\* No step executes an operation in a closed manager, or opens it again.
THEOREM ClosedExecutesNothing == Spec => NoExecutionAfterClose
<1>1. ASSUME IInv, Next, closed PROVE executions' = executions /\ closed'
  <2> USE <1>1
  <2>1. ASSUME NEW op \in Ops, RunMicrotask(op) PROVE executions' = executions
    <3>1. state[op] # "unborn" /\ state[op] # "running" /\ state[op] # "queued"
      BY <2>1 DEF RunMicrotask, IsFirstMicrotask, IInv, TasksInv, AbortMatchesRequest
    <3>2. IsTerminal(op)
      BY <3>1 DEF IInv, TypeOK, States, IsTerminal
    <3> QED BY <2>1, <3>2 DEF RunMicrotask
  <2> QED BY <2>1 DEF Next, Start, Accepting, RunMicrotask, Settle, FinallyTask, Cancel,
                      Close, CloseReturns, closing
<1>2. IInv /\ [Next]_vars => [closed => executions' = executions /\ closed']_vars
  BY <1>1
<1> QED BY <1>2, Invariance, PTL DEF Spec, NoExecutionAfterClose

\* A key never passes directly from one operation to another.
THEOREM IdsStayWithTheirOperation == Spec => IdsNotTakenOver
<1> DEFINE Kept == \A id \in Ids : entries[id] # 0 => entries'[id] \in {0, entries[id]}
<1>1. ASSUME IInv, Next PROVE Kept
  <2> USE <1>1 DEF IInv, TypeOK
  <2>1. ASSUME NEW batch, NEW terminal, NEW kind, CommitTerminal(batch, terminal, kind)
        PROVE  Kept
    BY <2>1 DEF CommitTerminal
  <2>2. ASSUME NEW op \in Ops, NEW id \in Ids, Start(op, id) PROVE Kept
    BY <2>2 DEF Start, KeyIsFree
  <2>3. CASE UNCHANGED entries
    BY <2>3
  <2> QED BY <2>1, <2>2, <2>3 DEF Next, RunMicrotask, Settle, FinallyTask, Cancel, Close,
                                  CloseReturns, registry
<1>2. IInv /\ [Next]_vars => [Kept]_vars
  BY <1>1
<1> QED BY <1>2, Invariance, PTL DEF Spec, IdsNotTakenOver

\* Operations begin in the order they were accepted in: every queued one
\* still has its microtask, and microtasks run oldest first.
THEOREM BeginningIsOrdered == Spec => BeginsInOrder
<1> DEFINE Ordered == \A op \in Ops : state[op] = "queued" /\ state'[op] = "running" =>
                          \A older \in Ops : older < op => state[older] # "queued"
<1>1. ASSUME IInv, Next PROVE Ordered
  <2> USE <1>1 DEF IInv, TypeOK
  <2> SUFFICES ASSUME NEW op \in Ops, state[op] = "queued", state'[op] = "running",
                      NEW older \in Ops, older < op, state[older] = "queued"
               PROVE  FALSE
    OBVIOUS
  <2>1. older \in scheduled
    BY DEF TasksInv
  <2>2. ASSUME NEW batch, NEW terminal \in TerminalStates, NEW kind,
               CommitTerminal(batch, terminal, kind)
        PROVE  FALSE
    BY <2>2 DEF CommitTerminal, TerminalStates
  <2>3. ASSUME NEW other \in Ops, NEW id \in Ids, Start(other, id) PROVE FALSE
    BY <2>3 DEF Start
  <2>4. ASSUME NEW other \in Ops, RunMicrotask(other) PROVE FALSE
    <3>1. other <= older
      BY <2>1, <2>4 DEF RunMicrotask, IsFirstMicrotask
    <3>2. other # op
      BY <3>1 DEF Ops
    <3> QED BY <3>2, <2>2, <2>4 DEF RunMicrotask, TerminalStates
  <2>5. ASSUME NEW other \in Ops, NEW kind \in Receipts, Settle(other, kind) PROVE FALSE
    BY <2>2, <2>5 DEF Settle, TerminalOf, TerminalStates
  <2>6. ASSUME NEW id \in Ids, Cancel(id) PROVE FALSE
    BY <2>2, <2>6 DEF Cancel, TerminalStates
  <2>7. ASSUME NEW c \in Closers, Close(c) PROVE FALSE
    BY <2>2, <2>7 DEF Close, TerminalStates
  <2>8. CASE UNCHANGED state
    BY <2>8
  <2> QED BY <2>3, <2>4, <2>5, <2>6, <2>7, <2>8 DEF Next, FinallyTask, CloseReturns
<1>2. IInv /\ [Next]_vars => [Ordered]_vars
  BY <1>1
<1> QED BY <1>2, Invariance, PTL DEF Spec, BeginsInOrder

-----------------------------------------------------------------------------
(***************************************************************************)
(* The manager implements OperationLifecycle: initial states map to        *)
(* initial states, and each step to a step of the abstract specification   *)
(* or to none.  What is visible to callers is read through the Map.        *)
(***************************************************************************)
\* The last ones of a sequence that was extended.
LEMMA LastOfConcat ==
    ASSUME NEW s \in Seq(Ops), NEW t \in Seq(Ops)
    PROVE  \E last \in Seq(Ops), n, e \in Nat :
              /\ last = Lifecycle!LastOf(MaxRetained, s \o t)
              /\ n = Len(s) + Len(t) /\ e = Excess(n) /\ e \in 0..n
              /\ Len(last) = n - e
              /\ \A i \in 1..(n - e) : last[i] = Joined(s, t, e + i)
<1> DEFINE n == Len(s) + Len(t)
           all == s \o t
           e == Excess(n)
           last == Lifecycle!LastOf(MaxRetained, all)
<1>1. n \in Nat /\ Len(s) \in Nat
  BY LenProperties
<1>2. /\ all \in Seq(Ops) /\ Len(all) = n
      /\ \A i \in 1..n : all[i] = Joined(s, t, i)
  BY ConcatProperties DEF Joined
<1>3. e \in 0..n
  BY <1>1, ManagerAssumption DEF Excess
<1> HIDE DEF all, n
<1>4. /\ last \in Seq(Ops) /\ Len(last) = n - e
      /\ \A i \in 1..(n - e) : last[i] = all[e + i]
  <2>1. CASE n > MaxRetained
    <3>1. e = n - MaxRetained
      BY <2>1 DEF Excess
    <3>2. last = SubSeq(all, e + 1, n)
      <4>1. last = SubSeq(all, n - MaxRetained + 1, n)
        BY <2>1, <1>2 DEF Lifecycle!LastOf
      <4> QED BY <3>1, <4>1
    <3> HIDE DEF e, last
    <3>3. e + 1 \in Int /\ n \in Int /\ \A i \in (e + 1)..n : all[i] \in Ops
      BY <1>1, <1>2, <1>3, ElementOfSeq
    <3>4. /\ SubSeq(all, e + 1, n) \in Seq(Ops)
          /\ Len(SubSeq(all, e + 1, n)) = IF e + 1 <= n THEN n - (e + 1) + 1 ELSE 0
          /\ \A i \in 1..(n - (e + 1) + 1) : SubSeq(all, e + 1, n)[i] = all[(e + 1) + i - 1]
      BY <3>3, SubSeqProperties
    <3>5. /\ n - (e + 1) + 1 = n - e
          /\ \A i \in 1..(n - e) : (e + 1) + i - 1 = e + i
          /\ Len(SubSeq(all, e + 1, n)) = n - e
      BY <3>4, <1>1, <1>3
    <3> QED BY <3>2, <3>4, <3>5
  <2>2. CASE ~(n > MaxRetained)
    <3>1. e = 0
      BY <2>2 DEF Excess
    <3>2. last = all
      BY <2>2, <1>2 DEF Lifecycle!LastOf
    <3> HIDE DEF last, e
    <3> QED BY <3>1, <3>2, <1>1, <1>2
  <2> QED BY <2>1, <2>2
<1>5. e = Excess(n) /\ last = Lifecycle!LastOf(MaxRetained, s \o t)
  BY DEF all
<1>6. n = Len(s) + Len(t)
  BY DEF n
<1> HIDE DEF e, last
<1>7. ASSUME NEW i \in 1..(n - e)
      PROVE  last[i] = Joined(s, t, e + i)
  <2>1. e + i \in 1..n
    BY <1>1, <1>3
  <2> QED BY <2>1, <1>1, <1>2, <1>3, <1>4
<1> DEFINE Ends(l, m, f) ==
               Len(l) = m - f /\ \A i \in 1..(m - f) : l[i] = Joined(s, t, f + i)
<1>8. Ends(last, n, e)
  BY <1>4, <1>7
<1> HIDE DEF Ends
<1>9. \E l \in Seq(Ops), m, f \in Nat :
         /\ l = Lifecycle!LastOf(MaxRetained, s \o t)
         /\ m = Len(s) + Len(t) /\ f = Excess(m) /\ f \in 0..m
         /\ Ends(l, m, f)
  BY <1>1, <1>3, <1>4, <1>5, <1>6, <1>8
<1> QED BY <1>9 DEF Ends

\* What a batch of completions leaves visible are the last ones.
LEMMA CommitRetainsTheLast ==
    ASSUME TypeOK, RegistrySound, RetentionExact,
           NEW batch \in Seq(Ops),
           NEW terminal \in TerminalStates, NEW kind \in Receipts,
           \A i \in 1..Len(batch) : IsActive(batch[i]),
           \A i, j \in 1..Len(batch) : batch[i] = batch[j] => i = j,
           CommitTerminal(batch, terminal, kind), idOf' = idOf
    PROVE  Retained' = Lifecycle!LastOf(MaxRetained, Retained \o batch)
<1>1. PICK n, e \in Nat :
        /\ n = Len(completedOrder) + Len(batch) /\ e = Excess(n)
        /\ Len(completedOrder') = n - e
        /\ \A i \in 1..(n - e) : entries'[completedOrder'[i]] = Joined(Retained, batch, e + i)
  BY CommitKeepsRegistry
<1>2. /\ entries' \in [Ids -> 0..MaxStarts]
      /\ completedOrder' \in Seq(Ids)
      /\ RetentionExact'
  BY CommitKeepsRegistry
<1>3. Retained \in Seq(Ops) /\ n = Len(Retained) + Len(batch)
  BY <1>1, RetainedIsASequence
<1>4. PICK last \in Seq(Ops), m, f \in Nat :
        /\ last = Lifecycle!LastOf(MaxRetained, Retained \o batch)
        /\ m = Len(Retained) + Len(batch) /\ f = Excess(m) /\ f \in 0..m
        /\ Len(last) = m - f
        /\ \A i \in 1..(m - f) : last[i] = Joined(Retained, batch, f + i)
  BY <1>3, LastOfConcat
<1>5. m = n /\ f = e
  BY <1>1, <1>3, <1>4
<1>6. /\ Retained' \in Seq(Ops) /\ Len(Retained') = n - e
      /\ \A i \in 1..(n - e) : Retained'[i] = entries'[completedOrder'[i]]
  <2>1. \A i \in 1..(n - e) : entries'[completedOrder'[i]] \in Ops
    BY <1>1, <1>2, ElementOfSeq, ManagerAssumption DEF RetentionExact, Ops
  <2>2. Retained' = [i \in 1..(n - e) |-> entries'[completedOrder'[i]]]
    BY <1>1 DEF Retained
  <2>3. Retained' \in [1..(n - e) -> Ops] /\ n - e \in Nat
    BY <2>1, <2>2, <1>4, <1>5
  <2>4. Retained' \in Seq(Ops)
    BY <2>3, SeqDef
  <2> QED BY <2>2, <2>3, <2>4, LenProperties
<1>7. ASSUME NEW i \in 1..(n - e)
      PROVE  Retained'[i] = last[i]
  <2>1. Retained'[i] = Joined(Retained, batch, e + i)
    BY <1>1, <1>6
  <2>2. i \in 1..(m - f) /\ f + i = e + i
    BY <1>5
  <2>3. last[i] = Joined(Retained, batch, f + i)
    BY <2>2, <1>4
  <2> QED BY <2>1, <2>2, <2>3
<1>8. Retained' = last
  <2>1. Len(last) = Len(Retained')
    BY <1>4, <1>5, <1>6
  <2>2. \A i \in 1..Len(last) : last[i] = Retained'[i]
    BY <1>6, <1>7, <2>1
  <2> QED BY <1>4, <1>6, <2>1, <2>2, SeqEqual
<1> QED BY <1>4, <1>8

\* One operation that completes becomes the last visible one.
LEMMA CommitOneRetainsTheLast ==
    ASSUME TypeOK, RegistrySound, RetentionExact, NEW op \in Ops, IsActive(op),
           NEW terminal \in TerminalStates, NEW kind \in Receipts,
           CommitTerminal(<<op>>, terminal, kind), idOf' = idOf
    PROVE  Retained' = Lifecycle!LastOf(MaxRetained, Append(Retained, op))
<1>1. <<op>> \in Seq(Ops) /\ Len(<<op>>) = 1 /\ <<op>>[1] = op
  OBVIOUS
<1>2. /\ \A i \in 1..Len(<<op>>) : IsActive(<<op>>[i])
      /\ \A i, j \in 1..Len(<<op>>) : <<op>>[i] = <<op>>[j] => i = j
  BY <1>1
<1>3. Retained' = Lifecycle!LastOf(MaxRetained, Retained \o <<op>>)
  BY <1>1, <1>2, CommitRetainsTheLast
<1>4. Append(Retained, op) = Retained \o <<op>>
  BY RetainedIsASequence, AppendIsConcat
<1> QED BY <1>3, <1>4

\* A step that leaves the Map and the order of completions alone leaves
\* visible what was.
LEMMA RetainedUnchanged ==
    ASSUME UNCHANGED <<entries, completedOrder>>
    PROVE  Retained' = Retained
BY DEF Retained

\* The variables of the abstract specification, as the manager's.
LEMMA AbstractVariables ==
    /\ Lifecycle!Ops = Ops
    /\ Lifecycle!Active(state) = ActiveOps
    /\ Lifecycle!vars = <<state, requested, receipt, Retained, ~closed>>
BY DEF Lifecycle!Ops, Lifecycle!Active, Lifecycle!vars, Ops, ActiveOps, IsActive, Retained

\* The two specifications count alike.
LEMMA SameCardinality ==
    ASSUME NEW S
    PROVE  Lifecycle!Cardinality(S) = Cardinality(S)
BY DEF Lifecycle!Cardinality, Cardinality

\* start accepts: the capacity is counted in the Map, and the key it writes
\* is none of a visible operation.
LEMMA StartAccepts ==
    ASSUME IInv, NEW op \in Ops, NEW id \in Ids, Start(op, id)
    PROVE  Lifecycle!Accept(op)
<1> USE DEF IInv
<1>1. /\ state' = [state EXCEPT ![op] = "queued"]
      /\ entries' = [entries EXCEPT ![id] = op]
      /\ UNCHANGED <<requested, receipt, completedOrder, closed>>
      /\ ~closed /\ Cardinality(ActiveIds) < MaxActive /\ entries[id] = 0
      /\ state[op] = "unborn" /\ \A older \in 1..(op - 1) : state[older] # "unborn"
  BY DEF Start, Accepting, HasCapacity, KeyIsFree, IsNext, closing
<1>2. Lifecycle!Cardinality(Lifecycle!Active(state)) < MaxActive
  BY <1>1, ActiveIdsCountActiveOps, AbstractVariables, SameCardinality
<1>3. Retained' = Retained
  <2>1. \A i \in 1..Len(completedOrder) : entries'[completedOrder[i]] = entries[completedOrder[i]]
    BY <1>1, ElementOfSeq DEF TypeOK, RetentionExact
  <2> QED BY <1>1, <2>1 DEF Retained
<1> QED BY <1>1, <1>2, <1>3 DEF Lifecycle!Accept, Retained

\* A microtask begins its operation, or it finds it cancelled.
LEMMA RunMicrotaskBegins ==
    ASSUME IInv, NEW op \in Ops, RunMicrotask(op)
    PROVE  Lifecycle!Begin(op) \/ UNCHANGED Lifecycle!vars
<1> USE DEF IInv
<1>1. /\ op \in scheduled /\ \A other \in scheduled : op <= other
      /\ UNCHANGED <<requested, closed>>
  BY DEF RunMicrotask, IsFirstMicrotask, closing
<1>2. CASE IsTerminal(op)
  <2>1. UNCHANGED <<state, receipt, entries, completedOrder>>
    BY <1>2 DEF RunMicrotask, registry
  <2>2. Retained' = Retained
    BY <2>1, RetainedUnchanged
  <2> QED BY <1>1, <2>1, <2>2 DEF Lifecycle!vars, Retained
<1>3. CASE ~IsTerminal(op)
  <2>1. state[op] = "queued" /\ ~aborted[op] /\ ~closed
    BY <1>1, <1>3 DEF TasksInv, TypeOK, States, IsTerminal, AbortMatchesRequest
  <2>2. /\ state' = [state EXCEPT ![op] = "running"]
        /\ UNCHANGED <<receipt, entries, completedOrder>>
    BY <1>3, <2>1 DEF RunMicrotask, registry
  <2>3. Retained' = Retained
    BY <2>2, RetainedUnchanged
  <2>4. \A older \in 1..(op - 1) : state[older] # "queued"
    <3> TAKE older \in 1..(op - 1)
    <3>1. older \in Ops /\ ~(op <= older)
      BY ManagerAssumption DEF Ops
    <3> QED BY <3>1, <1>1 DEF TasksInv
  <2> QED BY <1>1, <2>1, <2>2, <2>3, <2>4 DEF Lifecycle!Begin, Retained
<1> QED BY <1>2, <1>3

\* The settling of options.execute completes its operation with the outcome
\* the abstract specification allows.
LEMMA SettleCompletes ==
    ASSUME IInv, NEW op \in Ops, NEW kind \in Receipts, Settle(op, kind)
    PROVE  Lifecycle!Complete(op)
<1> USE DEF IInv
<1>1. /\ state[op] = "running"
      /\ kind \in {"report", "cancelledReport", "failure", "diagnostic"}
      /\ kind = "cancelledReport" => aborted[op]
      /\ CommitTerminal(<<op>>, TerminalOf(op, kind), kind)
      /\ UNCHANGED <<idOf, requested, closed>>
  BY DEF Settle, Settlements, closing
<1>2. /\ TerminalOf(op, kind) \in TerminalStates
      /\ kind = "report" => TerminalOf(op, kind) = "succeeded"
      /\ kind = "cancelledReport" => TerminalOf(op, kind) = "cancelled"
      /\ kind \in {"failure", "diagnostic"} => TerminalOf(op, kind) = "failed"
  BY <1>1 DEF TerminalOf, TerminalStates
<1>3. /\ state' = [state EXCEPT ![op] = TerminalOf(op, kind)]
      /\ receipt' = [receipt EXCEPT ![op] = kind]
  BY <1>1, <1>2, CommitOne DEF IsActive
<1>4. Retained' = Lifecycle!LastOf(MaxRetained, Append(Retained, op))
  BY <1>1, <1>2, CommitOneRetainsTheLast DEF IsActive
<1>5. kind = "cancelledReport" => requested[op]
  BY <1>1 DEF AbortMatchesRequest
<1> HIDE DEF IInv
<1> QED BY <1>1, <1>2, <1>3, <1>4, <1>5 DEF Lifecycle!Complete, Retained

\* cancel requests a cancellation, and commits it where nothing runs yet.
LEMMA CancelRequests ==
    ASSUME IInv, NEW id \in Ids, Cancel(id)
    PROVE  \E op \in Ops : Lifecycle!RequestCancel(op)
<1> USE DEF IInv
<1>1. PICK op \in Ops : op = entries[id]
  BY ManagerAssumption DEF Cancel, Cancellable, TypeOK, Ops
<1>2. /\ op # 0 /\ ~IsTerminal(op)
      /\ requested' = [requested EXCEPT ![op] = TRUE]
      /\ IF state[op] = "queued"
         THEN CommitTerminal(<<op>>, "cancelled", "none")
         ELSE UNCHANGED <<state, receipt, entries, completedOrder>>
      /\ UNCHANGED <<idOf, closed>>
  BY <1>1 DEF Cancel, Cancellable, registry, closing
<1>3. op \in Ops /\ IsActive(op)
  BY <1>1, <1>2, ManagerAssumption
     DEF TypeOK, Ops, States, IsTerminal, IsActive, RegistrySound
<1>4. state[op] \in {"queued", "running"}
  BY <1>3 DEF IsActive
<1>5. CASE state[op] = "queued"
  <2>1. /\ state' = [state EXCEPT ![op] = "cancelled"]
        /\ receipt' = [receipt EXCEPT ![op] = "none"]
    BY <1>2, <1>3, <1>5, CommitOne DEF TerminalStates, Receipts
  <2>2. receipt' = receipt
    <3>1. receipt[op] = "none"
      BY <1>3, <1>5 DEF TasksInv
    <3> QED BY <2>1, <3>1 DEF TypeOK
  <2>3. Retained' = Lifecycle!LastOf(MaxRetained, Append(Retained, op))
    BY <1>2, <1>3, <1>5, CommitOneRetainsTheLast DEF TerminalStates, Receipts
  <2>4. Lifecycle!RequestCancel(op)
    BY <1>2, <1>4, <1>5, <2>1, <2>2, <2>3 DEF Lifecycle!RequestCancel, Retained
  <2> QED BY <2>4
<1>6. CASE state[op] # "queued"
  <2>1. UNCHANGED <<state, receipt, entries, completedOrder>>
    BY <1>2, <1>6
  <2>2. Retained' = Retained
    BY <2>1, RetainedUnchanged
  <2>3. Lifecycle!RequestCancel(op)
    BY <1>2, <1>4, <1>6, <2>1, <2>2 DEF Lifecycle!RequestCancel, Retained
  <2> QED BY <2>3
<1> QED BY <1>5, <1>6

\* close() shuts down: every active operation is asked to stop, and the
\* queued ones complete in the order of their acceptance.
LEMMA CloseShutsDown ==
    ASSUME IInv, NEW c \in Closers, Close(c)
    PROVE  Lifecycle!Shutdown
<1> USE DEF IInv
<1> DEFINE queued == {op \in Ops : state[op] = "queued"}
<1>1. ToAbort = ActiveOps
  BY ToAbortIsActive
<1>2. {op \in ToAbort : state[op] = "queued"} = queued /\ queued \in SUBSET ActiveOps
  BY <1>1 DEF ActiveOps, IsActive
<1>3. PICK batch \in Enumeration(queued) : CommitTerminal(batch, "cancelled", "none")
  BY <1>2 DEF Close
<1>4. /\ closed' = TRUE
      /\ requested' = [op \in Ops |-> requested[op] \/ op \in ActiveOps]
      /\ idOf' = idOf
  BY <1>1 DEF Close
<1>5. /\ batch \in [1..Cardinality(queued) -> queued]
      /\ \A i, j \in 1..Cardinality(queued) : i < j => batch[i] < batch[j]
  BY DEF Enumeration
<1>6. \A op \in queued : receipt[op] = "none"
  BY DEF TasksInv
<1>7. queued = {op \in Lifecycle!Ops : state[op] = "queued"}
  BY AbstractVariables
<1> HIDE DEF queued
<1>8. /\ batch \in Seq(Ops)
      /\ \A i \in 1..Len(batch) : batch[i] \in queued
      /\ \A op \in queued : \E i \in 1..Len(batch) : batch[i] = op
      /\ \A i, j \in 1..Len(batch) : batch[i] = batch[j] => i = j
  BY <1>2, <1>3, EnumerationIsABatch
<1>9. \A i \in 1..Len(batch) : IsActive(batch[i])
  BY <1>2, <1>8 DEF ActiveOps
<1>10. Retained' = Lifecycle!LastOf(MaxRetained, Retained \o batch)
  BY <1>3, <1>4, <1>8, <1>9, CommitRetainsTheLast DEF TerminalStates, Receipts
<1>11. Lifecycle!Ops = Ops /\ Lifecycle!Active(state) = ActiveOps
  BY AbstractVariables
<1>12. /\ state' = [op \in Ops |-> IF op \in queued THEN "cancelled" ELSE state[op]]
       /\ receipt' = receipt
  <2>1. {batch[i] : i \in 1..Len(batch)} = queued
    BY <1>8
  <2>2. /\ state' = [op \in Ops |-> IF op \in queued THEN "cancelled" ELSE state[op]]
        /\ receipt' = [op \in Ops |-> IF op \in queued THEN "none" ELSE receipt[op]]
    BY <1>3, <2>1 DEF CommitTerminal
  <2> QED BY <2>2, <1>6 DEF TypeOK
<1>13. Lifecycle!Cardinality(queued) = Cardinality(queued)
  BY SameCardinality
<1>14. /\ batch \in [1..Lifecycle!Cardinality(queued) -> queued]
       /\ \A i, j \in 1..Lifecycle!Cardinality(queued) : i < j => batch[i] < batch[j]
  BY <1>5, <1>13
<1>15. (~closed)' = FALSE
  BY <1>4
<1> HIDE DEF IInv
<1> QED BY <1>4, <1>10, <1>11, <1>7, <1>12, <1>14, <1>15 DEF Lifecycle!Shutdown, Retained

\* Every step of the manager is one of the abstract specification, or none.
LEMMA NextImplementsLifecycle ==
    IInv /\ [Next]_vars => [Lifecycle!Next]_(Lifecycle!vars)
<1> SUFFICES ASSUME IInv, [Next]_vars
             PROVE  Lifecycle!Next \/ UNCHANGED Lifecycle!vars
  OBVIOUS
<1> USE AbstractVariables
<1>1. ASSUME NEW op \in Ops, NEW id \in Ids, Start(op, id) PROVE Lifecycle!Next
  BY <1>1, StartAccepts DEF Lifecycle!Next
<1>2. ASSUME NEW op \in Ops, RunMicrotask(op)
      PROVE  Lifecycle!Next \/ UNCHANGED Lifecycle!vars
  BY <1>2, RunMicrotaskBegins DEF Lifecycle!Next
<1>3. ASSUME NEW op \in Ops, NEW kind \in Receipts, Settle(op, kind)
      PROVE  Lifecycle!Next
  BY <1>3, SettleCompletes DEF Lifecycle!Next
<1>4. ASSUME NEW id \in Ids, Cancel(id) PROVE Lifecycle!Next
  BY <1>4, CancelRequests DEF Lifecycle!Next
<1>5. ASSUME NEW c \in Closers, Close(c) PROVE Lifecycle!Next
  BY <1>5, CloseShutsDown DEF Lifecycle!Next
<1>6. ASSUME UNCHANGED <<state, requested, receipt, registry, closed>>
      PROVE  UNCHANGED Lifecycle!vars
  <2>1. Retained' = Retained
    BY <1>6, RetainedUnchanged DEF registry
  <2> QED BY <1>6, <2>1 DEF Lifecycle!vars, Retained
<1>7. ASSUME NEW op \in Ops, FinallyTask(op) PROVE UNCHANGED Lifecycle!vars
  BY <1>6, <1>7 DEF FinallyTask, closing
<1>8. ASSUME NEW c \in Closers, CloseReturns(c) PROVE UNCHANGED Lifecycle!vars
  BY <1>6, <1>8 DEF CloseReturns
<1>9. CASE UNCHANGED vars
  BY <1>6, <1>9 DEF vars, registry
<1> QED BY <1>1, <1>2, <1>3, <1>4, <1>5, <1>7, <1>8, <1>9 DEF Next

\* A new manager shows nothing and accepts.
LEMMA InitImplementsLifecycle == Init => Lifecycle!Init
<1> SUFFICES ASSUME Init PROVE Lifecycle!Init
  OBVIOUS
<1>1. Retained = <<>>
  <2>1. Len(completedOrder) = 0
    BY DEF Init
  <2> QED BY <2>1, InitIInv, RetainedIsASequence, EmptySeq DEF IInv
<1> QED BY <1>1, AbstractVariables DEF Init, Lifecycle!Init, Retained

\* The manager implements the life of operations its callers are promised:
\* what follows completedOrder through the Map are at any time the last
\* completed operations, whatever was pruned and whichever ids were given
\* out again (createVerificationOperationManager of kernel/operation.ts).
THEOREM ImplementsTheLifecycle == Spec => ImplementsLifecycle
<1>1. Init => Lifecycle!Init
  BY InitImplementsLifecycle
<1>2. IInv /\ [Next]_vars => [Lifecycle!Next]_(Lifecycle!vars)
  BY NextImplementsLifecycle
<1> QED BY <1>1, <1>2, Invariance, PTL DEF Spec, ImplementsLifecycle, Lifecycle!Spec

-----------------------------------------------------------------------------
(* The bundles of properties that the runs check. *)

\* The Map and completedOrder agree with the life of the operations (start,
\* commitTerminal and pruneCompleted of kernel/operation.ts).
THEOREM RegistryStaysExact == Spec => []RegistryIsExact
<1>1. RegistrySound /\ RetentionExact /\ CapacityRespected => RegistryIsExact
  BY DEF RegistryIsExact
<1> QED BY <1>1, RegistryIsSound, RetentionIsExact, CapacityIsRespected, PTL

\* A receipt tells what became of its execution and its signal what was asked
\* of it (run, cancel and close of kernel/operation.ts).
THEOREM ReceiptsAreTruthful == Spec => []ReceiptsTellTheTruth
<1>1. ExecutionMatchesReceipt /\ AbortMatchesRequest => ReceiptsTellTheTruth
  BY DEF ReceiptsTellTheTruth
<1> QED BY <1>1, ReceiptsAreHonest, AbortsAreRequested, PTL

\* No step revises a terminal receipt, the closing of the manager or the
\* operation a retained id leads to (isTerminal, close and start of
\* kernel/operation.ts).
THEOREM HistoryIsFinal == Spec => HistoryStands
<1> QED BY TerminalStaysFinal, ClosedExecutesNothing, IdsStayWithTheirOperation
        DEF HistoryStands

-----------------------------------------------------------------------------
(*************************** The DSH service *****************************)

\* The tools service has one owner for each name, and inject is in one of its
\* conditions.
ToolsTypeOK ==
    /\ tools \in [Named(DOMAIN Definitions) -> {"none", "toolchain", "foreign"}]
    /\ scope \in {"waiting", "registering", "rolling back", "failed", "mounted", "unmounting"}
    /\ host \in {"serving", "ended"}

\* The disposers that are held are those of the tools that are registered: the
\* first ones, all of them when mounted and none when the loops are over.
HeldAreOurs ==
    /\ held \subseteq Registered
    /\ \A i \in Registered : i \in held <=> tools[Definitions[i]] = "toolchain"
    /\ Ours \subseteq DefaultAgentTools
    /\ \A j \in held : \A i \in Registered : i < j => i \in held
    /\ scope = "mounted" => held = Registered
    /\ scope \in {"waiting", "failed"} => held = {}

\* The service has closed its manager before it is gone, and its tools with it.
EndIsClosed == host = "ended" => closed /\ scope \in {"waiting", "unmounting"}

ServiceInv ==
    /\ IInv
    /\ ToolsTypeOK
    /\ HeldAreOurs
    /\ EndIsClosed

-----------------------------------------------------------------------------
\* The policy's filter lets through the policy's names, each defined once.
LEMMA PolicyIsDefined ==
    /\ Registered = 1..5
    /\ Named(Registered) = DefaultAgentTools
    /\ DefaultAgentTools \subseteq Named(DOMAIN Definitions)
    /\ \A i, j \in Registered : Definitions[i] = Definitions[j] => i = j
<1>1. DOMAIN Definitions = 1..8
  BY DEF Definitions
<1>2. /\ Definitions[1] = "target_resolve" /\ Definitions[2] = "contract_search"
      /\ Definitions[3] = "contract_inspect" /\ Definitions[4] = "plugin_check"
      /\ Definitions[5] = "plugin_verify" /\ Definitions[6] = "plugin_verify_start"
      /\ Definitions[7] = "operation_get" /\ Definitions[8] = "operation_cancel"
  BY DEF Definitions
<1>3. 1..8 = {1, 2, 3, 4, 5, 6, 7, 8} /\ 1..5 = {1, 2, 3, 4, 5}
  OBVIOUS
<1>4. Registered = 1..5
  <2> SUFFICES ASSUME NEW i \in 1..8 PROVE Definitions[i] \in DefaultAgentTools <=> i \in 1..5
    BY <1>1, <1>3 DEF Registered
  <2> QED BY <1>2, <1>3 DEF DefaultAgentTools
<1>5. \A name \in DefaultAgentTools : \E i \in 1..5 : Definitions[i] = name
  BY <1>2, <1>3 DEF DefaultAgentTools
<1>6. \A i \in 1..5 : Definitions[i] \in DefaultAgentTools
  BY <1>2, <1>3 DEF DefaultAgentTools
<1>7. \A i, j \in 1..5 : Definitions[i] = Definitions[j] => i = j
  BY <1>2, <1>3
<1>8. Named(Registered) = DefaultAgentTools
  BY <1>4, <1>5, <1>6 DEF Named
<1>9. Registered \subseteq DOMAIN Definitions
  BY DEF Registered
<1> QED BY <1>4, <1>7, <1>8, <1>9 DEF Named

\* A registered definition has a name of its own in the tools service.
LEMMA NamesOfTheirOwn ==
    ASSUME ToolsTypeOK
    PROVE  /\ \A i \in Registered : /\ Definitions[i] \in DOMAIN tools
                                    /\ Definitions[i] \in DefaultAgentTools
           /\ \A i, j \in Registered : Definitions[i] = Definitions[j] => i = j
BY PolicyIsDefined DEF ToolsTypeOK, Named

\* What an agent sees follows from the disposers that are held.
LEMMA HeldAreTheSurface ==
    ASSUME ToolsTypeOK, HeldAreOurs, EndIsClosed
    PROVE  SurfaceIsPolicy
<1>1. ASSUME scope = "mounted" PROVE Ours = DefaultAgentTools
  <2>1. ASSUME NEW name \in DefaultAgentTools PROVE name \in Ours
    <3>1. PICK i \in Registered : Definitions[i] = name
      BY PolicyIsDefined DEF Named
    <3> QED BY <1>1, <3>1, NamesOfTheirOwn DEF HeldAreOurs, Ours
  <2> QED BY <2>1 DEF HeldAreOurs
<1>2. ASSUME scope \in {"waiting", "failed"} PROVE Ours = {}
  <2> SUFFICES ASSUME NEW name \in Ours PROVE FALSE
    OBVIOUS
  <2>1. PICK i \in Registered : Definitions[i] = name
    BY PolicyIsDefined DEF Named, HeldAreOurs
  <2> QED BY <1>2, <2>1 DEF HeldAreOurs, Ours
<1>3. ASSUME NEW i \in Registered, NEW j \in Registered, i < j, Definitions[j] \in Ours
      PROVE  Definitions[i] \in Ours
  BY <1>3, NamesOfTheirOwn DEF HeldAreOurs, Ours
<1> QED BY <1>1, <1>2, <1>3 DEF SurfaceIsPolicy, EndIsClosed

\* A step of the manager is what a step of the service does to the manager.
LEMMA ServiceStepsAreTheManagers == [ServiceNext]_serviceVars => [Next]_vars
BY ServiceAssumption
   DEF ServiceNext, serviceVars, hostVars, MountTools, RegisterTools, DisposeTools, UnmountTools,
       ForeignTool, VerifyDirectly, DirectReturns, Operate, ToolCall, Background, Unload, EndHost,
       Next

LEMMA InitServiceInv == ServiceInit => ServiceInv
<1> SUFFICES ASSUME ServiceInit PROVE ServiceInv
  OBVIOUS
<1>1. IInv
  BY InitIInv DEF ServiceInit, HostInit
<1>2. ToolsTypeOK /\ Ours = {}
  BY DEF ServiceInit, HostInit, ToolsTypeOK, Ours
<1>3. HeldAreOurs
  BY <1>2, NamesOfTheirOwn DEF HeldAreOurs, ServiceInit, Ours
<1> QED BY <1>1, <1>2, <1>3 DEF ServiceInv, EndIsClosed, ServiceInit, HostInit

\* Closing is for good.
LEMMA ClosingIsForGood == closed /\ [Next]_vars => closed'
BY DEF Next, vars, Start, RunMicrotask, Settle, FinallyTask, Cancel, Close, CloseReturns, closing

\* The loop over the definitions registers the first that is left, if it may.
LEMMA RegisterToolsStep ==
    ASSUME ServiceInv, RegisterTools, closed => closed'
    PROVE  ToolsTypeOK' /\ HeldAreOurs' /\ EndIsClosed'
<1> USE DEF ServiceInv
<1>1. host' = host /\ scope = "registering" /\ host = "serving"
  BY DEF RegisterTools, hostVars, EndIsClosed, ToolsTypeOK
<1>2. CASE held = Registered /\ scope' = "mounted" /\ UNCHANGED <<tools, held>>
  BY <1>1, <1>2 DEF ToolsTypeOK, HeldAreOurs, EndIsClosed, Ours
<1>3. CASE \E i \in Registered : Register(i)
  <2>1. PICK i \in Registered \ held : Register(i)
    BY <1>3 DEF Register
  <2>2. \A j \in Registered \ held : i <= j
    BY <2>1 DEF Register
  <2>3. CASE scope' = "rolling back" /\ UNCHANGED <<tools, held>>
    BY <1>1, <2>3 DEF ToolsTypeOK, HeldAreOurs, EndIsClosed, Ours
  <2>4. CASE /\ tools[Definitions[i]] = "none"
             /\ tools' = [tools EXCEPT ![Definitions[i]] = "toolchain"]
             /\ held' = held \cup {i} /\ scope' = scope
    <3>1. ToolsTypeOK' /\ EndIsClosed'
      BY <1>1, <2>4 DEF ToolsTypeOK, EndIsClosed
    <3>2. \A j \in Registered : j \in held' <=> tools'[Definitions[j]] = "toolchain"
      BY <2>4, NamesOfTheirOwn DEF HeldAreOurs
    <3>3. Ours' \subseteq DefaultAgentTools
      BY <2>4, NamesOfTheirOwn DEF HeldAreOurs, Ours
    <3>4. ASSUME NEW k \in held', NEW j \in Registered, j < k PROVE j \in held'
      BY <2>2, <2>4, <3>4, PolicyIsDefined DEF HeldAreOurs
    <3> QED BY <1>1, <2>4, <3>1, <3>2, <3>3, <3>4 DEF HeldAreOurs
  <2> QED BY <2>1, <2>3, <2>4 DEF Register
<1> QED BY <1>2, <1>3 DEF RegisterTools

\* The loop over the disposers takes away the last that is left.
LEMMA DisposeToolsStep ==
    ASSUME ServiceInv, DisposeTools, closed => closed'
    PROVE  ToolsTypeOK' /\ HeldAreOurs' /\ EndIsClosed'
<1> USE DEF ServiceInv
<1>1. host' = host /\ scope \in {"rolling back", "unmounting"}
  BY DEF DisposeTools, hostVars
<1>2. CASE /\ held = {} /\ UNCHANGED <<tools, held>>
           /\ scope' = IF scope = "rolling back" THEN "failed" ELSE "waiting"
  BY <1>1, <1>2 DEF ToolsTypeOK, HeldAreOurs, EndIsClosed, Ours
<1>3. CASE \E i \in held : /\ IsNextDisposed(i)
                           /\ tools' = [tools EXCEPT ![Definitions[i]] = "none"]
                           /\ held' = held \ {i} /\ UNCHANGED scope
  <2>1. PICK i \in held : /\ IsNextDisposed(i)
                          /\ tools' = [tools EXCEPT ![Definitions[i]] = "none"]
                          /\ held' = held \ {i} /\ UNCHANGED scope
    BY <1>3
  <2>2. ToolsTypeOK' /\ EndIsClosed'
    BY <1>1, <2>1 DEF ToolsTypeOK, EndIsClosed
  <2>3. \A j \in Registered : j \in held' <=> tools'[Definitions[j]] = "toolchain"
    BY <2>1, NamesOfTheirOwn DEF HeldAreOurs
  <2>4. Ours' \subseteq DefaultAgentTools
    BY <2>1, NamesOfTheirOwn DEF HeldAreOurs, Ours
  <2>5. ASSUME NEW k \in held', NEW j \in Registered, j < k PROVE j \in held'
    BY <2>1, <2>5, PolicyIsDefined DEF HeldAreOurs, IsNextDisposed
  <2> QED BY <1>1, <2>1, <2>2, <2>3, <2>4, <2>5 DEF HeldAreOurs
<1> QED BY <1>2, <1>3 DEF DisposeTools

\* Others take free names and give up their own.
LEMMA ForeignToolStep ==
    ASSUME ServiceInv, ForeignTool, closed => closed'
    PROVE  ToolsTypeOK' /\ HeldAreOurs' /\ EndIsClosed'
<1> USE DEF ServiceInv
<1>1. host' = host /\ scope' = scope /\ held' = held
  BY DEF ForeignTool, hostVars
<1>2. PICK name \in ForeignNames :
          \/ tools[name] = "none" /\ tools' = [tools EXCEPT ![name] = "foreign"]
          \/ tools[name] = "foreign" /\ tools' = [tools EXCEPT ![name] = "none"]
  BY DEF ForeignTool
<1>3. /\ tools' \in [Named(DOMAIN Definitions) -> {"none", "toolchain", "foreign"}]
      /\ Ours' = Ours
  BY <1>2 DEF ToolsTypeOK, Ours
<1>4. \A i \in Registered : tools'[Definitions[i]] = "toolchain"
                                <=> tools[Definitions[i]] = "toolchain"
  BY <1>2, NamesOfTheirOwn DEF ToolsTypeOK
<1> QED BY <1>1, <1>3, <1>4 DEF ToolsTypeOK, HeldAreOurs, EndIsClosed

LEMMA NextServiceInv == ServiceInv /\ [ServiceNext]_serviceVars => ServiceInv'
<1> SUFFICES ASSUME ServiceInv, [ServiceNext]_serviceVars PROVE ServiceInv'
  OBVIOUS
<1> USE DEF ServiceInv
<1>1. [Next]_vars
  BY ServiceStepsAreTheManagers
<1>2. IInv'
  BY <1>1, NextIInv
<1>3. closed => closed'
  BY <1>1, ClosingIsForGood
<1> SUFFICES ToolsTypeOK' /\ HeldAreOurs' /\ EndIsClosed'
  BY <1>2
<1>4. CASE UNCHANGED <<host, scope, tools, held>>
  BY <1>3, <1>4 DEF ToolsTypeOK, HeldAreOurs, EndIsClosed, Ours
<1>5. CASE MountTools
  <2>1. /\ host' = host /\ host = "serving" /\ scope' = "registering"
        /\ UNCHANGED <<tools, held>>
    BY <1>5 DEF MountTools, hostVars
  <2> QED BY <2>1 DEF ToolsTypeOK, HeldAreOurs, EndIsClosed, Ours
<1>6. CASE RegisterTools
  BY <1>3, <1>6, RegisterToolsStep
<1>7. CASE DisposeTools
  BY <1>3, <1>7, DisposeToolsStep
<1>8. CASE UnmountTools
  <2>1. /\ host' = host /\ scope \in {"mounted", "failed"} /\ scope' = Unmounted
        /\ host = "serving" /\ UNCHANGED <<tools, held>>
    BY <1>8 DEF UnmountTools, hostVars
  <2> QED BY <2>1 DEF Unmounted, ToolsTypeOK, HeldAreOurs, EndIsClosed, Ours
<1>9. CASE ForeignTool
  BY <1>3, <1>9, ForeignToolStep
<1>10. CASE \E call \in Calls : VerifyDirectly(call) \/ DirectReturns(call)
  BY <1>10, <1>4 DEF VerifyDirectly, DirectReturns, hostVars
<1>11. CASE Operate
  BY <1>11, <1>4 DEF Operate, ToolCall, Background
<1>12. CASE Unload
  <2>1. /\ host' = "ended" /\ closed' /\ ~Looping /\ scope' = Unmounted
        /\ UNCHANGED <<tools, held>>
    BY <1>12, ServiceAssumption DEF Unload, EndHost, Close
  <2> QED BY <2>1 DEF Unmounted, Looping, ToolsTypeOK, HeldAreOurs, EndIsClosed, Ours
<1>13. CASE UNCHANGED serviceVars
  BY <1>13, <1>4 DEF serviceVars, hostVars
<1> QED BY <1>5, <1>6, <1>7, <1>8, <1>9, <1>10, <1>11, <1>12, <1>13 DEF ServiceNext

\* The invariant holds throughout the life of the service.
THEOREM ServiceInvariance == ServiceSpec => []ServiceInv
<1> QED BY InitServiceInv, NextServiceInv, PTL DEF ServiceSpec

\* An agent sees the tools of the policy, or none at all, however often the
\* tools service comes and goes and whatever names others take.
THEOREM SurfaceIsThePolicys == ServiceSpec => []SurfaceIsPolicy
<1>1. ServiceInv => SurfaceIsPolicy
  BY HeldAreTheSurface DEF ServiceInv
<1> QED BY <1>1, ServiceInvariance, PTL

\* The service is an operation manager with the manager's fairness.
THEOREM ServiceIsAManager == ServiceSpec => FairSpec
<1>1. ServiceInit => Init
  BY DEF ServiceInit, HostInit
<1> QED BY <1>1, ServiceStepsAreTheManagers, PTL
        DEF ServiceSpec, ServiceFairness, FairSpec, Spec

\* So its receipts, its closing and its ids are final, and it implements the
\* life of operations its callers are promised.
THEOREM ServiceKeepsThePromises ==
    ServiceSpec => TerminalIsFinal /\ NoExecutionAfterClose /\ ImplementsLifecycle
<1> QED BY ServiceIsAManager, TerminalStaysFinal, ClosedExecutesNothing, ImplementsTheLifecycle, PTL
        DEF FairSpec

\* Once the service is unloaded nothing is queued, and whatever still runs has
\* been asked to stop.
THEOREM UnloadCancelsOperations == ServiceSpec => []ShutdownCancelsOperations
<1>1. ServiceInv => ShutdownCancelsOperations
  BY DEF ServiceInv, IInv, EndIsClosed, ShutdownCancelsOperations, AbortMatchesRequest, ActiveOps,
         IsActive
<1> QED BY <1>1, ServiceInvariance, PTL
=============================================================================
