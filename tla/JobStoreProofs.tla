--------------------------- MODULE JobStoreProofs ---------------------------
(***************************************************************************)
(* What the scripts of JobStore keep: each leaves the store well-typed,    *)
(* and takes a job off the queue's structures only where it says so.       *)
(***************************************************************************)
EXTENDS JobStore, FiniteSetTheorems, SequenceTheorems, TLAPS

\* The jobs that are somewhere between being added and having an outcome.
OnQueue == Queued \cup active \cup delayed

(***************************************************************************)
(* Sequences: an ordering of a finite set is a sequence of just its        *)
(* elements, RPUSH adds the range of what is pushed, LPOP takes no more    *)
(* than the head, LREM no more than the element it removes.                *)
(***************************************************************************)
LEMMA OrdersType ==
    ASSUME NEW S, IsFiniteSet(S), NEW q \in Orders(S)
    PROVE  q \in Seq(S) /\ ToSet(q) = S
<1>1. Cardinality(S) \in Nat
    BY FS_CardinalityType
<1>2. q \in [1..Cardinality(S) -> S]
    BY DEF Orders
<1>3. q \in Seq(S)
    BY <1>1, <1>2, IsASeq
<1>4. ToSet(q) \subseteq S
    BY <1>2 DEF ToSet
<1>5. S \subseteq ToSet(q)
    BY DEF Orders, ToSet
<1> QED
    BY <1>3, <1>4, <1>5

LEMMA ToSetConcat ==
    ASSUME NEW S, NEW s \in Seq(S), NEW q \in Seq(S)
    PROVE  s \o q \in Seq(S) /\ ToSet(s \o q) = ToSet(s) \cup ToSet(q)
<1>1. s \o q \in Seq(S)
    BY ConcatProperties
<1>2. Range(s \o q) = Range(s) \cup Range(q)
    BY RangeConcatenation
<1> QED
    BY <1>1, <1>2 DEF ToSet, Range

LEMMA ToSetAppend ==
    ASSUME NEW S, NEW s \in Seq(S), NEW e \in S
    PROVE  Append(s, e) \in Seq(S) /\ ToSet(Append(s, e)) = ToSet(s) \cup {e}
<1>1. <<e>> \in Seq(S) /\ ToSet(<<e>>) = {e}
    BY DEF ToSet
<1>2. Append(s, e) = s \o <<e>>
    BY AppendIsConcat
<1>3. /\ s \o <<e>> \in Seq(S)
      /\ ToSet(s \o <<e>>) = ToSet(s) \cup ToSet(<<e>>)
    BY <1>1, ToSetConcat
<1> QED
    BY <1>1, <1>2, <1>3

LEMMA ToSetTail ==
    ASSUME NEW S, NEW s \in Seq(S), s # <<>>
    PROVE  /\ Head(s) \in S /\ Tail(s) \in Seq(S)
           /\ ToSet(Tail(s)) \subseteq ToSet(s)
           /\ ToSet(s) \subseteq ToSet(Tail(s)) \cup {Head(s)}
<1>1. /\ Head(s) \in S /\ Tail(s) \in Seq(S)
      /\ Len(Tail(s)) = Len(s) - 1
      /\ \A i \in 1 .. Len(Tail(s)) : Tail(s)[i] = s[i+1]
    BY HeadTailProperties
<1>2. DOMAIN s = 1 .. Len(s) /\ DOMAIN Tail(s) = 1 .. Len(Tail(s)) /\ Len(s) \in Nat
    BY <1>1, LenProperties
<1>3. ToSet(Tail(s)) \subseteq ToSet(s)
  <2> SUFFICES ASSUME NEW i \in 1 .. Len(Tail(s))
               PROVE  Tail(s)[i] \in ToSet(s)
    BY <1>2 DEF ToSet
  <2>1. i + 1 \in DOMAIN s
    BY <1>1, <1>2
  <2> QED
    BY <1>1, <2>1 DEF ToSet
<1>4. ToSet(s) \subseteq ToSet(Tail(s)) \cup {Head(s)}
  <2> SUFFICES ASSUME NEW i \in 1 .. Len(s)
               PROVE  s[i] \in ToSet(Tail(s)) \cup {Head(s)}
    BY <1>2 DEF ToSet
  <2>1. CASE i = 1
    BY <2>1
  <2>2. CASE i # 1
    <3>1. i - 1 \in 1 .. Len(Tail(s)) /\ (i - 1) + 1 = i
      BY <2>2, <1>1, <1>2
    <3>2. Tail(s)[i - 1] = s[i]
      BY <3>1, <1>1
    <3> QED
      BY <3>1, <3>2, <1>2 DEF ToSet
  <2> QED
    BY <2>1, <2>2
<1> QED
    BY <1>1, <1>3, <1>4

\* An element that is in a list at most once.
OnceIn(s, j) == \A a, b \in DOMAIN s : s[a] = j /\ s[b] = j => a = b

\* An order of a finite set lists each of its elements once.
LEMMA OrdersOnce ==
    ASSUME NEW S, IsFiniteSet(S), NEW q \in Orders(S), NEW j
    PROVE  OnceIn(q, j)
<1> DEFINE n == Cardinality(S)
<1>1. n \in Nat
    BY FS_CardinalityType
<1>2. q \in [1..n -> S] /\ \A e \in S : \E i \in DOMAIN q : q[i] = e
    BY DEF Orders
<1>3. q \in Surjection(1..n, S)
    BY <1>2 DEF Surjection
<1>4. IsFiniteSet(1..n) /\ Cardinality(1..n) = n
    BY <1>1, FS_Interval
<1>5. q \in Injection(1..n, S)
    BY <1>3, <1>4, FS_SurjSameCardinalityImpliesInj
<1> QED
    BY <1>2, <1>5 DEF Injection, IsInjective, OnceIn

LEMMA OnceConcat ==
    ASSUME NEW S, NEW s \in Seq(S), NEW q \in Seq(S), NEW j,
           OnceIn(s, j), OnceIn(q, j), j \notin ToSet(s) \/ j \notin ToSet(q)
    PROVE  OnceIn(s \o q, j)
<1>1. /\ Len(s \o q) = Len(s) + Len(q) /\ s \o q \in Seq(S)
      /\ \A i \in 1 .. Len(s) : (s \o q)[i] = s[i]
      /\ \A i \in 1 .. Len(q) : (s \o q)[Len(s) + i] = q[i]
    BY ConcatProperties
<1>2. /\ DOMAIN s = 1 .. Len(s) /\ DOMAIN q = 1 .. Len(q)
      /\ DOMAIN (s \o q) = 1 .. (Len(s) + Len(q))
      /\ Len(s) \in Nat /\ Len(q) \in Nat
    BY <1>1, LenProperties
<1> DEFINE c == s \o q
           m == Len(s)
           n == Len(q)
<1>3. ASSUME NEW a \in 1 .. (m + n), c[a] = j
      PROVE  \/ a \in 1 .. m /\ s[a] = j /\ j \in ToSet(s)
             \/ a - m \in 1 .. n /\ q[a - m] = j /\ j \in ToSet(q)
  <2>1. CASE a \in 1 .. m
    BY <2>1, <1>1, <1>2, <1>3 DEF ToSet
  <2>2. CASE a \notin 1 .. m
    <3>1. a - m \in 1 .. n /\ m + (a - m) = a
      BY <2>2, <1>2
    <3>2. c[m + (a - m)] = q[a - m]
      BY <3>1, <1>1
    <3>3. q[a - m] = j
      BY <3>1, <3>2, <1>3
    <3> QED
      BY <3>1, <3>3, <1>2 DEF ToSet
  <2> QED
    BY <2>1, <2>2
<1>4. ASSUME NEW a \in 1 .. (m + n), NEW b \in 1 .. (m + n), c[a] = j, c[b] = j
      PROVE  a = b
  <2>1. CASE a \in 1 .. m /\ s[a] = j /\ j \in ToSet(s)
    <3>1. b \in 1 .. m /\ s[b] = j
      BY <2>1, <1>3, <1>4
    <3> QED
      BY <2>1, <3>1, <1>2 DEF OnceIn
  <2>2. CASE a - m \in 1 .. n /\ q[a - m] = j /\ j \in ToSet(q)
    <3>1. b - m \in 1 .. n /\ q[b - m] = j
      BY <2>2, <1>3, <1>4
    <3>2. a - m = b - m
      BY <2>2, <3>1, <1>2 DEF OnceIn
    <3> QED
      BY <3>2, <1>2
  <2> QED
    BY <2>1, <2>2, <1>3, <1>4
<1> QED
    BY <1>2, <1>4 DEF OnceIn

LEMMA OnceAppend ==
    ASSUME NEW S, NEW s \in Seq(S), NEW e \in S, NEW j,
           OnceIn(s, j), j \notin ToSet(s) \/ j # e
    PROVE  OnceIn(Append(s, e), j)
<1>1. <<e>> \in Seq(S) /\ ToSet(<<e>>) = {e} /\ OnceIn(<<e>>, j)
    BY DEF ToSet, OnceIn
<1>2. Append(s, e) = s \o <<e>>
    BY AppendIsConcat
<1>3. OnceIn(s \o <<e>>, j)
    BY <1>1, OnceConcat
<1> QED
    BY <1>2, <1>3

LEMMA OnceTail ==
    ASSUME NEW S, NEW s \in Seq(S), s # <<>>, NEW j, OnceIn(s, j)
    PROVE  OnceIn(Tail(s), j) /\ (j = Head(s) => j \notin ToSet(Tail(s)))
<1>1. /\ Tail(s) \in Seq(S) /\ Len(Tail(s)) = Len(s) - 1
      /\ \A i \in 1 .. Len(Tail(s)) : Tail(s)[i] = s[i+1]
    BY HeadTailProperties
<1>2. /\ DOMAIN s = 1 .. Len(s) /\ DOMAIN Tail(s) = 1 .. Len(Tail(s))
      /\ Len(s) \in Nat /\ Len(s) # 0
    BY <1>1, LenProperties, EmptySeq
<1>3. ASSUME NEW a \in DOMAIN Tail(s), Tail(s)[a] = j
      PROVE  a + 1 \in DOMAIN s /\ s[a + 1] = j /\ a \in Nat /\ a # 0
    BY <1>1, <1>2, <1>3
<1>4. OnceIn(Tail(s), j)
  <2> SUFFICES ASSUME NEW a \in DOMAIN Tail(s), NEW b \in DOMAIN Tail(s),
                      Tail(s)[a] = j, Tail(s)[b] = j
               PROVE  a = b
    BY DEF OnceIn
  <2>1. /\ a + 1 \in DOMAIN s /\ s[a + 1] = j /\ a \in Nat
        /\ b + 1 \in DOMAIN s /\ s[b + 1] = j /\ b \in Nat
    BY <1>3
  <2>2. a + 1 = b + 1
    BY <2>1 DEF OnceIn
  <2> QED
    BY <2>1, <2>2
<1>5. ASSUME j = Head(s), j \in ToSet(Tail(s)) PROVE FALSE
  <2>1. PICK a \in DOMAIN Tail(s) : Tail(s)[a] = j
    BY <1>5 DEF ToSet
  <2>2. a + 1 \in DOMAIN s /\ s[a + 1] = j /\ a \in Nat /\ a # 0
    BY <2>1, <1>3
  <2>3. 1 \in DOMAIN s /\ s[1] = j
    BY <1>2, <1>5
  <2>4. a + 1 = 1
    BY <2>2, <2>3 DEF OnceIn
  <2> QED
    BY <2>2, <2>4
<1> QED
    BY <1>4, <1>5

\* A part of a sequence has the elements at the places kept, none of them
\* more often than they are there.
LEMMA PartAtType ==
    ASSUME NEW S, NEW s \in Seq(S), NEW keep \in SUBSET DOMAIN s, NEW w \in PartAt(s, keep)
    PROVE  /\ w \in Seq(S) /\ ToSet(w) = {s[i] : i \in keep}
           /\ \A j : (\A a, b \in keep : s[a] = j /\ s[b] = j => a = b) => OnceIn(w, j)
<1>1. PICK q \in Orders(keep) : w = [i \in DOMAIN q |-> s[q[i]]]
    BY DEF PartAt
<1>2. DOMAIN s = 1 .. Len(s) /\ Len(s) \in Nat
    BY LenProperties
<1>3. IsFiniteSet(keep)
  <2>1. IsFiniteSet(1 .. Len(s)) /\ keep \in SUBSET (1 .. Len(s))
    BY <1>2, FS_Interval
  <2> QED
    BY <2>1, FS_Subset
<1> DEFINE n == Cardinality(keep)
<1>4. /\ q \in [1..n -> keep] /\ n \in Nat
      /\ \A i \in keep : \E k \in DOMAIN q : q[k] = i
    BY <1>3, FS_CardinalityType DEF Orders
<1> HIDE DEF n
<1>5. \A i \in keep : s[i] \in S
    BY ElementOfSeq, <1>2
<1>6. w \in [1..n -> S]
    BY <1>1, <1>4, <1>5
<1>7. w \in Seq(S)
    BY <1>4, <1>6, SeqDef
<1>8. DOMAIN w = DOMAIN q /\ \A i \in DOMAIN w : w[i] = s[q[i]] /\ q[i] \in keep
    BY <1>1, <1>4
<1>9. ToSet(w) = {s[i] : i \in keep}
    BY <1>4, <1>8 DEF ToSet
<1>10. ASSUME NEW j, \A a, b \in keep : s[a] = j /\ s[b] = j => a = b
       PROVE  OnceIn(w, j)
  <2> SUFFICES ASSUME NEW a \in DOMAIN w, NEW b \in DOMAIN w, w[a] = j, w[b] = j
               PROVE  a = b
    BY DEF OnceIn
  <2>1. q[a] = q[b]
    BY <1>8, <1>10
  <2>2. OnceIn(q, q[a])
    BY <1>3, OrdersOnce
  <2> QED
    BY <2>1, <2>2, <1>8 DEF OnceIn
<1> QED
    BY <1>7, <1>9, <1>10

\* LREM of an element takes every copy of it, and adds none of another.
LEMMA LRemType ==
    ASSUME NEW S, NEW s \in Seq(S), NEW e, NEW w \in LRem(s, e)
    PROVE  /\ w \in Seq(S) /\ ToSet(w) = ToSet(s) \ {e}
           /\ \A j : OnceIn(s, j) => OnceIn(w, j)
<1> DEFINE keep == {i \in DOMAIN s : s[i] # e}
<1>1. w \in PartAt(s, keep) /\ keep \in SUBSET DOMAIN s
    BY DEF LRem
<1>2. {s[i] : i \in keep} = ToSet(s) \ {e}
    BY DEF ToSet
<1>3. \A j : OnceIn(s, j) => \A a, b \in keep : s[a] = j /\ s[b] = j => a = b
    BY DEF OnceIn
<1> HIDE DEF keep
<1> QED
    BY <1>1, <1>2, <1>3, PartAtType
----------------------------------------------------------------------------
(***************************************************************************)
(* The pieces the scripts are made of.                                     *)
(***************************************************************************)
QueueType == waiting \in Seq(Jobs) /\ prioritized \subseteq Jobs
VaultType(v) == v \in [Jobs -> JobRec \cup {Absent}]
ListedOnce(j) == OnceIn(waiting, j) /\ (j \in ToSet(waiting) => j \notin prioritized)

LEMMA EnqueueType ==
    ASSUME QueueType, NEW S \in SUBSET Jobs, Enqueue(S)
    PROVE  QueueType' /\ Queued' = Queued \cup S
<1>1. PICK q \in Orders(S \ Prioritised) : waiting' = waiting \o q
    BY DEF Enqueue
<1>2. IsFiniteSet(S \ Prioritised)
  <2>1. (S \ Prioritised) \in SUBSET Jobs
    OBVIOUS
  <2> QED
    BY <2>1, JobsAssumption, FS_Subset
<1>3. q \in Seq(S \ Prioritised) /\ ToSet(q) = S \ Prioritised
    BY <1>1, <1>2, OrdersType
<1>4. q \in Seq(Jobs)
    BY <1>3, SeqMonotonic
<1>5. waiting' \in Seq(Jobs) /\ ToSet(waiting') = ToSet(waiting) \cup (S \ Prioritised)
    BY <1>1, <1>3, <1>4, ToSetConcat DEF QueueType
<1> QED
    BY <1>5 DEF QueueType, Enqueue, Queued

LEMMA PopType ==
    ASSUME QueueType, NEW j, Pop(j)
    PROVE  /\ QueueType' /\ j \in Jobs
           /\ Queued \subseteq Queued' \cup {j}
           /\ Queued' \subseteq Queued
<1>1. CASE j \in prioritized /\ prioritized' = prioritized \ {j} /\ UNCHANGED waiting
    BY <1>1 DEF QueueType, Queued
<1>2. CASE /\ waiting # <<>> /\ j = Head(waiting)
           /\ waiting' = Tail(waiting) /\ UNCHANGED prioritized
  <2>1. /\ Head(waiting) \in Jobs /\ Tail(waiting) \in Seq(Jobs)
        /\ ToSet(Tail(waiting)) \subseteq ToSet(waiting)
        /\ ToSet(waiting) \subseteq ToSet(Tail(waiting)) \cup {Head(waiting)}
    BY <1>2, ToSetTail DEF QueueType
  <2> QED
    BY <1>2, <2>1 DEF QueueType, Queued
<1> QED
    BY <1>1, <1>2 DEF Pop

LEMMA PickedUpType ==
    ASSUME NEW r \in JobRec
    PROVE  PickedUp(r) \in JobRec
BY DEF PickedUp, JobRec, Statuses

LEMMA LeaseType ==
    ASSUME NEW v, VaultType(v), NEW j \in Jobs,
           NEW act \in SUBSET Jobs, NEW exp \in SUBSET act,
           Lease(j, v, act, exp)
    PROVE  /\ VaultType(vault')
           /\ active' \subseteq Jobs /\ expired' \subseteq active'
           /\ act \subseteq active'
           /\ Present(v, j) => j \in active' /\ vault'[j] \in JobRec
           /\ \A k \in Jobs : Present(v, k) => Present(vault', k)
<1>1. CASE Present(v, j)
  <2>1. v[j] \in JobRec
    BY <1>1 DEF VaultType, Present
  <2>2. PickedUp(v[j]) \in JobRec /\ PickedUp(v[j]) # Absent
    BY <2>1, PickedUpType DEF PickedUp, Absent
  <2>3. /\ vault' = [v EXCEPT ![j] = PickedUp(v[j])]
        /\ active' = act \cup {j} /\ expired' = exp \ {j}
    BY <1>1 DEF Lease
  <2> QED
    BY <2>2, <2>3 DEF VaultType, Present
<1>2. CASE ~Present(v, j)
    BY <1>2 DEF Lease
<1> QED
    BY <1>1, <1>2

LEMMA FinalVaultType ==
    ASSUME VaultType(vault), NEW j \in Jobs,
           NEW outcome \in {"completed", "dead"}, NEW E \in SUBSET Jobs
    PROVE  /\ VaultType(FinalVault(j, outcome, E))
           /\ \A k \in Jobs \ E :
                 Present(vault, k) => Present(FinalVault(j, outcome, E), k)
<1> DEFINE f == Finished(vault, j, outcome)
<1>1. VaultType(f) /\ \A k \in Jobs : Present(vault, k) => Present(f, k)
  <2>1. CASE Present(vault, j)
    <3>1. vault[j] \in JobRec
      BY <2>1 DEF VaultType, Present
    <3>2. /\ [vault[j] EXCEPT !.status = outcome] \in JobRec
          /\ [vault[j] EXCEPT !.status = outcome] # Absent
      BY <3>1 DEF JobRec, Absent, Statuses
    <3>3. f = [vault EXCEPT ![j] = [vault[j] EXCEPT !.status = outcome]]
      BY <2>1 DEF Finished
    <3> QED
      BY <3>2, <3>3 DEF VaultType, Present
  <2>2. CASE ~Present(vault, j)
    BY <2>2 DEF Finished
  <2> QED
    BY <2>1, <2>2
<1> HIDE DEF f
<1>2. FinalVault(j, outcome, E) = [k \in Jobs |-> IF k \in E THEN Absent ELSE f[k]]
    BY DEF FinalVault, WithoutEntries, f
<1> QED
    BY <1>1, <1>2 DEF VaultType, Present
----------------------------------------------------------------------------
(***************************************************************************)
(* One lemma per script.                                                   *)
(***************************************************************************)
LEMMA AddJobKeeps ==
    ASSUME StoreTypeOK, NEW j \in Jobs, AddJobScript(j)
    PROVE  /\ StoreTypeOK' /\ OnQueue' = OnQueue \cup {j}
           /\ \A k \in Jobs : k = j \/ Present(vault, k) => Present(vault', k)
<1>1. QueueType' /\ Queued' = Queued \cup {j}
    BY EnqueueType DEF AddJobScript, StoreTypeOK, QueueType
<1>2. NewRec \in JobRec /\ NewRec # Absent
    BY DEF NewRec, JobRec, Statuses, Absent
<1> QED
    BY <1>1, <1>2 DEF AddJobScript, StoreTypeOK, QueueType, OnQueue, Present

LEMMA AddDelayedKeeps ==
    ASSUME StoreTypeOK, NEW j \in Jobs, AddDelayedScript(j)
    PROVE  /\ StoreTypeOK' /\ OnQueue' = OnQueue \cup {j}
           /\ \A k \in Jobs : k = j \/ Present(vault, k) => Present(vault', k)
<1>1. NewRec \in JobRec /\ NewRec # Absent
    BY DEF NewRec, JobRec, Statuses, Absent
<1> QED
    BY <1>1 DEF AddDelayedScript, StoreTypeOK, OnQueue, Queued, Present

LEMMA DequeueKeeps ==
    ASSUME StoreTypeOK, NEW j \in Jobs, DequeueScript(j)
    PROVE  /\ StoreTypeOK'
           /\ OnQueue \subseteq OnQueue' \cup {j}
           /\ Present(vault, j) => j \in OnQueue' /\ vault'[j] \in JobRec
           /\ \A k \in Jobs : Present(vault, k) => Present(vault', k)
<1>1. QueueType' /\ Queued \subseteq Queued' \cup {j}
    BY PopType DEF DequeueScript, StoreTypeOK, QueueType
<1>2. /\ VaultType(vault')
      /\ active' \subseteq Jobs /\ expired' \subseteq active' /\ active \subseteq active'
      /\ Present(vault, j) => j \in active' /\ vault'[j] \in JobRec
      /\ \A k \in Jobs : Present(vault, k) => Present(vault', k)
  <2>1. /\ VaultType(vault) /\ active \in SUBSET Jobs /\ expired \in SUBSET active
        /\ Lease(j, vault, active, expired)
    BY DEF DequeueScript, StoreTypeOK, VaultType
  <2> QED
    BY <2>1, LeaseType, Zenon
<1> QED
    BY <1>1, <1>2 DEF DequeueScript, StoreTypeOK, QueueType, VaultType, OnQueue

LEMMA FinalizeKeeps ==
    ASSUME StoreTypeOK, NEW j \in Jobs, NEW outcome \in {"completed", "dead"},
           NEW E \in SUBSET Jobs, FinalizeScript(j, outcome, E)
    PROVE  /\ StoreTypeOK'
           /\ OnQueue \subseteq OnQueue' \cup {j}
           /\ \A k \in Jobs \ E : Present(vault, k) => Present(vault', k)
<1>1. /\ VaultType(vault')
      /\ \A k \in Jobs \ E : Present(vault, k) => Present(vault', k)
  <2>1. VaultType(vault) /\ vault' = FinalVault(j, outcome, E)
    BY DEF FinalizeScript, StoreTypeOK, VaultType
  <2>2. /\ VaultType(FinalVault(j, outcome, E))
        /\ \A k \in Jobs \ E :
              Present(vault, k) => Present(FinalVault(j, outcome, E), k)
    BY <2>1, FinalVaultType
  <2> QED
    BY <2>1, <2>2
<1>2. completed' \subseteq Jobs /\ failed' \subseteq Jobs /\ dlq' \subseteq Jobs
    BY DEF FinalizeScript, FinalizeIndexes, StoreTypeOK
<1> QED
    BY <1>1, <1>2
       DEF FinalizeScript, StoreTypeOK, VaultType, OnQueue, Queued

LEMMA FinalizeFetchKeeps ==
    ASSUME StoreTypeOK, NEW j \in Jobs, NEW outcome \in {"completed", "dead"},
           NEW E \in SUBSET Jobs, NEW k \in Jobs,
           FinalizeFetchScript(j, outcome, E, k)
    PROVE  /\ StoreTypeOK'
           /\ OnQueue \subseteq OnQueue' \cup {j, k}
           /\ Present(FinalVault(j, outcome, E), k) =>
                 k \in OnQueue' /\ vault'[k] \in JobRec
           /\ \A i \in Jobs \ E : Present(vault, i) => Present(vault', i)
<1> DEFINE f == FinalVault(j, outcome, E)
           a == active \ {j}
           x == expired \ {j}
<1>1. /\ VaultType(f)
      /\ \A i \in Jobs \ E : Present(vault, i) => Present(f, i)
    BY FinalVaultType DEF StoreTypeOK, VaultType
<1>2. QueueType' /\ Queued \subseteq Queued' \cup {k}
    BY PopType DEF FinalizeFetchScript, StoreTypeOK, QueueType
<1>3. a \in SUBSET Jobs /\ x \in SUBSET a /\ Lease(k, f, a, x)
    BY DEF FinalizeFetchScript, StoreTypeOK
<1> HIDE DEF f, a, x
<1>4. /\ VaultType(vault')
      /\ active' \subseteq Jobs /\ expired' \subseteq active' /\ a \subseteq active'
      /\ Present(f, k) => k \in active' /\ vault'[k] \in JobRec
      /\ \A i \in Jobs : Present(f, i) => Present(vault', i)
    BY <1>1, <1>3, LeaseType, Zenon
<1>5. completed' \subseteq Jobs /\ failed' \subseteq Jobs /\ dlq' \subseteq Jobs
    BY DEF FinalizeFetchScript, FinalizeIndexes, StoreTypeOK
<1>6. StoreTypeOK'
    BY <1>2, <1>4, <1>5 DEF FinalizeFetchScript, StoreTypeOK, QueueType, VaultType
<1>7. OnQueue \subseteq OnQueue' \cup {j, k} /\ (Present(f, k) => k \in OnQueue')
    BY <1>2, <1>4 DEF FinalizeFetchScript, OnQueue, a
<1> QED
    BY <1>1, <1>4, <1>6, <1>7 DEF f

LEMMA PromoteKeeps ==
    ASSUME StoreTypeOK, PromoteScript
    PROVE  /\ StoreTypeOK' /\ OnQueue' = OnQueue
           /\ \A k \in Jobs : Present(vault, k) => Present(vault', k)
<1> DEFINE ranked == {j \in due \cap Prioritised : Present(vault, j)}
<1>1. PICK q \in Orders(due \ ranked) : waiting' = waiting \o q
    BY DEF PromoteScript
<1>2. due \ ranked \in SUBSET Jobs
    BY DEF StoreTypeOK
<1>3. IsFiniteSet(due \ ranked)
    BY <1>2, JobsAssumption, FS_Subset
<1>4. q \in Seq(due \ ranked) /\ ToSet(q) = due \ ranked
    BY <1>1, <1>3, OrdersType
<1>5. q \in Seq(Jobs)
    BY <1>2, <1>4, SeqMonotonic
<1>6. waiting' \in Seq(Jobs) /\ ToSet(waiting') = ToSet(waiting) \cup (due \ ranked)
    BY <1>1, <1>4, <1>5, ToSetConcat DEF StoreTypeOK
<1>7. prioritized' = prioritized \cup ranked /\ ranked \subseteq due
    BY DEF PromoteScript
<1> QED
    BY <1>6, <1>7 DEF PromoteScript, StoreTypeOK, OnQueue, Queued

LEMMA RecoverKeeps ==
    ASSUME StoreTypeOK, RecoverScript
    PROVE  /\ StoreTypeOK'
           /\ OnQueue \subseteq OnQueue' \cup StalledDead
                                \cup {j \in Jobs : ~Present(vault, j)}
           /\ StalledDead \subseteq Jobs
           /\ \A k \in Jobs : Present(vault, k) => Present(vault', k)
<1>1. StalledBack \in SUBSET Jobs /\ StalledDead \in SUBSET Jobs
    BY DEF StalledBack, StalledDead, StoreTypeOK
<1>2. QueueType' /\ Queued' = Queued \cup StalledBack
    BY <1>1, EnqueueType DEF RecoverScript, StoreTypeOK, QueueType
<1>3. \A j \in expired : \/ j \in StalledDead \cup StalledBack
                          \/ ~Present(vault, j)
  <2> SUFFICES ASSUME NEW j \in expired, Present(vault, j)
               PROVE  j \in StalledDead \cup StalledBack
    OBVIOUS
  <2>1. vault[j].attempts \in Nat /\ MaxRetries[j] \in Nat
    BY OptionsAssumption DEF StoreTypeOK, Present, JobRec
  <2> QED
    BY <2>1 DEF StalledDead, StalledBack
<1>4. VaultType(vault') /\ \A k \in Jobs : Present(vault, k) => Present(vault', k)
  <2>1. \A j \in StalledDead \cup StalledBack : vault[j] \in JobRec
    BY <1>1 DEF StalledDead, StalledBack, Present, StoreTypeOK
  <2>2. \A r \in JobRec : \A st \in {"dead", "waiting"} :
            [r EXCEPT !.status = st] \in JobRec /\ [r EXCEPT !.status = st] # Absent
    BY DEF JobRec, Statuses, Absent
  <2> QED
    BY <1>1, <2>1, <2>2 DEF RecoverScript, StoreTypeOK, VaultType, Present
<1> QED
    BY <1>1, <1>2, <1>3, <1>4
       DEF RecoverScript, StoreTypeOK, QueueType, VaultType, OnQueue

LEMMA RetryKeeps ==
    ASSUME StoreTypeOK, NEW j \in Jobs, NEW rec \in JobRec, RetryScript(j, rec)
    PROVE  /\ StoreTypeOK' /\ OnQueue \cup {j} \subseteq OnQueue'
           /\ \A k \in Jobs : k = j \/ Present(vault, k) => Present(vault', k)
<1>1. rec # Absent
    BY DEF JobRec, Statuses, Absent
<1>2. QueueType' /\ Queued \cup {j} \subseteq Queued'
  <2>1. CASE j \in Prioritised
    BY <2>1 DEF RetryScript, QueueType, Queued, StoreTypeOK
  <2>2. CASE j \notin Prioritised
    <3>1. PICK w \in LRem(waiting, j) : waiting' = Append(w, j)
      BY <2>2 DEF RetryScript
    <3>2. w \in Seq(Jobs) /\ ToSet(waiting) \ {j} \subseteq ToSet(w)
      BY <3>1, LRemType DEF StoreTypeOK
    <3>3. waiting' \in Seq(Jobs) /\ ToSet(waiting') = ToSet(w) \cup {j}
      BY <3>1, <3>2, ToSetAppend
    <3> QED
      BY <2>2, <3>2, <3>3 DEF RetryScript, QueueType, Queued, StoreTypeOK
  <2> QED
    BY <2>1, <2>2
<1> QED
    BY <1>1, <1>2 DEF RetryScript, StoreTypeOK, QueueType, OnQueue, Present

LEMMA SignalKeeps ==
    ASSUME StoreTypeOK, NEW j \in Jobs, SignalScript(j)
    PROVE  /\ StoreTypeOK' /\ OnQueue' = OnQueue \cup {j}
           /\ \A k \in Jobs : Present(vault, k) => Present(vault', k)
BY DEF SignalScript, StoreTypeOK, OnQueue, Queued

LEMMA DrainKeeps ==
    ASSUME StoreTypeOK, DrainScript
    PROVE  /\ StoreTypeOK'
           /\ OnQueue \subseteq OnQueue' \cup Queued \cup delayed
           /\ Queued \cup delayed \subseteq Jobs
           /\ \A k \in Jobs \ (Queued \cup delayed) :
                 Present(vault, k) => Present(vault', k)
<1>1. waiting' \in Seq(Jobs)
    BY DEF DrainScript
<1>2. Queued \subseteq Jobs
    BY RangeOfSeq DEF Queued, StoreTypeOK, ToSet, Range
<1>3. VaultType(vault')
    BY DEF DrainScript, WithoutEntries, StoreTypeOK, VaultType
<1> QED
    BY <1>1, <1>2, <1>3
       DEF DrainScript, WithoutEntries, StoreTypeOK, VaultType, OnQueue, Present
----------------------------------------------------------------------------
(***************************************************************************)
(* The scripts that queue and dequeue, as one job sees them.               *)
(***************************************************************************)
LEMMA EnqueueOnce ==
    ASSUME QueueType, NEW S \in SUBSET Jobs, Enqueue(S), NEW j,
           ListedOnce(j), j \notin S \/ j \notin Queued
    PROVE  ListedOnce(j)'
<1>1. PICK q \in Orders(S \ Prioritised) : waiting' = waiting \o q
    BY DEF Enqueue
<1>2. IsFiniteSet(S \ Prioritised)
  <2>1. (S \ Prioritised) \in SUBSET Jobs
    OBVIOUS
  <2> QED
    BY <2>1, JobsAssumption, FS_Subset
<1>3. q \in Seq(S \ Prioritised) /\ ToSet(q) = S \ Prioritised /\ OnceIn(q, j)
    BY <1>2, OrdersType, OrdersOnce
<1>4. q \in Seq(Jobs)
    BY <1>3, SeqMonotonic
<1>5. OnceIn(waiting, j) /\ (j \notin ToSet(waiting) \/ j \notin ToSet(q))
    BY <1>3 DEF ListedOnce, Queued
<1>6. OnceIn(waiting', j)
    BY <1>1, <1>3, <1>4, <1>5, OnceConcat DEF QueueType
<1>7. ToSet(waiting') = ToSet(waiting) \cup (S \ Prioritised)
    BY <1>1, <1>3, <1>4, ToSetConcat DEF QueueType
<1>8. prioritized' = prioritized \cup (S \cap Prioritised)
    BY DEF Enqueue
<1> QED
    BY <1>6, <1>7, <1>8 DEF ListedOnce, Queued

\* What is popped was queued, and is not queued any more.
LEMMA PopOnce ==
    ASSUME QueueType, NEW k, Pop(k), NEW j, ListedOnce(j)
    PROVE  /\ ListedOnce(j)' /\ k \in Queued
           /\ j = k => j \notin Queued'
           /\ j # k => (j \in Queued <=> j \in Queued')
<1>1. CASE /\ k \in prioritized
           /\ prioritized' = prioritized \ {k} /\ UNCHANGED waiting
    BY <1>1 DEF ListedOnce, Queued
<1>2. CASE /\ prioritized = {} /\ waiting # <<>> /\ k = Head(waiting)
           /\ waiting' = Tail(waiting) /\ UNCHANGED prioritized
  <2>1. /\ ToSet(waiting') \subseteq ToSet(waiting)
        /\ ToSet(waiting) \subseteq ToSet(waiting') \cup {k}
    BY <1>2, ToSetTail DEF QueueType
  <2>2. OnceIn(waiting', j) /\ (j = k => j \notin ToSet(waiting'))
    BY <1>2, OnceTail DEF QueueType, ListedOnce
  <2>3. k \in ToSet(waiting)
    <3>1. 1 \in DOMAIN waiting /\ waiting[1] = k
      BY <1>2, EmptySeq, LenProperties DEF QueueType
    <3> QED
      BY <3>1 DEF ToSet
  <2> QED
    BY <1>2, <2>1, <2>2, <2>3 DEF ListedOnce, Queued
<1> QED
    BY <1>1, <1>2 DEF Pop

LEMMA RetryOnce ==
    ASSUME QueueType, NEW i \in Jobs, NEW rec, RetryScript(i, rec), NEW j,
           ListedOnce(j), j # i \/ j \notin Queued
    PROVE  ListedOnce(j)' /\ Queued' = Queued \cup {i}
<1>1. CASE i \in Prioritised
    BY <1>1 DEF RetryScript, ListedOnce, Queued
<1>2. CASE i \notin Prioritised
  <2>1. PICK w \in LRem(waiting, i) : waiting' = Append(w, i)
    BY <1>2 DEF RetryScript
  <2>2. /\ w \in Seq(Jobs) /\ ToSet(waiting) \ {i} \subseteq ToSet(w)
        /\ OnceIn(w, j) /\ i \notin ToSet(w) /\ ToSet(w) \subseteq ToSet(waiting)
    BY <2>1, LRemType DEF QueueType, ListedOnce
  <2>3. OnceIn(waiting', j) /\ ToSet(waiting') = ToSet(w) \cup {i}
    BY <2>1, <2>2, OnceAppend, ToSetAppend
  <2>4. UNCHANGED prioritized
    BY <1>2 DEF RetryScript
  <2> QED
    BY <2>2, <2>3, <2>4 DEF ListedOnce, Queued
<1> QED
    BY <1>1, <1>2

\* promote.lua: what is due and not queued is queued once.
LEMMA PromoteOnce ==
    ASSUME StoreTypeOK, PromoteScript, NEW j \in Jobs,
           ListedOnce(j), j \notin due \/ (j \notin Queued /\ Present(vault, j))
    PROVE  ListedOnce(j)' /\ Queued' = Queued \cup due
<1> DEFINE ranked == {k \in due \cap Prioritised : Present(vault, k)}
<1>1. PICK q \in Orders(due \ ranked) : waiting' = waiting \o q
    BY DEF PromoteScript
<1>2. due \ ranked \in SUBSET Jobs
    BY DEF StoreTypeOK
<1>3. IsFiniteSet(due \ ranked)
    BY <1>2, JobsAssumption, FS_Subset
<1>4. q \in Seq(due \ ranked) /\ ToSet(q) = due \ ranked /\ OnceIn(q, j)
    BY <1>1, <1>3, OrdersType, OrdersOnce
<1>5. q \in Seq(Jobs) /\ waiting \in Seq(Jobs)
    BY <1>2, <1>4, SeqMonotonic DEF StoreTypeOK
<1>6. j \notin ToSet(waiting) \/ j \notin ToSet(q)
    BY <1>4 DEF Queued
<1>7. OnceIn(waiting', j)
    BY <1>1, <1>4, <1>5, <1>6, OnceConcat DEF ListedOnce
<1>8. ToSet(waiting') = ToSet(waiting) \cup (due \ ranked)
    BY <1>1, <1>4, <1>5, ToSetConcat
<1>9. prioritized' = prioritized \cup ranked
    BY DEF PromoteScript
<1> QED
    BY <1>4, <1>7, <1>8, <1>9 DEF ListedOnce, Queued
=============================================================================
