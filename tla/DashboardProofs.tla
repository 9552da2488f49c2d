---- MODULE DashboardProofs ----
(***************************************************************************)
(* Proofs about what a person at the dashboard sees and does.  First the   *)
(* dashboard: its inductive invariant, in four parts that share only the   *)
(* clock, and the six properties the run of MCDashboard checks.  Then the  *)
(* operators of a queue (QueueAdmin), whose commands the buttons give.     *)
(***************************************************************************)
EXTENDS Dashboard, QueueAdmin, JobStoreProofs, FiniteSetTheorems, FunctionTheorems, SequenceTheorems, WellFoundedInduction, TLAPS

-----------------------------------------------------------------------------
(* Numbers. *)

LEMMA ProductGrows ==
    ASSUME NEW a \in Int, NEW b \in Int, NEW n \in Nat, a <= b
    PROVE  a * n <= b * n
<1>1. b - a \in Nat /\ b = a + (b - a)
  OBVIOUS
<1>2. (b - a) * n >= 0
  BY <1>1
<1>3. b * n = a * n + (b - a) * n
  OBVIOUS
<1> QED BY <1>2, <1>3

LEMMA NextMultiple ==
    ASSUME NEW a \in Int, NEW b \in Int, NEW n \in Nat, a < b
    PROVE  (a + 1) * n <= b * n /\ (a + 1) * n = a * n + n
<1>1. a + 1 \in Int /\ a + 1 <= b
  OBVIOUS
<1>2. (a + 1) * n <= b * n
  BY <1>1, ProductGrows
<1>3. (a + 1) * n = a * n + n
  OBVIOUS
<1> QED BY <1>2, <1>3

LEMMA DivMod ==
    ASSUME NEW a \in Int, NEW n \in Nat \ {0}
    PROVE  /\ a \div n \in Int /\ a % n \in 0..n - 1
           /\ a = (a \div n) * n + (a % n)
           /\ \E r \in 0..n - 1 : a = (a \div n) * n + r
<1>1. a \div n \in Int /\ a % n \in 0..n - 1
  OBVIOUS
<1>2. a = (a \div n) * n + (a % n)
  OBVIOUS
<1> QED BY <1>1, <1>2

LEMMA Quotient ==
    ASSUME NEW a \in Int, NEW n \in Nat \ {0}
    PROVE  \E q \in Int : q = a \div n /\ \E r \in 0..n - 1 : a = q * n + r
BY DivMod

LEMMA DivIs ==
    ASSUME NEW a \in Int, NEW n \in Nat \ {0}, NEW q \in Int, NEW r \in 0..n - 1, a = q * n + r
    PROVE  a \div n = q /\ a % n = r
OBVIOUS

LEMMA RestIs ==
    ASSUME NEW n \in Nat \ {0}, NEW r \in 0..n - 1
    PROVE  r % n = r
OBVIOUS

LEMMA LeastNumber ==
    ASSUME NEW T \in SUBSET Nat, T # {}
    PROVE  \E m \in T : \A k \in T : m <= k
<1> DEFINE R == {ss \in Nat \X Nat : ss[1] < ss[2]}
<1>1. OpToRel(<, Nat) = R
  BY Zenon DEF OpToRel
<1>2. IsWellFoundedOn(R, Nat)
  BY <1>1, NatLessThanWellFounded
<1>3. \E m \in T : \A k \in T : ~ (<<k, m>> \in R)
  <2> HIDE DEF R
  <2> QED BY <1>2, WFMin
<1>4. PICK m \in T : \A k \in T : ~ (<<k, m>> \in R)
  BY <1>3
<1>5. ASSUME NEW k \in T PROVE m <= k
  <2>1. k \in Nat /\ m \in Nat /\ ~ (<<k, m>> \in R)
    BY <1>4
  <2>2. ~(k < m)
    BY <2>1
  <2> QED BY <2>1, <2>2
<1> QED BY <1>5

-----------------------------------------------------------------------------
(* The limiter.  Whatever was let through in the window that ends now is   *)
(* an entry of the limiter, which has not expired; whoever was refused and *)
(* saw nobody let through since will find it with room when he waited.     *)

ClockOK == now \in 0..MaxTime /\ events \in 0..MaxEvents

LimiterTypes ==
    /\ ClockOK
    /\ limiter \in [entries : SUBSET [stamp : Nat, id : Nat], until : Nat]
    /\ IsFiniteSet(limiter.entries) /\ Cardinality(limiter.entries) <= Limit
    /\ login \in [Browsers -> [at : {"idle", "stamped", "checking"}, stamp : Nat]]
    /\ refusal \in [Browsers -> {None} \cup [from : Nat, after : Nat]]
    /\ passed \in Seq([stamp : Nat, at : Nat])

Stamped ==
    /\ \A b \in Browsers : login[b].stamp <= now
    /\ \A e \in limiter.entries : e.stamp <= now /\ e.stamp + Duration <= limiter.until
    /\ \A e \in limiter.entries : e.id \in 0..Len(passed) - 1

Counting ==
    \A k \in 1..Len(passed) :
        /\ passed[k].stamp <= passed[k].at /\ passed[k].at <= now
        /\ passed[k].stamp > now - Duration
           => [stamp |-> passed[k].stamp, id |-> k - 1] \in limiter.entries

StillIn(entries, from) == {e \in entries : e.stamp + Duration > from}

WaitedOut ==
    \A b \in Browsers : refusal[b] # None =>
        /\ refusal[b].after <= Len(passed)
        /\ refusal[b].after = Len(passed) => Cardinality(StillIn(limiter.entries, refusal[b].from)) < Limit

LimiterInv == LimiterTypes /\ Stamped /\ Counting /\ LoginsLimited /\ WaitedOut

LEMMA ClearedIs ==
    ASSUME LimiterTypes, NEW s \in Nat
    PROVE  /\ Cleared(limiter, s) \subseteq limiter.entries
           /\ IsFiniteSet(Cleared(limiter, s))
           /\ Cardinality(Cleared(limiter, s)) \in Nat
           /\ Cardinality(Cleared(limiter, s)) <= Cardinality(limiter.entries)
<1>1. Cleared(limiter, s) \subseteq limiter.entries
  BY DEF Cleared, Live
<1>2. IsFiniteSet(limiter.entries)
  BY DEF LimiterTypes
<1> QED BY <1>1, <1>2, FS_Subset, FS_CardinalityType

LEMMA OldestIs ==
    ASSUME NEW E \in SUBSET [stamp : Nat, id : Nat], E # {}
    PROVE  /\ Oldest(E) \in Nat
           /\ \E e \in E : e.stamp = Oldest(E)
           /\ \A e \in E : Oldest(E) <= e.stamp
<1> DEFINE S == {e.stamp : e \in E}
<1>1. S \in SUBSET Nat /\ S # {}
  OBVIOUS
<1>2. \E m \in S : \A k \in S : m <= k
  BY <1>1, LeastNumber
<1>3. \E m \in S : \A e \in E : m <= e.stamp
  BY <1>2
<1>4. Oldest(E) \in S /\ \A e \in E : Oldest(E) <= e.stamp
  BY <1>3 DEF Oldest
<1> QED BY <1>1, <1>4

\* What a step that leaves the limiter alone may do.
LEMMA LimiterKept ==
    ASSUME LimiterInv, UNCHANGED <<now, limiter, refusal, passed>>, ClockOK',
           login' \in [Browsers -> [at : {"idle", "stamped", "checking"}, stamp : Nat]],
           \A b \in Browsers : login'[b].stamp <= now
    PROVE  LimiterInv'
<1> USE DEF LimiterInv
<1>1. LimiterTypes'
  BY DEF LimiterTypes
<1>2. Stamped'
  BY DEF Stamped
<1>3. Counting'
  BY DEF Counting
<1>4. LoginsLimited'
  BY DEF LoginsLimited
<1>5. WaitedOut'
  BY DEF WaitedOut, StillIn
<1> QED BY <1>1, <1>2, <1>3, <1>4, <1>5

LEMMA LimiterPass ==
    ASSUME LimiterInv, NEW b \in Browsers, Pass(b)
    PROVE  LimiterInv'
<1> USE AccessAssumption, ClockAssumption DEF LimiterInv
<1>1. PICK s : s = login[b].stamp
  OBVIOUS
<1>2. /\ s \in Nat /\ s <= now /\ now \in Nat /\ Duration \in Nat /\ Duration > 0
      /\ Len(passed) \in Nat
  BY <1>1 DEF LimiterTypes, ClockOK, Stamped
<1>3. PICK x : x = [stamp |-> s, id |-> Len(passed)]
  OBVIOUS
<1>4. /\ Admits(limiter, s) /\ now' = now /\ events' = events /\ refusal' = refusal
      /\ limiter' = [entries |-> Cleared(limiter, s) \cup {x}, until |-> now + Duration]
      /\ passed' = Append(passed, [stamp |-> s, at |-> now])
      /\ login' = [login EXCEPT ![b].at = "checking"]
  BY <1>1, <1>3 DEF Pass, Admitted
<1>5. /\ x \in [stamp : Nat, id : Nat] /\ x.stamp = s /\ x.id = Len(passed)
      /\ passed \in Seq([stamp : Nat, at : Nat])
      /\ [stamp |-> s, at |-> now] \in [stamp : Nat, at : Nat]
  BY <1>2, <1>3 DEF LimiterTypes
<1>6. /\ Len(passed') = Len(passed) + 1 /\ passed' \in Seq([stamp : Nat, at : Nat])
      /\ \A k \in 1..Len(passed) : passed'[k] = passed[k]
      /\ passed'[Len(passed) + 1] = [stamp |-> s, at |-> now]
  BY <1>4, <1>5
<1>7. /\ limiter'.entries = Cleared(limiter, s) \cup {x} /\ limiter'.until = now + Duration
  BY <1>4
<1>8. IsFiniteSet(limiter'.entries) /\ Cardinality(limiter'.entries) <= Limit
  <2>1. /\ IsFiniteSet(Cleared(limiter, s)) /\ Cardinality(Cleared(limiter, s)) \in Nat
        /\ Cardinality(Cleared(limiter, s)) < Limit
    BY <1>2, <1>4, ClearedIs DEF Admits
  <2>2. /\ IsFiniteSet(Cleared(limiter, s) \cup {x})
        /\ Cardinality(Cleared(limiter, s) \cup {x}) <= Cardinality(Cleared(limiter, s)) + 1
    <3>1. PICK C : C = Cleared(limiter, s)
      OBVIOUS
    <3>2. IsFiniteSet(C) /\ Cardinality(C) \in Nat
      BY <2>1, <3>1
    <3>3. /\ IsFiniteSet(C \cup {x})
          /\ Cardinality(C \cup {x}) = Cardinality(C) \/ Cardinality(C \cup {x}) = Cardinality(C) + 1
      BY <3>2, FS_AddElement
    <3> QED BY <3>1, <3>2, <3>3
  <2>3. Cardinality(limiter'.entries) = Cardinality(Cleared(limiter, s) \cup {x})
    BY <1>7
  <2>4. Cardinality(limiter'.entries) \in Nat
    BY <1>7, <2>2, FS_CardinalityType
  <2> QED BY <1>7, <2>1, <2>2, <2>3, <2>4
<1>9. LimiterTypes'
  <2>1. Cleared(limiter, s) \subseteq [stamp : Nat, id : Nat]
    BY <1>2, ClearedIs DEF LimiterTypes
  <2>2. limiter' \in [entries : SUBSET [stamp : Nat, id : Nat], until : Nat]
    BY <1>2, <1>4, <1>5, <2>1
  <2>3. login' \in [Browsers -> [at : {"idle", "stamped", "checking"}, stamp : Nat]]
    BY <1>4 DEF LimiterTypes
  <2> QED BY <1>4, <1>6, <1>8, <2>2, <2>3 DEF LimiterTypes, ClockOK
<1>10. Stamped'
  <2>1. \A c \in Browsers : login'[c].stamp <= now'
    BY <1>4 DEF Stamped, LimiterTypes
  <2>2. ASSUME NEW e \in limiter'.entries
        PROVE  e.stamp <= now' /\ e.stamp + Duration <= limiter'.until /\ e.id \in 0..Len(passed') - 1
    <3>1. CASE e = x
      BY <1>2, <1>4, <1>5, <1>6, <1>7, <3>1
    <3>2. CASE e \in limiter.entries
      <4>1. e.stamp \in Nat /\ e.stamp <= now /\ e.id \in 0..Len(passed) - 1
        BY <3>2 DEF Stamped, LimiterTypes
      <4>2. e.stamp <= now'
        BY <1>4, <4>1
      <4>3. e.stamp + Duration <= limiter'.until
        BY <1>2, <1>7, <4>1
      <4>4. e.id \in 0..Len(passed') - 1
        BY <1>2, <1>6, <4>1
      <4> QED BY <4>2, <4>3, <4>4
    <3> QED BY <1>2, <1>7, <3>1, <3>2, ClearedIs
  <2> QED BY <2>1, <2>2 DEF Stamped
<1>11. Counting'
  <2>1. ASSUME NEW k \in 1..Len(passed')
        PROVE  /\ passed'[k].stamp <= passed'[k].at /\ passed'[k].at <= now'
               /\ passed'[k].stamp > now' - Duration
                  => [stamp |-> passed'[k].stamp, id |-> k - 1] \in limiter'.entries
    <3>1. CASE k = Len(passed) + 1
      <4>1. passed'[k].stamp = s /\ passed'[k].at = now /\ k - 1 = Len(passed)
        BY <1>2, <1>6, <3>1
      <4> QED BY <1>2, <1>3, <1>4, <1>7, <4>1
    <3>2. CASE k \in 1..Len(passed)
      <4>1. /\ passed'[k] = passed[k] /\ passed[k].stamp \in Nat /\ passed[k].at \in Nat
            /\ passed[k].stamp <= passed[k].at /\ passed[k].at <= now
            /\ passed[k].stamp > now - Duration
               => [stamp |-> passed[k].stamp, id |-> k - 1] \in limiter.entries
        <5>1. passed[k] \in [stamp : Nat, at : Nat]
          BY <1>5, <3>2, ElementOfSeq
        <5> QED BY <1>6, <3>2, <5>1 DEF Counting
      <4>2. ASSUME passed[k].stamp > now - Duration
            PROVE  [stamp |-> passed[k].stamp, id |-> k - 1] \in Cleared(limiter, s)
        <5>1. PICK e : e = [stamp |-> passed[k].stamp, id |-> k - 1]
          OBVIOUS
        <5>2. e \in limiter.entries /\ e.stamp = passed[k].stamp
          BY <4>1, <4>2, <5>1
        <5>3. e.stamp + Duration <= limiter.until /\ limiter.until \in Nat
          BY <5>2 DEF Stamped, LimiterTypes
        <5>4. PICK z \in Nat : z = passed[k].stamp
          BY <4>1
        <5>5. e.stamp = z /\ z > now - Duration
          BY <4>2, <5>2, <5>4
        <5>6. limiter.until > now
          BY <1>2, <5>3, <5>5
        <5>7. e.stamp > s - Duration
          BY <1>2, <5>5
        <5> QED BY <5>1, <5>2, <5>6, <5>7 DEF Cleared, Live
      <4> QED BY <1>4, <1>7, <4>1, <4>2
    <3> QED BY <1>2, <1>6, <3>1, <3>2
  <2> QED BY <2>1 DEF Counting
<1>12. LoginsLimited'
  <2>1. ASSUME NEW i \in 1..Len(passed'), passed'[i].at = passed'[i].stamp
        PROVE  Cardinality({k \in 1..i : passed'[k].stamp > passed'[i].stamp - Duration}) <= Limit
    <3>1. CASE i = Len(passed) + 1
      <4> DEFINE W == {k \in 1..i : passed'[k].stamp > passed'[i].stamp - Duration}
                 f == [k \in W |-> [stamp |-> passed'[k].stamp, id |-> k - 1]]
      <4>1. passed'[i].stamp = now' /\ now' = now
        BY <1>4, <1>6, <2>1, <3>1
      <4>2. \A k \in W : f[k] \in limiter'.entries
        BY <1>6, <1>11, <3>1, <4>1 DEF Counting
      <4>3. \A k, m \in W : f[k] = f[m] => k = m
        <5> SUFFICES ASSUME NEW k \in W, NEW m \in W, f[k] = f[m] PROVE k = m
          OBVIOUS
        <5>1. f[k].id = k - 1 /\ f[m].id = m - 1 /\ k \in Int /\ m \in Int
          OBVIOUS
        <5> QED BY <5>1
      <4>4. f \in [W -> limiter'.entries]
        BY <4>2
      <4>5. f \in Injection(W, limiter'.entries)
        <5> HIDE DEF W, f
        <5> QED BY <4>3, <4>4, Fun_IsInj
      <4>6. /\ IsFiniteSet(W) /\ Cardinality(W) <= Cardinality(limiter'.entries)
        <5> HIDE DEF W, f
        <5> QED BY <1>8, <4>5, FS_Injection
      <4>7. Cardinality(W) \in Nat /\ Cardinality(limiter'.entries) \in Nat
        <5> HIDE DEF W, f
        <5> QED BY <1>8, <4>6, FS_CardinalityType
      <4> QED BY <1>8, <4>6, <4>7
    <3>2. CASE i \in 1..Len(passed)
      <4>1. \A k \in 1..i : passed'[k] = passed[k]
        BY <1>2, <1>6, <3>2
      <4>2. passed[i].at = passed[i].stamp /\ i \in 1..i
        BY <2>1, <4>1, <3>2
      <4>3. {k \in 1..i : passed'[k].stamp > passed'[i].stamp - Duration}
              = {k \in 1..i : passed[k].stamp > passed[i].stamp - Duration}
        BY <4>1, <4>2
      <4> QED BY <3>2, <4>2, <4>3 DEF LoginsLimited
    <3> QED BY <1>2, <1>6, <3>1, <3>2
  <2> QED BY <2>1 DEF LoginsLimited
<1>13. WaitedOut'
  <2>1. ASSUME NEW c \in Browsers, refusal[c] # None
        PROVE  refusal[c].after \in Nat /\ refusal[c].after <= Len(passed)
    BY <2>1 DEF WaitedOut, LimiterTypes
  <2>2. ASSUME NEW c \in Browsers, refusal'[c] # None
        PROVE  refusal'[c].after < Len(passed')
    BY <1>2, <1>4, <1>6, <2>1, <2>2
  <2>3. ASSUME NEW c \in Browsers, refusal'[c] # None
        PROVE  refusal'[c].after <= Len(passed') /\ refusal'[c].after # Len(passed')
    BY <1>2, <1>4, <1>6, <2>1, <2>3
  <2> QED BY <2>3 DEF WaitedOut
<1> QED BY <1>9, <1>10, <1>11, <1>12, <1>13

LEMMA LimiterRefuse ==
    ASSUME LimiterInv, NEW b \in Browsers, Refuse(b)
    PROVE  LimiterInv'
<1> USE AccessAssumption, ClockAssumption DEF LimiterInv
<1>1. PICK s : s = login[b].stamp
  OBVIOUS
<1>2. /\ s \in Nat /\ s <= now /\ now \in Nat /\ Duration \in Nat /\ Duration > 0
      /\ Len(passed) \in Nat
  BY <1>1 DEF LimiterTypes, ClockOK, Stamped
<1>3. PICK from : from = s + WaitTime(limiter, s)
  OBVIOUS
<1>4. /\ ~ Admits(limiter, s) /\ now' = now /\ events' = events /\ passed' = passed
      /\ limiter' = [limiter EXCEPT !.entries = Cleared(limiter, s)]
      /\ refusal' = [refusal EXCEPT ![b] = [from |-> from, after |-> Len(passed)]]
      /\ login' = [login EXCEPT ![b] = Idle]
  BY <1>1, <1>3 DEF Refuse
<1>5. limiter'.entries = Cleared(limiter, s) /\ limiter'.until = limiter.until
  BY <1>4 DEF LimiterTypes
<1>6. /\ Cleared(limiter, s) \subseteq limiter.entries /\ IsFiniteSet(Cleared(limiter, s))
      /\ Cardinality(Cleared(limiter, s)) \in Nat
      /\ Cardinality(Cleared(limiter, s)) <= Limit /\ Cardinality(Cleared(limiter, s)) >= Limit
  <2>1. /\ Cardinality(limiter.entries) \in Nat /\ Cardinality(limiter.entries) <= Limit
    BY FS_CardinalityType DEF LimiterTypes
  <2> QED BY <1>2, <1>4, <2>1, ClearedIs DEF Admits
<1>7. /\ from \in Nat
      /\ \E e \in Cleared(limiter, s) : e.stamp + Duration <= from
  <2>1. Cleared(limiter, s) # {} /\ Cleared(limiter, s) \in SUBSET [stamp : Nat, id : Nat]
    BY <1>6, FS_EmptySet DEF LimiterTypes
  <2>2. PICK m : m = Oldest(Cleared(limiter, s))
    OBVIOUS
  <2>3. m \in Nat /\ \E e \in Cleared(limiter, s) : e.stamp = m
    BY <2>1, <2>2, OldestIs
  <2>4. from = s + (IF m + Duration - s < 0 THEN 0 ELSE m + Duration - s)
    BY <1>3, <2>2 DEF WaitTime
  <2>5. from \in Nat /\ m + Duration <= from
    BY <1>2, <2>3, <2>4
  <2> QED BY <2>3, <2>5
<1>8. LimiterTypes'
  <2>1. limiter' \in [entries : SUBSET [stamp : Nat, id : Nat], until : Nat]
    BY <1>4, <1>6 DEF LimiterTypes
  <2>2. login' \in [Browsers -> [at : {"idle", "stamped", "checking"}, stamp : Nat]]
    BY <1>4 DEF LimiterTypes, Idle
  <2>3. refusal' \in [Browsers -> {None} \cup [from : Nat, after : Nat]]
    BY <1>2, <1>4, <1>7 DEF LimiterTypes
  <2>4. Cardinality(limiter'.entries) <= Limit /\ IsFiniteSet(limiter'.entries)
    BY <1>5, <1>6
  <2> QED BY <1>4, <2>1, <2>2, <2>3, <2>4 DEF LimiterTypes, ClockOK
<1>9. Stamped'
  <2>1. \A c \in Browsers : login'[c].stamp <= now'
    BY <1>2, <1>4 DEF Stamped, LimiterTypes, Idle
  <2> QED BY <1>4, <1>5, <1>6, <2>1 DEF Stamped
<1>10. Counting'
  <2>1. ASSUME NEW k \in 1..Len(passed), passed[k].stamp > now - Duration
        PROVE  [stamp |-> passed[k].stamp, id |-> k - 1] \in Cleared(limiter, s)
    <3>1. PICK e : e = [stamp |-> passed[k].stamp, id |-> k - 1]
      OBVIOUS
    <3>2. e \in limiter.entries /\ e.stamp = passed[k].stamp /\ e.stamp \in Nat
      BY <2>1, <3>1 DEF Counting, LimiterTypes
    <3>3. e.stamp + Duration <= limiter.until /\ limiter.until \in Nat
      BY <3>2 DEF Stamped, LimiterTypes
    <3>4. limiter.until > now /\ e.stamp > s - Duration
      BY <1>2, <2>1, <3>2, <3>3
    <3> QED BY <3>1, <3>2, <3>4 DEF Cleared, Live
  <2> QED BY <1>4, <1>5, <2>1 DEF Counting
<1>11. LoginsLimited'
  BY <1>4 DEF LoginsLimited
<1>12. WaitedOut'
  <2>1. StillIn(limiter'.entries, from) = {e \in Cleared(limiter, s) : e.stamp + Duration > from}
    BY <1>5 DEF StillIn
  <2>2. PICK e \in Cleared(limiter, s) : e.stamp + Duration <= from
    BY <1>7
  <2>3. e.stamp \in Nat
    BY <1>6, <2>2 DEF LimiterTypes
  <2>4. StillIn(limiter'.entries, from) \in SUBSET (Cleared(limiter, s) \ {e})
    BY <1>2, <1>7, <2>1, <2>2, <2>3
  <2>5. /\ IsFiniteSet(Cleared(limiter, s) \ {e})
        /\ Cardinality(Cleared(limiter, s) \ {e}) = Cardinality(Cleared(limiter, s)) - 1
    BY <1>6, FS_RemoveElement
  <2>6. /\ IsFiniteSet(StillIn(limiter'.entries, from))
        /\ Cardinality(StillIn(limiter'.entries, from)) <= Cardinality(Cleared(limiter, s) \ {e})
    BY <2>4, <2>5, FS_Subset
  <2>7. Cardinality(StillIn(limiter'.entries, from)) \in Nat
    BY <2>6, FS_CardinalityType
  <2>8. Cardinality(StillIn(limiter'.entries, from)) < Limit
    BY <1>6, <2>5, <2>6, <2>7
  <2>9. ASSUME NEW c \in Browsers, refusal'[c] # None
        PROVE  /\ refusal'[c].after <= Len(passed')
               /\ refusal'[c].after = Len(passed') => Cardinality(StillIn(limiter'.entries, refusal'[c].from)) < Limit
    <3>1. CASE c = b
      <4>1. refusal'[c].after = Len(passed) /\ refusal'[c].from = from
        BY <1>4, <3>1 DEF LimiterTypes
      <4>2. StillIn(limiter'.entries, refusal'[c].from) = StillIn(limiter'.entries, from)
        BY <4>1
      <4>3. Cardinality(StillIn(limiter'.entries, refusal'[c].from)) < Limit
        BY <2>8, <4>2
      <4>4. refusal'[c].after <= Len(passed')
        BY <1>2, <1>4, <4>1
      <4> QED BY <4>3, <4>4
    <3>2. CASE c # b
      <4>1. refusal'[c] = refusal[c] /\ refusal[c] # None
        BY <1>4, <2>9, <3>2 DEF LimiterTypes
      <4>2. PICK g : g = refusal[c].from
        OBVIOUS
      <4>3. /\ refusal[c].after <= Len(passed)
            /\ refusal[c].after = Len(passed) => Cardinality(StillIn(limiter.entries, g)) < Limit
        BY <4>1, <4>2 DEF WaitedOut
      <4>4. StillIn(limiter'.entries, g) \in SUBSET StillIn(limiter.entries, g)
        BY <1>5, <1>6 DEF StillIn
      <4>5. IsFiniteSet(StillIn(limiter.entries, g))
        BY FS_Subset DEF StillIn, LimiterTypes
      <4>6. /\ Cardinality(StillIn(limiter'.entries, g)) <= Cardinality(StillIn(limiter.entries, g)) /\ Cardinality(StillIn(limiter.entries, g)) \in Nat
            /\ IsFiniteSet(StillIn(limiter'.entries, g))
        BY <4>4, <4>5, FS_Subset, FS_CardinalityType
      <4>7. Cardinality(StillIn(limiter'.entries, g)) \in Nat
        BY <4>6, FS_CardinalityType
      <4>8. refusal[c].after = Len(passed) => Cardinality(StillIn(limiter'.entries, g)) < Limit
        BY <4>3, <4>6, <4>7
      <4>9. refusal'[c].from = g /\ StillIn(limiter'.entries, refusal'[c].from) = StillIn(limiter'.entries, g)
        BY <4>1, <4>2 DEF StillIn
      <4> QED BY <1>4, <4>1, <4>3, <4>8, <4>9
    <3> QED BY <3>1, <3>2
  <2> QED BY <2>9 DEF WaitedOut
<1> QED BY <1>8, <1>9, <1>10, <1>11, <1>12

LEMMA LimiterTime ==
    ASSUME LimiterInv, Passes, UNCHANGED <<limiter, login, refusal, passed>>
    PROVE  LimiterInv'
<1> USE AccessAssumption, ClockAssumption DEF LimiterInv
<1>1. now \in Nat /\ now' = now + 1 /\ now' \in 0..MaxTime /\ Duration \in Nat /\ events' = events
  BY DEF Passes, LimiterTypes, ClockOK
<1>2. LimiterTypes'
  BY <1>1 DEF LimiterTypes, ClockOK
<1>3. Stamped'
  <2>1. \A b \in Browsers : login[b].stamp \in Nat
    BY DEF LimiterTypes
  <2>2. \A e \in limiter.entries : e.stamp \in Nat
    BY DEF LimiterTypes
  <2> QED BY <1>1, <2>1, <2>2 DEF Stamped
<1>4. Counting'
  <2>1. ASSUME NEW k \in 1..Len(passed) PROVE passed[k] \in [stamp : Nat, at : Nat]
    BY ElementOfSeq DEF LimiterTypes
  <2> QED BY <1>1, <2>1 DEF Counting
<1>5. LoginsLimited'
  BY DEF LoginsLimited
<1>6. WaitedOut'
  BY DEF WaitedOut
<1> QED BY <1>2, <1>3, <1>4, <1>5, <1>6

LEMMA LimiterTruth ==
    ASSUME LimiterInv
    PROVE  RetryAfterSuffices
<1> USE AccessAssumption, ClockAssumption DEF LimiterInv
<1> SUFFICES ASSUME NEW b \in Browsers, refusal[b] # None,
                    refusal[b].after = Len(passed), now >= refusal[b].from
             PROVE  Admits(limiter, now)
  BY DEF RetryAfterSuffices
<1>1. PICK from : from = refusal[b].from
  OBVIOUS
<1>2. from \in Nat /\ now \in Nat /\ now >= from
  BY <1>1 DEF LimiterTypes, ClockOK
<1>3. Cardinality(StillIn(limiter.entries, from)) < Limit
  BY <1>1 DEF WaitedOut
<1>4. Cleared(limiter, now) \in SUBSET StillIn(limiter.entries, from)
  <2>1. \A e \in limiter.entries : e.stamp \in Nat
    BY DEF LimiterTypes
  <2> QED BY <1>2, <2>1 DEF Cleared, Live, StillIn
<1>5. IsFiniteSet(StillIn(limiter.entries, from))
  BY FS_Subset DEF StillIn, LimiterTypes
<1>6. /\ Cardinality(Cleared(limiter, now)) <= Cardinality(StillIn(limiter.entries, from))
      /\ Cardinality(Cleared(limiter, now)) \in Nat /\ Cardinality(StillIn(limiter.entries, from)) \in Nat
  BY <1>2, <1>4, <1>5, FS_Subset, FS_CardinalityType, ClearedIs
<1> QED BY <1>3, <1>6 DEF Admits

-----------------------------------------------------------------------------
(* The sessions.  A browser with a cookie is on the list of those whose    *)
(* session ended exactly when the cookie is too old or of another secret.  *)

SessionInv ==
    /\ ClockOK /\ disabled \in BOOLEAN /\ secret \in Nat /\ secret <= events
    /\ cookie \in [Browsers -> {None} \cup [secret : Nat, issued : Nat]]
    /\ sockets \subseteq Browsers /\ ended \subseteq Browsers
    /\ disabled \/ sockets = {}
    /\ \A b \in Browsers : cookie[b] # None =>
           /\ cookie[b].secret <= secret /\ cookie[b].issued <= now
           /\ b \in ended <=> now >= cookie[b].issued + Session \/ cookie[b].secret # secret

LEMMA SessionKept ==
    ASSUME SessionInv, UNCHANGED <<now, disabled, secret, cookie, ended, sockets>>,
           events' \in 0..MaxEvents, events' >= events
    PROVE  SessionInv'
BY ClockAssumption DEF SessionInv, ClockOK

LEMMA SessionIssue ==
    ASSUME SessionInv, NEW b \in Browsers, Issue(b)
    PROVE  SessionInv'
<1> USE AccessAssumption, ClockAssumption DEF SessionInv, ClockOK
<1>1. /\ cookie' = [cookie EXCEPT ![b] = [secret |-> secret, issued |-> now]]
      /\ ended' = ended \ {b} /\ UNCHANGED <<now, events, disabled, secret, sockets>>
  BY DEF Issue
<1>2. PICK c : c = [secret |-> secret, issued |-> now]
  OBVIOUS
<1>3. c \in [secret : Nat, issued : Nat] /\ c # None /\ c.secret = secret /\ c.issued = now
  BY <1>2
<1>4. cookie' \in [Browsers -> {None} \cup [secret : Nat, issued : Nat]]
  BY <1>1, <1>2, <1>3
<1>5. ASSUME NEW a \in Browsers, cookie'[a] # None
      PROVE  /\ cookie'[a].secret <= secret' /\ cookie'[a].issued <= now'
             /\ a \in ended' <=> now' >= cookie'[a].issued + Session \/ cookie'[a].secret # secret'
  <2>1. CASE a = b
    <3>1. cookie'[a] = c /\ a \notin ended'
      BY <1>1, <1>2, <2>1
    <3>2. now \in Nat /\ Session \in Nat /\ Session > 0 /\ secret \in Nat
      OBVIOUS
    <3>3. ~(now' >= cookie'[a].issued + Session) /\ cookie'[a].secret = secret'
      BY <1>1, <1>3, <3>1, <3>2
    <3>4. cookie'[a].secret <= secret' /\ cookie'[a].issued <= now'
      BY <1>1, <1>3, <3>1, <3>2
    <3> QED BY <3>1, <3>3, <3>4
  <2>2. CASE a # b
    <3>1. cookie'[a] = cookie[a] /\ (a \in ended' <=> a \in ended)
      BY <1>1, <2>2
    <3> QED BY <1>1, <1>5, <3>1
  <2> QED BY <2>1, <2>2
<1>6. sockets' \subseteq Browsers /\ ended' \subseteq Browsers /\ (disabled' \/ sockets' = {})
  BY <1>1
<1>7. /\ now' \in 0..MaxTime /\ events' \in 0..MaxEvents /\ disabled' \in BOOLEAN
      /\ secret' \in Nat /\ secret' <= events'
  BY <1>1
<1> QED BY <1>4, <1>5, <1>6, <1>7

LEMMA SessionLogout ==
    ASSUME SessionInv, NEW b \in Browsers, Logout(b)
    PROVE  SessionInv'
<1> USE AccessAssumption, ClockAssumption DEF SessionInv, ClockOK
<1>1. /\ cookie' = [cookie EXCEPT ![b] = None] /\ ended' = ended \cup {b}
      /\ UNCHANGED <<now, disabled, secret, sockets>>
      /\ events' = events + 1 /\ events < MaxEvents
  BY DEF Logout, Event
<1>2. ASSUME NEW a \in Browsers, cookie'[a] # None
      PROVE  /\ cookie'[a] = cookie[a] /\ (a \in ended' <=> a \in ended)
  BY <1>1, <1>2
<1>3. /\ now' \in 0..MaxTime /\ events' \in 0..MaxEvents /\ disabled' \in BOOLEAN
      /\ secret' \in Nat /\ secret' <= events'
  BY <1>1
<1>4. cookie' \in [Browsers -> {None} \cup [secret : Nat, issued : Nat]]
  BY <1>1
<1>5. sockets' \subseteq Browsers /\ ended' \subseteq Browsers /\ (disabled' \/ sockets' = {})
  BY <1>1
<1> QED BY <1>1, <1>2, <1>3, <1>4, <1>5

LEMMA SessionSockets ==
    ASSUME SessionInv, NEW b \in Browsers, Connect(b) \/ Close(b)
    PROVE  SessionInv'
<1> USE AccessAssumption, ClockAssumption DEF SessionInv, ClockOK
<1>1. /\ UNCHANGED <<now, disabled, secret, cookie, ended>>
      /\ events' = events + 1 /\ events < MaxEvents
  BY DEF Connect, Close, Event
<1>2. sockets' \subseteq Browsers /\ (disabled' \/ sockets' = {})
  <2>1. CASE Connect(b)
    <3>1. disabled
      BY <2>1 DEF Connect, Upgrade, RequireAuth
    <3> QED BY <1>1, <2>1, <3>1 DEF Connect
  <2>2. CASE Close(b)
    BY <1>1, <2>2 DEF Close
  <2> QED BY <2>1, <2>2
<1>3. events' \in 0..MaxEvents /\ secret' <= events'
  BY <1>1
<1> QED BY <1>1, <1>2, <1>3

LEMMA SessionRestart ==
    ASSUME SessionInv, Event, ServerRestarts
    PROVE  SessionInv'
<1> USE AccessAssumption, ClockAssumption DEF SessionInv, ClockOK
<1>1. /\ UNCHANGED <<now, disabled, cookie>> /\ sockets' = {}
      /\ events' = events + 1 /\ events < MaxEvents
  BY DEF ServerRestarts, Event
<1>2. CASE FixedSecret \/ disabled
  <2>1. secret' = secret /\ ended' = ended
    BY <1>2 DEF ServerRestarts, NewSecret
  <2>2. events' \in 0..MaxEvents /\ secret' <= events'
    BY <1>1, <2>1
  <2> QED BY <1>1, <2>1, <2>2
<1>3. CASE ~(FixedSecret \/ disabled)
  <2>1. secret' = secret + 1 /\ ended' = ended \cup {b \in Browsers : cookie[b] # None}
    BY <1>3 DEF ServerRestarts, NewSecret
  <2>2. events' \in 0..MaxEvents /\ secret' \in Nat /\ secret' <= events'
    BY <1>1, <2>1
  <2>3. ASSUME NEW b \in Browsers, cookie[b] # None
        PROVE  cookie[b].secret <= secret' /\ cookie[b].secret # secret' /\ b \in ended'
    <3>1. cookie[b].secret \in Nat /\ cookie[b].secret <= secret /\ secret \in Nat
      BY <2>3
    <3> QED BY <2>1, <2>3, <3>1
  <2>4. ended' \subseteq Browsers
    BY <2>1
  <2> QED BY <1>1, <2>2, <2>3, <2>4
<1> QED BY <1>2, <1>3

LEMMA SessionTime ==
    ASSUME SessionInv, Passes, AccessTimePasses
    PROVE  SessionInv'
<1> USE AccessAssumption, ClockAssumption DEF SessionInv, ClockOK
<1>1. /\ UNCHANGED <<events, disabled, secret, cookie, sockets>>
      /\ now' = now + 1 /\ now < MaxTime
      /\ ended' = ended \cup {b \in Browsers : cookie[b] # None /\ now' >= cookie[b].issued + Session}
  BY DEF AccessTimePasses, Passes
<1>2. ASSUME NEW b \in Browsers, cookie[b] # None
      PROVE  /\ cookie[b].issued <= now'
             /\ b \in ended' <=> now' >= cookie[b].issued + Session \/ cookie[b].secret # secret
  <2>1. PICK t : t = cookie[b].issued + Session
    OBVIOUS
  <2>2. t \in Nat /\ now \in Nat /\ cookie[b].issued \in Nat /\ cookie[b].issued <= now
    BY <1>2, <2>1
  <2>3. cookie[b].issued <= now' /\ (now >= t => now' >= t)
    BY <1>1, <2>2
  <2>4. b \in ended' <=> b \in ended \/ now' >= t
    BY <1>1, <1>2, <2>1
  <2>5. b \in ended <=> now >= t \/ cookie[b].secret # secret
    BY <1>2, <2>1
  <2> QED BY <2>1, <2>3, <2>4, <2>5
<1>3. now' \in 0..MaxTime /\ ended' \subseteq Browsers
  BY <1>1
<1> QED BY <1>1, <1>2, <1>3

LEMMA SessionTruth ==
    ASSUME SessionInv
    PROVE  SessionsHonoured
<1> USE AccessAssumption, ClockAssumption DEF SessionInv, ClockOK
<1> SUFFICES ASSUME ~disabled, NEW b \in Browsers
             PROVE  LET open == cookie[b] # None /\ b \notin ended IN
                    /\ RequireAuth(b, "GET", FALSE) <=> open
                    /\ RequireAuth(b, "POST", TRUE) <=> open
                    /\ Me(b) <=> open
                    /\ b \notin sockets
  BY DEF SessionsHonoured
<1>1. Verified(b) <=> cookie[b] # None /\ b \notin ended
  <2>1. CASE cookie[b] = None
    BY <2>1 DEF Verified, Held
  <2>2. CASE cookie[b] # None
    <3>1. PICK t : t = cookie[b].issued + Session
      OBVIOUS
    <3>2. t \in Nat /\ now \in Nat
      BY <2>2, <3>1
    <3>3. b \in ended <=> now >= t \/ cookie[b].secret # secret
      BY <2>2, <3>1
    <3>4. now < t <=> ~(now >= t)
      BY <3>2
    <3> QED BY <2>2, <3>1, <3>3, <3>4 DEF Verified, Held
  <2> QED BY <2>1, <2>2
<1>2. RequireAuth(b, "GET", FALSE) <=> Verified(b)
  BY DEF RequireAuth
<1>3. RequireAuth(b, "POST", TRUE) <=> Verified(b)
  BY DEF RequireAuth
<1>4. Me(b) <=> Verified(b)
  BY DEF Me
<1>5. b \notin sockets
  OBVIOUS
<1> QED BY <1>1, <1>2, <1>3, <1>4, <1>5

-----------------------------------------------------------------------------
(* Access as a whole. *)

AccessInv == LimiterInv /\ SessionInv

LEMMA AccessBegins ==
    ASSUME now = 0, events = 0, AccessInit
    PROVE  AccessInv
<1> USE AccessAssumption, ClockAssumption DEF AccessInit
<1>1. /\ passed = <<>> /\ limiter.entries = {} /\ limiter = [entries |-> {}, until |-> 0]
      /\ Len(passed) = 0 /\ passed \in Seq([stamp : Nat, at : Nat])
  BY DEF NoKey
<1>2. IsFiniteSet(limiter.entries) /\ Cardinality(limiter.entries) = 0
  BY <1>1, FS_EmptySet
<1>3. login \in [Browsers -> [at : {"idle", "stamped", "checking"}, stamp : Nat]]
      /\ \A b \in Browsers : login[b].stamp <= now
  BY DEF Idle
<1>4. LimiterTypes
  BY <1>1, <1>2, <1>3 DEF LimiterTypes, ClockOK
<1>5. Stamped /\ Counting /\ LoginsLimited /\ WaitedOut
  BY <1>1, <1>3 DEF Stamped, Counting, LoginsLimited, WaitedOut
<1>6. SessionInv
  BY DEF SessionInv, ClockOK
<1> QED BY <1>4, <1>5, <1>6 DEF AccessInv, LimiterInv

LEMMA AccessKept ==
    ASSUME AccessInv, UNCHANGED <<now, accessVars>>, events' \in 0..MaxEvents, events' >= events
    PROVE  AccessInv'
<1>1. ClockOK'
  BY DEF AccessInv, SessionInv, ClockOK
<1>2. LimiterInv'
  BY <1>1, LimiterKept DEF AccessInv, LimiterInv, LimiterTypes, Stamped, accessVars
<1>3. SessionInv'
  BY SessionKept DEF AccessInv, accessVars
<1> QED BY <1>2, <1>3 DEF AccessInv

LEMMA AccessStepKeeps ==
    ASSUME AccessInv, NEW b \in Browsers, AccessStep(b)
    PROVE  AccessInv' /\ now' = now /\ events' \in 0..MaxEvents /\ events' >= events
<1> USE ClockAssumption DEF AccessInv
<1>1. now' = now /\ events' \in 0..MaxEvents /\ events' >= events
  <2>1. now' = now /\ (events' = events \/ (events < MaxEvents /\ events' = events + 1))
    BY DEF AccessStep, Arrive, Pass, Refuse, LimiterFails, WrongPassword, Issue, Logout,
           Connect, Close, Event
  <2> QED BY <2>1 DEF SessionInv, ClockOK
<1>2. ClockOK'
  BY <1>1 DEF SessionInv, ClockOK
<1>3. LimiterInv'
  <2>1. CASE Pass(b)
    BY <2>1, LimiterPass
  <2>2. CASE Refuse(b)
    BY <2>2, LimiterRefuse
  <2>3. CASE ~Pass(b) /\ ~Refuse(b)
    <3>1. UNCHANGED <<limiter, refusal, passed>>
      BY <2>3 DEF AccessStep, Arrive, LimiterFails, WrongPassword, Issue, Logout, Connect, Close
    <3>2. /\ login \in [Browsers -> [at : {"idle", "stamped", "checking"}, stamp : Nat]]
          /\ \A a \in Browsers : login[a].stamp <= now
          /\ now \in Nat
      BY DEF LimiterInv, LimiterTypes, Stamped, ClockOK
    <3>3. \/ login' = login
          \/ login' = [login EXCEPT ![b] = [at |-> "stamped", stamp |-> now]]
          \/ login' = [login EXCEPT ![b].at = "checking"]
          \/ login' = [login EXCEPT ![b] = [at |-> "idle", stamp |-> 0]]
      BY <2>3 DEF AccessStep, Arrive, LimiterFails, WrongPassword, Issue, Logout, Connect, Close, Idle
    <3>4. /\ login' \in [Browsers -> [at : {"idle", "stamped", "checking"}, stamp : Nat]]
          /\ \A a \in Browsers : login'[a].stamp <= now
      <4>1. CASE login' = login
        BY <3>2, <4>1
      <4>2. CASE login' = [login EXCEPT ![b] = [at |-> "stamped", stamp |-> now]]
        BY <3>2, <4>2
      <4>3. CASE login' = [login EXCEPT ![b].at = "checking"]
        BY <3>2, <4>3
      <4>4. CASE login' = [login EXCEPT ![b] = [at |-> "idle", stamp |-> 0]]
        BY <3>2, <4>4
      <4> QED BY <3>3, <4>1, <4>2, <4>3, <4>4
    <3> QED BY <1>1, <1>2, <3>1, <3>4, LimiterKept
  <2> QED BY <2>1, <2>2, <2>3
<1>4. SessionInv'
  <2>1. CASE Issue(b)
    BY <2>1, SessionIssue
  <2>2. CASE Logout(b)
    BY <2>2, SessionLogout
  <2>3. CASE Connect(b) \/ Close(b)
    BY <2>3, SessionSockets
  <2>4. CASE Arrive(b) \/ Pass(b) \/ Refuse(b) \/ LimiterFails(b) \/ WrongPassword(b)
    <3>1. UNCHANGED <<disabled, secret, cookie, ended, sockets>>
      BY <2>4 DEF Arrive, Pass, Refuse, LimiterFails, WrongPassword
    <3> QED BY <1>1, <3>1, SessionKept
  <2> QED BY <2>1, <2>2, <2>3, <2>4 DEF AccessStep
<1> QED BY <1>1, <1>3, <1>4

LEMMA AccessTime ==
    ASSUME AccessInv, Passes, AccessTimePasses
    PROVE  AccessInv'
<1>1. UNCHANGED <<limiter, login, refusal, passed>>
  BY DEF AccessTimePasses
<1> QED BY <1>1, LimiterTime, SessionTime DEF AccessInv

LEMMA AccessRestart ==
    ASSUME AccessInv, Event, ServerRestarts
    PROVE  AccessInv'
<1>1. /\ UNCHANGED <<now, limiter, refusal, passed>>
      /\ login' = [b \in Browsers |-> [at |-> "idle", stamp |-> 0]]
  BY DEF Event, ServerRestarts, Idle
<1>2. SessionInv'
  BY SessionRestart DEF AccessInv
<1>3. /\ login' \in [Browsers -> [at : {"idle", "stamped", "checking"}, stamp : Nat]]
      /\ \A b \in Browsers : login'[b].stamp <= now
  BY <1>1 DEF AccessInv, SessionInv, ClockOK
<1>4. LimiterInv'
  BY <1>1, <1>2, <1>3, LimiterKept DEF AccessInv, SessionInv
<1> QED BY <1>2, <1>4 DEF AccessInv

LEMMA AccessTypes == AccessInv => AccessTypeOK
<1> SUFFICES ASSUME AccessInv PROVE AccessTypeOK
  OBVIOUS
<1> USE ClockAssumption DEF AccessInv
<1>1. /\ now \in Nat /\ now <= MaxTime /\ Len(passed) \in Nat
  BY DEF LimiterInv, LimiterTypes, ClockOK
<1>2. limiter.entries \subseteq [stamp : 0..MaxTime, id : 0..Len(passed) - 1]
  <2> SUFFICES ASSUME NEW e \in limiter.entries
               PROVE  e \in [stamp : 0..MaxTime, id : 0..Len(passed) - 1]
    OBVIOUS
  <2>1. e \in [stamp : Nat, id : Nat] /\ e.stamp <= now /\ e.id \in 0..Len(passed) - 1
    BY DEF LimiterInv, LimiterTypes, Stamped
  <2>2. e = [stamp |-> e.stamp, id |-> e.id] /\ e.stamp \in 0..MaxTime
    BY <1>1, <2>1
  <2> QED BY <2>1, <2>2
<1>3. Cardinality(limiter.entries) <= Limit
  BY DEF LimiterInv, LimiterTypes
<1>4. secret \in 0..MaxEvents /\ sockets \subseteq Browsers /\ ended \subseteq Browsers
  BY DEF SessionInv, ClockOK
<1>5. ASSUME NEW b \in Browsers
      PROVE  /\ login[b] \in [at : {"idle", "stamped", "checking"}, stamp : 0..MaxTime]
             /\ cookie[b] # None => cookie[b].secret <= secret /\ cookie[b].issued <= now
             /\ refusal[b] # None => refusal[b].after <= Len(passed)
  <2>1. login[b] \in [at : {"idle", "stamped", "checking"}, stamp : Nat] /\ login[b].stamp <= now
    BY DEF LimiterInv, LimiterTypes, Stamped
  <2>2. login[b].stamp \in 0..MaxTime
    BY <1>1, <2>1
  <2>3. login[b] \in [at : {"idle", "stamped", "checking"}, stamp : 0..MaxTime]
    BY <2>1, <2>2
  <2> QED BY <2>3 DEF LimiterInv, WaitedOut, SessionInv
<1> QED BY <1>2, <1>3, <1>4, <1>5 DEF AccessTypeOK

-----------------------------------------------------------------------------
(* Hours.  What happened in an hour that a range or the heatmap can still  *)
(* show has not expired, and what shares its key is newer still.           *)

LEMMA HourIs ==
    ASSUME NEW t \in 0..MaxTime
    PROVE  /\ t \div Hour \in Hours /\ t \div Hour \in Nat
           /\ (t \div Hour) * Hour <= t
           /\ \A h \in Int : h > t \div Hour => t < h * Hour
<1>0. /\ t \in Int /\ t \in Nat /\ MaxTime \in Int /\ MaxTime \in Nat /\ t <= MaxTime
      /\ Hour \in Nat /\ Hour \in Int /\ Hour > 0 /\ Hour \in Nat \ {0}
  BY RollupsAssumption, ClockAssumption
<1>1. PICK q \in Int : q = t \div Hour /\ \E r \in 0..Hour - 1 : t = q * Hour + r
  BY <1>0, Quotient
<1>2. PICK r \in 0..Hour - 1 : t = q * Hour + r
  BY <1>1
<1>3. PICK top \in Int : top = MaxTime \div Hour /\ \E rest \in 0..Hour - 1 : MaxTime = top * Hour + rest
  BY <1>0, Quotient
<1>31. PICK rest \in 0..Hour - 1 : MaxTime = top * Hour + rest
  BY <1>3
<1>4. (q + 1) * Hour = q * Hour + Hour
  BY <1>0
<1>5. q >= 0
  <2>1. ASSUME q < 0 PROVE FALSE
    <3>1. (q + 1) * Hour <= 0 * Hour
      BY <1>0, <2>1, NextMultiple
    <3> QED BY <1>0, <1>2, <1>4, <3>1
  <2> QED BY <2>1
<1>6. q <= top
  <2>1. ASSUME top < q PROVE FALSE
    <3>1. (top + 1) * Hour <= q * Hour
      BY <1>0, <2>1, NextMultiple
    <3>2. (top + 1) * Hour = top * Hour + Hour
      BY <1>0
    <3> QED BY <1>0, <1>2, <1>31, <3>1, <3>2
  <2> QED BY <2>1
<1>7. t \div Hour = q /\ Hours = 0..top
  BY <1>1, <1>3 DEF Hours
<1>8. q * Hour <= t /\ t < (q + 1) * Hour
  BY <1>0, <1>2, <1>4
<1>9. ASSUME NEW h \in Int, h > q PROVE t < h * Hour
  <2>1. (q + 1) * Hour <= h * Hour
    BY <1>0, <1>9, NextMultiple
  <2> QED BY <1>0, <1>8, <2>1
<1> QED BY <1>5, <1>6, <1>7, <1>8, <1>9

\* The days of the hours, and the place of an hour in the zone's day.
LEMMA DayIs ==
    ASSUME NEW h \in Nat, offset \in Offsets
    PROVE  /\ h \div Day \in Nat /\ LocalHour(h) \in 0..Day - 1
           /\ h \in Hours => h \div Day \in Days
           /\ \E r \in 0..Day - 1 : h = (h \div Day) * Day + r
           /\ \E q \in Int : h + offset = q * Day + LocalHour(h)
<1>1. /\ Day \in Nat \ {0} /\ Day \in Nat /\ Day \in Int /\ Day > 0 /\ Hour \in Nat \ {0}
      /\ MaxTime \in Int /\ offset \in Nat /\ h + offset \in Int /\ h \in Int
  BY RollupsAssumption, ClockAssumption
<1>a. PICK q \in Int : q = h \div Day /\ \E r \in 0..Day - 1 : h = q * Day + r
  BY <1>1, Quotient
<1>2. PICK r \in 0..Day - 1 : h = q * Day + r
  BY <1>a
<1>3. q >= 0
  <2>1. ASSUME q < 0 PROVE FALSE
    <3>1. (q + 1) * Day <= 0 * Day
      BY <1>1, <2>1, NextMultiple
    <3>2. (q + 1) * Day = q * Day + Day
      BY <1>1
    <3> QED BY <1>1, <1>2, <3>1, <3>2
  <2> QED BY <2>1
<1>4. ASSUME h \in Hours PROVE q \in Days
  <2>1. PICK m : m = MaxTime \div Hour
    OBVIOUS
  <2>2. m \in Int /\ h <= m
    BY <1>1, <1>4, <2>1, DivMod DEF Hours
  <2>a. PICK top \in Int : top = m \div Day /\ \E rest \in 0..Day - 1 : m = top * Day + rest
    BY <1>1, <2>2, Quotient
  <2>3. PICK rest \in 0..Day - 1 : m = top * Day + rest
    BY <2>a
  <2>4. q <= top
    <3>1. ASSUME top < q PROVE FALSE
      <4>1. (top + 1) * Day <= q * Day
        BY <1>1, <3>1, NextMultiple
      <4>2. (top + 1) * Day = top * Day + Day
        BY <1>1
      <4> QED BY <1>1, <1>2, <2>2, <2>3, <4>1, <4>2
    <3> QED BY <3>1
  <2>5. Days = 0..top
    BY <2>1, <2>a DEF Days
  <2> QED BY <1>3, <2>4, <2>5
<1>5. LocalHour(h) \in 0..Day - 1 /\ h + offset = ((h + offset) \div Day) * Day + LocalHour(h)
      /\ (h + offset) \div Day \in Int
  BY <1>1, DivMod DEF LocalHour
<1>6. /\ h \div Day \in Nat /\ (h \in Hours => h \div Day \in Days)
      /\ \E s \in 0..Day - 1 : h = (h \div Day) * Day + s
  BY <1>a, <1>2, <1>3, <1>4
<1> QED BY <1>5, <1>6

\* A cell of a day's heatmap is of one hour.
LEMMA CellIsOneHour ==
    ASSUME NEW h \in Nat, NEW k \in Nat, offset \in Offsets,
           h \div Day = k \div Day, LocalHour(h) = LocalHour(k)
    PROVE  h = k
<1> USE RollupsAssumption
<1>1. /\ Day \in Nat /\ Day > 0 /\ offset \in Nat
  OBVIOUS
<1>2. PICK r \in 0..Day - 1, s \in 0..Day - 1 :
          h = (h \div Day) * Day + r /\ k = (h \div Day) * Day + s
  BY DayIs
<1>3. PICK p \in Int, q \in Int :
          h + offset = p * Day + LocalHour(h) /\ k + offset = q * Day + LocalHour(h)
  BY DayIs
<1>4. (h \div Day) * Day \in Int /\ LocalHour(h) \in Int
  BY <1>1, DayIs
<1>5. h - k = r - s
  BY <1>2, <1>4
<1>6. h - k = p * Day - q * Day
  BY <1>1, <1>3, <1>4
<1>7. p * Day - q * Day < Day /\ q * Day - p * Day < Day
  <2>1. p * Day \in Int /\ q * Day \in Int
    BY <1>1
  <2> QED BY <1>1, <1>5, <1>6, <2>1
<1>8. p = q
  <2>1. ASSUME p < q PROVE FALSE
    <3>1. (p + 1) * Day <= q * Day /\ (p + 1) * Day = p * Day + Day
      BY <1>1, <2>1, NextMultiple
    <3> QED BY <1>1, <1>7, <3>1
  <2>2. ASSUME q < p PROVE FALSE
    <3>1. (q + 1) * Day <= p * Day /\ (q + 1) * Day = q * Day + Day
      BY <1>1, <2>2, NextMultiple
    <3> QED BY <1>1, <1>7, <3>1
  <2> QED BY <2>1, <2>2
<1> QED BY <1>6, <1>8

\* Hours of one day are less than a day apart.
LEMMA SameDayNear ==
    ASSUME NEW h \in Nat, NEW k \in Nat, offset \in Offsets, h \div Day = k \div Day
    PROVE  h < k + Day
<1>1. PICK r \in 0..Day - 1, s \in 0..Day - 1 :
          h = (h \div Day) * Day + r /\ k = (h \div Day) * Day + s
  BY DayIs
<1>2. (h \div Day) * Day \in Int /\ Day \in Nat
  BY RollupsAssumption, DayIs
<1> QED BY <1>1, <1>2

LEMMA HourGrows ==
    ASSUME NEW t \in 0..MaxTime, NEW u \in 0..MaxTime, t <= u
    PROVE  t \div Hour <= u \div Hour
<1>1. PICK q : q = t \div Hour
  OBVIOUS
<1>2. PICK p : p = u \div Hour
  OBVIOUS
<1>3. q \in Nat /\ p \in Nat /\ q * Hour <= t /\ (q > p => u < q * Hour)
  BY <1>1, <1>2, HourIs
<1>4. q * Hour \in Int /\ t \in Int /\ u \in Int
  BY <1>3, RollupsAssumption, ClockAssumption
<1> QED BY <1>1, <1>2, <1>3, <1>4

LEMMA NeverIs ==
    /\ Never \in Nat
    /\ \A t \in 0..MaxTime :
           /\ t + Week * Hour \in 0..Never /\ t + 2 * Day * Hour \in 0..Never
           /\ t + Beat \in 0..Never
           /\ t < t + Week * Hour /\ t < t + 2 * Day * Hour
<1>1. /\ MaxTime \in Nat /\ Week \in Nat /\ Day \in Nat /\ Hour \in Nat /\ Beat \in Nat
      /\ Week > 0 /\ Day > 0 /\ Hour > 0
  BY RollupsAssumption, ClockAssumption
<1>2. (Week + 2 * Day) * Hour = Week * Hour + 2 * Day * Hour
  BY <1>1
<1>3. Week * Hour \in Nat /\ 2 * Day * Hour \in Nat
  BY <1>1
<1>4. Week * Hour > 0 /\ 2 * Day * Hour > 0
  <2>1. 1 * Hour <= Week * Hour /\ 1 * Hour <= (2 * Day) * Hour
    BY <1>1, ProductGrows
  <2> QED BY <1>1, <1>3, <2>1
<1> QED BY <1>1, <1>2, <1>3, <1>4 DEF Never

HourTypes ==
    /\ ClockOK /\ offset \in Offsets
    /\ buckets \in [Hours -> [processed : Nat, failed : Nat, until : 0..Never]]
    /\ done \in [Hours -> [processed : Nat, failed : Nat]]
    /\ heatmap \in [Days -> [counts : [Workers -> [0..Day - 1 -> Nat]], until : 0..Never]]
    /\ failures \in [Hours -> [Workers -> Nat]]

\* A bucket holds the jobs of its hour, and lasts as long as a week shows them.
Bucketed ==
    \A h \in Hours :
        /\ buckets[h].processed = done[h].processed /\ buckets[h].failed = done[h].failed
        /\ done[h].processed <= events /\ done[h].failed <= events
        /\ \/ done[h].processed = 0 /\ done[h].failed = 0
           \/ buckets[h].until >= (h + Week) * Hour

\* And so with the cells of the heatmap and the failures of the hours.
Heated ==
    \A h \in Hours, w \in Workers :
        /\ heatmap[h \div Day].counts[w][LocalHour(h)] = failures[h][w]
        /\ failures[h][w] > 0 =>
               h <= ThisHour /\ heatmap[h \div Day].until >= (h + 2 * Day) * Hour

HoursInv == HourTypes /\ Bucketed /\ Heated

LEMMA HoursKept ==
    ASSUME HoursInv, UNCHANGED <<offset, buckets, done, heatmap, failures>>, ClockOK',
           now' >= now, events' >= events
    PROVE  HoursInv'
<1> USE ClockAssumption DEF HoursInv
<1>1. HourTypes'
  BY DEF HourTypes
<1>2. Bucketed'
  <2>1. events \in Nat /\ events' \in Nat
    BY DEF HourTypes, ClockOK
  <2>2. \A h \in Hours : done[h].processed \in Nat /\ done[h].failed \in Nat
    BY DEF HourTypes
  <2> QED BY <2>1, <2>2 DEF Bucketed
<1>3. Heated'
  <2>1. ThisHour <= ThisHour' /\ ThisHour \in Nat /\ ThisHour' \in Nat
    <3>1. now \in 0..MaxTime /\ now' \in 0..MaxTime
      BY DEF HourTypes, ClockOK
    <3> QED BY <3>1, HourGrows, HourIs DEF ThisHour
  <2>2. ASSUME NEW h \in Hours, NEW w \in Workers
        PROVE  /\ heatmap'[h \div Day].counts[w][LocalHour(h)'] = failures'[h][w]
               /\ failures'[h][w] > 0 =>
                    h <= ThisHour' /\ heatmap'[h \div Day].until >= (h + 2 * Day) * Hour
    <3>1. LocalHour(h)' = LocalHour(h)
      BY DEF LocalHour
    <3>2. /\ heatmap[h \div Day].counts[w][LocalHour(h)] = failures[h][w]
          /\ failures[h][w] > 0 =>
               h <= ThisHour /\ heatmap[h \div Day].until >= (h + 2 * Day) * Hour
      BY DEF Heated
    <3>3. h \in Int
      BY DEF Hours
    <3> QED BY <2>1, <3>1, <3>2, <3>3
  <2> QED BY <2>2 DEF Heated, LocalHour
<1> QED BY <1>1, <1>2, <1>3

LEMMA BucketJobEnds ==
    ASSUME HoursInv, NEW w \in Workers, NEW outcome \in {"processed", "failed"}, JobEnds(w, outcome)
    PROVE  /\ buckets' \in [Hours -> [processed : Nat, failed : Nat, until : 0..Never]]
           /\ done' \in [Hours -> [processed : Nat, failed : Nat]]
           /\ Bucketed'
<1> USE DEF HoursInv
<1>1. PICK H : H = ThisHour
  OBVIOUS
<1>2. /\ now \in 0..MaxTime /\ H \in Hours /\ H \in Nat /\ H * Hour <= now
      /\ \A h \in Int : h > H => now < h * Hour
  BY <1>1, HourIs DEF ThisHour, HourTypes, ClockOK
<1>3. /\ Week \in Nat /\ Week > 0 /\ Hour \in Nat /\ now \in Nat /\ events \in Nat /\ H * Hour \in Nat
  BY <1>2, RollupsAssumption, ClockAssumption DEF HourTypes, ClockOK
<1>4. PICK b : b = IF Lives(buckets[H]) THEN buckets[H] ELSE NoBucket
  OBVIOUS
<1>5. PICK c : c = [b EXCEPT ![outcome] = @ + 1, !.until = now + Week * Hour]
  OBVIOUS
<1>6. /\ buckets' = [buckets EXCEPT ![H] = c]
      /\ done' = [done EXCEPT ![H][outcome] = @ + 1]
      /\ events' = events + 1
  BY <1>1, <1>4, <1>5 DEF JobEnds, Counts, Event
<1>7. /\ buckets[H] \in [processed : Nat, failed : Nat, until : 0..Never]
      /\ done[H] \in [processed : Nat, failed : Nat]
      /\ buckets[H].processed = done[H].processed /\ buckets[H].failed = done[H].failed
      /\ done[H].processed <= events /\ done[H].failed <= events
      /\ \/ done[H].processed = 0 /\ done[H].failed = 0
         \/ buckets[H].until >= (H + Week) * Hour
  BY <1>2 DEF HourTypes, Bucketed
<1>8. /\ b \in [processed : Nat, failed : Nat, until : 0..Never]
      /\ b.processed = done[H].processed /\ b.failed = done[H].failed
  <2>1. CASE Lives(buckets[H])
    BY <1>4, <1>7, <2>1
  <2>2. CASE ~Lives(buckets[H])
    <3>1. b = [processed |-> 0, failed |-> 0, until |-> 0]
      BY <1>4, <2>2 DEF NoBucket
    <3>2. buckets[H].until \in Nat /\ ~(buckets[H].until > now)
      BY <1>7, <2>2 DEF Lives
    <3>3. ~(buckets[H].until >= (H + Week) * Hour)
      <4>1. H + Week \in Int /\ H + Week > H /\ (H + Week) * Hour \in Int
        BY <1>2, <1>3
      <4>2. now < (H + Week) * Hour
        BY <1>2, <4>1
      <4> QED BY <1>3, <3>2, <4>1, <4>2
    <3> QED BY <1>7, <3>1, <3>3, NeverIs
  <2> QED BY <2>1, <2>2
<1>9. now + Week * Hour \in 0..Never /\ now + Week * Hour >= (H + Week) * Hour
  <2>1. (H + Week) * Hour = H * Hour + Week * Hour /\ Week * Hour \in Nat
    BY <1>2, <1>3
  <2> QED BY <1>2, <1>3, <2>1, NeverIs
<1>10. /\ c \in [processed : Nat, failed : Nat, until : 0..Never]
       /\ c.until >= (H + Week) * Hour
       /\ done'[H] \in [processed : Nat, failed : Nat]
       /\ c.processed = done'[H].processed /\ c.failed = done'[H].failed
       /\ done'[H].processed <= events' /\ done'[H].failed <= events'
  <2>1. CASE outcome = "processed"
    <3>1. c = [processed |-> b.processed + 1, failed |-> b.failed, until |-> now + Week * Hour]
      BY <1>5, <1>8, <2>1
    <3>2. done'[H] = [processed |-> done[H].processed + 1, failed |-> done[H].failed]
      BY <1>2, <1>6, <1>7, <2>1 DEF HourTypes
    <3> QED BY <1>3, <1>6, <1>7, <1>8, <1>9, <3>1, <3>2
  <2>2. CASE outcome = "failed"
    <3>1. c = [processed |-> b.processed, failed |-> b.failed + 1, until |-> now + Week * Hour]
      BY <1>5, <1>8, <2>2
    <3>2. done'[H] = [processed |-> done[H].processed, failed |-> done[H].failed + 1]
      BY <1>2, <1>6, <1>7, <2>2 DEF HourTypes
    <3> QED BY <1>3, <1>6, <1>7, <1>8, <1>9, <3>1, <3>2
  <2> QED BY <2>1, <2>2
<1>11. \A h \in Hours : h # H => buckets'[h] = buckets[h] /\ done'[h] = done[h]
  BY <1>6 DEF HourTypes
<1>12. buckets'[H] = c
  BY <1>2, <1>6 DEF HourTypes
<1>13. buckets' \in [Hours -> [processed : Nat, failed : Nat, until : 0..Never]]
  BY <1>6, <1>10 DEF HourTypes
<1>14. done' \in [Hours -> [processed : Nat, failed : Nat]]
  <2>1. done' = [h \in Hours |-> done'[h]]
    BY <1>6 DEF HourTypes
  <2>2. \A h \in Hours : done'[h] \in [processed : Nat, failed : Nat]
    BY <1>10, <1>11 DEF HourTypes
  <2> QED BY <2>1, <2>2
<1>15. Bucketed'
  <2>1. ASSUME NEW h \in Hours
        PROVE  /\ buckets'[h].processed = done'[h].processed /\ buckets'[h].failed = done'[h].failed
               /\ done'[h].processed <= events' /\ done'[h].failed <= events'
               /\ \/ done'[h].processed = 0 /\ done'[h].failed = 0
                  \/ buckets'[h].until >= (h + Week) * Hour
    <3>1. CASE h = H
      BY <1>10, <1>12, <3>1
    <3>2. CASE h # H
      <4>1. buckets'[h] = buckets[h] /\ done'[h] = done[h]
        BY <1>11, <3>2
      <4>2. done[h].processed \in Nat /\ done[h].failed \in Nat
        BY DEF HourTypes
      <4> QED BY <1>3, <1>6, <4>1, <4>2 DEF Bucketed
    <3> QED BY <3>1, <3>2
  <2> QED BY <2>1 DEF Bucketed
<1> QED BY <1>13, <1>14, <1>15

LEMMA HeatJobEnds ==
    ASSUME HoursInv, NEW w \in Workers, JobEnds(w, "failed")
    PROVE  /\ heatmap' \in [Days -> [counts : [Workers -> [0..Day - 1 -> Nat]], until : 0..Never]]
           /\ failures' \in [Hours -> [Workers -> Nat]]
           /\ Heated'
<1> USE DEF HoursInv
<1>1. PICK H : H = ThisHour
  OBVIOUS
<1>2. PICK d : d = H \div Day
  OBVIOUS
<1>3. PICK f : f = LocalHour(H)
  OBVIOUS
<1>4. /\ now \in 0..MaxTime /\ H \in Hours /\ H \in Nat /\ H * Hour <= now
      /\ \A h \in Int : h > H => now < h * Hour
  BY <1>1, HourIs DEF ThisHour, HourTypes, ClockOK
<1>5. /\ Day \in Nat /\ Day > 0 /\ Hour \in Nat /\ now \in Nat /\ H * Hour \in Nat /\ offset \in Offsets
      /\ Hours \subseteq Nat
  BY <1>4, RollupsAssumption, ClockAssumption DEF HourTypes, Hours
<1>6. d \in Days /\ f \in 0..Day - 1
  BY <1>2, <1>3, <1>4, <1>5, DayIs
<1>7. PICK m : m = IF Lives(heatmap[d]) THEN heatmap[d] ELSE NoHeat
  OBVIOUS
<1>8. PICK n : n = [m EXCEPT !.counts[w][f] = @ + 1, !.until = now + 2 * Day * Hour]
  OBVIOUS
<1>9. /\ heatmap' = [heatmap EXCEPT ![d] = n]
      /\ failures' = [failures EXCEPT ![H][w] = @ + 1]
      /\ now' = now /\ offset' = offset
  BY <1>1, <1>2, <1>3, <1>7, <1>8 DEF JobEnds, Heats, Event
<1>10. heatmap[d] \in [counts : [Workers -> [0..Day - 1 -> Nat]], until : 0..Never]
  BY <1>6 DEF HourTypes
<1>11. m \in [counts : [Workers -> [0..Day - 1 -> Nat]], until : 0..Never]
  <2>1. NoHeat \in [counts : [Workers -> [0..Day - 1 -> Nat]], until : 0..Never]
    BY NeverIs DEF NoHeat
  <2> QED BY <1>7, <1>10, <2>1
<1>12. now + 2 * Day * Hour \in 0..Never
  BY <1>4, NeverIs
<1>13. /\ n \in [counts : [Workers -> [0..Day - 1 -> Nat]], until : 0..Never]
       /\ n.until = now + 2 * Day * Hour
       /\ n.counts[w][f] = m.counts[w][f] + 1
       /\ \A v \in Workers, g \in 0..Day - 1 : v # w \/ g # f => n.counts[v][g] = m.counts[v][g]
  <2>1. PICK C : C = [m.counts EXCEPT ![w] = [m.counts[w] EXCEPT ![f] = m.counts[w][f] + 1]]
    OBVIOUS
  <2>2. m.counts \in [Workers -> [0..Day - 1 -> Nat]] /\ m.counts[w] \in [0..Day - 1 -> Nat]
    BY <1>11
  <2>3. n = [counts |-> C, until |-> now + 2 * Day * Hour]
    <3>1. PICK k : k = [m EXCEPT !.counts = C]
      OBVIOUS
    <3>2. k = [counts |-> C, until |-> m.until]
      BY <1>11, <3>1
    <3>3. k = [m EXCEPT !.counts[w][f] = @ + 1]
      BY <2>1, <3>1, Zenon
    <3>4. n = [k EXCEPT !.until = now + 2 * Day * Hour]
      BY <1>8, <3>3, Zenon
    <3> QED BY <3>2, <3>4
  <2>4. C \in [Workers -> [0..Day - 1 -> Nat]]
    <3>1. [m.counts[w] EXCEPT ![f] = m.counts[w][f] + 1] \in [0..Day - 1 -> Nat]
      <4>1. PICK g : g = m.counts[w]
        OBVIOUS
      <4>2. g \in [0..Day - 1 -> Nat] /\ g[f] \in Nat
        BY <1>6, <2>2, <4>1
      <4>3. g[f] + 1 \in Nat
        BY <4>2
      <4>4. [g EXCEPT ![f] = g[f] + 1] \in [0..Day - 1 -> Nat]
        BY <4>2, <4>3
      <4> QED BY <4>1, <4>4
    <3> QED BY <2>1, <2>2, <3>1
  <2>5. /\ C[w][f] = m.counts[w][f] + 1
        /\ \A v \in Workers, g \in 0..Day - 1 : v # w \/ g # f => C[v][g] = m.counts[v][g]
    BY <1>6, <2>1, <2>2
  <2> QED BY <1>12, <2>3, <2>4, <2>5
<1>14. heatmap' \in [Days -> [counts : [Workers -> [0..Day - 1 -> Nat]], until : 0..Never]]
  BY <1>9, <1>13 DEF HourTypes
<1>15. /\ failures' \in [Hours -> [Workers -> Nat]]
       /\ failures'[H][w] = failures[H][w] + 1
       /\ \A h \in Hours, v \in Workers : h # H \/ v # w => failures'[h][v] = failures[h][v]
  BY <1>4, <1>9 DEF HourTypes
\* What the key says of any hour of the day, it said before.
<1>16. ASSUME NEW h \in Hours, NEW v \in Workers, h \div Day = d
       PROVE  m.counts[v][LocalHour(h)] = failures[h][v]
  <2>1. CASE Lives(heatmap[d])
    BY <1>7, <1>16, <2>1 DEF Heated
  <2>2. CASE ~Lives(heatmap[d])
    <3>1. LocalHour(h) \in 0..Day - 1 /\ h \in Nat
      BY <1>5, DayIs
    <3>2. m.counts[v][LocalHour(h)] = 0
      BY <1>7, <2>2, <3>1 DEF NoHeat
    <3>3. ~(failures[h][v] > 0)
      <4>1. SUFFICES ASSUME failures[h][v] > 0 PROVE FALSE
        OBVIOUS
      <4>2. heatmap[d].until >= (h + 2 * Day) * Hour /\ ~(heatmap[d].until > now)
        BY <1>16, <2>2, <4>1 DEF Heated, Lives
      <4>3. H < h + Day
        BY <1>2, <1>4, <1>5, <1>16, <3>1, SameDayNear
      <4>4. h + 2 * Day \in Int /\ h + 2 * Day > H
        BY <1>4, <1>5, <3>1, <4>3
      <4>5. now < (h + 2 * Day) * Hour
        BY <1>4, <4>4
      <4>6. heatmap[d].until \in Nat /\ (h + 2 * Day) * Hour \in Int
        BY <1>5, <1>10, <4>4
      <4> QED BY <1>5, <4>2, <4>5, <4>6
    <3>4. failures[h][v] \in Nat
      BY DEF HourTypes
    <3> QED BY <3>2, <3>3, <3>4
  <2> QED BY <2>1, <2>2
<1>17. Heated'
  <2>1. ASSUME NEW h \in Hours, NEW v \in Workers
        PROVE  /\ heatmap'[h \div Day].counts[v][LocalHour(h)] = failures'[h][v]
               /\ failures'[h][v] > 0 =>
                      h <= H /\ heatmap'[h \div Day].until >= (h + 2 * Day) * Hour
    <3>1. h \in Nat /\ LocalHour(h) \in 0..Day - 1 /\ h \div Day \in Days
      BY <1>5, DayIs
    <3>2. /\ heatmap[h \div Day].counts[v][LocalHour(h)] = failures[h][v]
          /\ failures[h][v] > 0 =>
                 h <= H /\ heatmap[h \div Day].until >= (h + 2 * Day) * Hour
      BY <1>1 DEF Heated
    <3>3. CASE h \div Day # d
      <4>1. heatmap'[h \div Day] = heatmap[h \div Day] /\ h # H
        BY <1>2, <1>9, <3>1, <3>3 DEF HourTypes
      <4> QED BY <1>15, <3>2, <4>1
    <3>4. CASE h \div Day = d
      <4>1. heatmap'[h \div Day] = n
        BY <1>6, <1>9, <3>4 DEF HourTypes
      <4>2. h = H <=> LocalHour(h) = f
        BY <1>2, <1>3, <1>4, <1>5, <3>1, <3>4, CellIsOneHour
      <4>3. n.counts[v][LocalHour(h)] = failures'[h][v]
        <5>1. m.counts[v][LocalHour(h)] = failures[h][v]
          BY <1>16, <3>4
        <5>2. CASE h = H /\ v = w
          BY <1>13, <1>15, <4>2, <5>1, <5>2
        <5>3. CASE h # H \/ v # w
          BY <1>13, <1>15, <3>1, <4>2, <5>1, <5>3
        <5> QED BY <5>2, <5>3
      <4>4. failures'[h][v] > 0 => h <= H
        <5>1. CASE h = H
          BY <1>4, <5>1
        <5>2. CASE h # H
          BY <1>15, <3>2, <5>2
        <5> QED BY <5>1, <5>2
      <4>5. h <= H => n.until >= (h + 2 * Day) * Hour
        <5>1. SUFFICES ASSUME h <= H PROVE n.until >= (h + 2 * Day) * Hour
          OBVIOUS
        <5>2. h * Hour <= H * Hour
          BY <1>4, <1>5, <3>1, <5>1, ProductGrows
        <5>3. (h + 2 * Day) * Hour = h * Hour + 2 * Day * Hour
          BY <1>5, <3>1
        <5>4. h * Hour \in Int /\ 2 * Day * Hour \in Int
          BY <1>5, <3>1
        <5> QED BY <1>4, <1>5, <1>13, <5>2, <5>3, <5>4
      <4> QED BY <4>1, <4>3, <4>4, <4>5
    <3> QED BY <3>3, <3>4
  <2>2. ThisHour' = H /\ \A h \in Hours : LocalHour(h)' = LocalHour(h)
    BY <1>1, <1>9 DEF ThisHour, LocalHour
  <2>3. ASSUME NEW h \in Hours, NEW v \in Workers
        PROVE  /\ heatmap'[h \div Day].counts[v][LocalHour(h)'] = failures'[h][v]
               /\ failures'[h][v] > 0 =>
                      h <= ThisHour' /\ heatmap'[h \div Day].until >= (h + 2 * Day) * Hour
    BY <2>1, <2>2
  <2> QED BY <2>3 DEF Heated, LocalHour
<1> QED BY <1>14, <1>15, <1>17

LEMMA HoursBegin ==
    ASSUME now = 0, events = 0, RollupsInit
    PROVE  HoursInv
<1> USE DEF RollupsInit
<1>1. HourTypes
  <2>1. NoBucket \in [processed : Nat, failed : Nat, until : 0..Never]
    BY NeverIs DEF NoBucket
  <2>2. NoHeat \in [counts : [Workers -> [0..Day - 1 -> Nat]], until : 0..Never]
    BY NeverIs DEF NoHeat
  <2> QED BY <2>1, <2>2, ClockAssumption DEF HourTypes, ClockOK
<1>2. Bucketed
  BY DEF Bucketed, NoBucket
<1>3. Heated
  <2> SUFFICES ASSUME NEW h \in Hours, NEW w \in Workers
               PROVE  /\ heatmap[h \div Day].counts[w][LocalHour(h)] = 0
                      /\ failures[h][w] = 0
    BY DEF Heated
  <2>1. h \in Nat /\ offset \in Offsets
    BY DEF Hours
  <2>2. h \div Day \in Days /\ LocalHour(h) \in 0..Day - 1
    BY <2>1, DayIs
  <2> QED BY <2>2 DEF NoHeat
<1> QED BY <1>1, <1>2, <1>3 DEF HoursInv

LEMMA HoursJobEnds ==
    ASSUME HoursInv, NEW w \in Workers, NEW outcome \in {"processed", "failed"}, JobEnds(w, outcome)
    PROVE  HoursInv'
<1>1. /\ now' = now /\ events' = events + 1 /\ events < MaxEvents /\ offset' = offset
  BY DEF JobEnds, Event
<1>2. ClockOK' /\ offset' \in Offsets /\ events \in Nat
  BY <1>1, ClockAssumption DEF HoursInv, HourTypes, ClockOK
<1>3. /\ heatmap' \in [Days -> [counts : [Workers -> [0..Day - 1 -> Nat]], until : 0..Never]]
      /\ failures' \in [Hours -> [Workers -> Nat]]
      /\ Heated'
  <2>1. CASE outcome = "failed"
    BY <2>1, HeatJobEnds
  <2>2. CASE outcome = "processed"
    <3>1. UNCHANGED <<heatmap, failures>>
      BY <2>2 DEF JobEnds
    <3>2. ThisHour' = ThisHour /\ \A h \in Hours : LocalHour(h)' = LocalHour(h)
      BY <1>1 DEF ThisHour, LocalHour
    <3>3. ASSUME NEW h \in Hours, NEW v \in Workers
          PROVE  /\ heatmap'[h \div Day].counts[v][LocalHour(h)'] = failures'[h][v]
                 /\ failures'[h][v] > 0 =>
                      h <= ThisHour' /\ heatmap'[h \div Day].until >= (h + 2 * Day) * Hour
      BY <3>1, <3>2 DEF HoursInv, Heated
    <3>4. Heated'
      BY <3>3 DEF Heated, LocalHour
    <3> QED BY <3>1, <3>4 DEF HoursInv, HourTypes
  <2> QED BY <2>1, <2>2
<1>4. HourTypes' /\ Bucketed'
  BY <1>2, <1>3, BucketJobEnds DEF HourTypes
<1> QED BY <1>3, <1>4 DEF HoursInv

LEMMA BucketsShown ==
    ASSUME HoursInv
    PROVE  BucketsAddUp
<1> USE DEF HoursInv
<1> SUFFICES ASSUME NEW n \in 1..Week, NEW h \in Hours, h <= ThisHour, h > ThisHour - n
             PROVE  /\ (IF Lives(buckets[h]) THEN buckets[h] ELSE NoBucket).processed = done[h].processed
                    /\ (IF Lives(buckets[h]) THEN buckets[h] ELSE NoBucket).failed = done[h].failed
  BY DEF BucketsAddUp, Analytics
<1>1. PICK H : H = ThisHour
  OBVIOUS
<1>2. /\ H \in Nat /\ now \in Nat
      /\ \A k \in Int : k > H => now < k * Hour
  BY <1>1, HourIs DEF ThisHour, HourTypes, ClockOK
<1>3. h \in Nat /\ Week \in Nat /\ n \in Nat /\ n <= Week /\ Hour \in Nat
  BY RollupsAssumption DEF Hours
<1>4. h + Week \in Int /\ h + Week > H /\ (h + Week) * Hour \in Int
  BY <1>1, <1>2, <1>3
<1>5. now < (h + Week) * Hour
  BY <1>2, <1>4
<1>6. /\ buckets[h].processed = done[h].processed /\ buckets[h].failed = done[h].failed
      /\ \/ done[h].processed = 0 /\ done[h].failed = 0
         \/ buckets[h].until >= (h + Week) * Hour
      /\ buckets[h].until \in Nat
  BY NeverIs DEF Bucketed, HourTypes
<1>7. CASE Lives(buckets[h])
  BY <1>6, <1>7
<1>8. CASE ~Lives(buckets[h])
  <2>1. ~(buckets[h].until >= (h + Week) * Hour)
    BY <1>2, <1>4, <1>5, <1>6, <1>8 DEF Lives
  <2> QED BY <1>6, <1>8, <2>1 DEF NoBucket
<1> QED BY <1>7, <1>8

\* Where the heatmap looks for an hour i hours ago.
LEMMA CellIsThatHour ==
    ASSUME NEW H \in Nat, NEW i \in 0..Day - 1, H - i >= 0, offset \in Offsets,
           (H \div Day = (H - i) \div Day)
               <=> ((H + offset) \div Day = (H - i + offset) \div Day)
    PROVE  /\ (LocalHour(H) - i + Day) % Day = LocalHour(H - i)
           /\ (H - i) \div Day = IF LocalHour(H) - i >= 0 THEN H \div Day ELSE H \div Day - 1
<1>1. PICK k : k = H - i
  OBVIOUS
<1>2. /\ Day \in Nat \ {0} /\ Day \in Nat /\ Day > 0 /\ i \in Nat /\ i < Day /\ k \in Nat /\ k = H - i
      /\ offset \in Nat /\ H + offset \in Int /\ k + offset \in Int /\ H \in Int /\ k \in Int
  BY <1>1, RollupsAssumption
<1>3. PICK a, b : a = (H + offset) \div Day /\ b = (k + offset) \div Day
  OBVIOUS
<1>4. PICK x, y : x = LocalHour(H) /\ y = LocalHour(k)
  OBVIOUS
<1>5. /\ a \in Int /\ b \in Int /\ x \in 0..Day - 1 /\ y \in 0..Day - 1
      /\ H + offset = a * Day + x /\ k + offset = b * Day + y
  BY <1>2, <1>3, <1>4, DivMod DEF LocalHour
<1>6. a * Day \in Int /\ b * Day \in Int
  BY <1>2, <1>5
<1>7. x - i = (b * Day - a * Day) + y
  BY <1>2, <1>5, <1>6
\* The hour lies on the same day of the zone, or on the one before.
<1>8. IF x - i >= 0 THEN b = a /\ y = x - i ELSE b = a - 1 /\ y = x - i + Day
  <2>1. CASE x - i >= 0
    <3>1. k + offset = a * Day + (x - i) /\ x - i \in 0..Day - 1
      BY <1>2, <1>5, <1>6, <2>1
    <3>2. b = a /\ (k + offset) % Day = x - i
      BY <1>2, <1>3, <1>5, <3>1, DivIs
    <3> QED BY <1>4, <2>1, <3>2 DEF LocalHour
  <2>2. CASE ~(x - i >= 0)
    <3>1. (a - 1) * Day = a * Day - Day
      BY <1>2, <1>5
    <3>2. /\ k + offset = (a - 1) * Day + (x - i + Day) /\ x - i + Day \in 0..Day - 1
          /\ a - 1 \in Int
      BY <1>2, <1>5, <1>6, <2>2, <3>1
    <3>3. b = a - 1 /\ (k + offset) % Day = x - i + Day
      <4>1. PICK c, r : c = a - 1 /\ r = x - i + Day
        OBVIOUS
      <4>2. c \in Int /\ r \in 0..Day - 1 /\ k + offset = c * Day + r
        BY <3>2, <4>1
      <4>3. (k + offset) \div Day = c /\ (k + offset) % Day = r
        BY <1>2, <4>2, DivIs
      <4> QED BY <1>3, <4>1, <4>3
    <3> QED BY <1>4, <2>2, <3>3 DEF LocalHour
  <2> QED BY <2>1, <2>2
<1>9. (x - i + Day) % Day = y
  <2>1. CASE x - i >= 0
    <3>1. /\ x - i + Day = 1 * Day + y /\ y \in 0..Day - 1 /\ 1 \in Int /\ x - i + Day \in Int
      BY <1>2, <1>5, <1>8, <2>1
    <3> QED BY <1>2, <3>1, DivIs
  <2>2. CASE ~(x - i >= 0)
    <3>1. x - i + Day = y /\ y \in 0..Day - 1
      BY <1>2, <1>5, <1>8, <2>2
    <3> QED BY <1>2, <3>1, RestIs
  <2> QED BY <2>1, <2>2
\* And so in UTC.
<1>10. PICK p, q : p = H \div Day /\ q = k \div Day
  OBVIOUS
<1>11. /\ p \in Int /\ q \in Int
       /\ \E r \in 0..Day - 1 : H = p * Day + r
       /\ \E s \in 0..Day - 1 : k = q * Day + s
  BY <1>2, <1>10, DivMod
<1>12. p = q \/ q = p - 1
  <2>1. PICK r \in 0..Day - 1 : H = p * Day + r
    BY <1>11
  <2>2. PICK s \in 0..Day - 1 : k = q * Day + s
    BY <1>11
  <2>3. p * Day \in Int /\ q * Day \in Int
    BY <1>2, <1>11
  <2>4. q * Day <= p * Day + r /\ p * Day - q * Day < Day + Day
    BY <1>2, <2>1, <2>2, <2>3
  <2>5. ~(q > p)
    <3>1. SUFFICES ASSUME q > p PROVE FALSE
      OBVIOUS
    <3>2. (p + 1) * Day <= q * Day /\ (p + 1) * Day = p * Day + Day
      BY <1>2, <1>11, <3>1, NextMultiple
    <3> QED BY <1>2, <2>3, <2>4, <3>2
  <2>6. ~(q < p - 1)
    <3>1. SUFFICES ASSUME q < p - 1 PROVE FALSE
      OBVIOUS
    <3>2. (q + 2) * Day <= p * Day /\ (q + 2) * Day = q * Day + Day + Day
      BY <1>2, <1>11, <3>1, ProductGrows
    <3> QED BY <1>2, <2>3, <2>4, <3>2
  <2> QED BY <1>11, <2>5, <2>6
<1>13. a = b <=> x - i >= 0
  BY <1>5, <1>8
<1>14. p = q <=> a = b
  BY <1>1, <1>3, <1>10
<1>15. q = IF x - i >= 0 THEN p ELSE p - 1
  BY <1>11, <1>12, <1>13, <1>14
<1> QED BY <1>1, <1>4, <1>9, <1>10, <1>15

LEMMA HeatShown ==
    ASSUME HoursInv
    PROVE  HeatmapAgrees
<1> USE DEF HoursInv
<1> SUFFICES ASSUME NEW w \in Workers, NEW i \in 0..Day - 1, ThisHour - i >= 0, SameDay(i)
             PROVE  HeatCell(w, i) = failures[ThisHour - i][w]
  BY DEF HeatmapAgrees
<1>1. PICK H : H = ThisHour
  OBVIOUS
<1>2. /\ H \in Hours /\ H \in Nat /\ now \in Nat /\ \A k \in Int : k > H => now < k * Hour
  BY <1>1, HourIs DEF ThisHour, HourTypes, ClockOK
<1>3. PICK h : h = H - i
  OBVIOUS
<1>4. h \in Hours /\ h \in Nat /\ i \in Nat /\ i < Day /\ Day \in Nat /\ Hour \in Nat
  <2>1. PICK m : m = MaxTime \div Hour
    OBVIOUS
  <2>2. m \in Int /\ H \in 0..m
    BY <1>2, <2>1, RollupsAssumption, ClockAssumption, DivMod DEF Hours
  <2>3. i \in Nat /\ i < Day /\ Day \in Nat /\ Hour \in Nat
    BY RollupsAssumption
  <2>4. h \in 0..m
    BY <1>1, <1>3, <2>2, <2>3
  <2> QED BY <2>1, <2>2, <2>3, <2>4 DEF Hours
<1>5. offset \in Offsets
  BY DEF HourTypes
<1>6. /\ (LocalHour(H) - i + Day) % Day = LocalHour(h)
      /\ h \div Day = IF LocalHour(H) - i >= 0 THEN H \div Day ELSE H \div Day - 1
  <2>1. /\ H - i >= 0
        /\ (H \div Day = (H - i) \div Day)
               <=> ((H + offset) \div Day = (H - i + offset) \div Day)
    BY <1>1 DEF SameDay
  <2> QED BY <1>2, <1>3, <1>5, <2>1, CellIsThatHour
<1>7. h \div Day \in Days
  BY <1>4, <1>5, DayIs
<1>8. HeatCell(w, i) = IF Lives(heatmap[h \div Day]) THEN heatmap[h \div Day].counts[w][LocalHour(h)]
                       ELSE 0
  BY <1>1, <1>6, <1>7 DEF HeatCell, IsToday
<1>9. /\ heatmap[h \div Day].counts[w][LocalHour(h)] = failures[h][w]
      /\ failures[h][w] > 0 => heatmap[h \div Day].until >= (h + 2 * Day) * Hour
      /\ failures[h][w] \in Nat
  BY <1>4 DEF Heated, HourTypes
<1>10. ~Lives(heatmap[h \div Day]) => ~(failures[h][w] > 0)
  <2>1. h + 2 * Day \in Int /\ h + 2 * Day > H /\ (h + 2 * Day) * Hour \in Int
    BY <1>2, <1>3, <1>4
  <2>2. now < (h + 2 * Day) * Hour
    BY <1>2, <2>1
  <2>3. heatmap[h \div Day].until \in Nat
    BY <1>7, NeverIs DEF HourTypes
  <2> QED BY <1>2, <1>9, <2>1, <2>2, <2>3 DEF Lives
<1>11. HeatCell(w, i) = failures[h][w]
  BY <1>8, <1>9, <1>10
<1> QED BY <1>1, <1>3, <1>11

-----------------------------------------------------------------------------
(* Workers.  The record of a worker that is named and online lasts as long *)
(* after it was heard of as a record is kept, and no longer, unless its    *)
(* start was cut; a worker that runs is named and online in its record,    *)
(* unless the record was gone.                                             *)

States == {"none", "online", "stopped"}

WorkerSound(w, at, rec, last, hs, cs, fs, t) ==
    /\ last <= t
    /\ w \in hs => at \in {"up", "stopped"}
    /\ rec.named = TRUE /\ rec.state = "online" => rec.until <= last + Beat \/ w \in hs \cup cs
    /\ at = "up" /\ w \notin fs =>
           /\ rec.named = TRUE /\ rec.state = "online"
           /\ w \notin hs => rec.until >= last + Beat

WorkerTypes ==
    /\ ClockOK
    /\ worker \in [Workers -> {"new", "up", "stopped", "dead"}]
    /\ half \subseteq Workers /\ cut \subseteq Workers /\ forgotten \subseteq Workers
    /\ record \in [Workers -> [state : States, named : BOOLEAN, until : 0..Never]]
    /\ heard \in [Workers -> Nat]

WorkersInv ==
    /\ WorkerTypes
    /\ \A w \in Workers : WorkerSound(w, worker[w], record[w], heard[w], half, cut, forgotten, now)

LEMMA WorkersKept ==
    ASSUME WorkersInv, UNCHANGED <<worker, half, record, heard, cut, forgotten>>, ClockOK', now' >= now
    PROVE  WorkersInv'
<1>1. WorkerTypes'
  BY DEF WorkersInv, WorkerTypes
<1>2. now \in Nat /\ now' \in Nat /\ \A w \in Workers : heard[w] \in Nat
  BY ClockAssumption DEF WorkersInv, WorkerTypes, ClockOK
<1>3. ASSUME NEW w \in Workers
      PROVE  WorkerSound(w, worker'[w], record'[w], heard'[w], half', cut', forgotten', now')
  <2>1. WorkerSound(w, worker[w], record[w], heard[w], half, cut, forgotten, now)
    BY DEF WorkersInv
  <2>2. heard[w] <= now'
    BY <1>2, <2>1 DEF WorkerSound
  <2>3. UNCHANGED <<worker, half, record, heard, cut, forgotten>>
    OBVIOUS
  <2> QED BY <2>1, <2>2, <2>3, Zenon DEF WorkerSound
<1> QED BY <1>1, <1>3 DEF WorkersInv

\* What a step of one worker has to show.
LEMMA OneWorker ==
    ASSUME WorkersInv, NEW w \in Workers, now' = now, events' \in 0..MaxEvents,
           NEW at \in {"new", "up", "stopped", "dead"},
           NEW rec \in [state : States, named : BOOLEAN, until : 0..Never], NEW last \in Nat,
           worker' = [worker EXCEPT ![w] = at], record' = [record EXCEPT ![w] = rec],
           heard' = [heard EXCEPT ![w] = last],
           half' \subseteq Workers, cut' \subseteq Workers, forgotten' \subseteq Workers,
           half' \ {w} = half \ {w}, cut' \ {w} = cut \ {w}, forgotten' \ {w} = forgotten \ {w},
           WorkerSound(w, at, rec, last, half', cut', forgotten', now)
    PROVE  WorkersInv'
<1>1. WorkerTypes'
  BY DEF WorkersInv, WorkerTypes, ClockOK
<1>2. ASSUME NEW v \in Workers
      PROVE  WorkerSound(v, worker'[v], record'[v], heard'[v], half', cut', forgotten', now')
  <2>1. CASE v = w
    <3>1. worker'[v] = at /\ record'[v] = rec /\ heard'[v] = last
      BY <2>1 DEF WorkersInv, WorkerTypes
    <3> QED BY <2>1, <3>1
  <2>2. CASE v # w
    <3>1. worker'[v] = worker[v] /\ record'[v] = record[v] /\ heard'[v] = heard[v]
      BY <2>2 DEF WorkersInv, WorkerTypes
    <3>2. /\ (v \in half' <=> v \in half) /\ (v \in cut' <=> v \in cut)
          /\ (v \in forgotten' <=> v \in forgotten)
      BY <2>2
    <3>3. WorkerSound(v, worker[v], record[v], heard[v], half, cut, forgotten, now)
      BY DEF WorkersInv
    <3>4. now' = now
      OBVIOUS
    <3> QED BY <3>1, <3>2, <3>3, <3>4, Zenon DEF WorkerSound
  <2> QED BY <2>1, <2>2
<1> QED BY <1>1, <1>2 DEF WorkersInv

LEMMA TouchedIs ==
    ASSUME WorkersInv, NEW w \in Workers
    PROVE  /\ Touched(w) \in [state : States, named : BOOLEAN, until : 0..Never]
           /\ Lives(record[w]) => Touched(w) = record[w]
           /\ ~Lives(record[w]) => Touched(w).named = FALSE /\ Touched(w).state = "none"
<1>1. record[w] \in [state : States, named : BOOLEAN, until : 0..Never]
  BY DEF WorkersInv, WorkerTypes
<1>2. CASE Lives(record[w])
  BY <1>1, <1>2 DEF Touched
<1>3. CASE ~Lives(record[w])
  <2>1. Touched(w) = [state |-> "none", named |-> FALSE, until |-> Never]
    BY <1>3 DEF Touched, NoRecord
  <2>2. Never \in 0..Never
    BY NeverIs
  <2> QED BY <1>3, <2>1, <2>2 DEF States
<1> QED BY <1>2, <1>3

LEMMA WorkerJobEnds ==
    ASSUME WorkersInv, NEW w \in Workers, NEW outcome, JobEnds(w, outcome), events' \in 0..MaxEvents
    PROVE  WorkersInv'
<1>1. /\ now' = now /\ record' = [record EXCEPT ![w] = Touched(w)]
      /\ forgotten' = IF Lives(record[w]) THEN forgotten ELSE forgotten \cup {w}
      /\ UNCHANGED <<worker, half, heard, cut>>
  BY DEF JobEnds, Event
<1>2. WorkerSound(w, worker[w], record[w], heard[w], half, cut, forgotten, now)
  BY DEF WorkersInv
<1>3. WorkerSound(w, worker[w], Touched(w), heard[w], half', cut', forgotten', now)
  <2>1. CASE Lives(record[w])
    BY <1>1, <1>2, <2>1, TouchedIs
  <2>2. CASE ~Lives(record[w])
    <3>1. Touched(w).state # "online"
      BY <2>2, TouchedIs
    <3>2. w \in forgotten' /\ half' = half /\ heard[w] <= now
      BY <1>1, <1>2, <2>2 DEF WorkerSound
    <3> QED BY <1>2, <3>1, <3>2 DEF WorkerSound
  <2> QED BY <2>1, <2>2
<1>4. /\ worker' = [worker EXCEPT ![w] = worker[w]] /\ worker[w] \in {"new", "up", "stopped", "dead"}
      /\ heard' = [heard EXCEPT ![w] = heard[w]] /\ heard[w] \in Nat
      /\ half' \subseteq Workers /\ cut' \subseteq Workers /\ forgotten' \subseteq Workers
      /\ forgotten' \ {w} = forgotten \ {w}
  BY <1>1 DEF WorkersInv, WorkerTypes
<1>5. /\ now' = now /\ record' = [record EXCEPT ![w] = Touched(w)]
      /\ half' \ {w} = half \ {w} /\ cut' \ {w} = cut \ {w}
  BY <1>1
<1>6. Touched(w) \in [state : States, named : BOOLEAN, until : 0..Never]
  BY TouchedIs
<1> QED BY <1>3, <1>4, <1>5, <1>6, OneWorker

LEMMA WorkerStartsKeeps ==
    ASSUME WorkersInv, NEW w \in Workers, WorkerStarts(w), events' \in 0..MaxEvents
    PROVE  WorkersInv'
<1>1. PICK rec : rec = [Touched(w) EXCEPT !.state = "online", !.named = TRUE]
  OBVIOUS
<1>2. /\ now' = now /\ worker' = [worker EXCEPT ![w] = "up"] /\ record' = [record EXCEPT ![w] = rec]
      /\ half' = half \cup {w} /\ heard' = [heard EXCEPT ![w] = now]
      /\ forgotten' = forgotten \ {w} /\ cut' = cut
  BY <1>1 DEF WorkerStarts, Event
<1>3. /\ rec \in [state : States, named : BOOLEAN, until : 0..Never]
      /\ rec.named = TRUE /\ rec.state = "online"
  BY <1>1, TouchedIs DEF States
<1>4. now \in Nat /\ now <= now
  BY ClockAssumption DEF WorkersInv, WorkerTypes, ClockOK
<1>5. WorkerSound(w, "up", rec, now, half', cut', forgotten', now)
  BY <1>2, <1>3, <1>4 DEF WorkerSound
<1>6. half' \subseteq Workers /\ cut' \subseteq Workers /\ forgotten' \subseteq Workers
  BY <1>2 DEF WorkersInv, WorkerTypes
<1>7. half' \ {w} = half \ {w} /\ forgotten' \ {w} = forgotten \ {w}
  BY <1>2
<1> QED BY <1>2, <1>3, <1>4, <1>5, <1>6, <1>7, OneWorker

LEMMA WorkerStartExpires ==
    ASSUME WorkersInv, NEW w \in Workers, StartExpires(w), events' \in 0..MaxEvents
    PROVE  WorkersInv'
<1>1. /\ now' = now /\ w \in half /\ half' = half \ {w} /\ cut' = cut \ {w}
      /\ record' = (IF Lives(record[w]) THEN [record EXCEPT ![w].until = now + Beat] ELSE record)
      /\ forgotten' = (IF Lives(record[w]) THEN forgotten ELSE forgotten \cup {w})
      /\ heard' = [heard EXCEPT ![w] = now] /\ worker' = worker
  BY DEF StartExpires
<1>2. /\ record[w] \in [state : States, named : BOOLEAN, until : 0..Never]
      /\ worker[w] \in {"new", "up", "stopped", "dead"} /\ now \in Nat /\ Beat \in Nat
      /\ record[w].until \in Nat /\ now + Beat \in 0..Never
  BY ClockAssumption, RollupsAssumption, NeverIs DEF WorkersInv, WorkerTypes, ClockOK
<1>3. PICK rec : rec = IF Lives(record[w]) THEN [record[w] EXCEPT !.until = now + Beat] ELSE record[w]
  OBVIOUS
<1>4. /\ rec \in [state : States, named : BOOLEAN, until : 0..Never]
      /\ rec.named = record[w].named /\ rec.state = record[w].state
      /\ rec.until = IF Lives(record[w]) THEN now + Beat ELSE record[w].until
  BY <1>2, <1>3
<1>5. record' = [record EXCEPT ![w] = rec]
  BY <1>1, <1>3 DEF WorkersInv, WorkerTypes
<1>6. WorkerSound(w, worker[w], record[w], heard[w], half, cut, forgotten, now)
  BY DEF WorkersInv
<1>7. rec.until <= now + Beat /\ (w \notin forgotten' => rec.until >= now + Beat)
  BY <1>1, <1>2, <1>4 DEF Lives
<1>8. WorkerSound(w, worker[w], rec, now, half', cut', forgotten', now)
  <2>1. w \notin half' /\ (w \notin forgotten' => w \notin forgotten)
    BY <1>1
  <2>2. now <= now
    BY <1>2
  <2> QED BY <1>4, <1>6, <1>7, <2>1, <2>2 DEF WorkerSound
<1>9. /\ half' \subseteq Workers /\ cut' \subseteq Workers /\ forgotten' \subseteq Workers
      /\ worker' = [worker EXCEPT ![w] = worker[w]]
  BY <1>1 DEF WorkersInv, WorkerTypes
<1>10. half' \ {w} = half \ {w} /\ cut' \ {w} = cut \ {w} /\ forgotten' \ {w} = forgotten \ {w}
  BY <1>1
<1>11. now' = now /\ heard' = [heard EXCEPT ![w] = now] /\ now \in Nat
  BY <1>1, <1>2
<1>12. worker[w] \in {"new", "up", "stopped", "dead"}
  BY <1>2
<1> QED BY <1>4, <1>5, <1>8, <1>9, <1>10, <1>11, <1>12, OneWorker

LEMMA WorkerHeartbeat ==
    ASSUME WorkersInv, NEW w \in Workers, Heartbeat(w), events' \in 0..MaxEvents
    PROVE  WorkersInv'
<1>1. PICK rec : rec = [Touched(w) EXCEPT !.state = "online", !.until = now + Beat]
  OBVIOUS
<1>2. /\ now' = now /\ worker' = worker /\ record' = [record EXCEPT ![w] = rec]
      /\ worker[w] = "up" /\ half' = half /\ heard' = [heard EXCEPT ![w] = now]
      /\ forgotten' = (IF Lives(record[w]) THEN forgotten ELSE forgotten \cup {w})
      /\ cut' = cut \ {w}
  BY <1>1 DEF Heartbeat, Event
<1>3. now \in Nat /\ Beat \in Nat /\ now + Beat \in 0..Never /\ now <= now
  <2>1. now \in 0..MaxTime
    BY DEF WorkersInv, WorkerTypes, ClockOK
  <2>2. now \in Nat /\ Beat \in Nat
    BY <2>1, ClockAssumption, RollupsAssumption
  <2>3. now + Beat \in 0..Never
    BY <2>1, NeverIs
  <2> QED BY <2>2, <2>3
<1>4. /\ rec \in [state : States, named : BOOLEAN, until : 0..Never]
      /\ rec.named = Touched(w).named /\ rec.state = "online" /\ rec.until = now + Beat
  BY <1>1, <1>3, TouchedIs DEF States
<1>5. WorkerSound(w, worker[w], record[w], heard[w], half, cut, forgotten, now)
  BY DEF WorkersInv
<1>6. w \notin forgotten' => rec.named = TRUE
  <2>1. w \notin forgotten' => Lives(record[w]) /\ w \notin forgotten
    BY <1>2
  <2>2. w \notin forgotten => record[w].named = TRUE
    BY <1>2, <1>5 DEF WorkerSound
  <2> QED BY <1>4, <2>1, <2>2, TouchedIs
<1>7. rec.until <= now + Beat /\ rec.until >= now + Beat
  BY <1>3, <1>4
<1>8. WorkerSound(w, "up", rec, now, half', cut', forgotten', now)
  BY <1>3, <1>4, <1>6, <1>7 DEF WorkerSound
<1>9. /\ half' \subseteq Workers /\ cut' \subseteq Workers /\ forgotten' \subseteq Workers
      /\ worker' = [worker EXCEPT ![w] = "up"]
  BY <1>2 DEF WorkersInv, WorkerTypes
<1>10. half' \ {w} = half \ {w} /\ cut' \ {w} = cut \ {w} /\ forgotten' \ {w} = forgotten \ {w}
  BY <1>2
<1> QED BY <1>2, <1>3, <1>4, <1>8, <1>9, <1>10, OneWorker

LEMMA WorkerStopsKeeps ==
    ASSUME WorkersInv, NEW w \in Workers, WorkerStops(w), events' \in 0..MaxEvents
    PROVE  WorkersInv'
<1>1. PICK rec : rec = [Touched(w) EXCEPT !.state = "stopped"]
  OBVIOUS
<1>2. /\ now' = now /\ worker' = [worker EXCEPT ![w] = "stopped"]
      /\ record' = [record EXCEPT ![w] = rec]
      /\ UNCHANGED <<half, heard, cut, forgotten>>
  BY <1>1 DEF WorkerStops, Event
<1>3. rec \in [state : States, named : BOOLEAN, until : 0..Never] /\ rec.state = "stopped"
  BY <1>1, TouchedIs DEF States
<1>4. WorkerSound(w, worker[w], record[w], heard[w], half, cut, forgotten, now)
  BY DEF WorkersInv
<1>5. WorkerSound(w, "stopped", rec, heard[w], half', cut', forgotten', now)
  BY <1>3, <1>4 DEF WorkerSound
<1>6. /\ half' \subseteq Workers /\ cut' \subseteq Workers /\ forgotten' \subseteq Workers
      /\ heard' = [heard EXCEPT ![w] = heard[w]] /\ heard[w] \in Nat
  BY <1>2 DEF WorkersInv, WorkerTypes
<1> QED BY <1>2, <1>3, <1>5, <1>6, OneWorker

LEMMA WorkersDieKeeps ==
    ASSUME WorkersInv, WorkersDie, now' = now, events' \in 0..MaxEvents
    PROVE  WorkersInv'
<1>1. /\ worker' = [w \in Workers |-> IF worker[w] = "new" THEN "new" ELSE "dead"]
      /\ half' = {} /\ cut' = cut \cup half /\ UNCHANGED <<record, heard, forgotten>>
  BY DEF WorkersDie
<1>2. WorkerTypes'
  BY <1>1 DEF WorkersInv, WorkerTypes, ClockOK
<1>3. ASSUME NEW w \in Workers
      PROVE  WorkerSound(w, worker'[w], record'[w], heard'[w], half', cut', forgotten', now')
  <2>1. WorkerSound(w, worker[w], record[w], heard[w], half, cut, forgotten, now)
    BY DEF WorkersInv
  <2>2. worker'[w] # "up" /\ w \notin half' /\ (w \in half \cup cut <=> w \in half' \cup cut')
    BY <1>1
  <2>3. now' = now /\ record' = record /\ heard' = heard
    BY <1>1
  <2> QED BY <2>1, <2>2, <2>3, Zenon DEF WorkerSound
<1> QED BY <1>2, <1>3 DEF WorkersInv

LEMMA WorkersTruth ==
    ASSUME WorkersInv
    PROVE  CountedIsRecent /\ RunningIsCounted
<1>1. /\ now \in Nat /\ Beat \in Nat
      /\ \A w \in Workers : heard[w] \in Nat /\ record[w].until \in Nat
  BY ClockAssumption, RollupsAssumption, NeverIs DEF WorkersInv, WorkerTypes, ClockOK
<1>2. ASSUME NEW w \in Counted PROVE now < heard[w] + Beat \/ w \in half \cup cut
  <2>1. w \in Workers /\ record[w].until > now /\ record[w].named /\ record[w].state = "online"
    BY DEF Counted, Lives
  <2>2. record[w].named = TRUE
    BY <2>1 DEF WorkersInv, WorkerTypes
  <2>3. record[w].until <= heard[w] + Beat \/ w \in half \cup cut
    BY <2>1, <2>2 DEF WorkersInv, WorkerSound
  <2> QED BY <1>1, <2>1, <2>3
<1>3. ASSUME NEW w \in Workers, worker[w] = "up", now < heard[w] + Beat, w \notin half \cup forgotten
      PROVE  w \in Counted
  <2>1. /\ record[w].named = TRUE /\ record[w].state = "online"
        /\ record[w].until >= heard[w] + Beat
    BY <1>3 DEF WorkersInv, WorkerSound
  <2>2. Lives(record[w])
    BY <1>1, <1>3, <2>1 DEF Lives
  <2> QED BY <2>1, <2>2 DEF Counted
<1> QED BY <1>2, <1>3 DEF CountedIsRecent, RunningIsCounted

-----------------------------------------------------------------------------
(* The advice of the forecast, for any rates, depths and thresholds. *)

LEMMA EnoughWorkers ==
    ASSUME NEW e \in Nat, NEW c \in Nat \ {0}, NEW w \in Nat \ {0}, e > c
    PROVE  (w + WorkersNeeded(e, c, w)) * c > e * w
<1>1. e * w \in Nat /\ e * w + c - 1 \in Int /\ c \in Nat /\ c > 0
  OBVIOUS
<1>2. PICK k \in Int : k = (e * w + c - 1) \div c
                       /\ \E r \in 0..c - 1 : e * w + c - 1 = k * c + r
  BY <1>1, Quotient
<1>3. PICK r \in 0..c - 1 : e * w + c - 1 = k * c + r
  BY <1>2
<1>4. WorkersNeeded(e, c, w) = k - w + 1
  BY <1>2 DEF WorkersNeeded, CeilDiv
<1>5. w + WorkersNeeded(e, c, w) = k + 1
  BY <1>4
<1>6. (k + 1) * c = k * c + c /\ k * c \in Int
  BY <1>1
<1>7. (k + 1) * c > e * w
  BY <1>1, <1>3, <1>6
<1> QED BY <1>5, <1>7

LEMMA OverflowTrue ==
    ASSUME NEW e \in Nat, NEW c \in Nat, NEW depth \in Nat, NEW threshold \in Nat \ {0}, NEW m \in Nat,
           e > c, NEW t \in Overflow(e, c, depth, threshold)
    PROVE  m * t[2] >= t[1] <=> ProjectedDepth(e, c, depth, m) >= threshold
<1>1. PICK g : g = (e - c) * m
  OBVIOUS
<1>2. g \in Nat
  <2>1. e - c \in Nat
    OBVIOUS
  <2> QED BY <1>1, <2>1
<1>3. ProjectedDepth(e, c, depth, m) = depth + g
  BY <1>1, <1>2 DEF ProjectedDepth
<1>4. CASE depth >= threshold
  <2>1. t[1] = 0 /\ t[2] = 1
    BY <1>4 DEF Overflow
  <2> QED BY <1>2, <1>3, <1>4, <2>1
<1>5. CASE ~(depth >= threshold)
  <2>1. t[1] = threshold - depth /\ t[2] = e - c
    BY <1>5 DEF Overflow
  <2>2. m * t[2] = g
    BY <1>1, <2>1
  <2> QED BY <1>2, <1>3, <2>1, <2>2
<1> QED BY <1>4, <1>5

LEMMA DrainTrue ==
    ASSUME NEW e \in Nat, NEW c \in Nat, NEW depth \in Nat, NEW m \in Nat, e <= c,
           NEW t \in DrainTime(e, c, depth), m * t[2] >= t[1]
    PROVE  ProjectedDepth(e, c, depth, m) = 0
<1>1. PICK g : g = (c - e) * m
  OBVIOUS
<1>2. c - e \in Nat /\ g \in Nat /\ (e - c) * m = -g
  BY <1>1
<1>3. CASE e < c
  <2>1. t[1] = depth /\ t[2] = c - e
    BY <1>3 DEF DrainTime
  <2>2. g >= depth
    BY <1>1, <1>2, <2>1
  <2> QED BY <1>2, <2>2 DEF ProjectedDepth
<1>4. CASE ~(e < c)
  <2>1. e = c
    BY <1>4
  <2>2. depth = 0
    BY <1>4 DEF DrainTime
  <2> QED BY <2>1, <2>2 DEF ProjectedDepth
<1> QED BY <1>3, <1>4

LEMMA AdviceTrue ==
    ASSUME WorkersInv
    PROVE  ForecastSound
<1>1. /\ Counted \in SUBSET Workers /\ IsFiniteSet(Workers)
  BY RollupsAssumption DEF Counted
<1>2. Cardinality(Counted) \in 0..Cardinality(Workers)
  <2>1. /\ IsFiniteSet(Counted) /\ Cardinality(Counted) <= Cardinality(Workers)
    BY <1>1, FS_Subset
  <2> QED BY <1>1, <2>1, FS_CardinalityType
<1>3. Cardinality(Workers) \in Nat
  BY <1>1, FS_CardinalityType
<1>4. ASSUME NEW w \in 0..Cardinality(Workers), NEW e \in Rates, NEW c \in Rates, NEW depth \in Rates,
             NEW threshold \in 1..3
      PROVE  /\ e > c /\ c > 0 /\ w > 0 => (w + WorkersNeeded(e, c, w)) * c > e * w
             /\ e > c => \A t \in Overflow(e, c, depth, threshold) : \A m \in 0..4 :
                    m * t[2] >= t[1] <=> ProjectedDepth(e, c, depth, m) >= threshold
             /\ \A t \in DrainTime(e, c, depth) : \A m \in 0..4 :
                    e <= c /\ m * t[2] >= t[1] => ProjectedDepth(e, c, depth, m) = 0
  <2>1. /\ e \in Nat /\ c \in Nat /\ depth \in Nat /\ w \in Nat /\ threshold \in Nat \ {0}
        /\ \A m \in 0..4 : m \in Nat
    BY <1>3 DEF Rates
  <2>2. e > c /\ c > 0 /\ w > 0 => (w + WorkersNeeded(e, c, w)) * c > e * w
    <3>1. c > 0 /\ w > 0 => c \in Nat \ {0} /\ w \in Nat \ {0}
      BY <2>1
    <3> QED BY <2>1, <3>1, EnoughWorkers
  <2>3. ASSUME e > c, NEW t \in Overflow(e, c, depth, threshold), NEW m \in 0..4
        PROVE  m * t[2] >= t[1] <=> ProjectedDepth(e, c, depth, m) >= threshold
    BY <2>1, <2>3, OverflowTrue
  <2>4. ASSUME NEW t \in DrainTime(e, c, depth), NEW m \in 0..4, e <= c, m * t[2] >= t[1]
        PROVE  ProjectedDepth(e, c, depth, m) = 0
    BY <2>1, <2>4, DrainTrue
  <2> QED BY <2>2, <2>3, <2>4
<1>5. SoundFor[Cardinality(Counted)]
  BY <1>2, <1>4 DEF SoundFor
<1> QED BY <1>5 DEF ForecastSound

-----------------------------------------------------------------------------
(* The collector as a whole. *)

RollupsInv == HoursInv /\ WorkersInv

LEMMA RollupsBegin ==
    ASSUME now = 0, events = 0, RollupsInit
    PROVE  RollupsInv
<1>1. HoursInv
  BY HoursBegin
<1>2. WorkerTypes
  <2>1. ClockOK
    BY <1>1 DEF HoursInv, HourTypes
  <2>2. NoRecord \in [state : States, named : BOOLEAN, until : 0..Never]
    BY NeverIs DEF NoRecord, States
  <2> QED BY <2>1, <2>2 DEF RollupsInit, WorkerTypes
<1>3. ASSUME NEW w \in Workers
      PROVE  WorkerSound(w, worker[w], record[w], heard[w], half, cut, forgotten, now)
  <2>1. /\ worker[w] = "new" /\ record[w].named = FALSE /\ heard[w] = 0 /\ half = {}
    BY DEF RollupsInit, NoRecord
  <2>2. heard[w] <= now
    BY <2>1
  <2> QED BY <2>1, <2>2 DEF WorkerSound
<1> QED BY <1>1, <1>2, <1>3 DEF RollupsInv, WorkersInv

LEMMA RollupsKept ==
    ASSUME RollupsInv, UNCHANGED rollupVars, ClockOK', now' >= now, events' >= events
    PROVE  RollupsInv'
<1>1. UNCHANGED <<offset, buckets, done, heatmap, failures>>
  BY DEF rollupVars
<1>2. UNCHANGED <<worker, half, record, heard, cut, forgotten>>
  BY DEF rollupVars
<1> QED BY <1>1, <1>2, HoursKept, WorkersKept DEF RollupsInv

LEMMA RollupsStepKeeps ==
    ASSUME RollupsInv, NEW w \in Workers, RollupsStep(w)
    PROVE  RollupsInv' /\ now' = now /\ events' \in 0..MaxEvents /\ events' >= events
<1>1. now' = now /\ events' \in 0..MaxEvents /\ events' >= events
  <2>1. now' = now /\ (events' = events \/ (events < MaxEvents /\ events' = events + 1))
    BY DEF RollupsStep, JobEnds, WorkerStarts, StartExpires, Heartbeat, WorkerStops, Event
  <2>2. events \in 0..MaxEvents /\ MaxEvents \in Nat
    BY ClockAssumption DEF RollupsInv, WorkersInv, WorkerTypes, ClockOK
  <2> QED BY <2>1, <2>2
<1>2. ClockOK' /\ now' >= now
  <2>1. now \in 0..MaxTime
    BY DEF RollupsInv, WorkersInv, WorkerTypes, ClockOK
  <2> QED BY <1>1, <2>1, ClockAssumption DEF ClockOK
<1>3. CASE \E outcome \in {"processed", "failed"} : JobEnds(w, outcome)
  BY <1>1, <1>3, HoursJobEnds, WorkerJobEnds DEF RollupsInv
<1>4. CASE WorkerStarts(w) \/ StartExpires(w) \/ Heartbeat(w) \/ WorkerStops(w)
  <2>1. UNCHANGED <<offset, buckets, done, heatmap, failures>>
    BY <1>4 DEF WorkerStarts, StartExpires, Heartbeat, WorkerStops
  <2>2. HoursInv'
    BY <1>1, <1>2, <2>1, HoursKept DEF RollupsInv
  <2>3. WorkersInv'
    BY <1>1, <1>4, WorkerStartsKeeps, WorkerStartExpires, WorkerHeartbeat, WorkerStopsKeeps
       DEF RollupsInv
  <2> QED BY <1>1, <2>2, <2>3 DEF RollupsInv
<1> QED BY <1>1, <1>3, <1>4 DEF RollupsStep

LEMMA RollupsRestart ==
    ASSUME RollupsInv, Event, WorkersDie
    PROVE  RollupsInv'
<1>1. now' = now /\ events' = events + 1 /\ events < MaxEvents
  BY DEF Event
<1>2. now \in 0..MaxTime /\ events \in 0..MaxEvents /\ MaxEvents \in Nat /\ MaxTime \in Nat
  BY ClockAssumption DEF RollupsInv, WorkersInv, WorkerTypes, ClockOK
<1>3. ClockOK' /\ now' >= now /\ events' >= events /\ events' \in 0..MaxEvents
  BY <1>1, <1>2 DEF ClockOK
<1>4. UNCHANGED <<offset, buckets, done, heatmap, failures>>
  BY DEF WorkersDie
<1> QED BY <1>1, <1>3, <1>4, HoursKept, WorkersDieKeeps DEF RollupsInv

LEMMA RollupsTypes == RollupsInv => RollupsTypeOK
<1> SUFFICES ASSUME RollupsInv PROVE RollupsTypeOK
  OBVIOUS
<1>1. events \in Nat /\ events <= MaxEvents /\ MaxEvents \in Nat
  BY ClockAssumption DEF RollupsInv, WorkersInv, WorkerTypes, ClockOK
<1>2. ASSUME NEW h \in Hours
      PROVE  buckets[h] \in [processed : 0..MaxEvents, failed : 0..MaxEvents, until : 0..Never]
  <2>1. /\ buckets[h] \in [processed : Nat, failed : Nat, until : 0..Never]
        /\ buckets[h].processed <= events /\ buckets[h].failed <= events
    BY DEF RollupsInv, HoursInv, HourTypes, Bucketed
  <2>2. buckets[h].processed \in 0..MaxEvents /\ buckets[h].failed \in 0..MaxEvents
    BY <1>1, <2>1
  <2> QED BY <2>1, <2>2
<1>3. \A d \in Days : heatmap[d].until \in 0..Never
  BY DEF RollupsInv, HoursInv, HourTypes
<1>4. ASSUME NEW w \in Workers
      PROVE  /\ worker[w] \in {"new", "up", "stopped", "dead"}
             /\ w \in half => worker[w] \in {"up", "stopped"}
             /\ record[w].state \in {"none", "online", "stopped"}
             /\ record[w].named \in BOOLEAN /\ record[w].until \in 0..Never
  BY DEF RollupsInv, WorkersInv, WorkerTypes, WorkerSound, States
<1>5. /\ offset \in Offsets /\ half \subseteq Workers
      /\ cut \subseteq Workers /\ forgotten \subseteq Workers
  BY DEF RollupsInv, HoursInv, HourTypes, WorkersInv, WorkerTypes
<1> QED BY <1>2, <1>3, <1>4, <1>5 DEF RollupsTypeOK

-----------------------------------------------------------------------------
(* The flow page: where new nodes are drawn. *)

LEMMA HighestNumber ==
    ASSUME NEW S \in SUBSET Nat, IsFiniteSet(S), S # {}
    PROVE  \E x \in S : \A y \in S : x >= y
<1> DEFINE Topless(T) == T \in SUBSET Nat /\ IsFiniteSet(T) /\ T # {} /\ ~ \E x \in T : \A y \in T : x >= y
           K == {k \in Nat : \E T \in SUBSET Nat : Topless(T) /\ Cardinality(T) = k}
<1>1. K = {}
  <2> SUFFICES ASSUME K # {} PROVE FALSE
    OBVIOUS
  <2>1. K \in SUBSET Nat
    OBVIOUS
  <2>2. PICK k \in K : \A i \in K : k <= i
    <3> HIDE DEF K
    <3> QED BY <2>1, LeastNumber
  <2>3. PICK T \in SUBSET Nat : Topless(T) /\ Cardinality(T) = k
    BY <2>2
  <2>4. PICK x \in T : TRUE
    BY <2>3
  <2>5. PICK U \in SUBSET Nat : U = T \ {x}
    OBVIOUS
  <2>6. IsFiniteSet(U) /\ Cardinality(U) = k - 1 /\ Cardinality(U) \in Nat
    BY <2>3, <2>4, <2>5, FS_RemoveElement, FS_CardinalityType
  <2>7. k \in Nat
    BY <2>2
  <2>8. ~ Topless(U)
    <3>1. Cardinality(U) \notin K
      <4>1. \A i \in K : k <= i
        BY <2>2
      <4>2. ~ (k <= Cardinality(U))
        BY <2>6, <2>7
      <4> HIDE DEF K
      <4> QED BY <4>1, <4>2
    <3> QED BY <2>6, <3>1
  <2>9. CASE U = {}
    <3>1. T = {x} /\ x \in Nat
      BY <2>4, <2>5, <2>9
    <3>2. x >= x
      BY <3>1
    <3> QED BY <2>3, <3>1, <3>2
  <2>10. CASE U # {}
    <3>1. PICK m \in U : \A y \in U : m >= y
      BY <2>6, <2>8, <2>10
    <3>2. x \in Nat /\ m \in Nat /\ m \in T /\ T \subseteq Nat /\ \A y \in T : y = x \/ m >= y
      BY <2>4, <2>5, <3>1
    <3>3. CASE m >= x
      <4>1. \A y \in T : m >= y
        BY <3>2, <3>3
      <4> QED BY <2>3, <3>2, <4>1
    <3>4. CASE ~(m >= x)
      <4>1. \A y \in T : x >= y
        BY <3>2, <3>4
      <4> QED BY <2>3, <2>4, <4>1
    <3> QED BY <3>3, <3>4
  <2> QED BY <2>9, <2>10
<1>2. Cardinality(S) \in Nat
  BY FS_CardinalityType
<1> QED BY <1>1, <1>2

Placed(pos) ==
    /\ DOMAIN pos \subseteq Tree
    /\ \A n \in DOMAIN pos : pos[n] \in Int \X Nat
    /\ \A m, n \in DOMAIN pos : m # n => pos[m] # pos[n]

\* The first row of a level is below every row that is drawn there.
LEMMA FirstRowIs ==
    ASSUME NEW pos, Placed(pos), NEW level \in Int
    PROVE  /\ FirstRow(pos, level) \in Nat
           /\ \A n \in DOMAIN pos : pos[n][1] = level => pos[n][2] < FirstRow(pos, level)
<1>1. PICK M : M = {m \in DOMAIN pos : pos[m][1] = level}
  OBVIOUS
<1>2. PICK rows : rows = {pos[n][2] : n \in M}
  OBVIOUS
<1>3. FirstRow(pos, level) = IF rows = {} THEN 0 ELSE Max(rows) + 1
  BY <1>1, <1>2 DEF FirstRow
<1>4. rows \subseteq Nat /\ M \subseteq Tree
  BY <1>1, <1>2 DEF Placed
<1>5. CASE rows = {}
  <2>1. M = {}
    BY <1>2, <1>5
  <2> QED BY <1>1, <1>3, <1>5, <2>1
<1>6. CASE rows # {}
  <2>1. IsFiniteSet(M)
    BY <1>4, FlowPageAssumption, FS_Subset
  <2>2. [n \in M |-> pos[n][2]] \in Surjection(M, rows)
    BY <1>2 DEF Surjection
  <2>3. IsFiniteSet(rows)
    BY <2>1, <2>2, FS_Surjection
  <2>4. \E x \in rows : \A y \in rows : x >= y
    BY <1>4, <1>6, <2>3, HighestNumber
  <2>5. PICK top : top = Max(rows)
    OBVIOUS
  <2>6. top \in rows /\ \A y \in rows : top >= y
    BY <2>4, <2>5 DEF Max
  <2>7. FirstRow(pos, level) = top + 1 /\ top \in Nat
    BY <1>3, <1>4, <1>6, <2>5, <2>6
  <2>8. ASSUME NEW n \in DOMAIN pos, pos[n][1] = level PROVE pos[n][2] < top + 1
    <3>1. pos[n][2] \in rows
      BY <1>1, <1>2, <2>8
    <3>2. pos[n][2] \in Nat /\ top >= pos[n][2]
      BY <1>4, <2>6, <3>1
    <3> QED BY <2>7, <3>2
  <2> QED BY <2>7, <2>8
<1> QED BY <1>5, <1>6

\* New nodes of a level are drawn below the old ones, one row each.
LEMMA LayoutIs ==
    ASSUME NEW pos, Placed(pos), NEW new \in SUBSET Tree, NEW origin \in DOMAIN pos, NEW step \in Int
    PROVE  /\ Placed(Layout(pos, new, origin, step))
           /\ DOMAIN Layout(pos, new, origin, step) = DOMAIN pos \cup new
           /\ \A n \in DOMAIN pos : Layout(pos, new, origin, step)[n] = pos[n]
<1>1. PICK level : level = pos[origin][1] + step
  OBVIOUS
<1>2. level \in Int
  BY <1>1 DEF Placed
<1>3. PICK size : size = Cardinality(new)
  OBVIOUS
<1>4. IsFiniteSet(new) /\ size \in Nat
  BY <1>3, FlowPageAssumption, FS_Subset, FS_CardinalityType
<1>5. PICK place : place = CHOOSE f \in Bijection(new, 1..size) : TRUE
  OBVIOUS
<1>6. place \in Bijection(new, 1..size)
  <2>1. Bijection(1..size, new) # {}
    BY <1>3, <1>4, FS_CardinalityType DEF ExistsBijection
  <2>2. PICK f : f \in Bijection(1..size, new)
    BY <2>1
  <2>3. Bijection(new, 1..size) # {}
    BY <2>2, Fun_BijInverse
  <2> QED BY <1>5, <2>3
<1>7. /\ \A n \in new : place[n] \in 1..size
      /\ \A m, n \in new : place[m] = place[n] => m = n
  <2>1. place \in [new -> 1..size]
    BY <1>6, Fun_BijectionProperties
  <2>2. \A m, n \in new : place[m] = place[n] => m = n
    BY <1>6, Fun_BijectionProperties
  <2> QED BY <2>1, <2>2
<1>8. PICK first : first = FirstRow(pos, level)
  OBVIOUS
<1>9. first \in Nat /\ \A n \in DOMAIN pos : pos[n][1] = level => pos[n][2] < first
  BY <1>2, <1>8, FirstRowIs
<1>10. PICK q : q = Layout(pos, new, origin, step)
  OBVIOUS
<1>11. q = [n \in DOMAIN pos \cup new |->
              IF n \in DOMAIN pos THEN pos[n] ELSE <<level, first + place[n] - 1>>]
  BY <1>1, <1>3, <1>5, <1>8, <1>10 DEF Layout
<1>12. /\ DOMAIN q = DOMAIN pos \cup new
       /\ \A n \in DOMAIN pos : q[n] = pos[n]
       /\ \A n \in new \ DOMAIN pos : q[n] = <<level, first + place[n] - 1>>
  BY <1>11
<1>13. \A n \in new : first + place[n] - 1 \in Nat /\ first + place[n] - 1 >= first
  BY <1>4, <1>7, <1>9
<1>14. \A n \in DOMAIN q : q[n] \in Int \X Nat
  BY <1>2, <1>12, <1>13 DEF Placed
<1>15. ASSUME NEW m \in DOMAIN pos, NEW n \in new \ DOMAIN pos PROVE q[m] # q[n]
  <2>1. q[m] = pos[m] /\ pos[m] \in Int \X Nat
    BY <1>12 DEF Placed
  <2>2. q[n][1] = level /\ q[n][2] >= first /\ q[n][2] \in Nat
    BY <1>12, <1>13
  <2>3. CASE pos[m][1] = level
    <3>1. pos[m][2] < first /\ pos[m][2] \in Nat
      BY <1>9, <2>1, <2>3
    <3> QED BY <1>9, <2>1, <2>2, <3>1
  <2>4. CASE pos[m][1] # level
    BY <2>1, <2>2, <2>4
  <2> QED BY <2>3, <2>4
<1>16. ASSUME NEW m \in new \ DOMAIN pos, NEW n \in new \ DOMAIN pos, m # n PROVE q[m] # q[n]
  <2>1. q[m][2] = first + place[m] - 1 /\ q[n][2] = first + place[n] - 1
    BY <1>12
  <2>2. place[m] \in Int /\ place[n] \in Int /\ first \in Int /\ place[m] # place[n]
    BY <1>4, <1>7, <1>9, <1>16
  <2>3. first + place[m] - 1 # first + place[n] - 1
    BY <2>2
  <2> QED BY <2>1, <2>3
<1>17. ASSUME NEW m \in DOMAIN q, NEW n \in DOMAIN q, m # n PROVE q[m] # q[n]
  <2>1. CASE m \in DOMAIN pos /\ n \in DOMAIN pos
    BY <1>12, <1>17, <2>1 DEF Placed
  <2>2. CASE m \in DOMAIN pos /\ n \notin DOMAIN pos
    BY <1>12, <1>15, <2>2
  <2>3. CASE m \notin DOMAIN pos /\ n \in DOMAIN pos
    BY <1>12, <1>15, <2>3
  <2>4. CASE m \notin DOMAIN pos /\ n \notin DOMAIN pos
    BY <1>12, <1>16, <1>17, <2>4
  <2> QED BY <2>1, <2>2, <2>3, <2>4
<1>18. Placed(q)
  <2>1. DOMAIN q \subseteq Tree
    BY <1>12 DEF Placed
  <2> QED BY <2>1, <1>14, <1>17 DEF Placed
<1> QED BY <1>10, <1>12, <1>18

-----------------------------------------------------------------------------
(* The flow page: the graph that is drawn. *)

Whole(g) ==
    /\ Placed(g.pos)
    /\ g.edges \subseteq Arrows \cap (Drawn(g) \X Drawn(g))
    /\ InOnePiece(g)

\* A piece stays one when jobs next to one of its jobs join it by an edge.
LEMMA PieceGrows ==
    ASSUME NEW g, NEW h, InOnePiece(g), NEW j \in Drawn(g), Drawn(g) \subseteq Drawn(h),
           g.edges \subseteq h.edges,
           \A n \in Drawn(h) \ Drawn(g) : <<j, n>> \in h.edges \/ <<n, j>> \in h.edges
    PROVE  InOnePiece(h)
<1> SUFFICES ASSUME NEW S \in SUBSET Drawn(h), S # {}, Linked(h, S) = S
             PROVE  S = Drawn(h)
  BY DEF InOnePiece
<1>1. \A m \in S : \A n \in Drawn(h) : <<m, n>> \in h.edges \/ <<n, m>> \in h.edges => n \in S
  BY DEF Linked
<1>2. PICK T : T = S \cap Drawn(g)
  OBVIOUS
<1>3. T # {}
  <2>1. PICK n \in S : TRUE
    OBVIOUS
  <2>2. CASE n \in Drawn(g)
    BY <1>2, <2>2
  <2>3. CASE n \notin Drawn(g)
    <3>1. n \in Drawn(h) \ Drawn(g)
      BY <2>3
    <3>2. j \in S
      BY <1>1, <3>1
    <3> QED BY <1>2, <3>2
  <2> QED BY <2>2, <2>3
<1>4. Linked(g, T) = T
  <2>1. ASSUME NEW m \in T, NEW n \in Drawn(g), <<m, n>> \in g.edges \/ <<n, m>> \in g.edges
        PROVE  n \in T
    <3>1. n \in S
      BY <1>1, <1>2, <2>1
    <3> QED BY <1>2, <3>1
  <2> QED BY <2>1 DEF Linked
<1>5. T = Drawn(g)
  <2>1. T \in SUBSET Drawn(g)
    BY <1>2
  <2> QED BY <1>3, <1>4, <2>1 DEF InOnePiece
<1>6. j \in S
  BY <1>2, <1>5
<1>7. ASSUME NEW n \in Drawn(h) PROVE n \in S
  <2>1. CASE n \in Drawn(g)
    BY <1>2, <1>5, <2>1
  <2>2. CASE n \notin Drawn(g)
    BY <1>1, <1>6, <2>2
  <2> QED BY <2>1, <2>2
<1> QED BY <1>7

\* The neighbours of a drawn job, laid out on its two sides.
Sided(g, j, up, down, e) ==
    /\ up \subseteq After(j) /\ down \subseteq Before(j)
    /\ g.edges \subseteq e
    /\ \A n \in up : <<j, n>> \in e
    /\ \A n \in down : <<n, j>> \in e
    /\ e \subseteq Arrows \cap ((Drawn(g) \cup up \cup down) \X (Drawn(g) \cup up \cup down))

Laid(g, j, up, down, e) ==
    [pos |-> Layout(Layout(g.pos, up, j, 1), down, j, -1), edges |-> e]

LEMMA SidesDrawn ==
    ASSUME NEW g, Whole(g), NEW j \in Drawn(g), NEW up, NEW down, NEW e, Sided(g, j, up, down, e),
           NEW h, h = Laid(g, j, up, down, e)
    PROVE  Whole(h) /\ Drawn(h) = Drawn(g) \cup up \cup down
<1>1. /\ up \in SUBSET Tree /\ down \in SUBSET Tree
  BY DEF After, Before, Sided
<1>2. j \in DOMAIN g.pos /\ Placed(g.pos)
  BY DEF Whole, Drawn
<1>3. PICK p : p = Layout(g.pos, up, j, 1)
  OBVIOUS
<1>4. Placed(p) /\ DOMAIN p = Drawn(g) \cup up
  <2>1. PICK r \in Int : r = 1
    OBVIOUS
  <2>2. PICK f : f = g.pos
    OBVIOUS
  <2>3. Placed(f) /\ j \in DOMAIN f /\ DOMAIN f = Drawn(g)
    BY <1>2, <2>2 DEF Drawn
  <2>4. Placed(Layout(f, up, j, r)) /\ DOMAIN Layout(f, up, j, r) = DOMAIN f \cup up
    <3>1. r \in Int /\ up \in SUBSET Tree /\ Placed(f) /\ j \in DOMAIN f
      BY <1>1, <2>1, <2>3
    <3> QED BY <3>1, LayoutIs
  <2> QED BY <1>3, <2>1, <2>2, <2>3, <2>4, Zenon
<1>5. PICK q : q = Layout(p, down, j, -1)
  OBVIOUS
<1>6. Placed(q) /\ DOMAIN q = DOMAIN p \cup down
  <2>1. PICK r \in Int : r = -1
    OBVIOUS
  <2>2. j \in DOMAIN p
    BY <1>4
  <2>3. Placed(Layout(p, down, j, r)) /\ DOMAIN Layout(p, down, j, r) = DOMAIN p \cup down
    <3>1. r \in Int /\ down \in SUBSET Tree /\ Placed(p) /\ j \in DOMAIN p
      BY <1>1, <1>4, <2>1, <2>2
    <3> QED BY <3>1, LayoutIs
  <2> QED BY <1>5, <2>1, <2>3, Zenon
<1>7. h.pos = q /\ h.edges = e
  BY <1>3, <1>5 DEF Laid
<1>8. Drawn(h) = Drawn(g) \cup up \cup down
  BY <1>4, <1>6, <1>7 DEF Drawn
<1>9. h.edges \subseteq Arrows \cap (Drawn(h) \X Drawn(h))
  BY <1>7, <1>8 DEF Sided
<1>10. ASSUME NEW n \in Drawn(h) \ Drawn(g)
       PROVE  <<j, n>> \in h.edges \/ <<n, j>> \in h.edges
  <2>1. CASE n \in up
    BY <1>7, <2>1 DEF Sided
  <2>2. CASE n \in down
    BY <1>7, <2>2 DEF Sided
  <2> QED BY <1>8, <2>1, <2>2
<1>11. InOnePiece(h)
  <2>1. InOnePiece(g) /\ Drawn(g) \subseteq Drawn(h) /\ g.edges \subseteq h.edges
    BY <1>7, <1>8 DEF Whole, Sided
  <2> QED BY <1>10, <2>1, PieceGrows
<1> QED BY <1>6, <1>7, <1>8, <1>9, <1>11 DEF Whole

LEMMA OpenedIs ==
    ASSUME NEW j \in Tree
    PROVE  /\ Whole(Opened(j)) /\ Drawn(Opened(j)) = {j} \cup After(j) \cup Before(j)
           /\ Opened(j).edges = ({j} \X After(j)) \cup (Before(j) \X {j})
<1>1. PICK g : g = [pos |-> [n \in {j} |-> <<0, 1>>], edges |-> {}]
  OBVIOUS
<1>2. Drawn(g) = {j} /\ g.edges = {}
  BY <1>1 DEF Drawn
<1>3. InOnePiece(g)
  BY <1>2 DEF InOnePiece
<1>4. Placed(g.pos)
  <2>1. g.pos = [n \in {j} |-> <<0, 1>>]
    BY <1>1
  <2>2. DOMAIN g.pos = {j} /\ g.pos[j] = <<0, 1>>
    BY <2>1
  <2> QED BY <2>2 DEF Placed
<1>5. Whole(g)
  BY <1>2, <1>3, <1>4 DEF Whole
<1>6. PICK e : e = ({j} \X After(j)) \cup (Before(j) \X {j})
  OBVIOUS
<1>7. Sided(g, j, After(j), Before(j), e)
  <2>1. e \subseteq Arrows \cap (({j} \cup After(j) \cup Before(j)) \X ({j} \cup After(j) \cup Before(j)))
    BY <1>6 DEF After, Before
  <2> QED BY <1>2, <1>6, <2>1 DEF Sided
<1>8. PICK h : h = Opened(j)
  OBVIOUS
<1>9. h = Laid(g, j, After(j), Before(j), e) /\ h.edges = e
  BY <1>1, <1>6, <1>8 DEF Opened, Laid
<1>10. j \in Drawn(g)
  BY <1>2
<1>11. Whole(h) /\ Drawn(h) = Drawn(g) \cup After(j) \cup Before(j)
  BY <1>5, <1>7, <1>9, <1>10, SidesDrawn
<1> QED BY <1>2, <1>6, <1>8, <1>9, <1>11

LEMMA ExpandedIs ==
    ASSUME NEW g, Whole(g), NEW j \in Drawn(g)
    PROVE  /\ Whole(Expanded(g, j))
           /\ Drawn(Expanded(g, j)) = Drawn(g) \cup After(j) \cup Before(j)
           /\ g.edges \subseteq Expanded(g, j).edges
           /\ After(j) \subseteq Drawn(g) \/ {j} \X After(j) \subseteq Expanded(g, j).edges
           /\ Before(j) \subseteq Drawn(g) \/ Before(j) \X {j} \subseteq Expanded(g, j).edges
<1>1. PICK up : up = NewSide(After(j), g)
  OBVIOUS
<1>2. PICK down : down = NewSide(Before(j), g)
  OBVIOUS
<1>3. /\ up \in SUBSET After(j) /\ down \in SUBSET Before(j)
      /\ (up = {} <=> After(j) \subseteq Drawn(g)) /\ (down = {} <=> Before(j) \subseteq Drawn(g))
      /\ Drawn(g) \cup up \cup down = Drawn(g) \cup After(j) \cup Before(j)
  BY <1>1, <1>2 DEF NewSide
<1>4. PICK e : e = g.edges \cup (IF up = {} THEN {} ELSE {j} \X After(j))
                           \cup (IF down = {} THEN {} ELSE Before(j) \X {j})
  OBVIOUS
<1>5. PICK h : h = Expanded(g, j)
  OBVIOUS
<1>6. h = Laid(g, j, up, down, e) /\ h.edges = e
  BY <1>1, <1>2, <1>4, <1>5 DEF Expanded, Laid
<1>7. /\ g.edges \subseteq e
      /\ \A n \in up : <<j, n>> \in e
      /\ \A n \in down : <<n, j>> \in e
      /\ (up = {} \/ {j} \X After(j) \subseteq e) /\ (down = {} \/ Before(j) \X {j} \subseteq e)
  BY <1>3, <1>4
<1>8. Sided(g, j, up, down, e)
  <2>1. g.edges \subseteq Arrows \cap (Drawn(g) \X Drawn(g)) /\ j \in Drawn(g)
    BY DEF Whole
  <2>2. {j} \X After(j) \subseteq Arrows /\ Before(j) \X {j} \subseteq Arrows
    BY DEF After, Before
  <2>3. e \subseteq Arrows \cap ((Drawn(g) \cup up \cup down) \X (Drawn(g) \cup up \cup down))
    BY <1>3, <1>4, <2>1, <2>2
  <2> QED BY <1>3, <1>7, <2>3 DEF Sided
<1>9. Whole(h) /\ Drawn(h) = Drawn(g) \cup up \cup down
  BY <1>6, <1>8, SidesDrawn
<1> QED BY <1>3, <1>5, <1>6, <1>7, <1>9

LEMMA BlankIs == Whole(Blank) /\ Drawn(Blank) = {}
<1>1. Blank.edges = {} /\ Blank.pos = << >>
  BY DEF Blank
<1>2. DOMAIN Blank.pos = {}
  BY <1>1
<1> QED BY <1>1, <1>2 DEF Whole, Placed, InOnePiece, Drawn
-----------------------------------------------------------------------------
(* The flow page: what every answer leaves.  A click brings its own graph  *)
(* back, so the graph each click was made on has to be whole as well.      *)

LookSound(l) ==
    \/ l = NoLook
    \/ l.kind = "load" /\ l.job \in Tree
    \/ l.kind = "click" /\ Whole(l.base) /\ l.job \in Drawn(l.base)

StaysOpen(g, how) ==
    \A j \in DOMAIN how :
        /\ After(j) \cup Before(j) \subseteq Drawn(g)
        /\ After(j) \subseteq how[j] \/ {j} \X After(j) \subseteq g.edges
        /\ Before(j) \subseteq how[j] \/ Before(j) \X {j} \subseteq g.edges

GraphSound(g, sel, how, over) ==
    /\ Whole(g)
    /\ sel = Nobody \/ sel \in Drawn(g)
    /\ DOMAIN how \subseteq Tree
    /\ over = TRUE \/ StaysOpen(g, how)

LooksSound(ls, spins) ==
    /\ ls = [i \in Looks |-> ls[i]]
    /\ \A i \in Looks : LookSound(ls[i])
    /\ spins = TRUE => \E i \in Looks : ls[i].kind = "load"

FlowInv ==
    /\ loading \in BOOLEAN /\ overtaken \in BOOLEAN
    /\ GraphSound(graph, selected, opened, overtaken)
    /\ LooksSound(look, loading)

LEMMA FlowBegins == FlowPageInit => FlowInv
<1> SUFFICES ASSUME FlowPageInit PROVE FlowInv
  OBVIOUS
<1>1. /\ graph = Blank /\ selected = Nobody /\ loading = FALSE /\ overtaken = FALSE
      /\ look = [i \in Looks |-> NoLook]
  BY DEF FlowPageInit
<1>2. DOMAIN opened = {}
  <2>1. opened = << >>
    BY DEF FlowPageInit
  <2> QED BY <2>1
<1>3. GraphSound(graph, selected, opened, overtaken)
  BY <1>1, <1>2, BlankIs DEF GraphSound, StaysOpen
<1>4. LooksSound(look, loading)
  <2>1. loading # TRUE
    BY <1>1
  <2> QED BY <1>1, <2>1 DEF LooksSound, LookSound
<1> QED BY <1>1, <1>3, <1>4 DEF FlowInv

\* A look that begins or ends leaves the others as they are.
LEMMA OneLook ==
    ASSUME LooksSound(look, loading), NEW i \in Looks, NEW l, LookSound(l),
           look' = [look EXCEPT ![i] = l], NEW spins,
           spins = TRUE => l.kind = "load" \/ (loading = TRUE /\ look[i].kind # "load")
    PROVE  LooksSound(look', spins)
<1>1. look = [k \in Looks |-> look[k]] /\ \A k \in Looks : LookSound(look[k])
  BY DEF LooksSound
<1>2. /\ look' = [k \in Looks |-> look'[k]] /\ look'[i] = l
      /\ \A k \in Looks : k # i => look'[k] = look[k]
  BY <1>1
<1>3. \A k \in Looks : LookSound(look'[k])
  BY <1>1, <1>2
<1>4. ASSUME spins = TRUE PROVE \E k \in Looks : look'[k].kind = "load"
  <2>1. CASE l.kind = "load"
    BY <1>2, <2>1
  <2>2. CASE loading = TRUE /\ look[i].kind # "load"
    <3>1. PICK k \in Looks : look[k].kind = "load"
      BY <2>2 DEF LooksSound
    <3>2. look'[k].kind = "load"
      BY <1>2, <2>2, <3>1
    <3> QED BY <3>2
  <2> QED BY <1>4, <2>1, <2>2
<1> QED BY <1>2, <1>3, <1>4 DEF LooksSound

LEMMA NoLookIs == LookSound(NoLook) /\ NoLook.kind = "none"
BY DEF LookSound, NoLook

LEMMA FlowStepKeeps ==
    ASSUME FlowInv, FlowPageStep
    PROVE  FlowInv'
<1> USE DEF FlowInv
<1>1. CASE CloseDrawer
  <2>1. selected' = Nobody /\ UNCHANGED <<graph, loading, look, opened, overtaken>>
    BY <1>1 DEF CloseDrawer
  <2> QED BY <2>1 DEF GraphSound
<1>2. ASSUME NEW i \in Looks, NEW j \in Tree, Search(i, j) PROVE FlowInv'
  <2>1. PICK l : l = [kind |-> "load", job |-> j, base |-> Blank]
    OBVIOUS
  <2>2. /\ look' = [look EXCEPT ![i] = l] /\ loading' = TRUE /\ selected' = Nobody
        /\ UNCHANGED <<graph, opened, overtaken>>
    BY <1>2, <2>1 DEF Search
  <2>3. LookSound(l) /\ l.kind = "load"
    BY <2>1 DEF LookSound
  <2>4. LooksSound(look', loading')
    BY <2>2, <2>3, OneLook
  <2> QED BY <2>2, <2>4 DEF GraphSound
<1>3. ASSUME NEW i \in Looks, NEW j \in Tree, Click(i, j) PROVE FlowInv'
  <2>1. PICK l : l = [kind |-> "click", job |-> j, base |-> graph]
    OBVIOUS
  <2>2. /\ look' = [look EXCEPT ![i] = l] /\ look[i] = NoLook /\ j \in Drawn(graph)
        /\ UNCHANGED <<graph, selected, loading, opened, overtaken>>
    BY <1>3, <2>1 DEF Click
  <2>3. LookSound(l)
    BY <2>1, <2>2 DEF LookSound, GraphSound
  <2>4. look[i].kind # "load"
    BY <2>2, NoLookIs
  <2>5. LooksSound(look', loading')
    BY <2>2, <2>3, <2>4, OneLook
  <2> QED BY <2>2, <2>5
<1>4. ASSUME NEW i \in Looks, Loaded(i) PROVE FlowInv'
  <2>1. PICK j : j = look[i].job
    OBVIOUS
  <2>2. /\ look[i].kind = "load" /\ graph' = Opened(j) /\ selected' = j /\ loading' = FALSE
        /\ look' = [look EXCEPT ![i] = NoLook] /\ opened' = [k \in {j} |-> {k}]
        /\ overtaken' = FALSE
    BY <1>4, <2>1 DEF Loaded
  <2>3. j \in Tree
    <3>1. LookSound(look[i])
      BY DEF LooksSound
    <3> QED BY <2>1, <2>2, <3>1, NoLookIs DEF LookSound
  <2>4. StaysOpen(graph', opened')
    <3>1. DOMAIN opened' = {j} /\ opened'[j] = {j}
      BY <2>2
    <3> QED BY <2>2, <2>3, <3>1, OpenedIs DEF StaysOpen
  <2>5. Whole(graph') /\ j \in Drawn(graph') /\ DOMAIN opened' \subseteq Tree
    BY <2>2, <2>3, OpenedIs
  <2>6. GraphSound(graph', selected', opened', overtaken')
    BY <2>2, <2>4, <2>5 DEF GraphSound
  <2>7. LooksSound(look', loading')
    <3>1. loading' # TRUE
      BY <2>2
    <3> QED BY <2>2, <3>1, NoLookIs, OneLook
  <2>8. loading' \in BOOLEAN /\ overtaken' \in BOOLEAN
    BY <2>2
  <2> QED BY <2>6, <2>7, <2>8
<1>5. ASSUME NEW i \in Looks, Clicked(i) PROVE FlowInv'
  <2>1. PICK j : j = look[i].job
    OBVIOUS
  <2>2. PICK g : g = look[i].base
    OBVIOUS
  <2>3. /\ look[i].kind = "click" /\ graph' = Expanded(g, j) /\ selected' = j
        /\ look' = [look EXCEPT ![i] = NoLook] /\ loading' = loading
        /\ opened' = [k \in DOMAIN opened \cup {j} |-> IF k = j THEN Drawn(g) ELSE opened[k]]
    BY <1>5, <2>1, <2>2 DEF Clicked
  <2>4. overtaken' \in BOOLEAN /\ (overtaken' = TRUE \/ (overtaken # TRUE /\ g = graph))
    <3>1. overtaken' = (overtaken \/ graph # g)
      BY <1>5, <2>2 DEF Clicked
    <3> QED BY <3>1
  <2>5. Whole(g) /\ j \in Drawn(g)
    <3>1. LookSound(look[i])
      BY DEF LooksSound
    <3> QED BY <2>1, <2>2, <2>3, <3>1, NoLookIs DEF LookSound
  <2>6. j \in Tree
    BY <2>5 DEF Whole, Placed, Drawn
  <2>7. /\ DOMAIN opened' = DOMAIN opened \cup {j} /\ opened'[j] = Drawn(g)
        /\ \A k \in DOMAIN opened : k # j => opened'[k] = opened[k]
    BY <2>3
  <2>8. /\ Whole(graph') /\ Drawn(graph') = Drawn(g) \cup After(j) \cup Before(j)
        /\ g.edges \subseteq graph'.edges
        /\ After(j) \subseteq Drawn(g) \/ {j} \X After(j) \subseteq graph'.edges
        /\ Before(j) \subseteq Drawn(g) \/ Before(j) \X {j} \subseteq graph'.edges
    BY <2>3, <2>5, ExpandedIs
  <2>9. ASSUME overtaken' # TRUE PROVE StaysOpen(graph', opened')
    <3>1. g = graph /\ StaysOpen(g, opened)
      BY <2>4, <2>9 DEF GraphSound
    <3>2. ASSUME NEW k \in DOMAIN opened'
          PROVE  /\ After(k) \cup Before(k) \subseteq Drawn(graph')
                 /\ After(k) \subseteq opened'[k] \/ {k} \X After(k) \subseteq graph'.edges
                 /\ Before(k) \subseteq opened'[k] \/ Before(k) \X {k} \subseteq graph'.edges
      <4>1. CASE k = j
        BY <2>7, <2>8, <4>1
      <4>2. CASE k # j
        <5>1. k \in DOMAIN opened /\ opened'[k] = opened[k]
          BY <2>7, <4>2
        <5>2. /\ After(k) \cup Before(k) \subseteq Drawn(g)
              /\ After(k) \subseteq opened[k] \/ {k} \X After(k) \subseteq g.edges
              /\ Before(k) \subseteq opened[k] \/ Before(k) \X {k} \subseteq g.edges
          BY <3>1, <5>1 DEF StaysOpen
        <5> QED BY <2>8, <5>1, <5>2
      <4> QED BY <4>1, <4>2
    <3> QED BY <3>2 DEF StaysOpen
  <2>10. DOMAIN opened' \subseteq Tree
    BY <2>6, <2>7 DEF GraphSound
  <2>11. j \in Drawn(graph')
    BY <2>5, <2>8
  <2>12. GraphSound(graph', selected', opened', overtaken')
    BY <2>3, <2>8, <2>9, <2>10, <2>11 DEF GraphSound
  <2>13. LooksSound(look', loading')
    <3>1. look[i].kind # "load"
      BY <2>3
    <3> QED BY <2>3, <3>1, NoLookIs, OneLook
  <2>14. loading' \in BOOLEAN
    BY <2>3
  <2> QED BY <2>4, <2>12, <2>13, <2>14
<1>6. ASSUME NEW i \in Looks, LoadFails(i) PROVE FlowInv'
  <2>1. /\ look' = [look EXCEPT ![i] = NoLook] /\ loading' = FALSE
        /\ UNCHANGED <<graph, selected, opened, overtaken>>
    BY <1>6 DEF LoadFails
  <2>2. loading' # TRUE /\ loading' \in BOOLEAN
    BY <2>1
  <2>3. LooksSound(look', loading')
    BY <2>1, <2>2, NoLookIs, OneLook
  <2> QED BY <2>1, <2>2, <2>3
<1>7. ASSUME NEW i \in Looks, ClickFails(i) PROVE FlowInv'
  <2>1. /\ look[i].kind = "click" /\ look' = [look EXCEPT ![i] = NoLook]
        /\ UNCHANGED <<graph, selected, loading, opened, overtaken>>
    BY <1>7 DEF ClickFails
  <2>2. look[i].kind # "load"
    BY <2>1
  <2>3. LooksSound(look', loading')
    BY <2>1, <2>2, NoLookIs, OneLook
  <2> QED BY <2>1, <2>3
<1> QED BY <1>1, <1>2, <1>3, <1>4, <1>5, <1>6, <1>7 DEF FlowPageStep

LEMMA FlowKept ==
    ASSUME FlowInv, UNCHANGED flowPageVars
    PROVE  FlowInv'
BY DEF FlowInv, flowPageVars

LEMMA FlowTypes == FlowInv => FlowPageTypeOK
<1> SUFFICES ASSUME FlowInv PROVE FlowPageTypeOK
  OBVIOUS
<1> USE DEF FlowInv, GraphSound
<1>1. /\ Drawn(graph) \subseteq Tree /\ graph.edges \subseteq Tree \X Tree
      /\ \A n \in Drawn(graph) : graph.pos[n] \in Int \X Nat
  BY FlowPageAssumption DEF Whole, Placed, Drawn
<1>2. selected \in Tree \cup {Nobody}
  BY <1>1
<1>3. \A i \in Looks : look[i].kind \in {"none", "load", "click"}
  BY NoLookIs DEF LooksSound, LookSound
<1> QED BY <1>1, <1>2, <1>3 DEF FlowPageTypeOK

LEMMA FlowTruth ==
    ASSUME FlowInv
    PROVE  GraphDrawn /\ ExpansionsStay
<1> USE DEF FlowInv
<1>1. GraphDrawn
  <2>1. /\ graph.edges \subseteq Arrows \cap (Drawn(graph) \X Drawn(graph)) /\ InOnePiece(graph)
        /\ \A m, n \in Drawn(graph) : m # n => graph.pos[m] # graph.pos[n]
    BY DEF GraphSound, Whole, Placed, Drawn
  <2>2. selected # Nobody => selected \in Drawn(graph)
    BY DEF GraphSound
  <2>3. loading => \E i \in Looks : look[i].kind = "load"
    BY DEF LooksSound
  <2> QED BY <2>1, <2>2, <2>3 DEF GraphDrawn
<1>2. ExpansionsStay
  <2> SUFFICES ASSUME ~overtaken PROVE StaysOpen(graph, opened)
    BY DEF ExpansionsStay, StaysOpen
  <2>1. overtaken # TRUE
    OBVIOUS
  <2> QED BY <2>1 DEF GraphSound
<1> QED BY <1>1, <1>2
-----------------------------------------------------------------------------
(* The queue page: the loads.  A load for a range that is no longer chosen *)
(* is known to a later load for the chosen one, so that its answer, if it  *)
(* comes first, is not the last.                                           *)

Asked == Ranges \cup {NoRange}

LoadsTyped(ls) ==
    /\ ls \in [Loads -> [range : Asked, button : BOOLEAN, older : SUBSET Loads, late : BOOLEAN]]
    /\ \A i \in Loads :
          /\ ls[i].range = NoRange => ls[i] = NoLoad
          /\ \A k \in ls[i].older : k # i /\ ls[k].range # NoRange

\* A load k for another range is followed by a load for the chosen range c.
Followed(ls, c) ==
    \A k \in Loads :
        ls[k].range \notin {NoRange, c} /\ ls[k].button # TRUE /\ ls[k].late # TRUE =>
            \E j \in Loads : ls[j].range = c /\ k \in ls[j].older

ComesToShow(ls, c, s) ==
    s \in {NoRange, c} \/ \E j \in Loads : ls[j].range = c

LoadsSound(ls, c, s, m) ==
    /\ LoadsTyped(ls)
    /\ m = TRUE \/ (Followed(ls, c) /\ ComesToShow(ls, c, s))

LEMMA NoLoadIs ==
    /\ NoLoad \in [range : Asked, button : BOOLEAN, older : SUBSET Loads, late : BOOLEAN]
    /\ NoLoad.range = NoRange /\ NoLoad.older = {}
BY DEF NoLoad, Asked

\* What a new load leaves.
LEMMA LoadBegins ==
    ASSUME LoadsTyped(load), NEW i \in Loads, NEW range \in Ranges, NEW button \in BOOLEAN,
           LoadFor(i, range, button)
    PROVE  /\ LoadsTyped(load') /\ load[i].range = NoRange
           /\ load'[i].range = range /\ load'[i].button = button
           /\ \A k \in Loads : k # i => load'[k] = load[k]
           /\ \A k \in Loads : load[k].range # NoRange => k \in load'[i].older
<1>1. PICK l : l = [range |-> range, button |-> button, late |-> FALSE,
                    older |-> {k \in Loads : load[k] # NoLoad}]
  OBVIOUS
<1>2. load[i] = NoLoad /\ load' = [load EXCEPT ![i] = l]
  BY <1>1 DEF LoadFor
<1>3. load'[i] = l /\ \A k \in Loads : k # i => load'[k] = load[k]
  BY <1>2 DEF LoadsTyped
<1>4. /\ l \in [range : Asked, button : BOOLEAN, older : SUBSET Loads, late : BOOLEAN]
      /\ l.range = range /\ l.button = button /\ range # NoRange
      /\ \A k \in Loads : load[k].range # NoRange => k \in l.older
      /\ \A k \in l.older : k \in Loads /\ load[k] # NoLoad
  BY <1>1, NoLoadIs, QueuePageAssumption DEF Asked
<1>5. load' \in [Loads -> [range : Asked, button : BOOLEAN, older : SUBSET Loads, late : BOOLEAN]]
  BY <1>2, <1>4 DEF LoadsTyped
<1>6. ASSUME NEW n \in Loads
      PROVE  /\ load'[n].range = NoRange => load'[n] = NoLoad
             /\ \A k \in load'[n].older : k # n /\ load'[k].range # NoRange
  <2>1. CASE n = i
    <3>1. \A k \in l.older : k # i /\ load[k].range # NoRange
      BY <1>2, <1>4 DEF LoadsTyped
    <3>2. \A k \in l.older : load'[k] = load[k]
      BY <1>3, <1>4, <3>1
    <3> QED BY <1>3, <1>4, <2>1, <3>1, <3>2
  <2>2. CASE n # i
    <3>1. load'[n] = load[n]
      BY <1>3, <2>2
    <3>2. \A k \in load[n].older : k # n /\ load[k].range # NoRange /\ k \in Loads
      BY DEF LoadsTyped
    <3>3. \A k \in load[n].older : k # i
      BY <1>2, <3>2, NoLoadIs
    <3>4. \A k \in load[n].older : load'[k] = load[k]
      BY <1>3, <3>2, <3>3
    <3> QED BY <3>1, <3>2, <3>4 DEF LoadsTyped
  <2> QED BY <2>1, <2>2
<1>7. LoadsTyped(load')
  BY <1>5, <1>6 DEF LoadsTyped
<1> QED BY <1>2, <1>3, <1>4, <1>7, NoLoadIs

\* What a load that has ended leaves, when others become late or not.
LEMMA LoadEnds ==
    ASSUME LoadsTyped(load), NEW i \in Loads, NEW later \in SUBSET load[i].older,
           load' = [k \in Loads |-> [Ended(i)[k] EXCEPT !.late = @ \/ k \in later]]
    PROVE  /\ LoadsTyped(load') /\ load'[i].range = NoRange
           /\ \A k \in Loads : k # i =>
                  /\ load'[k].range = load[k].range /\ load'[k].button = load[k].button
                  /\ load'[k].older = load[k].older \ {i}
                  /\ load'[k].late = TRUE <=> (load[k].late = TRUE \/ k \in later)
<1>1. \A k \in Loads : load[k] \in [range : Asked, button : BOOLEAN, older : SUBSET Loads, late : BOOLEAN]
  BY DEF LoadsTyped
<1>2. load'[i] = NoLoad
  <2>1. i \notin later
    BY DEF LoadsTyped
  <2>2. Ended(i)[i] = NoLoad
    BY DEF Ended
  <2>3. load'[i] = [NoLoad EXCEPT !.late = @ \/ i \in later]
    BY <2>2
  <2>4. NoLoad.late = FALSE
    BY DEF NoLoad
  <2>5. (NoLoad.late \/ i \in later) = FALSE
    BY <2>1, <2>4
  <2>6. load'[i] = [NoLoad EXCEPT !.late = FALSE]
    BY <2>3, <2>5
  <2> QED BY <2>6 DEF NoLoad
<1>3. ASSUME NEW k \in Loads, k # i
      PROVE  /\ load'[k] \in [range : Asked, button : BOOLEAN, older : SUBSET Loads, late : BOOLEAN]
             /\ load'[k].range = load[k].range /\ load'[k].button = load[k].button
             /\ load'[k].older = load[k].older \ {i}
             /\ load'[k].late = (load[k].late \/ k \in later)
  <2>1. Ended(i)[k] = [load[k] EXCEPT !.older = @ \ {i}]
    BY <1>3 DEF Ended
  <2>2. PICK e : e = [load[k] EXCEPT !.older = @ \ {i}]
    OBVIOUS
  <2>3. /\ e \in [range : Asked, button : BOOLEAN, older : SUBSET Loads, late : BOOLEAN]
        /\ e.range = load[k].range /\ e.button = load[k].button /\ e.late = load[k].late
        /\ e.older = load[k].older \ {i}
    BY <1>1, <2>2
  <2>4. PICK b \in BOOLEAN : b = (load[k].late \/ k \in later)
    OBVIOUS
  <2>5. load'[k] = [e EXCEPT !.late = b]
    BY <2>1, <2>2, <2>3, <2>4
  <2> QED BY <2>3, <2>4, <2>5
<1>4. load' \in [Loads -> [range : Asked, button : BOOLEAN, older : SUBSET Loads, late : BOOLEAN]]
  <2>1. load' = [k \in Loads |-> load'[k]]
    OBVIOUS
  <2> QED BY <1>2, <1>3, <2>1, NoLoadIs
<1>5. ASSUME NEW n \in Loads
      PROVE  /\ load'[n].range = NoRange => load'[n] = NoLoad
             /\ \A k \in load'[n].older : k # n /\ load'[k].range # NoRange
  <2>1. CASE n = i
    BY <1>2, <2>1, NoLoadIs
  <2>2. CASE n # i
    <3>1. \A k \in load'[n].older : k \in Loads /\ k # i /\ k # n /\ load[k].range # NoRange
      BY <1>1, <1>3, <2>2 DEF LoadsTyped
    <3>2. \A k \in load'[n].older : k # n /\ load'[k].range # NoRange
      <4>1. \A k \in Loads : k # i => load'[k].range = load[k].range
        BY <1>3
      <4> QED BY <3>1, <4>1
    <3>3. ASSUME load'[n].range = NoRange PROVE load'[n] = NoLoad
      <4>1. load[n] = NoLoad
        BY <1>3, <2>2, <3>3 DEF LoadsTyped
      <4>2. n \notin later
        BY <4>1, NoLoadIs DEF LoadsTyped
      <4>3. load'[n] = [range |-> NoRange, button |-> load'[n].button, older |-> load'[n].older,
                        late |-> load'[n].late]
        BY <1>4, <3>3
      <4>4. load'[n].button = FALSE /\ load'[n].older = {} /\ load'[n].late = FALSE
        BY <1>3, <2>2, <4>1, <4>2 DEF NoLoad
      <4> QED BY <4>3, <4>4 DEF NoLoad
    <3> QED BY <3>2, <3>3
  <2> QED BY <2>1, <2>2
<1>6. LoadsTyped(load')
  BY <1>4, <1>5 DEF LoadsTyped
<1>7. ASSUME NEW k \in Loads, k # i
      PROVE  load'[k].late = TRUE <=> (load[k].late = TRUE \/ k \in later)
  <2>1. load[k].late \in BOOLEAN
    BY <1>1
  <2>2. load'[k].late = (load[k].late \/ k \in later)
    BY <1>3, <1>7
  <2> QED BY <2>1, <2>2
<1>8. \A k \in Loads : k # i =>
          /\ load'[k].range = load[k].range /\ load'[k].button = load[k].button
          /\ load'[k].older = load[k].older \ {i}
  BY <1>3
<1> QED BY <1>2, <1>6, <1>7, <1>8, NoLoadIs
LEMMA LoadGoes ==
    ASSUME LoadsTyped(load), NEW i \in Loads, load' = Ended(i)
    PROVE  load' = [k \in Loads |-> [Ended(i)[k] EXCEPT !.late = @ \/ k \in {}]]
<1>1. ASSUME NEW k \in Loads
      PROVE  Ended(i)[k] = [Ended(i)[k] EXCEPT !.late = @ \/ k \in {}]
  <2>1. PICK e : e = Ended(i)[k]
    OBVIOUS
  <2>2. load[k] \in [range : Asked, button : BOOLEAN, older : SUBSET Loads, late : BOOLEAN]
    BY DEF LoadsTyped
  <2>3. e = IF k = i THEN NoLoad ELSE [load[k] EXCEPT !.older = @ \ {i}]
    BY <2>1 DEF Ended
  <2>4. e \in [range : Asked, button : BOOLEAN, older : SUBSET Loads, late : BOOLEAN]
    BY <2>2, <2>3, NoLoadIs
  <2>5. e.late \in BOOLEAN
    BY <2>4
  <2>6. (e.late \/ k \in {}) = e.late
    BY <2>5
  <2>7. e = [e EXCEPT !.late = e.late]
    BY <2>4
  <2> QED BY <2>1, <2>6, <2>7
<1>2. Ended(i) = [k \in Loads |-> Ended(i)[k]]
  BY DEF Ended
<1> QED BY <1>1, <1>2

\* The user chooses a range: every load that is under way is known to the new.
LEMMA RangeChosen ==
    ASSUME LoadsTyped(load), NEW i \in Loads, NEW c \in Ranges, NEW button \in BOOLEAN,
           LoadFor(i, c, button), NEW s, NEW m
    PROVE  LoadsSound(load', c, s, m)
<1>1. /\ LoadsTyped(load') /\ load'[i].range = c
      /\ \A k \in Loads : k # i => load'[k] = load[k]
      /\ \A k \in Loads : load[k].range # NoRange => k \in load'[i].older
  BY LoadBegins
<1>2. Followed(load', c)
  <2> SUFFICES ASSUME NEW k \in Loads, load'[k].range \notin {NoRange, c}
               PROVE  \E j \in Loads : load'[j].range = c /\ k \in load'[j].older
    BY DEF Followed
  <2>1. k # i /\ load[k].range # NoRange
    BY <1>1
  <2> QED BY <1>1, <2>1
<1>3. ComesToShow(load', c, s)
  BY <1>1 DEF ComesToShow
<1> QED BY <1>1, <1>2, <1>3 DEF LoadsSound

\* The page loads anew, or a button does with what it was drawn with.
LEMMA LoadJoins ==
    ASSUME NEW c \in Ranges, NEW s, NEW m, LoadsSound(load, c, s, m), NEW i \in Loads,
           NEW range \in Ranges, NEW button \in BOOLEAN, range = c \/ button = TRUE,
           LoadFor(i, range, button)
    PROVE  LoadsSound(load', c, s, m)
<1>1. /\ LoadsTyped(load') /\ load[i].range = NoRange
      /\ load'[i].range = range /\ load'[i].button = button
      /\ \A k \in Loads : k # i => load'[k] = load[k]
  BY LoadBegins DEF LoadsSound
<1>2. \A j \in Loads : load[j].range = c => load'[j] = load[j]
  BY <1>1, QueuePageAssumption
<1>3. ASSUME Followed(load, c) PROVE Followed(load', c)
  <2> SUFFICES ASSUME NEW k \in Loads, load'[k].range \notin {NoRange, c},
                      load'[k].button # TRUE, load'[k].late # TRUE
               PROVE  \E j \in Loads : load'[j].range = c /\ k \in load'[j].older
    BY DEF Followed
  <2>1. k # i
    BY <1>1
  <2>2. load'[k] = load[k]
    BY <1>1, <2>1
  <2>3. PICK j \in Loads : load[j].range = c /\ k \in load[j].older
    BY <1>3, <2>2 DEF Followed
  <2> QED BY <1>2, <2>3
<1>4. ASSUME ComesToShow(load, c, s) PROVE ComesToShow(load', c, s)
  BY <1>2, <1>4 DEF ComesToShow
<1> QED BY <1>1, <1>3, <1>4 DEF LoadsSound

\* An answer is shown.
LEMMA AnswerShown ==
    ASSUME NEW c \in Ranges, NEW s, NEW m, LoadsSound(load, c, s, m), NEW i \in Loads,
           NEW later \in SUBSET load[i].older, load[i].older \subseteq later,
           load[i].range # NoRange,
           load' = [k \in Loads |-> [Ended(i)[k] EXCEPT !.late = @ \/ k \in later]],
           NEW n, n = TRUE \/ (IF load[i].range = c
                               THEN m # TRUE \/ \A k \in Loads \ {i} :
                                        load[k].range \in {NoRange, c} \/ k \in load[i].older
                               ELSE m # TRUE /\ load[i].button # TRUE /\ load[i].late # TRUE)
    PROVE  LoadsSound(load', c, load[i].range, n)
<1>0. LoadsTyped(load)
  BY DEF LoadsSound
<1>1. /\ LoadsTyped(load') /\ load'[i].range = NoRange
      /\ \A k \in Loads : k # i =>
             /\ load'[k].range = load[k].range /\ load'[k].button = load[k].button
             /\ load'[k].older = load[k].older \ {i}
             /\ load'[k].late = TRUE <=> (load[k].late = TRUE \/ k \in later)
  BY <1>0, LoadEnds
<1>2. c # NoRange
  BY QueuePageAssumption
<1>3. ASSUME n # TRUE PROVE Followed(load', c)
  <2> SUFFICES ASSUME NEW k \in Loads, load'[k].range \notin {NoRange, c},
                      load'[k].button # TRUE, load'[k].late # TRUE
               PROVE  \E j \in Loads : load'[j].range = c /\ k \in load'[j].older
    BY DEF Followed
  <2>1. k # i
    BY <1>1
  <2>2. /\ load[k].range \notin {NoRange, c} /\ load[k].button # TRUE /\ load[k].late # TRUE
        /\ k \notin load[i].older
    BY <1>1, <2>1
  <2>3. m # TRUE
    BY <1>3, <2>1, <2>2
  <2>4. PICK j \in Loads : load[j].range = c /\ k \in load[j].older
    BY <2>2, <2>3 DEF LoadsSound, Followed
  <2>5. j # i
    BY <2>2, <2>4
  <2>6. load'[j].range = c /\ k \in load'[j].older
    BY <1>1, <2>1, <2>4, <2>5
  <2> QED BY <2>6
<1>4. ASSUME n # TRUE PROVE ComesToShow(load', c, load[i].range)
  <2>1. CASE load[i].range = c
    BY <2>1 DEF ComesToShow
  <2>2. CASE load[i].range # c
    <3>1. m # TRUE /\ load[i].button # TRUE /\ load[i].late # TRUE
      BY <1>4, <2>2
    <3>2. PICK j \in Loads : load[j].range = c /\ i \in load[j].older
      BY <2>2, <3>1 DEF LoadsSound, Followed
    <3>3. load'[j].range = c
      BY <1>1, <2>2, <3>2
    <3> QED BY <3>3 DEF ComesToShow
  <2> QED BY <2>1, <2>2
<1> QED BY <1>1, <1>3, <1>4 DEF LoadsSound

\* An answer is lost.
LEMMA AnswerLost ==
    ASSUME NEW c \in Ranges, NEW s, NEW m, LoadsSound(load, c, s, m), NEW i \in Loads,
           load' = Ended(i), NEW n, n = TRUE \/ (m # TRUE /\ load[i].range # c)
    PROVE  LoadsSound(load', c, s, n)
<1>0. LoadsTyped(load) /\ {} \in SUBSET load[i].older
  BY DEF LoadsSound
<1>1. load' = [k \in Loads |-> [Ended(i)[k] EXCEPT !.late = @ \/ k \in {}]]
  BY <1>0, LoadGoes
<1>2. PICK none : none = {}
  OBVIOUS
<1>3. load' = [k \in Loads |-> [Ended(i)[k] EXCEPT !.late = @ \/ k \in none]]
  BY <1>1, <1>2
<1>4. none \in SUBSET load[i].older
  BY <1>2
<1>5. /\ LoadsTyped(load') /\ load'[i].range = NoRange
      /\ \A k \in Loads : k # i =>
             /\ load'[k].range = load[k].range /\ load'[k].button = load[k].button
             /\ load'[k].older = load[k].older \ {i}
             /\ load'[k].late = TRUE <=> (load[k].late = TRUE \/ k \in none)
  BY <1>0, <1>3, <1>4, LoadEnds
<1>6. ASSUME n # TRUE PROVE Followed(load', c)
  <2> SUFFICES ASSUME NEW k \in Loads, load'[k].range \notin {NoRange, c},
                      load'[k].button # TRUE, load'[k].late # TRUE
               PROVE  \E j \in Loads : load'[j].range = c /\ k \in load'[j].older
    BY DEF Followed
  <2>1. k # i
    BY <1>5
  <2>2. load[k].range \notin {NoRange, c} /\ load[k].button # TRUE /\ load[k].late # TRUE
    BY <1>5, <2>1
  <2>3. PICK j \in Loads : load[j].range = c /\ k \in load[j].older
    BY <1>6, <2>2 DEF LoadsSound, Followed
  <2>4. j # i
    BY <1>6, <2>3
  <2>5. load'[j].range = c /\ k \in load'[j].older
    BY <1>5, <2>1, <2>3, <2>4
  <2> QED BY <2>5
<1>7. ASSUME n # TRUE PROVE ComesToShow(load', c, s)
  <2>1. ComesToShow(load, c, s) /\ load[i].range # c
    BY <1>7 DEF LoadsSound
  <2>2. \A j \in Loads : load[j].range = c => load'[j].range = c
    BY <1>5, <2>1
  <2> QED BY <2>1, <2>2 DEF ComesToShow
<1> QED BY <1>5, <1>6, <1>7 DEF LoadsSound

-----------------------------------------------------------------------------
(* The queue page: the table. *)

\* The numbers on the buttons are pages, follow each other, and have the
\* current one among them if there is such a page.
LEMMA ButtonsAre ==
    ASSUME NEW pages \in Nat \ {0}, NEW current \in Nat \ {0}
    PROVE  LET b == Buttons(pages, current) IN
           /\ \A k \in DOMAIN b : b[k] \in 1..pages
           /\ \A k \in DOMAIN b : k > 1 => b[k] = b[k - 1] + 1
           /\ current <= pages => \E k \in DOMAIN b : b[k] = current
<1>1. PICK b : b = Buttons(pages, current)
  OBVIOUS
<1>2. PICK last \in 1..5 : last = IF pages < 5 THEN pages ELSE 5
  OBVIOUS
<1>3. b = [i \in 1..last |-> IF pages > 5 /\ current > 3
                            THEN IF current + 2 > pages THEN pages - 5 + i ELSE current - 3 + i
                            ELSE i]
  BY <1>1, <1>2 DEF Buttons
<1>4. DOMAIN b = 1..last /\ last <= pages
  BY <1>2, <1>3
<1>5. PICK first \in Int : first = IF pages > 5 /\ current > 3
                                   THEN IF current + 2 > pages THEN pages - 5 ELSE current - 3
                                   ELSE 0
  OBVIOUS
<1>6. \A i \in 1..last : b[i] = first + i
  BY <1>3, <1>5
<1>7. first >= 0 /\ first + last <= pages
  BY <1>2, <1>5
<1>8. \A k \in DOMAIN b : b[k] \in 1..pages
  BY <1>4, <1>6, <1>7
<1>9. ASSUME NEW k \in DOMAIN b, k > 1 PROVE b[k] = b[k - 1] + 1
  <2>1. k \in 1..last /\ k - 1 \in 1..last
    BY <1>4, <1>9
  <2> QED BY <1>6, <2>1
<1>10. ASSUME current <= pages PROVE \E k \in DOMAIN b : b[k] = current
  <2>1. current - first \in 1..last
    BY <1>2, <1>5, <1>10
  <2>2. b[current - first] = current
    BY <1>6, <2>1
  <2> QED BY <1>4, <2>1, <2>2
<1> QED BY <1>1, <1>8, <1>9, <1>10

Lists == {"active"} \cup Groups
TableType == [tab : {"active", "failed"}, group : Groups \cup {NoGroup},
              page : Nat \ {0}, size : Nat \ {0}]

LEMMA TotalIs ==
    ASSUME NEW t \in TableType, NEW jobs \in [Lists -> Nat]
    PROVE  Total(t, jobs) \in Nat
<1>1. CASE t.tab = "active"
  BY <1>1 DEF Total, Lists
<1>2. CASE t.tab # "active" /\ t.group # NoGroup
  BY <1>2 DEF Total, Lists, TableType
<1>3. CASE t.tab # "active" /\ t.group = NoGroup
  <2>1. PICK f : f = [g \in Groups |-> {g} \X (1..jobs[g])]
    OBVIOUS
  <2>2. PICK S : S = {{g} \X (1..jobs[g]) : g \in Groups}
    OBVIOUS
  <2>3. f \in Surjection(Groups, S)
    BY <2>1, <2>2 DEF Surjection
  <2>4. IsFiniteSet(S)
    BY <2>3, FS_Surjection, QueuePageAssumption
  <2>5. ASSUME NEW g \in Groups PROVE IsFiniteSet({g} \X (1..jobs[g]))
    <3>1. IsFiniteSet({g})
      BY FS_Singleton
    <3>2. jobs[g] \in Int /\ 1 \in Int
      BY DEF Lists
    <3>3. IsFiniteSet(1..jobs[g])
      BY <3>2, FS_Interval
    <3> QED BY <3>1, <3>3, FS_Product
  <2>6. \A T \in S : IsFiniteSet(T)
    BY <2>2, <2>5
  <2>7. IsFiniteSet(UNION S)
    BY <2>4, <2>6, FS_UNION
  <2>8. Cardinality(UNION S) \in Nat
    BY <2>7, FS_CardinalityType
  <2> QED BY <1>3, <2>2, <2>8 DEF Total
<1> QED BY <1>1, <1>2, <1>3

\* There are as many pages as the jobs fill.
LEMMA PagesAre ==
    ASSUME NEW t \in TableType, NEW jobs \in [Lists -> Nat]
    PROVE  /\ TotalPages(t, jobs) \in Nat \ {0}
           /\ Total(t, jobs) > 0 /\ t.page <= TotalPages(t, jobs) =>
                 (t.page - 1) * t.size < Total(t, jobs)
<1>1. PICK n \in Nat : n = Total(t, jobs)
  BY TotalIs
<1>2. PICK size \in Nat \ {0} : size = t.size
  BY DEF TableType
<1>3. PICK p \in Nat \ {0} : p = t.page
  BY DEF TableType
<1>4. CASE n = 0
  <2>1. TotalPages(t, jobs) = 1
    BY <1>1, <1>4 DEF TotalPages
  <2> QED BY <1>1, <1>4, <2>1
<1>5. CASE n # 0
  <2>1. n + size - 1 \in Int
    OBVIOUS
  <2>2. PICK q \in Int : /\ q = (n + size - 1) \div size
                         /\ \E r \in 0..size - 1 : n + size - 1 = q * size + r
    BY <2>1, Quotient
  <2>3. PICK r \in 0..size - 1 : n + size - 1 = q * size + r
    BY <2>2
  <2>4. TotalPages(t, jobs) = q
    BY <1>1, <1>2, <1>5, <2>2 DEF TotalPages, CeilOf
  <2>5. q > 0
    <3> SUFFICES ASSUME q <= 0 PROVE FALSE
      OBVIOUS
    <3>1. q * size <= 0 * size
      BY ProductGrows
    <3> QED BY <1>5, <2>3, <3>1
  <2>6. ASSUME p <= q PROVE (p - 1) * size < n
    <3>1. p * size <= q * size
      BY <2>6, ProductGrows
    <3>2. (p - 1) * size = p * size - size
      OBVIOUS
    <3> QED BY <2>3, <3>1, <3>2
  <2> QED BY <1>1, <1>2, <1>3, <2>4, <2>5, <2>6
<1> QED BY <1>4, <1>5

\* A page there is has rows.
LEMMA RowsAre ==
    ASSUME NEW t \in TableType, NEW jobs \in [Lists -> Nat], Total(t, jobs) > 0,
           t.page <= TotalPages(t, jobs)
    PROVE  Rows(t, jobs) # {}
<1>1. PICK n \in Nat : n = Total(t, jobs)
  BY TotalIs
<1>2. PICK size \in Nat \ {0} : size = t.size
  BY DEF TableType
<1>3. PICK p \in Nat \ {0} : p = t.page
  BY DEF TableType
<1>4. PICK before \in Int : before = (p - 1) * size
  OBVIOUS
<1>5. before < n
  BY <1>1, <1>2, <1>3, <1>4, PagesAre
<1>6. 0 * size <= (p - 1) * size
  BY ProductGrows
<1>7. p * size = before + size /\ before >= 0
  BY <1>4, <1>6
<1>8. before + 1 \in 1..n /\ before < before + 1 /\ before + 1 <= p * size
  BY <1>5, <1>7
<1>9. before + 1 \in Rows(t, jobs)
  BY <1>1, <1>2, <1>3, <1>4, <1>8 DEF Rows
<1> QED BY <1>9
-----------------------------------------------------------------------------
(* The queue page as a whole. *)

TableSound(t, jobs, short, gone) ==
    /\ t \in TableType /\ jobs \in [Lists -> Nat]
    /\ t.group # NoGroup => t.tab = "failed" /\ (gone = TRUE \/ HasGroup(jobs, t.group))
    /\ short = TRUE \/ t.page <= TotalPages(t, jobs)

PageTypes ==
    /\ chosen \in [range : Ranges, refresh : BOOLEAN]
    /\ shown \in [range : Asked, jobs : [Lists -> Nat]]
    /\ action \in Asked /\ content \in Answers
    /\ missed \in BOOLEAN /\ shrunk \in BOOLEAN /\ vanished \in BOOLEAN

QueueInv ==
    /\ PageTypes
    /\ LoadsSound(load, chosen.range, shown.range, missed)
    /\ TableSound(table, shown.jobs, shrunk, vanished)

LEMMA QueueBegins == QueuePageInit => QueueInv
<1> SUFFICES ASSUME QueuePageInit PROVE QueueInv
  OBVIOUS
<1>1. PageTypes
  <2>1. /\ chosen = [range |-> "24h", refresh |-> TRUE] /\ content \in Answers
        /\ shown = [range |-> NoRange, jobs |-> [l \in {"active"} \cup Groups |-> 0]]
        /\ action = NoRange /\ missed = FALSE /\ shrunk = FALSE /\ vanished = FALSE
    BY DEF QueuePageInit, NoAction
  <2> QED BY <2>1, QueuePageAssumption DEF PageTypes, Asked, Lists
<1>2. LoadsSound(load, chosen.range, shown.range, missed)
  <2>1. PICK first \in Loads : first = CHOOSE x \in Loads : TRUE
    BY QueuePageAssumption
  <2>2. PICK l : l = [NoLoad EXCEPT !.range = "24h"]
    OBVIOUS
  <2>3. load = [i \in Loads |-> IF i = first THEN l ELSE NoLoad]
    BY <2>1, <2>2, Zenon DEF QueuePageInit
  <2>4. /\ l \in [range : Asked, button : BOOLEAN, older : SUBSET Loads, late : BOOLEAN]
        /\ l.range = "24h" /\ l.older = {} /\ "24h" # NoRange
    BY <2>2, NoLoadIs, QueuePageAssumption DEF Asked
  <2>5. LoadsTyped(load)
    BY <2>3, <2>4, NoLoadIs DEF LoadsTyped
  <2>6. chosen.range = "24h" /\ shown.range = NoRange
    BY DEF QueuePageInit
  <2>7. Followed(load, "24h") /\ ComesToShow(load, "24h", NoRange)
    BY <2>3, <2>4, NoLoadIs DEF Followed, ComesToShow
  <2> QED BY <2>5, <2>6, <2>7 DEF LoadsSound
<1>3. TableSound(table, shown.jobs, shrunk, vanished)
  <2>1. /\ table = [tab |-> "active", group |-> NoGroup, page |-> 1, size |-> 1]
        /\ shown.jobs = [l \in Lists |-> 0]
    BY DEF QueuePageInit, Lists
  <2>2. table \in TableType /\ shown.jobs \in [Lists -> Nat]
    BY <2>1 DEF TableType
  <2>3. TotalPages(table, shown.jobs) \in Nat \ {0}
    BY <2>2, PagesAre
  <2>4. table.group = NoGroup /\ table.page = 1
    BY <2>1
  <2>5. table.page <= TotalPages(table, shown.jobs)
    BY <2>3, <2>4
  <2> QED BY <2>2, <2>4, <2>5 DEF TableSound
<1> QED BY <1>1, <1>2, <1>3 DEF QueueInv

\* What the user turns to stands if it has a page there is, or had none, and
\* a group that has jobs.
LEMMA Turned ==
    ASSUME QueueInv, NEW t \in TableType, TurnTo(t),
           t.group # NoGroup =>
               t.tab = "failed" /\ (t.group = table.group \/ HasGroup(shown.jobs, t.group)),
           shrunk = TRUE \/ t.page <= TotalPages(t, shown.jobs)
    PROVE  QueueInv'
<1>1. table' = t /\ UNCHANGED <<chosen, shown, load, action, content, missed>>
  BY DEF TurnTo
<1>2. shown.jobs \in [Lists -> Nat]
  BY DEF QueueInv, PageTypes
<1>3. t.page \in Nat /\ TotalPages(t, shown.jobs) \in Nat
  BY <1>2, PagesAre DEF TableType
<1>4. shrunk' \in BOOLEAN /\ (shrunk' = TRUE \/ t.page <= TotalPages(t, shown.jobs))
  <2>1. shrunk' = (shrunk /\ t.page > TotalPages(t, shown.jobs))
    BY DEF TurnTo
  <2>2. shrunk' \in BOOLEAN
    BY <2>1, Zenon
  <2>3. CASE t.page > TotalPages(t, shown.jobs)
    <3>1. shrunk = TRUE
      BY <1>3, <2>3
    <3>2. shrunk' = TRUE
      BY <2>1, <2>3, <3>1, Zenon
    <3> QED BY <2>2, <3>2
  <2>4. CASE ~(t.page > TotalPages(t, shown.jobs))
    BY <1>3, <2>2, <2>4
  <2> QED BY <2>3, <2>4
<1>5. /\ vanished' \in BOOLEAN
      /\ vanished = TRUE /\ t.group = table.group => vanished' = TRUE
  <2>1. vanished' = (vanished /\ t.group = table.group) /\ vanished \in BOOLEAN
    BY DEF TurnTo, QueueInv, PageTypes
  <2> QED BY <2>1
<1>6. t.group # NoGroup => t.tab = "failed" /\ (vanished' = TRUE \/ HasGroup(shown.jobs, t.group))
  <2> SUFFICES ASSUME t.group # NoGroup, t.group = table.group
               PROVE  vanished' = TRUE \/ HasGroup(shown.jobs, t.group)
    OBVIOUS
  <2>1. vanished = TRUE \/ HasGroup(shown.jobs, table.group)
    BY DEF QueueInv, TableSound
  <2> QED BY <1>5, <2>1
<1>7. TableSound(table', shown.jobs', shrunk', vanished')
  BY <1>1, <1>2, <1>4, <1>6 DEF TableSound
<1>8. LoadsSound(load', chosen.range', shown.range', missed')
  BY <1>1 DEF QueueInv
<1>9. PageTypes'
  BY <1>1, <1>4, <1>5 DEF QueueInv, PageTypes
<1> QED BY <1>7, <1>8, <1>9 DEF QueueInv

\* The pages depend on the list and on their size.
LEMMA PagesKept ==
    ASSUME NEW t, NEW u, NEW jobs, t.tab = u.tab, t.group = u.group, t.size = u.size
    PROVE  TotalPages(t, jobs) = TotalPages(u, jobs)
<1>1. Total(t, jobs) = Total(u, jobs)
  BY DEF Total
<1> QED BY <1>1 DEF TotalPages

LEMMA FirstPage ==
    ASSUME NEW u \in TableType, NEW t, t = [u EXCEPT !.page = 1]
    PROVE  t \in TableType /\ t.page = 1 /\ t.group = u.group /\ t.tab = u.tab
<1>1. 1 \in Nat \ {0}
  OBVIOUS
<1> QED BY <1>1 DEF TableType

LEMMA TurnsKeep ==
    ASSUME QueueInv, Turns
    PROVE  QueueInv'
<1>1. /\ table \in TableType /\ shown.jobs \in [Lists -> Nat]
      /\ table.group # NoGroup => table.tab = "failed"
      /\ shrunk = TRUE \/ table.page <= TotalPages(table, shown.jobs)
  BY DEF QueueInv, TableSound
<1>2. PICK pages \in Nat \ {0} : pages = TotalPages(table, shown.jobs)
  BY <1>1, PagesAre
<1>3. PICK p \in Nat \ {0} : p = table.page
  BY <1>1 DEF TableType
<1>4. ASSUME NEW t \in TableType, t.page = 1
      PROVE  t.page <= TotalPages(t, shown.jobs)
  <2>1. TotalPages(t, shown.jobs) \in Nat \ {0}
    BY <1>1, PagesAre
  <2> QED BY <1>4, <2>1
<1>5. ASSUME NEW n \in Nat \ {0}, TurnTo([table EXCEPT !.page = n]),
             shrunk = TRUE \/ n <= pages
      PROVE  QueueInv'
  <2>1. PICK t : t = [table EXCEPT !.page = n]
    OBVIOUS
  <2>2. /\ t \in TableType /\ t.page = n
        /\ t.tab = table.tab /\ t.group = table.group /\ t.size = table.size
    BY <1>1, <2>1 DEF TableType
  <2>3. TotalPages(t, shown.jobs) = pages
    BY <1>2, <2>2, PagesKept
  <2>4. shrunk = TRUE \/ t.page <= TotalPages(t, shown.jobs)
    BY <1>5, <2>2, <2>3
  <2>5. TurnTo(t)
    BY <1>5, <2>1
  <2> QED BY <1>1, <2>2, <2>4, <2>5, Turned
<1>6. ASSUME NEW tab \in {"active", "failed"}, Tab(tab) PROVE QueueInv'
  <2>1. PICK t : t = ToFirst([table EXCEPT !.tab = tab, !.group = NoGroup])
    OBVIOUS
  <2>2. t \in TableType /\ t.page = 1 /\ t.group = NoGroup
    <3>1. PICK u : u = [table EXCEPT !.tab = tab, !.group = NoGroup]
      OBVIOUS
    <3>2. u \in TableType /\ u.group = NoGroup
      BY <1>1, <3>1 DEF TableType
    <3>3. t = [u EXCEPT !.page = 1]
      BY <2>1, <3>1 DEF ToFirst
    <3> QED BY <3>2, <3>3, FirstPage
  <2>3. TurnTo(t)
    BY <1>6, <2>1 DEF Tab
  <2> QED BY <1>4, <2>2, <2>3, Turned
<1>7. ASSUME NEW g \in Groups, Group(g) PROVE QueueInv'
  <2>1. PICK n \in {NoGroup, g} : n = IF g = table.group THEN NoGroup ELSE g
    OBVIOUS
  <2>2. PICK t : t = ToFirst([table EXCEPT !.group = n])
    OBVIOUS
  <2>3. t \in TableType /\ t.page = 1 /\ t.group = n /\ t.tab = table.tab
    <3>1. PICK u : u = [table EXCEPT !.group = n]
      OBVIOUS
    <3>2. u \in TableType /\ u.group = n /\ u.tab = table.tab
      BY <1>1, <2>1, <3>1 DEF TableType
    <3>3. t = [u EXCEPT !.page = 1]
      BY <2>2, <3>1 DEF ToFirst
    <3> QED BY <3>2, <3>3, FirstPage
  <2>4. table.tab = "failed" /\ HasGroup(shown.jobs, g) /\ TurnTo(t)
    BY <1>7, <2>1, <2>2 DEF Group
  <2>5. t.group # NoGroup => t.tab = "failed" /\ HasGroup(shown.jobs, t.group)
    BY <2>1, <2>3, <2>4
  <2> QED BY <1>4, <2>3, <2>4, <2>5, Turned
<1>8. CASE Previous
  <2>1. p # 1 /\ TurnTo([table EXCEPT !.page = p - 1])
    BY <1>3, <1>8 DEF Previous
  <2>2. p - 1 \in Nat \ {0} /\ (shrunk = TRUE \/ p - 1 <= pages)
    BY <1>1, <1>2, <1>3, <2>1
  <2> QED BY <1>5, <2>1, <2>2
<1>9. CASE NextPage
  <2>1. PICK n \in Nat \ {0} : n = IF pages < p + 1 THEN pages ELSE p + 1
    OBVIOUS
  <2>2. TurnTo([table EXCEPT !.page = n])
    BY <1>2, <1>3, <1>9, <2>1 DEF NextPage
  <2>3. n <= pages
    BY <2>1
  <2> QED BY <1>5, <2>2, <2>3
<1>10. ASSUME NEW n \in 1..2, Size(n) PROVE QueueInv'
  <2>1. PICK t : t = [table EXCEPT !.size = n, !.page = 1]
    OBVIOUS
  <2>2. t \in TableType /\ t.page = 1 /\ t.group = table.group /\ t.tab = table.tab
    <3>1. PICK u : u = [table EXCEPT !.size = n]
      OBVIOUS
    <3>2. n \in Nat \ {0}
      OBVIOUS
    <3>3. u \in TableType /\ u.group = table.group /\ u.tab = table.tab
      BY <1>1, <3>1, <3>2 DEF TableType
    <3>4. t = [u EXCEPT !.page = 1]
      BY <2>1, <3>1
    <3> QED BY <3>3, <3>4, FirstPage
  <2>3. TurnTo(t)
    BY <1>10, <2>1 DEF Size
  <2> QED BY <1>1, <1>4, <2>2, <2>3, Turned
<1>11. ASSUME NEW k, Numbered(k) PROVE QueueInv'
  <2>1. PICK b : b = Buttons(pages, p)
    OBVIOUS
  <2>2. k \in DOMAIN b /\ TurnTo([table EXCEPT !.page = b[k]])
    BY <1>2, <1>3, <1>11, <2>1 DEF Numbered
  <2>3. b[k] \in 1..pages
    BY <2>1, <2>2, ButtonsAre
  <2>4. b[k] \in Nat \ {0} /\ b[k] <= pages
    BY <2>3
  <2> QED BY <1>5, <2>2, <2>4
<1> QED BY <1>6, <1>7, <1>8, <1>9, <1>10, <1>11 DEF Turns
LEMMA QueueStepKeeps ==
    ASSUME QueueInv, QueuePageStep
    PROVE  QueueInv'
<1>1. PICK c \in Ranges : c = chosen.range
  BY DEF QueueInv, PageTypes
<1>2. PICK s : s = shown.range
  OBVIOUS
<1>3. /\ LoadsSound(load, c, s, missed) /\ LoadsTyped(load)
      /\ TableSound(table, shown.jobs, shrunk, vanished)
  BY <1>1, <1>2 DEF QueueInv, LoadsSound
<1>4. /\ chosen \in [range : Ranges, refresh : BOOLEAN]
      /\ shown \in [range : Asked, jobs : [Lists -> Nat]]
      /\ action \in Asked /\ content \in Answers
      /\ missed \in BOOLEAN /\ shrunk \in BOOLEAN /\ vanished \in BOOLEAN
  BY DEF QueueInv, PageTypes
<1>5. ASSUME NEW i \in Loads, NEW r \in Ranges, ChooseRange(i, r) PROVE QueueInv'
  <2>1. /\ chosen' = [chosen EXCEPT !.range = r] /\ LoadFor(i, r, FALSE) /\ missed' = FALSE
        /\ UNCHANGED <<table, shown, action, content, shrunk, vanished>>
    BY <1>5 DEF ChooseRange, Effect
  <2>2. chosen' \in [range : Ranges, refresh : BOOLEAN] /\ chosen'.range = r
    BY <1>4, <2>1
  <2>3. FALSE \in BOOLEAN
    OBVIOUS
  <2>4. LoadsSound(load', chosen'.range, shown'.range, missed')
    BY <1>3, <2>1, <2>2, <2>3, RangeChosen
  <2> QED BY <1>3, <1>4, <2>1, <2>2, <2>4 DEF QueueInv, PageTypes
<1>6. ASSUME NEW i \in Loads, ChooseRefresh(i) PROVE QueueInv'
  <2>1. /\ chosen' = [chosen EXCEPT !.refresh = ~@] /\ LoadFor(i, c, FALSE)
        /\ UNCHANGED <<table, shown, action, content, missed, shrunk, vanished>>
    BY <1>1, <1>6 DEF ChooseRefresh, Effect
  <2>2. chosen' \in [range : Ranges, refresh : BOOLEAN] /\ chosen'.range = c
    <3>1. PICK b \in BOOLEAN : b = ~chosen.refresh
      OBVIOUS
    <3>2. chosen' = [chosen EXCEPT !.refresh = b]
      BY <2>1, <3>1
    <3> QED BY <1>1, <1>4, <3>2
  <2>3. FALSE \in BOOLEAN
    OBVIOUS
  <2>4. LoadsSound(load', chosen'.range, shown'.range, missed')
    BY <1>2, <1>3, <2>1, <2>2, <2>3, LoadJoins
  <2> QED BY <1>3, <1>4, <2>1, <2>2, <2>4 DEF QueueInv, PageTypes
<1>7. ASSUME NEW i \in Loads, Poll(i) PROVE QueueInv'
  <2>1. /\ LoadFor(i, c, FALSE)
        /\ UNCHANGED <<chosen, table, shown, action, content, missed, shrunk, vanished>>
    BY <1>1, <1>7 DEF Poll
  <2>2. FALSE \in BOOLEAN
    OBVIOUS
  <2>3. LoadsSound(load', chosen'.range, shown'.range, missed')
    BY <1>1, <1>2, <1>3, <2>1, <2>2, LoadJoins
  <2> QED BY <1>3, <1>4, <2>1, <2>3 DEF QueueInv, PageTypes
<1>8. ASSUME NEW i \in Loads, Shows(i, content) PROVE QueueInv'
  <2>1. PICK later : later = load[i].older
    OBVIOUS
  <2>2. /\ load' = [k \in Loads |-> [Ended(i)[k] EXCEPT !.late = @ \/ k \in later]]
        /\ shown' = [range |-> load[i].range, jobs |-> content]
        /\ UNCHANGED <<chosen, table, action, content>>
    BY <1>8, <2>1 DEF Shows
  <2>3. load[i].range # NoRange /\ load[i].range \in Asked
    BY <1>3, <1>8 DEF Shows, LoadsTyped
  <2>4. later \in SUBSET load[i].older /\ load[i].older \subseteq later
    BY <2>1
  <2>5. missed' \in BOOLEAN
        /\ \/ missed' = TRUE
           \/ IF load[i].range = c
              THEN missed # TRUE \/ \A k \in Loads \ {i} :
                       load[k].range \in {NoRange, c} \/ k \in load[i].older
              ELSE missed # TRUE /\ load[i].button # TRUE /\ load[i].late # TRUE
    <3>1. CASE load[i].range = c
      <4>1. missed' = (missed /\ Undercut(i))
        BY <1>1, <1>8, <3>1 DEF Shows
      <4>2. ~Undercut(i) => \A k \in Loads \ {i} : load[k].range \in {NoRange, c} \/ k \in load[i].older
        BY <1>1 DEF Undercut
      <4>3. missed' \in BOOLEAN /\ (missed' = TRUE \/ missed # TRUE \/ ~Undercut(i))
        BY <4>1, Zenon
      <4> QED BY <3>1, <4>2, <4>3
    <3>2. CASE load[i].range # c
      <4>1. missed' = (missed \/ load[i].button \/ load[i].late)
        BY <1>1, <1>8, <3>2 DEF Shows
      <4>2. /\ missed' \in BOOLEAN
            /\ missed' = TRUE \/ (missed # TRUE /\ load[i].button # TRUE /\ load[i].late # TRUE)
        BY <4>1, Zenon
      <4> QED BY <3>2, <4>2
    <3> QED BY <3>1, <3>2
  <2>6. LoadsSound(load', c, load[i].range, missed')
    BY <1>3, <2>2, <2>3, <2>4, <2>5, AnswerShown
  <2>7. content \in [Lists -> Nat]
    BY <1>4, QueuePageAssumption DEF Lists
  <2>8. shown' \in [range : Asked, jobs : [Lists -> Nat]] /\ shown'.range = load[i].range
        /\ shown'.jobs = content
    BY <2>2, <2>3, <2>7
  <2>9. shrunk' \in BOOLEAN /\ (shrunk' = TRUE \/ table.page <= TotalPages(table, content))
    <3>1. shrunk' = (table.page > TotalPages(table, content))
      BY <1>8 DEF Shows
    <3>2. TotalPages(table, content) \in Nat /\ table.page \in Nat
      BY <1>3, <2>7, PagesAre DEF TableSound, TableType
    <3>3. CASE table.page > TotalPages(table, content)
      <4>1. shrunk' = TRUE
        BY <3>1, <3>3, Zenon
      <4> QED BY <4>1
    <3>4. CASE ~(table.page > TotalPages(table, content))
      <4>1. shrunk' \in BOOLEAN
        BY <3>1, <3>2, SMT
      <4>2. table.page <= TotalPages(table, content)
        BY <3>2, <3>4
      <4> QED BY <4>1, <4>2
    <3> QED BY <3>3, <3>4
  <2>10. /\ vanished' \in BOOLEAN
         /\ table.group # NoGroup => vanished' = TRUE \/ HasGroup(content, table.group)
    <3>1. vanished' = (table.group # NoGroup /\ ~HasGroup(content, table.group))
      BY <1>8 DEF Shows
    <3> QED BY <3>1, Zenon
  <2>11. TableSound(table', shown'.jobs, shrunk', vanished')
    BY <1>3, <2>2, <2>7, <2>8, <2>9, <2>10 DEF TableSound
  <2>12. PageTypes'
    BY <1>4, <2>2, <2>5, <2>8, <2>9, <2>10 DEF PageTypes
  <2>13. LoadsSound(load', chosen'.range, shown'.range, missed')
    BY <1>1, <2>2, <2>6, <2>8
  <2> QED BY <2>11, <2>12, <2>13 DEF QueueInv
<1>9. ASSUME NEW i \in Loads, LoadLost(i) PROVE QueueInv'
  <2>1. /\ load' = Ended(i) /\ missed' = (missed \/ load[i].range = c)
        /\ UNCHANGED <<chosen, table, shown, action, content, shrunk, vanished>>
    BY <1>1, <1>9 DEF LoadLost
  <2>2. missed' \in BOOLEAN /\ (missed' = TRUE \/ (missed # TRUE /\ load[i].range # c))
    BY <2>1, Zenon
  <2>3. LoadsSound(load', chosen'.range, shown'.range, missed')
    BY <1>1, <1>2, <1>3, <2>1, <2>2, AnswerLost
  <2> QED BY <1>3, <1>4, <2>1, <2>2, <2>3 DEF QueueInv, PageTypes
<1>10. ASSUME NEW i \in Loads, NEW d \in Answers, PressAnswered(i, d) PROVE QueueInv'
  <2>1. /\ LoadFor(i, action, TRUE) /\ action # NoRange /\ action' = NoRange /\ content' = d
        /\ UNCHANGED <<chosen, table, shown, missed, shrunk, vanished>>
    BY <1>10 DEF PressAnswered, NoAction
  <2>2. action \in Ranges /\ TRUE \in BOOLEAN /\ NoRange \in Asked
    BY <1>4, <2>1 DEF Asked
  <2>3. LoadsSound(load', chosen'.range, shown'.range, missed')
    BY <1>1, <1>2, <1>3, <2>1, <2>2, LoadJoins
  <2> QED BY <1>3, <1>4, <2>1, <2>2, <2>3 DEF QueueInv, PageTypes
<1>11. CASE Press \/ PressFails \/ \E d \in Answers : Changes(d)
  <2>1. /\ action' \in Asked /\ content' \in Answers
        /\ UNCHANGED <<chosen, table, shown, load, missed, shrunk, vanished>>
    BY <1>1, <1>4, <1>11 DEF Press, PressFails, Changes, NoAction, Asked
  <2> QED BY <1>3, <1>4, <2>1 DEF QueueInv, PageTypes
<1> QED BY <1>5, <1>6, <1>7, <1>8, <1>9, <1>10, <1>11, TurnsKeep DEF QueuePageStep

LEMMA QueueKept ==
    ASSUME QueueInv, UNCHANGED queuePageVars
    PROVE  QueueInv'
BY DEF QueueInv, PageTypes, queuePageVars

LEMMA QueueTypes == QueueInv => QueuePageTypeOK
<1> SUFFICES ASSUME QueueInv PROVE QueuePageTypeOK
  OBVIOUS
<1>1. /\ chosen.range \in Ranges /\ chosen.refresh \in BOOLEAN
      /\ shown.range \in Ranges \cup {NoRange} /\ content \in Answers
      /\ action \in Ranges \cup {NoAction}
  BY DEF QueueInv, PageTypes, Asked, NoAction
<1>2. /\ table.tab \in {"active", "failed"} /\ table.group \in Groups \cup {NoGroup}
      /\ table.page \in Nat \ {0} /\ table.size \in Nat \ {0}
  BY DEF QueueInv, TableSound, TableType
<1>3. \A i \in Loads : load[i].range \in Ranges \cup {NoRange} /\ load[i].older \subseteq Loads \ {i}
  BY DEF QueueInv, LoadsSound, LoadsTyped, Asked
<1> QED BY <1>1, <1>2, <1>3 DEF QueuePageTypeOK

LEMMA QueueTruth ==
    ASSUME QueueInv
    PROVE  RangeShown /\ TableShowsRows
<1>1. RangeShown
  <2> SUFFICES ASSUME Q, shown.range # chosen.range, ~missed
               PROVE  \E i \in Loads : load[i].range = chosen.range
    BY DEF RangeShown
  <2>1. missed # TRUE
    OBVIOUS
  <2> QED BY <2>1 DEF QueueInv, LoadsSound, ComesToShow, Q
<1>2. TableShowsRows
  <2>1. table \in TableType /\ shown.jobs \in [Lists -> Nat]
    BY DEF QueueInv, TableSound
  <2>2. ButtonsSound
    <3>1. \A n \in 1..9 : n \in Nat \ {0}
      OBVIOUS
    <3> QED BY <3>1, ButtonsAre DEF ButtonsSound
  <2>3. ASSUME Total(table, shown.jobs) > 0, ~shrunk
        PROVE  /\ Rows(table, shown.jobs) # {}
               /\ \E k \in DOMAIN Buttons(TotalPages(table, shown.jobs), table.page) :
                     Buttons(TotalPages(table, shown.jobs), table.page)[k] = table.page
    <3>1. shrunk # TRUE
      BY <2>3
    <3>2. table.page <= TotalPages(table, shown.jobs)
      BY <3>1 DEF QueueInv, TableSound
    <3>3. TotalPages(table, shown.jobs) \in Nat \ {0} /\ table.page \in Nat \ {0}
      BY <2>1, PagesAre DEF TableType
    <3> QED BY <2>1, <2>3, <3>2, <3>3, RowsAre, ButtonsAre
  <2>4. ASSUME table.group # NoGroup, ~vanished
        PROVE  table.tab = "failed" /\ HasGroup(shown.jobs, table.group)
    <3>1. vanished # TRUE
      BY <2>4
    <3> QED BY <2>4, <3>1 DEF QueueInv, TableSound
  <2> QED BY <2>2, <2>3, <2>4 DEF TableShowsRows
<1> QED BY <1>1, <1>2
-----------------------------------------------------------------------------
(* The dashboard.  The server and the page share the clock and nothing     *)
(* else: a step of one keeps what holds of the other.                      *)

DashboardInv == AccessInv /\ RollupsInv /\ FlowInv /\ QueueInv

LEMMA DashboardBegins == Init => DashboardInv
<1> SUFFICES ASSUME Init PROVE DashboardInv
  OBVIOUS
<1>1. now = 0 /\ events = 0 /\ AccessInit /\ RollupsInit /\ FlowPageInit /\ QueuePageInit
  BY DEF Init
<1> QED BY <1>1, AccessBegins, RollupsBegin, FlowBegins, QueueBegins DEF DashboardInv

\* What leaves the clock alone and spends at most an event of the budget.
Brief ==
    /\ now' = now
    /\ events' = events \/ (events < MaxEvents /\ events' = events + 1)

LEMMA BriefKeeps ==
    ASSUME ClockOK, Brief
    PROVE  ClockOK' /\ now' = now /\ now' >= now /\ events' \in 0..MaxEvents /\ events' >= events
BY ClockAssumption DEF ClockOK, Brief

LEMMA FlowStepBrief == FlowPageStep => Brief
BY DEF FlowPageStep, CloseDrawer, Search, Click, Loaded, Clicked, LoadFails, ClickFails, Event, Brief

LEMMA QueueStepBrief == QueuePageStep => Brief
<1> SUFFICES ASSUME QueuePageStep PROVE Brief
  OBVIOUS
<1>1. CASE Turns
  BY <1>1 DEF Turns, Tab, Group, Previous, NextPage, Size, Numbered, TurnTo, Event, Brief
<1>2. CASE ~Turns
  BY <1>2 DEF QueuePageStep, ChooseRange, ChooseRefresh, Poll, Shows, LoadLost, PressAnswered,
              Press, PressFails, Changes, Event, Brief
<1> QED BY <1>1, <1>2

LEMMA ClockKnown == DashboardInv => ClockOK
BY DEF DashboardInv, AccessInv, SessionInv

LEMMA DashboardStepKeeps ==
    ASSUME DashboardInv, [Next]_vars
    PROVE  DashboardInv'
<1> USE DEF DashboardInv
<1>0. ClockOK
  BY ClockKnown
<1>1. ASSUME NEW b \in Browsers, AccessStep(b), UNCHANGED <<rollupVars, pageVars>>
      PROVE  DashboardInv'
  <2>1. AccessInv' /\ now' = now /\ events' \in 0..MaxEvents /\ events' >= events
    BY <1>1, AccessStepKeeps
  <2>2. ClockOK' /\ now' >= now
    BY <1>0, <2>1, ClockAssumption DEF ClockOK
  <2>3. RollupsInv'
    BY <1>1, <2>1, <2>2, RollupsKept
  <2> QED BY <1>1, <2>1, <2>3, FlowKept, QueueKept DEF pageVars
<1>2. ASSUME NEW w \in Workers, RollupsStep(w), UNCHANGED <<accessVars, pageVars>>
      PROVE  DashboardInv'
  <2>1. RollupsInv' /\ now' = now /\ events' \in 0..MaxEvents /\ events' >= events
    BY <1>2, RollupsStepKeeps
  <2>2. AccessInv'
    BY <1>2, <2>1, AccessKept
  <2> QED BY <1>2, <2>1, <2>2, FlowKept, QueueKept DEF pageVars
<1>3. CASE TimePasses
  <2>1. Passes /\ AccessTimePasses /\ UNCHANGED <<rollupVars, pageVars>>
    BY <1>3 DEF TimePasses
  <2>2. ClockOK' /\ now' >= now /\ events' >= events
    BY <1>0, <2>1, ClockAssumption DEF ClockOK, Passes
  <2>3. RollupsInv'
    BY <2>1, <2>2, RollupsKept
  <2> QED BY <2>1, <2>3, AccessTime, FlowKept, QueueKept DEF pageVars
<1>4. CASE Restart
  <2>1. Event /\ ServerRestarts /\ WorkersDie /\ UNCHANGED pageVars
    BY <1>4 DEF Restart
  <2> QED BY <2>1, AccessRestart, RollupsRestart, FlowKept, QueueKept DEF pageVars
<1>5. ASSUME Brief, UNCHANGED serverVars
      PROVE  AccessInv' /\ RollupsInv'
  <2>1. ClockOK' /\ now' = now /\ now' >= now /\ events' \in 0..MaxEvents /\ events' >= events
    BY <1>0, <1>5, BriefKeeps
  <2>2. UNCHANGED accessVars /\ UNCHANGED rollupVars
    BY <1>5 DEF serverVars
  <2> QED BY <2>1, <2>2, AccessKept, RollupsKept
<1>6. CASE FlowPageStep /\ UNCHANGED <<serverVars, page, queuePageVars>>
  <2>1. AccessInv' /\ RollupsInv'
    BY <1>5, <1>6, FlowStepBrief
  <2> QED BY <1>6, <2>1, FlowStepKeeps, QueueKept
<1>7. CASE QueuePageStep /\ UNCHANGED <<serverVars, page, flowPageVars>>
  <2>1. AccessInv' /\ RollupsInv'
    BY <1>5, <1>7, QueueStepBrief
  <2> QED BY <1>7, <2>1, QueueStepKeeps, FlowKept
<1>8. CASE UNCHANGED vars
  <2>1. UNCHANGED serverVars /\ UNCHANGED pageVars /\ Brief
    BY <1>8 DEF vars, Brief
  <2> QED BY <1>5, <2>1, FlowKept, QueueKept DEF pageVars
<1> QED BY <1>1, <1>2, <1>3, <1>4, <1>6, <1>7, <1>8 DEF Next

LEMMA DashboardAlways == Spec => []DashboardInv
<1>1. Init => DashboardInv
  BY DashboardBegins
<1>2. DashboardInv /\ [Next]_vars => DashboardInv'
  BY DashboardStepKeeps
<1> QED BY <1>1, <1>2, PTL DEF Spec

-----------------------------------------------------------------------------
(* The theorems. *)

\* Whatever the sizes of the window and the limit, however many browsers try
\* and in whatever order their stamps and their scripts run: an attempt that
\* is counted at its stamp sees all those let through in the window before
\* it, so that there are never more than the limit, and a Retry-After that was
\* waited out lets in (rateLimit.lua:14, AuthMiddleware.js:93); and every part
\* of the state has its type.
THEOREM LoginsAreLimited == Spec => []LimiterSound
<1>1. DashboardInv => LimiterSound
  <2> SUFFICES ASSUME DashboardInv PROVE LimiterSound
    OBVIOUS
  <2>1. AccessInv /\ RollupsInv /\ FlowInv /\ QueueInv /\ ClockOK
    BY ClockKnown DEF DashboardInv
  <2>2. TypeOK
    BY <2>1, AccessTypes, RollupsTypes, FlowTypes, QueueTypes DEF TypeOK, ClockOK
  <2> QED BY <2>1, <2>2, LimiterTruth DEF LimiterSound, AccessInv, LimiterInv
<1> QED BY <1>1, DashboardAlways, PTL

\* A session is honoured exactly as long as it lasts, whatever restarts and
\* changes of the secret come in between (AuthMiddleware.js:147, :180).
THEOREM SessionsAreHonoured == Spec => []SessionsHonoured
<1>1. DashboardInv => SessionsHonoured
  BY SessionTruth DEF DashboardInv, AccessInv
<1> QED BY <1>1, DashboardAlways, PTL

\* For any length of the hour, of the day and of the range that is kept, and
\* any zone: the buckets hold what happened in their hours while a range can
\* show them, and the cells of the heatmap the failures of theirs
\* (server.js:334, :1285).
THEOREM HoursAreTrue == Spec => []HoursSound
<1>1. DashboardInv => HoursSound
  BY BucketsShown, HeatShown DEF DashboardInv, RollupsInv, HoursSound
<1> QED BY <1>1, DashboardAlways, PTL

\* For any number of workers and any time a record is kept: the forecast
\* counts those that were heard of, and its advice is sound for them
\* (ForecastingEngine.js:62, :114).
THEOREM ForecastsAreTrue == Spec => []ForecastsSound
<1>1. DashboardInv => ForecastsSound
  BY WorkersTruth, AdviceTrue DEF DashboardInv, RollupsInv, ForecastsSound
<1> QED BY <1>1, DashboardAlways, PTL

\* For any flow and any number of looks under way: the graph that is drawn is
\* one piece of it, and what was opened stays open
\* (dashboard/src/app/flow/page.tsx:264).
THEOREM FlowIsOnePiece == Spec => []FlowShown
<1>1. DashboardInv => FlowShown
  BY FlowTruth DEF DashboardInv, FlowShown
<1> QED BY <1>1, DashboardAlways, PTL

\* For any ranges, groups, lists and number of loads under way: the range that
\* was chosen comes to be shown, and a table that has jobs shows some
\* (dashboard/src/app/queues/[name]/page.tsx:147, :65).
THEOREM QueueIsShown == Spec => []QueueShown
<1>1. DashboardInv => QueueShown
  BY QueueTruth DEF DashboardInv, QueueShown
<1> QED BY <1>1, DashboardAlways, PTL

-----------------------------------------------------------------------------
(***************************************************************************)
(* The operators of a queue.  AdminInv says where each kind of job is and  *)
(* what each worker and operator has in hand; an action is split into what *)
(* it does to the job it is about and the lemma that it leaves the others  *)
(* as they were (SettledSame, ChainedSame).                                *)
(***************************************************************************)
RunRec == [at : {"idle", "running", "stored", "scheduled"}, job : Jobs \cup {NoJob},
           rec : JobRec \cup {Absent}]
OpRec == [kind : {"none", "repeat", "delay", "clean", "zombie", "toggle"},
          at : {"idle", "sadd", "zscore", "lpos", "lrem", "zadd", "hset", "completed", "failed",
                "hget", "bury", "ghost", "queue", "flag"},
          jobs : SUBSET Jobs, rec : JobRec \cup {Absent}, flag : BOOLEAN]

AdminTypes ==
    /\ StoreTypeOK
    /\ repeatable \subseteq Repeating
    /\ run \in [Runners -> RunRec] /\ op \in [Admins -> OpRec]
    /\ check \in [Runners -> [on : BOOLEAN, seen : Seq(BOOLEAN)]]
    /\ \A w \in Runners : check[w].on => Len(check[w].seen) <= 2
    /\ paused \in BOOLEAN /\ muted \in BOOLEAN /\ clashed \in BOOLEAN
    /\ told \in BOOLEAN /\ unchecked \in BOOLEAN
    /\ calls \in 0..MaxCalls /\ faults \in 0..MaxFaults
    /\ disturbed \subseteq Jobs /\ swept \subseteq Jobs /\ underRun \subseteq Jobs

\* What a worker, and an operator, has in hand fits where it is.
RunFits(w) ==
    \/ run[w] = NoRun
    \/ /\ run[w].job \in Jobs /\ run[w].at # "idle"
       /\ run[w].rec \in JobRec /\ run[w].rec.status = "active"
       /\ run[w].at \in {"stored", "scheduled"} => run[w].job \in Repeating

OpFits(a) ==
    LET o == op[a] IN
    /\ o.kind = "none" => o = Resting
    /\ o.kind = "repeat" => \E j \in Repeating : o.jobs = {j}
    /\ o.kind = "delay" => /\ \E j \in Jobs \ Repeating : o.jobs = {j}
                           /\ o.at \in {"zscore", "lpos", "lrem", "zadd", "hset"}
                           /\ o.rec \in JobRec /\ (o.at = "lrem" => ~o.flag)
    /\ o.kind = "clean" => o.at \in {"completed", "failed"}
    /\ o.kind = "zombie" => /\ \E j \in Jobs : o.jobs = {j}
                            /\ o.at = "bury" => o.rec \in JobRec
                            /\ o.at = "ghost" => o.rec = Absent
    /\ o.kind = "toggle" => o.at \in {"queue", "flag"} /\ o.jobs = {}

\* changeDelay has taken the job off the list and not put it anywhere yet.
Moves(o, j) == o.kind = "delay" /\ o.at = "zadd" /\ ~o.flag /\ j \in o.jobs
Adds(o, j) == o.kind = "repeat" /\ j \in o.jobs
OnMove(j) == \E a \in Admins : Moves(op[a], j)
OneMoves(j) == \A a, b \in Admins : Moves(op[a], j) /\ Moves(op[b], j) => a = b

\* A job that is not a repeating one, and that nothing caught on the move: its
\* structures, its record and the run it is at agree, and one changeDelay at
\* most has it off its list.
Settled(j) ==
    /\ ListedOnce(j) /\ OneMoves(j)
    /\ Present(vault, j) <=> \/ j \in Queued \cup active \cup delayed \cup completed \cup failed
                             \/ OnMove(j)
    /\ j \in Queued => j \notin active \cup delayed \cup completed \cup failed /\ ~OnMove(j)
    /\ j \in active => j \notin delayed \cup completed \cup failed /\ ~OnMove(j)
    /\ j \in delayed => j \notin completed \cup failed /\ ~OnMove(j)
    /\ j \in completed => j \notin failed /\ ~OnMove(j)
    /\ j \in failed => j \in dlq /\ ~OnMove(j)
    /\ j \in dlq /\ Present(vault, j) => j \in failed
    /\ j \in active <=> vault[j].status = "active"
    /\ j \in completed <=> vault[j].status = "completed"
    /\ j \in failed <=> vault[j].status = "dead"
    /\ Runs(j) => /\ j \in active
                  /\ \A v, w \in Runners : run[v].job = j /\ run[w].job = j => v = w

HasPlace(j) == j \in Queued \cup delayed \cup active \cup dlq \cup failed

\* A repeating job: one worker at most runs it, it is listed, or about to be,
\* as long as there is a record or a run of it, and the listed one has both a
\* record and a place; when its next run is scheduled that place is the queue.
Chained(j) ==
    /\ \A v, w \in Runners : run[v].job = j /\ run[w].job = j => v = w
    /\ j \notin underRun =>
           /\ \A w \in Runners : run[w].job = j /\ run[w].at = "scheduled" => j \in Queued \cup delayed
           /\ Present(vault, j) \/ Runs(j) => j \in repeatable \/ Adding(j)
           /\ (j \in repeatable \/ Adding(j)) /\ j \notin swept => Present(vault, j) /\ HasPlace(j)

Toggling(a) == op[a].kind = "toggle"

\* One toggle at a time: the flag still to write is the one that differs.
TogglesFit ==
    ~clashed =>
        /\ \A a, b \in Admins : Toggling(a) /\ Toggling(b) => a = b
        /\ \A a \in Admins : Toggling(a) =>
               IF op[a].at = "queue" THEN paused = muted ELSE paused = op[a].flag
        /\ (\A a \in Admins : ~Toggling(a)) => paused = muted

\* An empty queue was told of, or some worker is about to see it: all it has
\* read so far was zero.
ChecksFit ==
    Empty /\ ~unchecked =>
        told \/ \E w \in Runners : check[w].on /\ \A i \in DOMAIN check[w].seen : check[w].seen[i]

AdminInv ==
    /\ AdminTypes /\ (\A w \in Runners : RunFits(w)) /\ (\A a \in Admins : OpFits(a))
    /\ (\A j \in Jobs \ (Repeating \cup disturbed) : Settled(j))
    /\ (\A j \in Repeating \ disturbed : Chained(j))
    /\ TogglesFit /\ ChecksFit

-----------------------------------------------------------------------------
(***************************************************************************)
(* What an action leaves alone.                                            *)
(***************************************************************************)
\* The store says the same of j, and so does everyone who has it in hand.
SameIn(j) ==
    /\ vault'[j] = vault[j] /\ (ListedOnce(j) => ListedOnce(j)')
    /\ j \in Queued' <=> j \in Queued
    /\ j \in active' <=> j \in active
    /\ j \in delayed' <=> j \in delayed
    /\ j \in completed' <=> j \in completed
    /\ j \in failed' <=> j \in failed
    /\ j \in dlq' <=> j \in dlq

SameBy(j) ==
    /\ \A w \in Runners : run[w].job = j \/ run'[w].job = j => run'[w] = run[w]
    /\ (OnMove(j)' <=> OnMove(j)) /\ (OneMoves(j) => OneMoves(j)')
    /\ Adding(j)' <=> Adding(j)
    /\ j \in repeatable' <=> j \in repeatable
    /\ (j \in swept => j \in swept') /\ (j \in underRun => j \in underRun')

LEMMA SameRuns ==
    ASSUME NEW j, SameBy(j)
    PROVE  Runs(j)' <=> Runs(j)
BY DEF SameBy, Runs

LEMMA SettledSame ==
    ASSUME NEW j, Settled(j), SameIn(j), SameBy(j)
    PROVE  Settled(j)'
<1>1. Runs(j)' <=> Runs(j)
    BY SameRuns
<1>2. Present(vault, j)' <=> Present(vault, j)
    BY DEF Present, SameIn
<1> QED BY <1>1, <1>2 DEF Settled, SameIn, SameBy

LEMMA ChainedSame ==
    ASSUME NEW j, Chained(j), SameIn(j), SameBy(j)
    PROVE  Chained(j)'
<1>1. Runs(j)' <=> Runs(j)
    BY SameRuns
<1>2. Present(vault, j)' <=> Present(vault, j)
    BY DEF Present, SameIn
<1>3. HasPlace(j)' <=> HasPlace(j)
    BY DEF HasPlace, SameIn
<1> QED BY <1>1, <1>2, <1>3 DEF Chained, SameIn, SameBy

\* Nobody's hand is in it.
LEMMA SameHands ==
    ASSUME UNCHANGED <<run, op>>, NEW j
    PROVE  /\ \A w \in Runners : run'[w] = run[w]
           /\ (OnMove(j)' <=> OnMove(j)) /\ (OneMoves(j) => OneMoves(j)')
           /\ Adding(j)' <=> Adding(j)
           /\ Runs(j)' <=> Runs(j)
BY DEF OnMove, OneMoves, Adding, Runs

LEMMA FitsSame ==
    ASSUME UNCHANGED <<run, op>>, AdminInv
    PROVE  /\ \A w \in Runners : RunFits(w)'
           /\ \A a \in Admins : OpFits(a)'
BY DEF AdminInv, RunFits, OpFits

LEMMA TogglesSame ==
    ASSUME TogglesFit, UNCHANGED <<paused, muted>>, clashed => clashed',
           \A a \in Admins : Toggling(a) \/ Toggling(a)' => op'[a] = op[a]
    PROVE  TogglesFit'
BY DEF TogglesFit, Toggling

LEMMA ChecksSame ==
    ASSUME ChecksFit, UNCHANGED check, told => told', Empty' /\ ~unchecked' => Empty /\ ~unchecked
    PROVE  ChecksFit'
BY DEF ChecksFit

LEMMA UnseenIs ==
    ASSUME Unseen
    PROVE  Empty' /\ ~unchecked' => Empty /\ ~unchecked
BY DEF Unseen

-----------------------------------------------------------------------------
(***************************************************************************)
(* What the queue's emptiness and the bounds come to.                      *)
(***************************************************************************)
LEMMA NothingQueued ==
    ASSUME NEW s \in Seq(Jobs), NEW p
    PROVE  ToSet(s) \cup p = {} <=> s = <<>> /\ p = {}
<1>1. ASSUME s # <<>> PROVE s[1] \in ToSet(s)
    BY <1>1 DEF ToSet
<1>2. ASSUME s = <<>> PROVE ToSet(s) = {}
    BY <1>2 DEF ToSet
<1> QED BY <1>1, <1>2

LEMMA EmptyIs ==
    ASSUME StoreTypeOK
    PROVE  Empty <=> active = {} /\ Queued = {}
<1>1. Queued = {} <=> waiting = <<>> /\ prioritized = {}
    BY NothingQueued DEF Queued, StoreTypeOK
<1>2. Empty <=> Zeroes[1] /\ Zeroes[2] /\ Zeroes[3]
    BY DEF Empty
<1> QED BY <1>1, <1>2 DEF Zeroes

LEMMA EmptyThen ==
    ASSUME StoreTypeOK'
    PROVE  Empty' <=> active' = {} /\ Queued' = {}
<1>1. Queued' = {} <=> waiting' = <<>> /\ prioritized' = {}
    BY NothingQueued DEF Queued, StoreTypeOK
<1>2. Empty' <=> Zeroes'[1] /\ Zeroes'[2] /\ Zeroes'[3]
    BY DEF Empty
<1> QED BY <1>1, <1>2 DEF Zeroes

\* The structures of the queue never lose their last job.
LEMMA NoEmptier ==
    ASSUME StoreTypeOK, StoreTypeOK', Queued \subseteq Queued', active \subseteq active', UNCHANGED unchecked
    PROVE  Empty' /\ ~unchecked' => Empty /\ ~unchecked
BY EmptyIs, EmptyThen

LEMMA Bounds ==
    ASSUME AdminTypes, Call \/ Fault \/ UNCHANGED <<calls, faults>>
    PROVE  calls' \in 0..MaxCalls /\ faults' \in 0..MaxFaults
BY AdminAssumption DEF AdminTypes, Call, Fault

LEMMA OfStore ==
    ASSUME AdminTypes
    PROVE  StoreTypeOK /\ QueueType /\ VaultType(vault) /\ Queued \subseteq Jobs
BY RangeOfSeq DEF AdminTypes, StoreTypeOK, QueueType, VaultType, Queued, ToSet, Range

\* An action on the store alone.
LEMMA StoreAlone ==
    ASSUME AdminInv, UNCHANGED <<adminVars, clashed>>, StoreTypeOK',
           Call \/ Fault \/ UNCHANGED <<calls, faults>>,
           disturbed' \subseteq Jobs, swept' \subseteq Jobs, underRun' \subseteq Jobs,
           unchecked' \in BOOLEAN, Empty' /\ ~unchecked' => Empty /\ ~unchecked,
           \A j \in Jobs \ (Repeating \cup disturbed') : Settled(j)',
           \A j \in Repeating \ disturbed' : Chained(j)'
    PROVE  AdminInv'
<1>1. UNCHANGED <<run, op>> /\ UNCHANGED <<repeatable, paused, muted, check, told>>
    BY DEF adminVars, checkVars
<1>2. (\A w \in Runners : RunFits(w)') /\ (\A a \in Admins : OpFits(a)')
    BY <1>1, FitsSame
<1>3. AdminTypes'
    BY <1>1, Bounds DEF AdminInv, AdminTypes
<1>4. TogglesFit'
    BY <1>1, TogglesSame DEF AdminInv, Toggling
<1>5. ChecksFit'
    BY <1>1, ChecksSame DEF AdminInv
<1> QED BY <1>2, <1>3, <1>4, <1>5 DEF AdminInv

-----------------------------------------------------------------------------
(***************************************************************************)
(* Producers, the clock, the scheduler.                                    *)
(***************************************************************************)
LEMMA EnqueueSame ==
    ASSUME QueueType, NEW S \in SUBSET Jobs, Enqueue(S), NEW j \in Jobs \ S
    PROVE  /\ ListedOnce(j) => ListedOnce(j)'
           /\ j \in Queued' <=> j \in Queued
BY EnqueueType, EnqueueOnce

LEMMA AddSame ==
    ASSUME StoreTypeOK, NEW k \in Jobs, AddJobScript(k) \/ AddDelayedScript(k), NEW j \in Jobs \ {k}
    PROVE  SameIn(j)
<1>1. QueueType
    BY DEF StoreTypeOK, QueueType
<1>2. vault'[j] = vault[j]
    BY DEF AddJobScript, AddDelayedScript, StoreTypeOK
<1>3. CASE AddJobScript(k)
  <2>1. PICK S \in SUBSET Jobs : S = {k}
    OBVIOUS
  <2>2. Enqueue(S) /\ j \in Jobs \ S
    BY <1>3, <2>1 DEF AddJobScript
  <2>3. (ListedOnce(j) => ListedOnce(j)') /\ (j \in Queued' <=> j \in Queued)
    BY <1>1, <2>2, EnqueueSame
  <2> QED BY <1>2, <1>3, <2>3 DEF AddJobScript, SameIn
<1>4. CASE AddDelayedScript(k)
    BY <1>2, <1>4 DEF AddDelayedScript, SameIn, Queued, ListedOnce
<1> QED BY <1>3, <1>4

LEMMA AddKeeps ==
    ASSUME AdminInv, NEW k \in Jobs, Add(k)
    PROVE  AdminInv'
<1>1. /\ Call /\ k \notin Repeating /\ (AddJobScript(k) \/ AddDelayedScript(k))
      /\ disturbed' = disturbed \cup (dlq \cap {k})
      /\ UNCHANGED <<adminVars, clashed>> /\ UNCHANGED <<run, op>>
      /\ UNCHANGED <<repeatable, swept, underRun, unchecked>>
    BY DEF Add, adminVars
<1>2. AdminTypes /\ StoreTypeOK /\ QueueType /\ Queued \subseteq Jobs
    BY OfStore DEF AdminInv
<1>3. StoreTypeOK' /\ Present(vault', k) /\ ~Present(vault, k)
    BY <1>1, <1>2, AddJobKeeps, AddDelayedKeeps DEF AddJobScript, AddDelayedScript
<1>4. ASSUME NEW j \in Jobs \ {k} PROVE SameIn(j) /\ SameBy(j)
    BY <1>1, <1>2, <1>4, AddSame, SameHands DEF SameBy
<1>5. \A j \in Repeating \ disturbed' : Chained(j)'
    BY <1>1, <1>4, ChainedSame, AdminAssumption DEF AdminInv
<1>6. ASSUME k \notin disturbed' PROVE Settled(k)'
  <2>1. /\ Settled(k) /\ k \notin dlq
        /\ k \notin Queued \cup active \cup delayed \cup completed \cup failed /\ ~OnMove(k) /\ ~Runs(k)
    BY <1>1, <1>3, <1>6 DEF AdminInv, Settled
  <2>2. ~OnMove(k)' /\ ~Runs(k)' /\ OneMoves(k)'
    BY <1>1, <2>1, SameHands DEF Settled
  <2>3. /\ vault'[k] = NewRec
        /\ UNCHANGED <<active, completed, failed, dlq>>
    BY <1>1, <1>2 DEF AddJobScript, AddDelayedScript, StoreTypeOK
  <2>4. CASE AddJobScript(k)
    <3>1. PICK S \in SUBSET Jobs : S = {k}
      OBVIOUS
    <3>2. Enqueue(S) /\ UNCHANGED delayed
      BY <2>4, <3>1 DEF AddJobScript
    <3>3. Queued' = Queued \cup S /\ ListedOnce(k)'
      BY <1>2, <3>2, <2>1, EnqueueType, EnqueueOnce DEF Settled
    <3> QED BY <1>3, <2>1, <2>2, <2>3, <3>1, <3>2, <3>3 DEF Settled, NewRec
  <2>5. CASE AddDelayedScript(k)
    <3>1. Queued' = Queued /\ delayed' = delayed \cup {k} /\ ListedOnce(k)'
      BY <2>1, <2>5 DEF AddDelayedScript, Queued, ListedOnce, Settled
    <3> QED BY <1>3, <2>1, <2>2, <2>3, <3>1 DEF Settled, NewRec
  <2> QED BY <1>1, <2>4, <2>5
<1>7. \A j \in Jobs \ (Repeating \cup disturbed') : Settled(j)'
    BY <1>1, <1>4, <1>6, SettledSame DEF AdminInv
<1>8. Queued \subseteq Queued' /\ active \subseteq active'
  <2>1. UNCHANGED active
    BY <1>1 DEF AddJobScript, AddDelayedScript
  <2>2. CASE AddJobScript(k)
    <3>1. PICK S \in SUBSET Jobs : S = {k}
      OBVIOUS
    <3>2. Enqueue(S)
      BY <2>2, <3>1 DEF AddJobScript
    <3> QED BY <1>2, <2>1, <3>2, EnqueueType
  <2>3. CASE AddDelayedScript(k)
    BY <2>1, <2>3 DEF AddDelayedScript, Queued
  <2> QED BY <1>1, <2>2, <2>3
<1>9. Empty' /\ ~unchecked' => Empty /\ ~unchecked
    BY <1>1, <1>2, <1>3, <1>8, NoEmptier
<1> QED BY <1>1, <1>2, <1>3, <1>5, <1>7, <1>9, StoreAlone DEF AdminTypes

\* The scripts that put jobs back, as the others see them.
LEMMA RetrySame ==
    ASSUME StoreTypeOK, NEW k \in Jobs, RetryScript(k, NewRec)
    PROVE  /\ Queued' = Queued \cup {k}
           /\ \A j \in Jobs \ {k} : SameIn(j)
<1>1. QueueType
    BY DEF StoreTypeOK, QueueType
<1>2. /\ vault' = [vault EXCEPT ![k] = NewRec] /\ failed' = failed \ {k} /\ dlq' = dlq \ {k}
      /\ UNCHANGED <<active, delayed, completed>>
    BY DEF RetryScript
<1>3. CASE k \in Prioritised
    BY <1>2, <1>3 DEF RetryScript, SameIn, Queued, ListedOnce, StoreTypeOK
<1>4. CASE k \notin Prioritised
  <2>1. PICK w \in LRem(waiting, k) : waiting' = Append(w, k)
    BY <1>4 DEF RetryScript
  <2>2. /\ w \in Seq(Jobs) /\ ToSet(w) = ToSet(waiting) \ {k}
        /\ \A j : OnceIn(waiting, j) => OnceIn(w, j)
    BY <1>1, <2>1, LRemType DEF QueueType
  <2>3. ToSet(waiting') = ToSet(w) \cup {k}
    BY <2>1, <2>2, ToSetAppend
  <2>4. UNCHANGED prioritized
    BY <1>4 DEF RetryScript
  <2>5. ASSUME NEW j \in Jobs \ {k}, OnceIn(waiting, j) PROVE OnceIn(waiting', j)
    BY <2>1, <2>2, <2>5, OnceAppend
  <2> QED BY <1>2, <2>2, <2>3, <2>4, <2>5 DEF SameIn, Queued, ListedOnce, StoreTypeOK
<1> QED BY <1>3, <1>4

LEMMA RetryAdmin ==
    ASSUME AdminInv, NEW k \in Jobs, Retry(k)
    PROVE  AdminInv'
<1>1. /\ Call /\ k \in dlq /\ RetryScript(k, NewRec)
      /\ underRun' = underRun \cup (({k} \cap Repeating) \ repeatable)
      /\ UNCHANGED <<adminVars, clashed>> /\ UNCHANGED <<run, op>>
      /\ UNCHANGED <<repeatable, swept, disturbed, unchecked>>
    BY DEF Retry, adminVars
<1>2. AdminTypes /\ StoreTypeOK /\ QueueType /\ Queued \subseteq Jobs
    BY OfStore DEF AdminInv
<1>3. NewRec \in JobRec /\ NewRec # Absent
    BY DEF NewRec, JobRec, Statuses, Absent
<1>4. StoreTypeOK'
    BY <1>1, <1>2, <1>3, RetryKeeps
<1>5. /\ Queued' = Queued \cup {k} /\ vault'[k] = NewRec
      /\ failed' = failed \ {k} /\ dlq' = dlq \ {k} /\ UNCHANGED <<active, delayed, completed>>
    BY <1>1, <1>2, RetrySame DEF RetryScript, StoreTypeOK
<1>6. ASSUME NEW j \in Jobs \ {k} PROVE SameIn(j) /\ SameBy(j)
    BY <1>1, <1>2, <1>6, RetrySame, SameHands DEF SameBy
<1>7. ASSUME k \in Jobs \ (Repeating \cup disturbed) PROVE Settled(k)'
  <2>1. Settled(k)
    BY <1>7 DEF AdminInv
  <2>2. k \notin Queued \cup active \cup delayed \cup completed /\ ~OnMove(k) /\ ~Runs(k)
    BY <2>1, <1>1 DEF Settled
  <2>3. ListedOnce(k)'
    BY <1>1, <1>2, <2>1, <2>2, RetryOnce DEF Settled
  <2>4. ~OnMove(k)' /\ ~Runs(k)' /\ OneMoves(k)'
    BY <1>1, <2>1, <2>2, SameHands DEF Settled
  <2> QED BY <1>3, <1>5, <2>2, <2>3, <2>4 DEF Settled, NewRec, Present
<1>8. ASSUME k \in Repeating \ disturbed PROVE Chained(k)'
  <2>1. Chained(k)
    BY <1>8 DEF AdminInv
  <2>2. /\ \A w \in Runners : run'[w] = run[w]
        /\ Adding(k)' <=> Adding(k)
    BY <1>1, SameHands
  <2>3. HasPlace(k)'
    BY <1>5 DEF HasPlace
  <2>4. Present(vault, k)'
    BY <1>3, <1>5 DEF Present
  <2> QED BY <1>1, <1>5, <1>8, <2>1, <2>2, <2>3, <2>4 DEF Chained
<1>9. \A j \in Jobs \ (Repeating \cup disturbed') : Settled(j)'
    BY <1>1, <1>6, <1>7, SettledSame DEF AdminInv
<1>10. \A j \in Repeating \ disturbed' : Chained(j)'
    BY <1>1, <1>6, <1>8, ChainedSame, AdminAssumption DEF AdminInv
<1>11. Empty' /\ ~unchecked' => Empty /\ ~unchecked
    BY <1>1, <1>2, <1>4, <1>5, NoEmptier
<1> QED BY <1>1, <1>2, <1>4, <1>9, <1>10, <1>11, StoreAlone, AdminAssumption DEF AdminTypes

LEMMA ClockKeeps ==
    ASSUME AdminInv, NEW k \in Jobs, Lapse(k) \/ Due(k) \/ DashboardRetry(k)
    PROVE  AdminInv'
<1>1. /\ Call \/ Fault \/ UNCHANGED <<calls, faults>>
      /\ UNCHANGED <<adminVars, clashed>> /\ UNCHANGED <<run, op>>
      /\ UNCHANGED <<repeatable, swept, disturbed, underRun, unchecked>>
      /\ UNCHANGED <<vault, waiting, prioritized, active, delayed, completed, failed, dlq>>
    BY DEF Lapse, Due, DashboardRetry, adminVars, history, storeVars, LeaseRunsOut, TimeComes
<1>2. AdminTypes /\ StoreTypeOK
    BY OfStore DEF AdminInv
<1>3. StoreTypeOK'
    BY <1>1, <1>2 DEF StoreTypeOK, Lapse, Due, DashboardRetry, storeVars, LeaseRunsOut, TimeComes
<1>4. Queued' = Queued
    BY <1>1 DEF Queued
<1>5. ASSUME NEW j \in Jobs PROVE SameIn(j) /\ SameBy(j)
    BY <1>1, <1>4, SameHands DEF SameBy, SameIn, ListedOnce
<1>6. Empty' /\ ~unchecked' => Empty /\ ~unchecked
    BY <1>1, <1>2, <1>3, <1>4, NoEmptier
<1>7. \A j \in Jobs \ (Repeating \cup disturbed') : Settled(j)'
    BY <1>1, <1>5, SettledSame DEF AdminInv
<1>8. \A j \in Repeating \ disturbed' : Chained(j)'
    BY <1>1, <1>5, ChainedSame, AdminAssumption DEF AdminInv
<1> QED BY <1>1, <1>2, <1>3, <1>6, <1>7, <1>8, StoreAlone DEF AdminTypes

\* What is due is queued.
LEMMA PromoteSame ==
    ASSUME StoreTypeOK, PromoteScript
    PROVE  /\ Queued' = Queued \cup due
           /\ \A j \in Jobs \ due : SameIn(j)
<1> DEFINE ranked == {j \in due \cap Prioritised : Present(vault, j)}
<1>1. PICK q \in Orders(due \ ranked) : waiting' = waiting \o q
    BY DEF PromoteScript
<1>2. due \ ranked \in SUBSET Jobs
    BY DEF StoreTypeOK
<1>3. IsFiniteSet(due \ ranked)
    BY <1>2, JobsAssumption, FS_Subset
<1>4. q \in Seq(due \ ranked) /\ ToSet(q) = due \ ranked
    BY <1>1, <1>3, OrdersType
<1>5. q \in Seq(Jobs) /\ waiting \in Seq(Jobs)
    BY <1>2, <1>4, SeqMonotonic DEF StoreTypeOK
<1>6. ToSet(waiting') = ToSet(waiting) \cup (due \ ranked)
    BY <1>1, <1>4, <1>5, ToSetConcat
<1>7. prioritized' = prioritized \cup ranked
    BY DEF PromoteScript
<1>8. Queued' = Queued \cup due
    BY <1>6, <1>7 DEF Queued
<1>9. \A j \in Jobs \ due : ListedOnce(j) => ListedOnce(j)'
    BY PromoteOnce
<1> QED BY <1>8, <1>9 DEF PromoteScript, SameIn

LEMMA PromoteAdmin ==
    ASSUME AdminInv, Promote
    PROVE  AdminInv'
<1>1. /\ PromoteScript /\ UNCHANGED <<calls, faults>>
      /\ UNCHANGED <<adminVars, clashed>> /\ UNCHANGED <<run, op>>
      /\ UNCHANGED <<repeatable, swept, disturbed, underRun, unchecked>>
    BY DEF Promote, adminVars, history
<1>2. AdminTypes /\ StoreTypeOK /\ QueueType /\ Queued \subseteq Jobs
    BY OfStore DEF AdminInv
<1>3. StoreTypeOK'
    BY <1>1, <1>2, PromoteKeeps
<1>4. /\ Queued' = Queued \cup due /\ due \subseteq delayed /\ delayed' = delayed \ due
      /\ UNCHANGED <<vault, active, completed, failed, dlq>>
    BY <1>1, <1>2, PromoteSame DEF PromoteScript, StoreTypeOK
<1>5. ASSUME NEW j \in Jobs \ due PROVE SameIn(j) /\ SameBy(j)
    BY <1>1, <1>2, <1>5, PromoteSame, SameHands DEF SameBy
<1>6. ASSUME NEW j \in due, j \in Jobs \ (Repeating \cup disturbed) PROVE Settled(j)'
  <2>1. Settled(j)
    BY <1>6 DEF AdminInv
  <2>2. /\ j \notin Queued \cup active \cup completed \cup failed /\ ~OnMove(j) /\ ~Runs(j)
        /\ Present(vault, j)
    BY <2>1, <1>4, <1>6 DEF Settled
  <2>3. ListedOnce(j)'
    BY <1>1, <1>2, <1>6, <2>1, <2>2, PromoteOnce DEF Settled
  <2>4. (OnMove(j)' <=> OnMove(j)) /\ (Runs(j)' <=> Runs(j)) /\ OneMoves(j)'
    BY <1>1, <2>1, SameHands DEF Settled
  <2> QED BY <1>4, <1>6, <2>1, <2>2, <2>3, <2>4 DEF Settled
<1>7. ASSUME NEW j \in due, j \in Repeating \ disturbed PROVE Chained(j)'
  <2>1. Chained(j)
    BY <1>7 DEF AdminInv
  <2>2. /\ \A w \in Runners : run'[w] = run[w]
        /\ (Adding(j)' <=> Adding(j)) /\ (Runs(j)' <=> Runs(j))
    BY <1>1, SameHands
  <2>3. HasPlace(j)' /\ j \in Queued' /\ (Present(vault, j)' <=> Present(vault, j))
    BY <1>4, <1>7 DEF HasPlace, Present
  <2> QED BY <1>1, <2>1, <2>2, <2>3 DEF Chained
<1>8. \A j \in Jobs \ (Repeating \cup disturbed') : Settled(j)'
    BY <1>1, <1>5, <1>6, SettledSame DEF AdminInv
<1>9. \A j \in Repeating \ disturbed' : Chained(j)'
    BY <1>1, <1>5, <1>7, ChainedSame, AdminAssumption DEF AdminInv
<1>10. Empty' /\ ~unchecked' => Empty /\ ~unchecked
    BY <1>1, <1>2, <1>3, <1>4, NoEmptier
<1> QED BY <1>1, <1>2, <1>3, <1>8, <1>9, <1>10, StoreAlone DEF AdminTypes

LEMMA RecoverSame ==
    ASSUME StoreTypeOK, RecoverScript
    PROVE  /\ Queued' = Queued \cup StalledBack
           /\ \A j \in Jobs : j \notin StalledBack => (ListedOnce(j) => ListedOnce(j)')
           /\ \A j \in Jobs \ expired : SameIn(j)
<1>1. QueueType /\ StalledBack \in SUBSET Jobs /\ Enqueue(StalledBack) /\ StalledBack \subseteq expired
      /\ StalledDead \subseteq expired
    BY DEF StoreTypeOK, QueueType, StalledBack, StalledDead, RecoverScript
<1>2. Queued' = Queued \cup StalledBack
    BY <1>1, EnqueueType
<1>3. \A j \in Jobs : j \notin StalledBack => (ListedOnce(j) => ListedOnce(j)')
    BY <1>1, EnqueueOnce
<1>4. \A j \in Jobs \ expired : vault'[j] = vault[j]
    BY <1>1 DEF RecoverScript
<1> QED BY <1>1, <1>2, <1>3, <1>4 DEF RecoverScript, SameIn

\* A stalled job goes back or dies.
LEMMA Stalls ==
    ASSUME StoreTypeOK, RecoverScript, NEW j \in expired, Present(vault, j)
    PROVE  /\ Present(vault', j) /\ j \in Jobs /\ j \in active /\ j \notin active'
           /\ \/ /\ j \in StalledBack /\ j \notin StalledDead /\ vault'[j].status = "waiting"
                 /\ (j \in dlq' <=> j \in dlq) /\ (j \in failed' <=> j \in failed)
              \/ /\ j \in StalledDead /\ j \notin StalledBack /\ vault'[j].status = "dead"
                 /\ j \in dlq' /\ j \in failed'
<1>1. j \in Jobs /\ j \in active /\ vault[j] \in JobRec
    BY DEF StoreTypeOK, Present
<1>2. vault[j].attempts \in Nat /\ MaxRetries[j] \in Nat
    BY <1>1, OptionsAssumption DEF JobRec
<1>3. \/ j \in StalledBack /\ j \notin StalledDead
      \/ j \in StalledDead /\ j \notin StalledBack
    BY <1>2 DEF StalledBack, StalledDead
<1>4. \A st \in {"dead", "waiting"} : [vault[j] EXCEPT !.status = st].status = st
    BY <1>1 DEF JobRec
<1>5. Present(vault', j)
    BY <1>1, RecoverKeeps
<1> QED BY <1>1, <1>3, <1>4, <1>5 DEF RecoverScript

LEMMA RecoverAdmin ==
    ASSUME AdminInv, Recover
    PROVE  AdminInv'
<1>1. /\ RecoverScript /\ UNCHANGED <<calls, faults>> /\ Unseen
      /\ UNCHANGED <<adminVars, clashed>> /\ UNCHANGED <<run, op>>
      /\ UNCHANGED <<repeatable, swept, underRun>>
      /\ disturbed' = disturbed \cup {j \in expired : Runs(j)}
    BY DEF Recover, adminVars
<1>2. AdminTypes /\ StoreTypeOK /\ expired \subseteq active /\ expired \subseteq Jobs
    BY OfStore DEF AdminInv, StoreTypeOK
<1>3. StoreTypeOK'
    BY <1>1, <1>2, RecoverKeeps
<1>4. /\ Queued' = Queued \cup StalledBack /\ UNCHANGED <<delayed, completed>>
    BY <1>1, <1>2, RecoverSame DEF RecoverScript
<1>5. ASSUME NEW j \in Jobs \ expired PROVE SameIn(j) /\ SameBy(j)
    BY <1>1, <1>2, <1>5, RecoverSame, SameHands DEF SameBy
<1>6. ASSUME NEW j \in expired, j \in Jobs \ (Repeating \cup disturbed') PROVE Settled(j)'
  <2>1. Settled(j) /\ ~Runs(j)
    BY <1>1, <1>6 DEF AdminInv
  <2>2. /\ j \notin Queued \cup delayed \cup completed \cup failed /\ ~OnMove(j)
        /\ Present(vault, j)
    BY <2>1, <1>2, <1>6 DEF Settled
  <2>3. ListedOnce(j)'
    <3>1. QueueType /\ StalledBack \in SUBSET Jobs /\ Enqueue(StalledBack)
      BY <1>1, <1>2 DEF StoreTypeOK, QueueType, StalledBack, RecoverScript
    <3> QED BY <3>1, <2>1, <2>2, EnqueueOnce DEF Settled
  <2>4. (OnMove(j)' <=> OnMove(j)) /\ (Runs(j)' <=> Runs(j)) /\ OneMoves(j)'
    BY <1>1, <2>1, SameHands DEF Settled
  <2>5. j \in dlq => j \in failed
    BY <2>1, <2>2 DEF Settled
  <2> QED BY <1>1, <1>2, <1>4, <1>6, <2>1, <2>2, <2>3, <2>4, <2>5, Stalls DEF Settled
<1>7. ASSUME NEW j \in expired, j \in Repeating \ disturbed' PROVE Chained(j)'
  <2>1. Chained(j) /\ ~Runs(j) /\ j \in Jobs
    BY <1>1, <1>2, <1>7 DEF AdminInv
  <2>2. /\ \A w \in Runners : run'[w] = run[w]
        /\ (Adding(j)' <=> Adding(j)) /\ (Runs(j)' <=> Runs(j))
    BY <1>1, SameHands
  <2>3. CASE Present(vault, j)
    <3>1. HasPlace(j)' /\ Present(vault, j)'
      BY <1>1, <1>2, <1>4, <1>7, <2>3, Stalls DEF HasPlace
    <3> QED BY <1>1, <2>1, <2>2, <2>3, <3>1 DEF Chained, Runs
  <2>4. CASE ~Present(vault, j)
    <3>1. ~Present(vault', j)
      BY <1>1, <1>2, <2>1, <2>4 DEF RecoverScript, Present, StalledBack, StalledDead
    <3> QED BY <1>1, <2>1, <2>2, <2>4, <3>1 DEF Chained, Runs
  <2> QED BY <2>3, <2>4
<1>8. \A j \in Jobs \ (Repeating \cup disturbed') : Settled(j)'
    BY <1>1, <1>5, <1>6, SettledSame DEF AdminInv
<1>9. \A j \in Repeating \ disturbed' : Chained(j)'
    BY <1>1, <1>2, <1>5, <1>7, ChainedSame, AdminAssumption DEF AdminInv
<1>10. /\ Empty' /\ ~unchecked' => Empty /\ ~unchecked
       /\ unchecked' \in BOOLEAN
    BY <1>1, <1>2, UnseenIs DEF Unseen, AdminTypes
<1> QED BY <1>1, <1>2, <1>3, <1>8, <1>9, <1>10, StoreAlone DEF AdminTypes

-----------------------------------------------------------------------------
(***************************************************************************)
(* Operators: what one of them takes in hand, the others have not.         *)
(***************************************************************************)
LEMMA OneOp ==
    ASSUME AdminTypes, NEW a \in Admins, NEW o \in OpRec, op' = [op EXCEPT ![a] = o]
    PROVE  /\ op' \in [Admins -> OpRec] /\ op'[a] = o
           /\ \A b \in Admins \ {a} : op'[b] = op[b]
BY DEF AdminTypes

LEMMA HandsThen ==
    ASSUME AdminTypes, NEW a \in Admins, NEW o \in OpRec, op' = [op EXCEPT ![a] = o], NEW j
    PROVE  /\ (Moves(o, j) <=> Moves(op[a], j)) => (OnMove(j)' <=> OnMove(j))
           /\ (Adds(o, j) <=> Adds(op[a], j)) => (Adding(j)' <=> Adding(j))
           /\ Moves(o, j) => OnMove(j)'
           /\ Adds(o, j) => Adding(j)'
           /\ OnMove(j)' => OnMove(j) \/ Moves(o, j)
           /\ OneMoves(j) /\ Moves(op[a], j) /\ ~Moves(o, j) => ~OnMove(j)'
           /\ OneMoves(j) /\ (Moves(o, j) => Moves(op[a], j) \/ ~OnMove(j)) => OneMoves(j)'
           /\ Adding(j)' => Adding(j) \/ Adds(o, j)
<1>1. op'[a] = o /\ \A b \in Admins \ {a} : op'[b] = op[b]
    BY OneOp
<1>2. OnMove(j) <=> \E b \in Admins : Moves(op[b], j)
    BY DEF OnMove
<1>3. OnMove(j)' <=> \E b \in Admins : Moves(op'[b], j)
    BY DEF OnMove, Moves
<1>6. OneMoves(j) <=> \A b, c \in Admins : Moves(op[b], j) /\ Moves(op[c], j) => b = c
    BY DEF OneMoves
<1>7. OneMoves(j)' <=> \A b, c \in Admins : Moves(op'[b], j) /\ Moves(op'[c], j) => b = c
    BY DEF OneMoves, Moves
<1>4. \A k : Adding(k) <=> \E b \in Admins : Adds(op[b], k)
    BY DEF Adding, Adds
<1>5. Adding(j)' <=> \E b \in Admins : Adds(op'[b], j)
    BY DEF Adding, Adds
<1> QED BY <1>1, <1>2, <1>3, <1>4, <1>5, <1>6, <1>7

LEMMA RestingIs == Resting \in OpRec /\ Resting.kind = "none" /\ Resting.jobs = {}
BY DEF Resting, Doing, OpRec

LEMMA OpFitsThen ==
    ASSUME AdminInv, NEW a \in Admins, NEW o \in OpRec, op' = [op EXCEPT ![a] = o], OpFits(a)'
    PROVE  \A b \in Admins : OpFits(b)'
<1>1. \A b \in Admins \ {a} : op'[b] = op[b]
    BY OneOp DEF AdminInv
<1> QED BY <1>1 DEF AdminInv, OpFits

\* A step of an operator who is not at the toggle.
LEMMA OperatorAlone ==
    ASSUME AdminInv, NEW a \in Admins, NEW o \in OpRec, op' = [op EXCEPT ![a] = o],
           op[a].kind # "toggle", o.kind # "toggle", OpFits(a)',
           UNCHANGED <<run, paused, muted, check, told, clashed>>, repeatable' \subseteq Repeating,
           StoreTypeOK', Call \/ Fault \/ UNCHANGED <<calls, faults>>,
           disturbed' \subseteq Jobs, swept' \subseteq Jobs, underRun' \subseteq Jobs,
           unchecked' \in BOOLEAN, Empty' /\ ~unchecked' => Empty /\ ~unchecked,
           \A j \in Jobs \ (Repeating \cup disturbed') : Settled(j)',
           \A j \in Repeating \ disturbed' : Chained(j)'
    PROVE  AdminInv'
<1>1. /\ op' \in [Admins -> OpRec] /\ op'[a] = o
      /\ \A b \in Admins \ {a} : op'[b] = op[b]
    BY OneOp DEF AdminInv
<1>2. \A b \in Admins : OpFits(b)'
    BY OpFitsThen
<1>3. \A w \in Runners : RunFits(w)'
    BY DEF AdminInv, RunFits
<1>4. AdminTypes'
    BY <1>1, Bounds DEF AdminInv, AdminTypes
<1>5. TogglesFit'
    BY <1>1, TogglesSame DEF AdminInv, Toggling
<1>6. ChecksFit'
    BY ChecksSame DEF AdminInv
<1> QED BY <1>2, <1>3, <1>4, <1>5, <1>6 DEF AdminInv

LEMMA SameByOps ==
    ASSUME AdminTypes, NEW a \in Admins, NEW o \in OpRec, op' = [op EXCEPT ![a] = o], UNCHANGED run,
           NEW j, Moves(o, j) <=> Moves(op[a], j), Adds(o, j) <=> Adds(op[a], j),
           j \in repeatable' <=> j \in repeatable,
           j \in swept => j \in swept', j \in underRun => j \in underRun'
    PROVE  SameBy(j)
BY HandsThen DEF SameBy

LEMMA AddRepeatKeeps ==
    ASSUME AdminInv, NEW a \in Admins, NEW k \in Jobs, AddRepeat(a, k)
    PROVE  AdminInv'
<1> DEFINE o == Doing("repeat", "sadd", {k}, Absent)
<1>1. /\ Call /\ k \in Repeating /\ op[a] = Resting /\ AddDelayedScript(k)
      /\ op' = [op EXCEPT ![a] = o]
      /\ swept' = swept \ {k} /\ underRun' = IF Adding(k) THEN underRun ELSE underRun \ {k}
      /\ disturbed' = disturbed \cup (dlq \cap {k})
      /\ UNCHANGED <<run, repeatable, paused, muted, check, told, clashed, unchecked>>
    BY DEF AddRepeat, checkVars
<1>2. AdminTypes /\ StoreTypeOK /\ QueueType /\ Queued \subseteq Jobs
    BY OfStore DEF AdminInv
<1>3. /\ o = [kind |-> "repeat", at |-> "sadd", jobs |-> {k}, rec |-> Absent, flag |-> FALSE]
      /\ o \in OpRec
    BY DEF Doing, OpRec
<1> HIDE DEF o
<1>4. StoreTypeOK' /\ Present(vault', k) /\ ~Present(vault, k)
    BY <1>1, <1>2, AddDelayedKeeps DEF AddDelayedScript
<1>5. /\ delayed' = delayed \cup {k} /\ Queued' = Queued /\ active' = active
    BY <1>1 DEF AddDelayedScript, Queued
<1>6. \A j : j # k => (Moves(o, j) <=> Moves(op[a], j)) /\ (Adds(o, j) <=> Adds(op[a], j))
    BY <1>1, <1>3, RestingIs DEF Moves, Adds
<1>7. ASSUME NEW j \in Jobs \ {k} PROVE SameIn(j) /\ SameBy(j)
  <2>1. (Moves(o, j) <=> Moves(op[a], j)) /\ (Adds(o, j) <=> Adds(op[a], j))
    BY <1>6, <1>7
  <2>2. SameBy(j)
    BY <1>1, <1>2, <1>3, <2>1, SameByOps
  <2> QED BY <1>1, <1>2, <1>7, <2>2, AddSame
<1>8. ASSUME k \notin disturbed' PROVE Chained(k)'
  <2>1. Chained(k)
    BY <1>1, <1>8 DEF AdminInv
  <2>2. Adding(k)'
    BY <1>1, <1>2, <1>3, HandsThen DEF Adds
  <2>3. HasPlace(k)' /\ k \in delayed'
    BY <1>5 DEF HasPlace
  <2> QED BY <1>1, <1>4, <1>5, <2>1, <2>2, <2>3 DEF Chained
<1>9. OpFits(a)'
    BY <1>1, <1>2, <1>3, OneOp DEF OpFits
<1>10. \A j \in Jobs \ (Repeating \cup disturbed') : Settled(j)'
    BY <1>1, <1>7, SettledSame DEF AdminInv
<1>11. \A j \in Repeating \ disturbed' : Chained(j)'
    BY <1>1, <1>7, <1>8, ChainedSame, AdminAssumption DEF AdminInv
<1>12. Empty' /\ ~unchecked' => Empty /\ ~unchecked
    BY <1>1, <1>2, <1>4, <1>5, NoEmptier
<1>13. op[a].kind # "toggle" /\ o.kind # "toggle"
    BY <1>1, <1>3, RestingIs
<1>14. repeatable' \subseteq Repeating /\ disturbed' \subseteq Jobs /\ swept' \subseteq Jobs /\ underRun' \subseteq Jobs
    BY <1>1, <1>2 DEF AdminTypes
<1>15. unchecked' \in BOOLEAN
    BY <1>1, <1>2 DEF AdminTypes
<1> QED BY <1>1, <1>3, <1>4, <1>9, <1>10, <1>11, <1>12, <1>13, <1>14, <1>15, OperatorAlone

LEMMA IndexRepeatKeeps ==
    ASSUME AdminInv, NEW a \in Admins, NEW k \in Jobs, IndexRepeat(a, k)
    PROVE  AdminInv'
<1>1. /\ op[a].kind = "repeat" /\ k \in op[a].jobs
      /\ repeatable' = repeatable \cup {k} /\ op' = [op EXCEPT ![a] = Resting]
      /\ UNCHANGED <<storeVars, calls, faults, unchecked>>
      /\ UNCHANGED <<disturbed, swept, underRun>>
      /\ UNCHANGED <<run, paused, muted, check, told, clashed>>
    BY DEF IndexRepeat, checkVars, history
<1>2. AdminTypes /\ StoreTypeOK /\ OpFits(a)
    BY OfStore DEF AdminInv
<1>3. op[a].jobs = {k} /\ k \in Repeating
    BY <1>1, <1>2 DEF OpFits
<1>4. StoreTypeOK' /\ Queued' = Queued /\ active' = active
    BY <1>1, <1>2 DEF StoreTypeOK, storeVars, Queued
<1>5. \A j \in Jobs : SameIn(j)
    BY <1>1 DEF storeVars, SameIn, Queued, ListedOnce
<1>6. ASSUME NEW j \in Jobs \ {k} PROVE SameBy(j)
    BY <1>1, <1>2, <1>3, RestingIs, SameByOps DEF Moves, Adds
<1>7. ASSUME k \notin disturbed PROVE Chained(k)'
  <2>1. Chained(k) /\ Adding(k)
    BY <1>1, <1>3, <1>7 DEF AdminInv, Adding
  <2>2. (Present(vault, k)' <=> Present(vault, k)) /\ (HasPlace(k)' <=> HasPlace(k))
    BY <1>1, <1>4 DEF HasPlace, Present, storeVars
  <2> QED BY <1>1, <1>4, <2>1, <2>2 DEF Chained, Runs, storeVars
<1>8. OpFits(a)'
    BY <1>1, <1>2, RestingIs, OneOp DEF OpFits
<1>9. \A j \in Jobs \ (Repeating \cup disturbed') : Settled(j)'
    BY <1>1, <1>3, <1>5, <1>6, SettledSame DEF AdminInv
<1>10. \A j \in Repeating \ disturbed' : Chained(j)'
    BY <1>1, <1>5, <1>6, <1>7, ChainedSame, AdminAssumption DEF AdminInv
<1>11. Empty' /\ ~unchecked' => Empty /\ ~unchecked
    BY <1>1, <1>2, <1>4, NoEmptier
<1> QED BY <1>1, <1>2, <1>3, <1>4, <1>8, <1>9, <1>10, <1>11, RestingIs, OperatorAlone DEF AdminTypes

\* An operator only looks, or stops.
LEMMA OpOnly ==
    ASSUME AdminInv, NEW a \in Admins, NEW o \in OpRec, op' = [op EXCEPT ![a] = o],
           op[a].kind # "toggle", o.kind # "toggle", OpFits(a)',
           UNCHANGED <<run, paused, muted, check, told, clashed, unchecked, repeatable, swept>>,
           UNCHANGED storeVars, Call \/ Fault \/ UNCHANGED <<calls, faults>>,
           disturbed \subseteq disturbed', disturbed' \subseteq Jobs,
           underRun \subseteq underRun', underRun' \subseteq Jobs,
           \A j \in Jobs \ (Repeating \cup disturbed') : Moves(o, j) <=> Moves(op[a], j),
           \A j \in Repeating : (Moves(o, j) <=> Moves(op[a], j)) /\ (Adds(o, j) => Adds(op[a], j)),
           \A j \in Repeating : Adds(op[a], j) /\ ~Adds(o, j) => j \in underRun'
    PROVE  AdminInv'
<1>1. AdminTypes /\ StoreTypeOK
    BY DEF AdminInv, AdminTypes
<1>2. StoreTypeOK' /\ Queued' = Queued /\ active' = active
    BY <1>1 DEF StoreTypeOK, storeVars, Queued
<1>3. ASSUME NEW j \in Jobs PROVE SameIn(j)
    BY <1>2 DEF storeVars, SameIn, ListedOnce
<1>4. Empty' /\ ~unchecked' => Empty /\ ~unchecked
    BY <1>1, <1>2, NoEmptier
<1>5. ASSUME NEW j \in Jobs \ (Repeating \cup disturbed') PROVE Settled(j)'
  <2>1. Settled(j) /\ (Moves(o, j) <=> Moves(op[a], j))
    BY <1>5 DEF AdminInv
  <2>2. (OnMove(j)' <=> OnMove(j)) /\ OneMoves(j)'
    BY <1>1, <2>1, HandsThen DEF Settled
  <2>3. (Runs(j)' <=> Runs(j)) /\ (Present(vault, j)' <=> Present(vault, j))
    BY DEF Runs, Present, storeVars
  <2> QED BY <1>3, <2>1, <2>2, <2>3 DEF Settled, SameIn
<1>6. ASSUME NEW j \in Repeating \ disturbed' PROVE Chained(j)'
  <2>1. Chained(j) /\ j \in Jobs
    BY <1>6, AdminAssumption DEF AdminInv
  <2>2. Adding(j)' => Adding(j)
    BY <1>1, <1>6, HandsThen
  <2>3. j \notin underRun' => (Adding(j)' <=> Adding(j))
    BY <1>1, <1>6, HandsThen
  <2>4. /\ Runs(j)' <=> Runs(j)
        /\ Present(vault, j)' <=> Present(vault, j)
        /\ HasPlace(j)' <=> HasPlace(j)
    BY <1>3, <2>1 DEF Runs, Present, storeVars, HasPlace, SameIn
  <2> QED BY <1>2, <2>1, <2>2, <2>3, <2>4 DEF Chained, storeVars
<1> QED BY <1>1, <1>2, <1>4, <1>5, <1>6, OperatorAlone DEF AdminTypes

LEMMA RestingFits ==
    ASSUME AdminTypes, NEW a \in Admins, op' = [op EXCEPT ![a] = Resting]
    PROVE  OpFits(a)'
BY RestingIs, OneOp DEF OpFits

LEMMA LooksKeep ==
    ASSUME AdminInv, NEW a \in Admins, NEW k \in Jobs,
           DelayStarts(a, k) \/ DelayLooks(a, k) \/ ZombieScans(a, k) \/ ZombieReads(a, k)
    PROVE  AdminInv'
<1>1. AdminTypes /\ OpFits(a) /\ VaultType(vault)
    BY OfStore DEF AdminInv
<1>2. /\ Call \/ UNCHANGED <<calls, faults>>
      /\ UNCHANGED <<run, paused, muted, check, told, clashed, unchecked, repeatable, swept>>
      /\ UNCHANGED <<disturbed, underRun>> /\ UNCHANGED storeVars
    BY DEF DelayStarts, DelayLooks, ZombieScans, ZombieReads, history, checkVars
<1>3. \E o \in OpRec : /\ op' = [op EXCEPT ![a] = o] /\ op[a].kind # "toggle" /\ o.kind # "toggle"
                       /\ \A j : (Moves(o, j) <=> Moves(op[a], j)) /\ (Adds(o, j) <=> Adds(op[a], j))
                       /\ OpFits(a)'
  <2>1. CASE DelayStarts(a, k)
    <3>1. PICK o : o = Doing("delay", "zscore", {k}, vault[k])
      OBVIOUS
    <3>2. /\ o = [kind |-> "delay", at |-> "zscore", jobs |-> {k}, rec |-> vault[k], flag |-> FALSE]
          /\ vault[k] \in JobRec /\ k \notin Repeating /\ op[a] = Resting
          /\ op' = [op EXCEPT ![a] = o]
      BY <1>1, <2>1, <3>1 DEF DelayStarts, Doing, Present, VaultType
    <3>3. o \in OpRec
      BY <3>2 DEF OpRec
    <3>4. OpFits(a)'
      BY <1>1, <3>2, <3>3, OneOp DEF OpFits
    <3> QED BY <3>2, <3>3, <3>4, RestingIs DEF Moves, Adds
  <2>2. CASE DelayLooks(a, k)
    <3>1. op[a].kind = "delay" /\ k \in op[a].jobs
      BY <2>2 DEF DelayLooks
    <3>2. op[a] \in OpRec /\ op[a].jobs = {k} /\ k \notin Repeating /\ op[a].rec \in JobRec
      BY <1>1, <3>1 DEF OpFits, AdminTypes
    <3>3. CASE op[a].at = "zscore"
      <4>1. PICK o : o = [Doing("delay", "lpos", {k}, op[a].rec) EXCEPT !.flag = k \in delayed]
        OBVIOUS
      <4>2. o = [kind |-> "delay", at |-> "lpos", jobs |-> {k}, rec |-> op[a].rec, flag |-> k \in delayed]
        BY <4>1 DEF Doing
      <4>5. op' = [op EXCEPT ![a] = o]
        BY <2>2, <3>3, <4>1 DEF DelayLooks
      <4>6. (k \in delayed) \in BOOLEAN
        OBVIOUS
      <4>3. op' = [op EXCEPT ![a] = o] /\ o \in OpRec
        BY <3>2, <4>2, <4>5, <4>6 DEF OpRec
      <4>4. OpFits(a)'
        BY <1>1, <3>2, <4>2, <4>3, OneOp DEF OpFits
      <4> QED BY <3>1, <3>2, <3>3, <4>2, <4>3, <4>4 DEF Moves, Adds
    <3>4. CASE op[a].at = "lpos" /\ (op[a].flag \/ k \in ToSet(waiting))
      <4>1. PICK p \in {"zadd", "lrem"} : /\ p = IF op[a].flag THEN "zadd" ELSE "lrem"
                                          /\ op' = [op EXCEPT ![a] = [op[a] EXCEPT !.at = p]]
        BY <2>2, <3>4 DEF DelayLooks
      <4>2. PICK o : o = [op[a] EXCEPT !.at = p]
        OBVIOUS
      <4>3. /\ o.kind = "delay" /\ o.at = p /\ o.jobs = {k} /\ o.rec = op[a].rec /\ o.flag = op[a].flag
            /\ o \in OpRec
        BY <3>1, <3>2, <4>2 DEF OpRec
      <4>4. OpFits(a)'
        BY <1>1, <3>2, <4>1, <4>2, <4>3, OneOp DEF OpFits
      <4> QED BY <3>1, <3>2, <3>4, <4>1, <4>2, <4>3, <4>4 DEF Moves, Adds
    <3>5. CASE op[a].at = "lpos" /\ ~op[a].flag /\ k \notin ToSet(waiting)
      <4>1. op' = [op EXCEPT ![a] = Resting]
        BY <2>2, <3>5 DEF DelayLooks
      <4> QED BY <1>1, <3>1, <3>5, <4>1, RestingIs, RestingFits DEF Moves, Adds
    <3> QED BY <2>2, <3>3, <3>4, <3>5 DEF DelayLooks
  <2>3. CASE ZombieScans(a, k)
    <3>1. PICK o : o = Doing("zombie", "hget", {k}, Absent)
      OBVIOUS
    <3>2. /\ o = [kind |-> "zombie", at |-> "hget", jobs |-> {k}, rec |-> Absent, flag |-> FALSE]
          /\ op[a] = Resting /\ op' = [op EXCEPT ![a] = o]
      BY <2>3, <3>1 DEF ZombieScans, Doing
    <3>3. o \in OpRec
      BY <3>2 DEF OpRec
    <3>4. OpFits(a)'
      BY <1>1, <3>2, <3>3, OneOp DEF OpFits
    <3> QED BY <3>2, <3>3, <3>4, RestingIs DEF Moves, Adds
  <2>4. CASE ZombieReads(a, k)
    <3>1. PICK p \in {"bury", "ghost"} : p = IF Present(vault, k) THEN "bury" ELSE "ghost"
      OBVIOUS
    <3>2. PICK o : o = Doing("zombie", p, {k}, vault[k])
      OBVIOUS
    <3>3. /\ o = [kind |-> "zombie", at |-> p, jobs |-> {k}, rec |-> vault[k], flag |-> FALSE]
          /\ op[a].kind = "zombie" /\ op' = [op EXCEPT ![a] = o]
      BY <2>4, <3>1, <3>2 DEF ZombieReads, Doing
    <3>4. o \in OpRec
      BY <1>1, <3>1, <3>3 DEF OpRec, VaultType
    <3>5. OpFits(a)'
      BY <1>1, <3>1, <3>3, <3>4, OneOp DEF OpFits, Present, VaultType
    <3> QED BY <3>3, <3>4, <3>5 DEF Moves, Adds
  <2> QED BY <2>1, <2>2, <2>3, <2>4
<1> QED BY <1>1, <1>2, <1>3, OpOnly DEF AdminTypes

LEMMA LRemSame ==
    ASSUME QueueType, NEW e, waiting' \in LRem(waiting, e), UNCHANGED prioritized
    PROVE  /\ QueueType' /\ (e \in Queued' <=> e \in prioritized)
           /\ \A j : j # e => (j \in Queued' <=> j \in Queued)
           /\ \A j : ListedOnce(j) => ListedOnce(j)'
<1>1. /\ waiting' \in Seq(Jobs) /\ ToSet(waiting') = ToSet(waiting) \ {e}
      /\ \A j : OnceIn(waiting, j) => OnceIn(waiting', j)
    BY LRemType DEF QueueType
<1> QED BY <1>1 DEF QueueType, Queued, ListedOnce

\* The three commands of changeDelay.
LEMMA DelayRemovesKeeps ==
    ASSUME AdminInv, NEW a \in Admins, NEW k \in Jobs, DelayRemoves(a, k)
    PROVE  AdminInv'
<1>1. /\ op[a].kind = "delay" /\ op[a].at = "lrem" /\ k \in op[a].jobs
      /\ waiting' \in LRem(waiting, k) /\ op' = [op EXCEPT ![a].at = "zadd"] /\ Unseen
      /\ disturbed' = IF k \in ToSet(waiting) THEN disturbed ELSE disturbed \cup {k}
      /\ UNCHANGED <<vault, prioritized, active, expired, delayed, due, completed, failed, dlq>>
      /\ UNCHANGED <<repeatable, run, paused, muted, check, told, calls, faults>>
      /\ UNCHANGED <<swept, underRun, clashed>>
    BY DEF DelayRemoves, checkVars
<1>2. AdminTypes /\ StoreTypeOK /\ QueueType /\ OpFits(a)
    BY OfStore DEF AdminInv
<1>3. /\ op[a] \in OpRec /\ op[a].jobs = {k} /\ k \notin Repeating /\ op[a].rec \in JobRec
      /\ ~op[a].flag
    BY <1>1, <1>2 DEF OpFits, AdminTypes
<1>4. PICK o \in OpRec : /\ o.kind = "delay" /\ o.at = "zadd" /\ o.jobs = {k} /\ o.rec = op[a].rec
                         /\ ~o.flag /\ op' = [op EXCEPT ![a] = o]
    BY <1>1, <1>2, <1>3 DEF OpRec, AdminTypes
<1>5. /\ QueueType' /\ (k \in Queued' <=> k \in prioritized)
      /\ \A j : j # k => (j \in Queued' <=> j \in Queued)
      /\ \A j : ListedOnce(j) => ListedOnce(j)'
    BY <1>1, <1>2, LRemSame
<1>6. StoreTypeOK'
  <2>1. waiting' \in Seq(Jobs)
    BY <1>5 DEF QueueType
  <2> QED BY <1>1, <1>2, <2>1 DEF StoreTypeOK
<1>7. OpFits(a)'
    BY <1>2, <1>3, <1>4, OneOp DEF OpFits
<1>8. ASSUME NEW j \in Jobs \ {k} PROVE SameIn(j) /\ SameBy(j)
  <2>1. (Moves(o, j) <=> Moves(op[a], j)) /\ (Adds(o, j) <=> Adds(op[a], j))
    BY <1>1, <1>3, <1>4, <1>8 DEF Moves, Adds
  <2>2. SameBy(j)
    BY <1>1, <1>2, <1>4, <2>1, SameByOps
  <2> QED BY <1>1, <1>5, <1>8, <2>2 DEF SameIn
<1>9. ASSUME k \notin disturbed' PROVE Settled(k)'
  <2>1. Settled(k) /\ k \in ToSet(waiting)
    BY <1>1, <1>3, <1>9 DEF AdminInv
  <2>2. k \in Queued /\ k \notin prioritized
    BY <2>1 DEF Settled, ListedOnce, Queued
  <2>3. k \notin Queued' /\ OnMove(k)' /\ OneMoves(k)'
    <3>1. Moves(o, k) /\ ~OnMove(k) /\ OneMoves(k)
      BY <1>4, <2>1, <2>2 DEF Settled, Moves
    <3>2. k \notin Queued'
      BY <1>5, <2>2
    <3>3. OnMove(k)' /\ OneMoves(k)'
      BY <1>2, <1>4, <3>1, HandsThen
    <3> QED BY <3>2, <3>3
  <2>4. (Runs(k)' <=> Runs(k)) /\ (Present(vault, k)' <=> Present(vault, k))
    BY <1>1 DEF Runs, Present
  <2> QED BY <1>1, <1>5, <2>1, <2>2, <2>3, <2>4 DEF Settled
<1>10. \A j \in Jobs \ (Repeating \cup disturbed') : Settled(j)'
    BY <1>1, <1>8, <1>9, SettledSame DEF AdminInv
<1>11. \A j \in Repeating \ disturbed' : Chained(j)'
    BY <1>1, <1>3, <1>8, ChainedSame, AdminAssumption DEF AdminInv
<1>12. /\ Empty' /\ ~unchecked' => Empty /\ ~unchecked
       /\ unchecked' \in BOOLEAN
    BY <1>1, <1>2, UnseenIs DEF Unseen, AdminTypes
<1>13. /\ repeatable' \subseteq Repeating /\ disturbed' \subseteq Jobs /\ swept' \subseteq Jobs
       /\ underRun' \subseteq Jobs
    BY <1>1, <1>2 DEF AdminTypes
<1> QED BY <1>1, <1>4, <1>6, <1>7, <1>10, <1>11, <1>12, <1>13, OperatorAlone

LEMMA DelayMovesKeeps ==
    ASSUME AdminInv, NEW a \in Admins, NEW k \in Jobs, DelayMoves(a, k)
    PROVE  AdminInv'
<1>1. /\ op[a].kind = "delay" /\ op[a].at = "zadd" /\ k \in op[a].jobs
      /\ delayed' = delayed \cup {k} /\ due' = due \ {k} /\ op' = [op EXCEPT ![a].at = "hset"]
      /\ disturbed' = IF op[a].flag /\ k \notin delayed THEN disturbed \cup {k} ELSE disturbed
      /\ UNCHANGED <<vault, waiting, prioritized, active, expired, completed, failed, dlq>>
      /\ UNCHANGED <<repeatable, run, paused, muted, check, told, calls, faults>>
      /\ UNCHANGED <<swept, underRun, clashed, unchecked>>
    BY DEF DelayMoves, checkVars
<1>2. AdminTypes /\ StoreTypeOK /\ QueueType /\ OpFits(a)
    BY OfStore DEF AdminInv
<1>3. op[a] \in OpRec /\ op[a].jobs = {k} /\ k \notin Repeating /\ op[a].rec \in JobRec
    BY <1>1, <1>2 DEF OpFits, AdminTypes
<1>4. PICK o \in OpRec : /\ o.kind = "delay" /\ o.at = "hset" /\ o.jobs = {k} /\ o.rec = op[a].rec
                         /\ op' = [op EXCEPT ![a] = o]
    BY <1>1, <1>2, <1>3 DEF OpRec, AdminTypes
<1>5. StoreTypeOK' /\ Queued' = Queued
    BY <1>1, <1>2 DEF StoreTypeOK, Queued
<1>6. OpFits(a)'
    BY <1>2, <1>3, <1>4, OneOp DEF OpFits
<1>7. ASSUME NEW j \in Jobs \ {k} PROVE SameIn(j) /\ SameBy(j)
  <2>1. (Moves(o, j) <=> Moves(op[a], j)) /\ (Adds(o, j) <=> Adds(op[a], j))
    BY <1>1, <1>3, <1>4, <1>7 DEF Moves, Adds
  <2>2. SameBy(j)
    BY <1>1, <1>2, <1>4, <2>1, SameByOps
  <2> QED BY <1>1, <1>5, <1>7, <2>2 DEF SameIn, ListedOnce
<1>8. ASSUME k \notin disturbed' PROVE Settled(k)'
  <2>1. Settled(k) /\ (Moves(op[a], k) \/ k \in delayed)
    BY <1>1, <1>3, <1>8 DEF AdminInv, Moves
  <2>2. (OnMove(k) \/ k \in delayed) /\ ~Moves(o, k)
    BY <1>4, <2>1 DEF OnMove, Moves
  <2>3. ~OnMove(k)' /\ OneMoves(k)'
    <3>1. k \in delayed => ~OnMove(k)
      BY <2>1 DEF Settled
    <3> QED BY <1>2, <1>4, <2>1, <2>2, <3>1, HandsThen DEF Settled
  <2>4. (Runs(k)' <=> Runs(k)) /\ (Present(vault, k)' <=> Present(vault, k)) /\ (ListedOnce(k) => ListedOnce(k)')
    BY <1>1 DEF Runs, Present, ListedOnce
  <2> QED BY <1>1, <1>5, <2>1, <2>2, <2>3, <2>4 DEF Settled
<1>9. \A j \in Jobs \ (Repeating \cup disturbed') : Settled(j)'
    BY <1>1, <1>7, <1>8, SettledSame DEF AdminInv
<1>10. \A j \in Repeating \ disturbed' : Chained(j)'
    BY <1>1, <1>3, <1>7, ChainedSame, AdminAssumption DEF AdminInv
<1>11. Empty' /\ ~unchecked' => Empty /\ ~unchecked
    BY <1>1, <1>2, <1>5, NoEmptier
<1>12. /\ repeatable' \subseteq Repeating /\ disturbed' \subseteq Jobs /\ swept' \subseteq Jobs
       /\ underRun' \subseteq Jobs /\ unchecked' \in BOOLEAN
    BY <1>1, <1>2 DEF AdminTypes
<1> QED BY <1>1, <1>4, <1>5, <1>6, <1>9, <1>10, <1>11, <1>12, OperatorAlone

LEMMA DelayWritesKeeps ==
    ASSUME AdminInv, NEW a \in Admins, NEW k \in Jobs, DelayWrites(a, k)
    PROVE  AdminInv'
<1>1. /\ op[a].kind = "delay" /\ op[a].at = "hset" /\ k \in op[a].jobs
      /\ vault' = [vault EXCEPT ![k] = op[a].rec] /\ op' = [op EXCEPT ![a] = Resting]
      /\ disturbed' = IF vault[k] = op[a].rec THEN disturbed ELSE disturbed \cup {k}
      /\ UNCHANGED <<waiting, prioritized, active, expired, delayed, due, completed, failed, dlq>>
      /\ UNCHANGED <<repeatable, run, paused, muted, check, told, calls, faults>>
      /\ UNCHANGED <<swept, underRun, clashed, unchecked>>
    BY DEF DelayWrites, checkVars
<1>2. AdminTypes /\ StoreTypeOK /\ OpFits(a)
    BY OfStore DEF AdminInv
<1>3. op[a] \in OpRec /\ op[a].jobs = {k} /\ k \notin Repeating /\ op[a].rec \in JobRec
    BY <1>1, <1>2 DEF OpFits, AdminTypes
<1>4. StoreTypeOK' /\ Queued' = Queued
    BY <1>1, <1>2, <1>3 DEF StoreTypeOK, Queued
<1>5. OpFits(a)'
    BY <1>1, <1>2, RestingFits
<1>6. ASSUME NEW j \in Jobs, j # k \/ vault[j] = op[a].rec PROVE SameIn(j) /\ SameBy(j)
  <2>1. (Moves(Resting, j) <=> Moves(op[a], j)) /\ (Adds(Resting, j) <=> Adds(op[a], j))
    BY <1>1, RestingIs DEF Moves, Adds
  <2>2. SameBy(j)
    BY <1>1, <1>2, <2>1, SameByOps, RestingIs
  <2>3. vault'[j] = vault[j]
    BY <1>1, <1>2, <1>6 DEF StoreTypeOK
  <2> QED BY <1>1, <1>4, <2>2, <2>3 DEF SameIn, ListedOnce
<1>7. \A j \in Jobs \ (Repeating \cup disturbed') : Settled(j)'
    BY <1>1, <1>6, SettledSame DEF AdminInv
<1>8. \A j \in Repeating \ disturbed' : Chained(j)'
    BY <1>1, <1>3, <1>6, ChainedSame, AdminAssumption DEF AdminInv
<1>9. Empty' /\ ~unchecked' => Empty /\ ~unchecked
    BY <1>1, <1>2, <1>4, NoEmptier
<1>10. /\ repeatable' \subseteq Repeating /\ disturbed' \subseteq Jobs /\ swept' \subseteq Jobs
       /\ underRun' \subseteq Jobs /\ unchecked' \in BOOLEAN
    BY <1>1, <1>2 DEF AdminTypes
<1> QED BY <1>1, <1>4, <1>5, <1>7, <1>8, <1>9, <1>10, RestingIs, OperatorAlone

LEMMA GiveUpKeeps ==
    ASSUME AdminInv, NEW a \in Admins, GiveUp(a)
    PROVE  AdminInv'
<1>1. /\ Fault /\ op[a].kind \in {"delay", "clean", "repeat"} /\ op' = [op EXCEPT ![a] = Resting]
      /\ disturbed' = IF op[a].kind = "delay" /\ op[a].at = "zadd" /\ ~op[a].flag
                      THEN disturbed \cup op[a].jobs ELSE disturbed
      /\ underRun' = IF op[a].kind = "repeat" THEN underRun \cup op[a].jobs ELSE underRun
      /\ UNCHANGED <<run, paused, muted, check, told, clashed, unchecked, repeatable, swept>>
      /\ UNCHANGED storeVars
    BY DEF GiveUp, checkVars
<1>2. AdminTypes /\ OpFits(a) /\ op[a].jobs \subseteq Jobs
    BY DEF AdminInv, AdminTypes, OpRec
<1>3. OpFits(a)'
    BY <1>1, <1>2, RestingFits
<1>4. /\ \A j : ~Moves(Resting, j) /\ ~Adds(Resting, j)
      /\ \A j \in Jobs \ disturbed' : ~Moves(op[a], j)
      /\ \A j : Adds(op[a], j) => j \in underRun'
    BY <1>1, RestingIs DEF Moves, Adds
<1>5. \A j \in Repeating : ~Moves(op[a], j)
    BY <1>2 DEF Moves, OpFits
<1>6. /\ disturbed \subseteq disturbed' /\ disturbed' \subseteq Jobs
      /\ underRun \subseteq underRun' /\ underRun' \subseteq Jobs
    BY <1>1, <1>2 DEF AdminTypes
<1>7. Resting \in OpRec /\ Resting.kind # "toggle" /\ op[a].kind # "toggle"
    BY <1>1, RestingIs
<1> QED BY <1>1, <1>3, <1>4, <1>5, <1>6, <1>7, OpOnly

-----------------------------------------------------------------------------
(***************************************************************************)
(* clean, the zombie watchdog, the removal of a repeatable job, obliterate.*)
(***************************************************************************)
LEMMA CleanReadsKeeps ==
    ASSUME AdminInv, NEW a \in Admins, NEW type \in {"completed", "failed"}, NEW S \in SUBSET Jobs,
           CleanReads(a, type, S)
    PROVE  AdminInv'
<1>1. PICK o : o = Doing("clean", type, S, Absent)
    OBVIOUS
<1>2. /\ Call /\ op[a] = Resting /\ op' = [op EXCEPT ![a] = o]
      /\ UNCHANGED <<run, paused, muted, check, told, clashed, unchecked, repeatable, swept>>
      /\ UNCHANGED <<disturbed, underRun>> /\ UNCHANGED storeVars
    BY <1>1 DEF CleanReads, checkVars, history
<1>3. o = [kind |-> "clean", at |-> type, jobs |-> S, rec |-> Absent, flag |-> FALSE]
    BY <1>1 DEF Doing
<1>4. o \in OpRec /\ op[a].kind # "toggle" /\ o.kind # "toggle"
    BY <1>2, <1>3, RestingIs DEF OpRec
<1>5. AdminTypes
    BY DEF AdminInv
<1>6. OpFits(a)'
    BY <1>2, <1>3, <1>4, <1>5, OneOp DEF OpFits
<1>7. \A j : (Moves(o, j) <=> Moves(op[a], j)) /\ (Adds(o, j) <=> Adds(op[a], j))
    BY <1>2, <1>3, RestingIs DEF Moves, Adds
<1> QED BY <1>2, <1>4, <1>5, <1>6, <1>7, OpOnly DEF AdminTypes

LEMMA CleanDeletesKeeps ==
    ASSUME AdminInv, NEW a \in Admins, CleanDeletes(a)
    PROVE  AdminInv'
<1>1. PICK S : S = op[a].jobs
    OBVIOUS
<1>2. /\ op[a].kind = "clean" /\ vault' = WithoutEntries(vault, S)
      /\ completed' = IF op[a].at = "completed" THEN completed \ S ELSE completed
      /\ failed' = IF op[a].at = "failed" THEN failed \ S ELSE failed
      /\ op' = [op EXCEPT ![a] = Resting] /\ swept' = swept \cup (S \cap Repeating)
      /\ disturbed' = disturbed \cup {j \in S : j \notin Index(op[a].at)}
      /\ UNCHANGED <<waiting, prioritized, active, expired, delayed, due, dlq>>
      /\ UNCHANGED <<repeatable, run, paused, muted, check, told, calls, faults>>
      /\ UNCHANGED <<underRun, clashed, unchecked>>
    BY <1>1 DEF CleanDeletes, checkVars
<1>3. AdminTypes /\ StoreTypeOK /\ OpFits(a) /\ S \subseteq Jobs
    BY <1>1, OfStore DEF AdminInv, AdminTypes, OpRec
<1>4. /\ \A j \in S : vault'[j] = Absent
      /\ \A j \in Jobs \ S : vault'[j] = vault[j]
      /\ vault' \in [Jobs -> JobRec \cup {Absent}]
    BY <1>2, <1>3 DEF WithoutEntries, StoreTypeOK
<1>5. StoreTypeOK' /\ Queued' = Queued
    BY <1>2, <1>3, <1>4 DEF StoreTypeOK, Queued
<1>6. OpFits(a)'
    BY <1>2, <1>3, RestingFits
<1>7. ASSUME NEW j \in Jobs PROVE SameBy(j)
    BY <1>2, <1>3, SameByOps, RestingIs DEF Moves, Adds
<1>8. ASSUME NEW j \in Jobs \ S PROVE SameIn(j)
    BY <1>2, <1>4, <1>5, <1>8 DEF SameIn, ListedOnce
<1>9. ASSUME NEW j \in S, j \in Jobs \ (Repeating \cup disturbed') PROVE Settled(j)'
  <2>1. Settled(j) /\ j \in Index(op[a].at) /\ SameBy(j) /\ op[a].at \in {"completed", "failed"}
    BY <1>2, <1>3, <1>7, <1>9 DEF AdminInv, OpFits
  <2>2. \/ op[a].at = "completed" /\ j \in completed
        \/ op[a].at = "failed" /\ j \in failed
    BY <2>1 DEF Index
  <2>3. /\ j \notin Queued \cup active \cup delayed /\ ~OnMove(j) /\ ~Runs(j)
        /\ j \notin completed' \cup failed'
    BY <1>2, <2>1, <2>2 DEF Settled
  <2>4. /\ ~OnMove(j)' /\ ~Runs(j)' /\ OneMoves(j)' /\ ListedOnce(j)'
    BY <1>2, <2>1, <2>3, SameRuns DEF SameBy, Settled, ListedOnce
  <2> QED BY <1>2, <1>4, <1>5, <2>3, <2>4 DEF Settled, Present, Absent
<1>10. ASSUME NEW j \in S, j \in Repeating \ disturbed' PROVE Chained(j)'
  <2>1. Chained(j) /\ SameBy(j) /\ j \in swept' /\ ~Present(vault, j)'
    BY <1>2, <1>3, <1>4, <1>7, <1>10 DEF AdminInv, Present
  <2>2. Runs(j)' <=> Runs(j)
    BY <2>1, SameRuns
  <2> QED BY <1>2, <1>5, <2>1, <2>2 DEF Chained, SameBy
<1>11. \A j \in Jobs \ (Repeating \cup disturbed') : Settled(j)'
    BY <1>2, <1>7, <1>8, <1>9, SettledSame DEF AdminInv
<1>12. \A j \in Repeating \ disturbed' : Chained(j)'
    BY <1>2, <1>7, <1>8, <1>10, ChainedSame, AdminAssumption DEF AdminInv
<1>13. Empty' /\ ~unchecked' => Empty /\ ~unchecked
    BY <1>2, <1>3, <1>5, NoEmptier
<1>14. /\ repeatable' \subseteq Repeating /\ disturbed' \subseteq Jobs /\ swept' \subseteq Jobs
       /\ underRun' \subseteq Jobs /\ unchecked' \in BOOLEAN
    BY <1>2, <1>3 DEF AdminTypes
<1>15. Resting \in OpRec /\ Resting.kind # "toggle" /\ op[a].kind # "toggle"
    BY <1>2, RestingIs
<1> QED BY <1>2, <1>5, <1>6, <1>11, <1>12, <1>13, <1>14, <1>15, OperatorAlone

LEMMA ZombieActsKeeps ==
    ASSUME AdminInv, NEW a \in Admins, NEW k \in Jobs, ZombieActs(a, k)
    PROVE  AdminInv'
<1>1. /\ op[a].kind = "zombie" /\ op[a].at \in {"bury", "ghost"} /\ k \in op[a].jobs
      /\ active' = active \ {k} /\ expired' = expired \ {k} /\ op' = [op EXCEPT ![a] = Resting]
      /\ disturbed' = IF k \in expired /\ ~Runs(k) /\ vault[k] = op[a].rec
                      THEN disturbed ELSE disturbed \cup {k}
      /\ UNCHANGED <<waiting, prioritized, delayed, due, completed>> /\ Unseen
      /\ UNCHANGED <<repeatable, run, paused, muted, check, told, calls, faults>>
      /\ UNCHANGED <<swept, underRun, clashed>>
    BY DEF ZombieActs, checkVars
<1>2. /\ op[a].at = "bury" => /\ vault' = [vault EXCEPT ![k] = [op[a].rec EXCEPT !.status = "dead"]]
                              /\ dlq' = dlq \cup {k} /\ failed' = failed \cup {k}
      /\ op[a].at = "ghost" => UNCHANGED <<vault, dlq, failed>>
    BY DEF ZombieActs
<1>3. AdminTypes /\ StoreTypeOK /\ OpFits(a)
    BY OfStore DEF AdminInv
<1>4. /\ op[a].at = "bury" => op[a].rec \in JobRec
      /\ op[a].at = "ghost" => op[a].rec = Absent
    BY <1>1, <1>3 DEF OpFits
<1>5. op[a].at = "bury" => /\ [op[a].rec EXCEPT !.status = "dead"] \in JobRec
                           /\ [op[a].rec EXCEPT !.status = "dead"] # Absent
                           /\ [op[a].rec EXCEPT !.status = "dead"].status = "dead"
    BY <1>4 DEF JobRec, Absent, Statuses
<1>6. /\ op[a].at = "bury" => vault'[k] \in JobRec /\ Present(vault', k) /\ vault'[k].status = "dead"
      /\ \A j \in Jobs \ {k} : vault'[j] = vault[j]
      /\ vault' \in [Jobs -> JobRec \cup {Absent}]
    BY <1>1, <1>2, <1>3, <1>5 DEF StoreTypeOK, Present
<1>7. StoreTypeOK' /\ Queued' = Queued
    BY <1>1, <1>2, <1>3, <1>6 DEF StoreTypeOK, Queued
<1>8. OpFits(a)'
    BY <1>1, <1>3, RestingFits
<1>9. ASSUME NEW j \in Jobs PROVE SameBy(j)
    BY <1>1, <1>3, SameByOps, RestingIs DEF Moves, Adds
<1>10. ASSUME NEW j \in Jobs \ {k} PROVE SameIn(j)
    BY <1>1, <1>2, <1>6, <1>7, <1>10 DEF SameIn, ListedOnce
<1>11. ASSUME k \in Jobs \ (Repeating \cup disturbed') PROVE Settled(k)'
  <2>1. Settled(k) /\ k \in expired /\ ~Runs(k) /\ vault[k] = op[a].rec /\ SameBy(k)
    BY <1>1, <1>9, <1>11 DEF AdminInv
  <2>2. /\ k \in active /\ Present(vault, k)
        /\ k \notin Queued \cup delayed \cup completed /\ ~OnMove(k)
    BY <1>3, <2>1 DEF StoreTypeOK, Settled
  <2>3. op[a].at = "bury"
    BY <1>1, <1>4, <2>1, <2>2 DEF Present
  <2>4. ~OnMove(k)' /\ ~Runs(k)' /\ OneMoves(k)' /\ ListedOnce(k)'
    BY <1>1, <2>1, <2>2, SameRuns DEF SameBy, Settled, ListedOnce
  <2> QED BY <1>1, <1>2, <1>6, <1>7, <2>2, <2>3, <2>4 DEF Settled
<1>12. ASSUME k \in Repeating \ disturbed' PROVE Chained(k)'
  <2>1. Chained(k) /\ k \in expired /\ ~Runs(k) /\ vault[k] = op[a].rec /\ SameBy(k)
    BY <1>1, <1>9, <1>12 DEF AdminInv
  <2>2. Runs(k)' <=> Runs(k)
    BY <2>1, SameRuns
  <2>3. CASE op[a].at = "bury"
    <3>1. Present(vault, k)' /\ Present(vault, k) /\ HasPlace(k)'
      BY <1>2, <1>4, <1>6, <2>1, <2>3 DEF Present, HasPlace, JobRec, Absent, Statuses
    <3> QED BY <1>1, <1>7, <2>1, <2>2, <3>1 DEF Chained, SameBy
  <2>4. CASE op[a].at = "ghost"
    <3>1. ~Present(vault, k) /\ ~Present(vault, k)'
      BY <1>2, <1>4, <2>1, <2>4 DEF Present
    <3> QED BY <1>1, <1>7, <2>1, <2>2, <3>1 DEF Chained, SameBy
  <2> QED BY <1>1, <2>3, <2>4
<1>13. \A j \in Jobs \ (Repeating \cup disturbed') : Settled(j)'
    BY <1>1, <1>9, <1>10, <1>11, SettledSame DEF AdminInv
<1>14. \A j \in Repeating \ disturbed' : Chained(j)'
    BY <1>1, <1>9, <1>10, <1>12, ChainedSame, AdminAssumption DEF AdminInv
<1>15. /\ Empty' /\ ~unchecked' => Empty /\ ~unchecked
       /\ unchecked' \in BOOLEAN
    BY <1>1, <1>3, UnseenIs DEF Unseen, AdminTypes
<1>16. /\ repeatable' \subseteq Repeating /\ disturbed' \subseteq Jobs /\ swept' \subseteq Jobs
       /\ underRun' \subseteq Jobs
    BY <1>1, <1>3 DEF AdminTypes
<1>17. Resting \in OpRec /\ Resting.kind # "toggle" /\ op[a].kind # "toggle"
    BY <1>1, RestingIs
<1> QED BY <1>1, <1>7, <1>8, <1>13, <1>14, <1>15, <1>16, <1>17, OperatorAlone

\* The actions of nobody in particular that touch the index or the flags.
LEMMA RemoveRepeatableKeeps ==
    ASSUME AdminInv, NEW k \in Jobs, RemoveRepeatable(k)
    PROVE  AdminInv'
<1>1. /\ Call /\ k \in repeatable /\ vault' = WithoutEntries(vault, {k})
      /\ delayed' = delayed \ {k} /\ due' = due \ {k} /\ active' = active \ {k}
      /\ expired' = expired \ {k} /\ waiting' \in LRem(waiting, k) /\ repeatable' = repeatable \ {k}
      /\ underRun' = IF Runs(k) \/ Adding(k) THEN underRun \cup {k} ELSE underRun
      /\ UNCHANGED <<prioritized, completed, failed, dlq, run, op, paused, muted>>
      /\ UNCHANGED <<check, told, disturbed, swept, clashed>> /\ Unseen
    BY DEF RemoveRepeatable, checkVars
<1>2. AdminTypes /\ StoreTypeOK /\ QueueType /\ k \in Repeating
    BY <1>1, OfStore DEF AdminInv, AdminTypes
<1>3. /\ QueueType' /\ \A j : j # k => (j \in Queued' <=> j \in Queued)
      /\ \A j : ListedOnce(j) => ListedOnce(j)'
    BY <1>1, <1>2, LRemSame
<1>4. /\ vault'[k] = Absent /\ \A j \in Jobs \ {k} : vault'[j] = vault[j]
      /\ vault' \in [Jobs -> JobRec \cup {Absent}]
    BY <1>1, <1>2 DEF WithoutEntries, StoreTypeOK
<1>5. StoreTypeOK'
  <2>1. waiting' \in Seq(Jobs)
    BY <1>3 DEF QueueType
  <2> QED BY <1>1, <1>2, <1>4, <2>1 DEF StoreTypeOK
<1>6. ASSUME NEW j \in Jobs \ {k} PROVE SameIn(j) /\ SameBy(j)
  <2>1. SameBy(j)
    BY <1>1, <1>6, SameHands DEF SameBy
  <2> QED BY <1>1, <1>3, <1>4, <1>6, <2>1 DEF SameIn
<1>7. ASSUME k \notin disturbed PROVE Chained(k)'
  <2>1. Chained(k)
    BY <1>2, <1>7 DEF AdminInv
  <2>2. (Runs(k)' <=> Runs(k)) /\ (Adding(k)' <=> Adding(k)) /\ ~Present(vault, k)'
    BY <1>1, <1>4, SameHands DEF Present
  <2>3. k \notin underRun' => ~Runs(k) /\ ~Adding(k)
    BY <1>1
  <2> QED BY <1>1, <2>1, <2>2, <2>3 DEF Chained, Runs
<1>8. (\A w \in Runners : RunFits(w)') /\ (\A a \in Admins : OpFits(a)')
    BY <1>1, FitsSame
<1>9. TogglesFit'
    BY <1>1, TogglesSame DEF AdminInv, Toggling
<1>10. ChecksFit'
    BY <1>1, ChecksSame, UnseenIs DEF AdminInv
<1>11. unchecked' \in BOOLEAN
    BY <1>1 DEF Unseen
<1>12. AdminTypes'
    BY <1>1, <1>2, <1>5, <1>11, Bounds DEF AdminTypes
<1>13. \A j \in Jobs \ (Repeating \cup disturbed') : Settled(j)'
    BY <1>1, <1>2, <1>6, SettledSame DEF AdminInv
<1>14. \A j \in Repeating \ disturbed' : Chained(j)'
    BY <1>1, <1>6, <1>7, ChainedSame, AdminAssumption DEF AdminInv
<1> QED BY <1>8, <1>9, <1>10, <1>12, <1>13, <1>14 DEF AdminInv

LEMMA ObliterateKeeps ==
    ASSUME AdminInv, Obliterate
    PROVE  AdminInv'
<1>1. /\ Call /\ vault' = [j \in Jobs |-> Absent] /\ waiting' = <<>> /\ prioritized' = {}
      /\ active' = {} /\ expired' = {} /\ delayed' = {} /\ due' = {}
      /\ completed' = {} /\ failed' = {} /\ dlq' = {}
      /\ repeatable' = {} /\ paused' = FALSE /\ muted' = FALSE
      /\ disturbed' = disturbed \cup {j \in Jobs : Runs(j)} \cup BusyWith({"delay", "zombie"})
      /\ underRun' = underRun \cup {j \in Repeating : Runs(j)} \cup BusyWith({"repeat"})
      /\ clashed' = (clashed \/ \E a \in Admins : op[a].kind = "toggle")
      /\ UNCHANGED <<run, op, check, told, swept>> /\ Unseen
    BY DEF Obliterate, checkVars
<1>2. AdminTypes /\ StoreTypeOK
    BY OfStore DEF AdminInv
<1>3. /\ \A K : BusyWith(K) \subseteq Jobs
      /\ \A j : OnMove(j) => j \in BusyWith({"delay", "zombie"})
      /\ \A j : Adding(j) => j \in BusyWith({"repeat"})
    BY <1>2 DEF BusyWith, AdminTypes, OpRec, OnMove, Moves, Adding
<1>4. Queued' = {} /\ \A j \in Jobs : ListedOnce(j)' /\ vault'[j] = Absent
    BY <1>1 DEF Queued, ToSet, ListedOnce, OnceIn
<1>5. StoreTypeOK'
    BY <1>1 DEF StoreTypeOK
<1>6. (\A w \in Runners : RunFits(w)') /\ (\A a \in Admins : OpFits(a)')
    BY <1>1, FitsSame
<1>7. ASSUME NEW j \in Jobs \ (Repeating \cup disturbed') PROVE Settled(j)'
  <2>1. ~Runs(j) /\ ~OnMove(j) /\ Settled(j)
    BY <1>1, <1>3, <1>7 DEF AdminInv
  <2>2. ~Runs(j)' /\ ~OnMove(j)' /\ OneMoves(j)'
    BY <1>1, <2>1, SameHands DEF Settled
  <2> QED BY <1>1, <1>4, <2>2 DEF Settled, Present, Absent
<1>8. ASSUME NEW j \in Repeating \ disturbed' PROVE Chained(j)'
  <2>1. Chained(j) /\ ~Runs(j) /\ (j \notin underRun' => ~Adding(j)) /\ j \in Jobs
    BY <1>1, <1>3, <1>8, AdminAssumption DEF AdminInv
  <2>2. ~Runs(j)' /\ (Adding(j)' <=> Adding(j)) /\ ~Present(vault, j)'
    BY <1>1, <1>4, <2>1, SameHands DEF Present
  <2> QED BY <1>1, <2>1, <2>2 DEF Chained, Runs
<1>9. TogglesFit'
    BY <1>1 DEF TogglesFit, Toggling
<1>10. ChecksFit'
    BY <1>1, ChecksSame, UnseenIs DEF AdminInv
<1>11. unchecked' \in BOOLEAN /\ clashed' \in BOOLEAN
    BY <1>1, <1>2 DEF Unseen, AdminTypes
<1>12. disturbed' \subseteq Jobs /\ underRun' \subseteq Jobs
    BY <1>1, <1>2, <1>3, AdminAssumption DEF AdminTypes
<1>13. AdminTypes'
    BY <1>1, <1>2, <1>5, <1>11, <1>12, Bounds DEF AdminTypes
<1> QED BY <1>6, <1>7, <1>8, <1>9, <1>10, <1>13 DEF AdminInv

LEMMA ToggleKeeps ==
    ASSUME AdminInv, NEW a \in Admins, ToggleReads(a) \/ ToggleWrites(a)
    PROVE  AdminInv'
<1>1. /\ Call \/ UNCHANGED <<calls, faults>>
      /\ UNCHANGED <<repeatable, run, check, told, swept, underRun, disturbed, unchecked>>
      /\ UNCHANGED storeVars
    BY DEF ToggleReads, ToggleWrites, checkVars, history
<1>2. AdminTypes /\ StoreTypeOK /\ OpFits(a)
    BY OfStore DEF AdminInv
<1>3. PICK o \in OpRec :
         /\ op' = [op EXCEPT ![a] = o] /\ OpFits(a)' /\ o.kind \in {"none", "toggle"}
         /\ op[a].kind \in {"none", "toggle"}
         /\ \/ /\ o.kind = "toggle" /\ o.at = "queue" /\ UNCHANGED <<paused, muted>>
               /\ op[a].kind = "none"
               /\ clashed' = (clashed \/ \E b \in Admins : op[b].kind = "toggle")
            \/ /\ o.kind = "toggle" /\ o.at = "flag" /\ paused' = o.flag /\ UNCHANGED <<muted, clashed>>
               /\ op[a].kind = "toggle"
            \/ /\ o.kind = "none" /\ muted' = op[a].flag /\ UNCHANGED <<paused, clashed>>
               /\ op[a].kind = "toggle" /\ op[a].at = "flag"
  <2>1. CASE ToggleReads(a)
    <3>1. PICK o : o = [Doing("toggle", "queue", {}, Absent) EXCEPT !.flag = ~paused]
      OBVIOUS
    <3>2. /\ op[a] = Resting /\ op' = [op EXCEPT ![a] = o] /\ UNCHANGED <<paused, muted>>
          /\ clashed' = (clashed \/ \E b \in Admins : op[b].kind = "toggle")
      BY <2>1, <3>1 DEF ToggleReads
    <3>3. o = [kind |-> "toggle", at |-> "queue", jobs |-> {}, rec |-> Absent, flag |-> ~paused]
      BY <3>1 DEF Doing
    <3>4. (~paused) \in BOOLEAN
      OBVIOUS
    <3>5. o \in OpRec
      BY <3>3, <3>4 DEF OpRec
    <3>6. OpFits(a)'
      BY <1>2, <3>2, <3>3, <3>5, OneOp DEF OpFits
    <3> QED BY <3>2, <3>3, <3>5, <3>6, RestingIs
  <2>2. CASE ToggleWrites(a) /\ op[a].at = "queue"
    <3>1. /\ op[a].kind = "toggle" /\ paused' = op[a].flag /\ UNCHANGED <<muted, clashed>>
          /\ op' = [op EXCEPT ![a].at = "flag"]
      BY <2>2 DEF ToggleWrites, history
    <3>2. PICK o : o = [op[a] EXCEPT !.at = "flag"]
      OBVIOUS
    <3>3. op[a] \in OpRec /\ op' = [op EXCEPT ![a] = o] /\ op[a].jobs = {}
      BY <1>2, <3>1, <3>2 DEF AdminTypes, OpFits
    <3>4. /\ o.kind = "toggle" /\ o.at = "flag" /\ o.flag = op[a].flag /\ o.jobs = {}
          /\ o \in OpRec
      BY <3>1, <3>2, <3>3 DEF OpRec
    <3>5. OpFits(a)'
      BY <1>2, <3>3, <3>4, OneOp DEF OpFits
    <3> QED BY <3>1, <3>3, <3>4, <3>5
  <2>3. CASE ToggleWrites(a) /\ op[a].at = "flag"
    <3>1. /\ op[a].kind = "toggle" /\ muted' = op[a].flag /\ UNCHANGED <<paused, clashed>>
          /\ op' = [op EXCEPT ![a] = Resting]
      BY <2>3 DEF ToggleWrites, history
    <3> QED BY <1>2, <2>3, <3>1, RestingIs, RestingFits
  <2> QED BY <2>1, <2>2, <2>3 DEF ToggleWrites
<1>4. /\ op' \in [Admins -> OpRec] /\ op'[a] = o
      /\ \A b \in Admins \ {a} : op'[b] = op[b]
    BY <1>2, <1>3, OneOp
<1>5. StoreTypeOK' /\ Queued' = Queued /\ active' = active
    BY <1>1, <1>2 DEF StoreTypeOK, storeVars, Queued
<1>6. ASSUME NEW j \in Jobs PROVE SameIn(j) /\ SameBy(j)
  <2>1. (Moves(o, j) <=> Moves(op[a], j)) /\ (Adds(o, j) <=> Adds(op[a], j))
    BY <1>3 DEF Moves, Adds
  <2>2. SameBy(j)
    BY <1>1, <1>2, <1>3, <2>1, SameByOps
  <2> QED BY <1>1, <1>5, <2>2 DEF SameIn, ListedOnce, storeVars
<1>7. TogglesFit'
  <2>1. /\ TogglesFit /\ clashed \in BOOLEAN
        /\ \A b \in Admins : Toggling(b) <=> op[b].kind = "toggle"
        /\ \A b \in Admins : Toggling(b)' <=> op'[b].kind = "toggle"
    BY <1>2 DEF AdminInv, AdminTypes, Toggling
  <2>2. CASE op[a].kind = "none"
    <3>1. ~clashed' => ~clashed /\ \A b \in Admins : ~Toggling(b)
      BY <1>3, <2>1, <2>2
    <3>2. o.kind = "toggle" /\ o.at = "queue" /\ UNCHANGED <<paused, muted>>
      BY <1>3, <2>2
    <3>3. \A b \in Admins \ {a} : Toggling(b)' <=> Toggling(b)
      BY <1>4, <2>1
    <3> QED BY <1>4, <2>1, <3>1, <3>2, <3>3 DEF TogglesFit
  <2>3. CASE op[a].kind = "toggle"
    <3>1. UNCHANGED clashed /\ (clashed \/ \A b \in Admins : Toggling(b) => b = a)
      BY <1>3, <2>1, <2>3 DEF TogglesFit
    <3>2. clashed \/ \A b \in Admins \ {a} : ~Toggling(b)'
      BY <1>4, <2>1, <3>1
    <3>3. CASE o.kind = "toggle"
      <4>1. o.at = "flag" /\ paused' = o.flag /\ op'[a].at # "queue" /\ Toggling(a)'
        BY <1>3, <1>4, <2>1, <2>3, <3>3
      <4> QED BY <1>4, <3>1, <3>2, <4>1 DEF TogglesFit
    <3>4. CASE o.kind = "none"
      <4>1. muted' = op[a].flag /\ UNCHANGED paused /\ op[a].at = "flag" /\ ~Toggling(a)'
        BY <1>3, <1>4, <2>1, <2>3, <3>4
      <4>2. clashed \/ paused = op[a].flag
        BY <2>1, <2>3, <4>1 DEF TogglesFit
      <4> QED BY <3>1, <3>2, <4>1, <4>2 DEF TogglesFit
    <3> QED BY <1>3, <3>3, <3>4
  <2> QED BY <1>3, <2>2, <2>3
<1>8. \A b \in Admins : OpFits(b)'
    BY <1>3, OpFitsThen
<1>9. \A w \in Runners : RunFits(w)'
    BY <1>1 DEF AdminInv, RunFits
<1>10. paused' \in BOOLEAN /\ muted' \in BOOLEAN /\ clashed' \in BOOLEAN
    BY <1>2, <1>3 DEF AdminTypes, OpRec
<1>11. AdminTypes'
    BY <1>1, <1>2, <1>4, <1>5, <1>10, Bounds DEF AdminTypes
<1>12. ChecksFit'
    BY <1>1, <1>2, <1>5, NoEmptier, ChecksSame DEF AdminInv
<1>13. \A j \in Jobs \ (Repeating \cup disturbed') : Settled(j)'
    BY <1>1, <1>6, SettledSame DEF AdminInv
<1>14. \A j \in Repeating \ disturbed' : Chained(j)'
    BY <1>1, <1>6, ChainedSame, AdminAssumption DEF AdminInv
<1> QED BY <1>7, <1>8, <1>9, <1>11, <1>12, <1>13, <1>14 DEF AdminInv

-----------------------------------------------------------------------------
(***************************************************************************)
(* The workers.                                                            *)
(***************************************************************************)
LEMMA OneRun ==
    ASSUME AdminTypes, NEW w \in Runners, NEW r \in RunRec, run' = [run EXCEPT ![w] = r]
    PROVE  /\ run' \in [Runners -> RunRec] /\ run'[w] = r
           /\ \A v \in Runners \ {w} : run'[v] = run[v]
BY DEF AdminTypes

LEMMA RunnerAlone ==
    ASSUME AdminInv, NEW w \in Runners, NEW r \in RunRec, run' = [run EXCEPT ![w] = r], RunFits(w)',
           UNCHANGED <<repeatable, op, paused, muted, clashed>>,
           StoreTypeOK', Call \/ Fault \/ UNCHANGED <<calls, faults>>,
           check' \in [Runners -> [on : BOOLEAN, seen : Seq(BOOLEAN)]],
           \A v \in Runners : check'[v].on => Len(check'[v].seen) <= 2,
           disturbed' \subseteq Jobs, swept' \subseteq Jobs, underRun' \subseteq Jobs,
           told' \in BOOLEAN, unchecked' \in BOOLEAN, ChecksFit',
           \A j \in Jobs \ (Repeating \cup disturbed') : Settled(j)',
           \A j \in Repeating \ disturbed' : Chained(j)'
    PROVE  AdminInv'
<1>1. /\ run' \in [Runners -> RunRec] /\ run'[w] = r
      /\ \A v \in Runners \ {w} : run'[v] = run[v]
    BY OneRun DEF AdminInv
<1>2. \A v \in Runners : RunFits(v)'
    BY <1>1 DEF AdminInv, RunFits
<1>3. \A a \in Admins : OpFits(a)'
    BY DEF AdminInv, OpFits
<1>4. AdminTypes'
    BY <1>1, Bounds DEF AdminInv, AdminTypes
<1>5. TogglesFit'
    BY TogglesSame DEF AdminInv, Toggling
<1> QED BY <1>2, <1>3, <1>4, <1>5 DEF AdminInv

LEMMA SameByRuns ==
    ASSUME AdminTypes, NEW w \in Runners, NEW r \in RunRec, run' = [run EXCEPT ![w] = r],
           UNCHANGED <<repeatable, op, underRun>>, NEW j, j # run[w].job, j # r.job,
           j \in swept => j \in swept'
    PROVE  SameBy(j)
<1>1. \A v \in Runners : run[v].job = j \/ run'[v].job = j => run'[v] = run[v]
    BY OneRun
<1> QED BY <1>1 DEF SameBy, OnMove, OneMoves, Adding

LEMMA NoRunIs == NoRun \in RunRec /\ NoRun.job \notin Jobs /\ NoRun.at = "idle"
BY AdminAssumption DEF NoRun, RunRec

\* What dequeue.lua does to the store, as the job it takes and the others see it.
LEMMA TakeSame ==
    ASSUME StoreTypeOK, NEW k, DequeueScript(k)
    PROVE  /\ k \in Jobs /\ StoreTypeOK' /\ UNCHANGED <<delayed, completed, failed, dlq>>
           /\ (ListedOnce(k) => ListedOnce(k)' /\ k \in Queued /\ k \notin Queued')
           /\ \A j \in Jobs \ {k} : SameIn(j)
           /\ IF Present(vault, k)
              THEN /\ vault'[k] \in JobRec /\ Present(vault', k) /\ vault'[k].status = "active"
                   /\ active' = active \cup {k}
              ELSE UNCHANGED <<vault, active>>
<1>1. QueueType /\ Pop(k) /\ Lease(k, vault, active, expired) /\ UNCHANGED <<delayed, completed, failed, dlq>>
    BY DEF StoreTypeOK, QueueType, DequeueScript
<1>2. k \in Jobs /\ Queued \subseteq Queued' \cup {k} /\ Queued' \subseteq Queued
    BY <1>1, PopType
<1>3. StoreTypeOK'
    BY <1>2, DequeueKeeps
<1>4. (ListedOnce(k) => ListedOnce(k)' /\ k \in Queued /\ k \notin Queued')
    BY <1>1, PopOnce
<1>5. \A j : ListedOnce(j) => ListedOnce(j)'
    BY <1>1, PopOnce
<1>6. \A j \in Jobs \ {k} : vault'[j] = vault[j] /\ (j \in active' <=> j \in active)
    BY <1>1 DEF Lease, StoreTypeOK
<1>7. \A j \in Jobs \ {k} : SameIn(j)
    BY <1>1, <1>2, <1>5, <1>6 DEF SameIn
<1>8. CASE Present(vault, k)
  <2>1. vault[k] \in JobRec
    BY <1>2, <1>8 DEF StoreTypeOK, Present
  <2>2. vault'[k] = PickedUp(vault[k]) /\ active' = active \cup {k}
    BY <1>1, <1>2, <1>8 DEF Lease, StoreTypeOK
  <2>3. PickedUp(vault[k]) \in JobRec /\ PickedUp(vault[k]).status = "active"
    BY <2>1, PickedUpType DEF PickedUp
  <2> QED BY <1>1, <1>2, <1>3, <1>4, <1>7, <1>8, <2>2, <2>3 DEF Present, Absent
<1>9. CASE ~Present(vault, k)
    BY <1>1, <1>2, <1>3, <1>4, <1>7, <1>9 DEF Lease
<1> QED BY <1>8, <1>9

LEMMA TakeKeeps ==
    ASSUME AdminInv, NEW w \in Runners, NEW k \in Jobs, Take(w, k)
    PROVE  AdminInv'
<1>1. /\ run[w] = NoRun /\ DequeueScript(k)
      /\ disturbed' = IF Runs(k) THEN disturbed \cup {k} ELSE disturbed
      /\ UNCHANGED <<repeatable, op, paused, muted, check, calls, faults, swept, underRun, clashed>>
    BY DEF Take
<1>2. AdminTypes /\ StoreTypeOK
    BY OfStore DEF AdminInv
<1>3. /\ k \in Jobs /\ StoreTypeOK' /\ UNCHANGED <<delayed, completed, failed, dlq>>
      /\ (ListedOnce(k) => ListedOnce(k)' /\ k \in Queued /\ k \notin Queued')
      /\ \A j \in Jobs \ {k} : SameIn(j)
    BY <1>1, <1>2, TakeSame
<1>4. ~Runs(k) => \A v \in Runners : run[v].job # k
    BY <1>1 DEF Runs
<1>5. PICK r \in RunRec :
         /\ run' = [run EXCEPT ![w] = r] /\ RunFits(w)' /\ r.job \in {k, NoJob} /\ r.at # "scheduled"
         /\ ~Present(vault, k) => run' = run
         /\ Present(vault, k) => r.job = k
         /\ told' \in BOOLEAN /\ unchecked' \in BOOLEAN /\ ChecksFit'
  <2>1. CASE Present(vault, k)
    <3>1. /\ vault'[k] \in JobRec /\ vault'[k].status = "active" /\ active' = active \cup {k}
      BY <1>1, <1>2, <2>1, TakeSame
    <3>2. PICK r : r = [at |-> "running", job |-> k, rec |-> vault'[k]]
      OBVIOUS
    <3>3. r \in RunRec /\ run' = [run EXCEPT ![w] = r] /\ told' = FALSE /\ unchecked' = FALSE
      BY <2>1, <3>1, <3>2 DEF Take, RunRec
    <3>4. RunFits(w)'
      BY <1>2, <3>1, <3>2, <3>3, OneRun DEF RunFits
    <3>5. ChecksFit'
      BY <1>3, <3>1, EmptyThen DEF ChecksFit
    <3> QED BY <2>1, <3>2, <3>3, <3>4, <3>5
  <2>2. CASE ~Present(vault, k)
    <3>1. UNCHANGED <<run, told>> /\ Unseen
      BY <2>2 DEF Take
    <3>2. run' = [run EXCEPT ![w] = NoRun]
      BY <1>1, <1>2, <3>1 DEF AdminTypes
    <3>3. ChecksFit'
      BY <1>1, <3>1, ChecksSame, UnseenIs DEF AdminInv
    <3>4. told' \in BOOLEAN /\ unchecked' \in BOOLEAN
      BY <1>2, <3>1 DEF Unseen, AdminTypes
    <3>5. RunFits(w)'
      BY <1>1, <3>1 DEF RunFits, NoRun
    <3> QED BY <2>2, <3>1, <3>2, <3>3, <3>4, <3>5, NoRunIs DEF NoRun
  <2> QED BY <2>1, <2>2
<1>6. ASSUME NEW j \in Jobs \ {k} PROVE SameBy(j)
  <2>1. j # run[w].job /\ j # r.job
    BY <1>1, <1>5, <1>6, NoRunIs, AdminAssumption
  <2> QED BY <1>1, <1>2, <1>5, <2>1, SameByRuns
<1>7. /\ run'[w] = r /\ \A v \in Runners \ {w} : run'[v] = run[v]
      /\ (OnMove(k)' <=> OnMove(k)) /\ (OneMoves(k) => OneMoves(k)') /\ (Adding(k)' <=> Adding(k))
    BY <1>1, <1>2, <1>5, OneRun DEF OnMove, OneMoves, Adding
<1>8. ASSUME k \in Jobs \ (Repeating \cup disturbed') PROVE Settled(k)'
  <2>1. Settled(k) /\ ~Runs(k)
    BY <1>1, <1>3, <1>8 DEF AdminInv, Settled
  <2>2. Present(vault, k) /\ k \notin active \cup delayed \cup completed \cup failed \cup dlq /\ ~OnMove(k)
    BY <1>3, <2>1 DEF Settled
  <2>3. /\ Present(vault', k) /\ vault'[k].status = "active" /\ active' = active \cup {k}
    BY <1>1, <1>2, <2>2, TakeSame
  <2>4. \A u, v \in Runners : run'[u].job = k /\ run'[v].job = k => u = v
    BY <1>4, <1>7, <2>1
  <2>5. ListedOnce(k)' /\ k \notin Queued' /\ OneMoves(k)'
    BY <1>3, <1>7, <2>1 DEF Settled
  <2> QED BY <1>3, <1>7, <2>2, <2>3, <2>4, <2>5 DEF Settled
<1>9. ASSUME k \in Repeating \ disturbed' PROVE Chained(k)'
  <2>1. Chained(k) /\ ~Runs(k)
    BY <1>1, <1>9 DEF AdminInv
  <2>2. /\ \A u, v \in Runners : run'[u].job = k /\ run'[v].job = k => u = v
        /\ \A v \in Runners : run'[v].job = k => run'[v].at # "scheduled"
        /\ ~Present(vault, k) => ~Runs(k)'
    BY <1>4, <1>5, <1>7, <2>1 DEF Runs
  <2>3. (Present(vault, k)' <=> Present(vault, k)) /\ (Present(vault, k) => HasPlace(k)')
    <3>1. CASE Present(vault, k)
      <4>1. Present(vault', k) /\ active' = active \cup {k}
        BY <1>1, <1>2, <3>1, TakeSame
      <4> QED BY <3>1, <4>1 DEF HasPlace, Present
    <3>2. CASE ~Present(vault, k)
      <4>1. UNCHANGED vault
        BY <1>1, <1>2, <3>2, TakeSame
      <4> QED BY <3>2, <4>1 DEF Present
    <3> QED BY <3>1, <3>2
  <2> QED BY <1>1, <1>7, <2>1, <2>2, <2>3 DEF Chained
<1>10. \A j \in Jobs \ (Repeating \cup disturbed') : Settled(j)'
    BY <1>1, <1>3, <1>6, <1>8, SettledSame DEF AdminInv
<1>11. \A j \in Repeating \ disturbed' : Chained(j)'
    BY <1>1, <1>3, <1>6, <1>9, ChainedSame, AdminAssumption DEF AdminInv
<1>12. /\ check' \in [Runners -> [on : BOOLEAN, seen : Seq(BOOLEAN)]]
       /\ \A v \in Runners : check'[v].on => Len(check'[v].seen) <= 2
       /\ disturbed' \subseteq Jobs /\ swept' \subseteq Jobs /\ underRun' \subseteq Jobs
    BY <1>1, <1>2 DEF AdminTypes
<1> QED BY <1>1, <1>3, <1>5, <1>10, <1>11, <1>12, RunnerAlone

LEMMA RenewKeeps ==
    ASSUME AdminInv, NEW w \in Runners, Renew(w)
    PROVE  AdminInv'
<1>1. PICK k : k = run[w].job
    OBVIOUS
<1>2. /\ run[w] # NoRun /\ vault' = [vault EXCEPT ![k] = run[w].rec]
      /\ active' = active \cup {k} /\ expired' = expired \ {k}
      /\ disturbed' = IF k \in active THEN disturbed ELSE disturbed \cup {k}
      /\ UNCHANGED <<waiting, prioritized, delayed, due, completed, failed, dlq>>
      /\ UNCHANGED <<adminVars, calls, faults, swept, underRun, clashed, unchecked>>
      /\ UNCHANGED <<repeatable, run, op>>
    BY <1>1 DEF Renew, adminVars
<1>3. AdminTypes /\ StoreTypeOK /\ RunFits(w)
    BY OfStore DEF AdminInv
<1>4. k \in Jobs /\ run[w].rec \in JobRec /\ run[w].rec.status = "active" /\ Runs(k)
    BY <1>1, <1>2, <1>3 DEF RunFits, Runs
<1>5. /\ vault'[k] = run[w].rec /\ Present(vault', k)
      /\ \A j \in Jobs \ {k} : vault'[j] = vault[j]
    BY <1>2, <1>3, <1>4 DEF StoreTypeOK, Present, JobRec, Absent, Statuses
<1>6. StoreTypeOK' /\ Queued' = Queued
    BY <1>2, <1>3, <1>4 DEF StoreTypeOK, Queued
<1>7. ASSUME NEW j \in Jobs PROVE SameBy(j)
    BY <1>2, SameHands DEF SameBy
<1>8. ASSUME NEW j \in Jobs \ {k} PROVE SameIn(j)
    BY <1>2, <1>5, <1>6, <1>8 DEF SameIn, ListedOnce
<1>9. ASSUME k \in Jobs \ (Repeating \cup disturbed') PROVE Settled(k)'
  <2>1. Settled(k) /\ k \in active /\ SameBy(k)
    BY <1>2, <1>7, <1>9 DEF AdminInv
  <2>2. /\ k \notin Queued \cup delayed \cup completed \cup failed \cup dlq /\ ~OnMove(k)
        /\ \A u, v \in Runners : run[u].job = k /\ run[v].job = k => u = v
    BY <1>4, <2>1 DEF Settled
  <2>3. ~OnMove(k)' /\ OneMoves(k)' /\ ListedOnce(k)'
    BY <1>2, <2>1, <2>2 DEF SameBy, Settled, ListedOnce
  <2> QED BY <1>2, <1>4, <1>5, <1>6, <2>1, <2>2, <2>3 DEF Settled
<1>10. ASSUME k \in Repeating \ disturbed' PROVE Chained(k)'
  <2>1. Chained(k) /\ SameBy(k)
    BY <1>2, <1>4, <1>7, <1>10 DEF AdminInv
  <2>2. HasPlace(k)' /\ Present(vault, k)'
    BY <1>2, <1>5 DEF HasPlace, Present
  <2> QED BY <1>2, <1>4, <1>6, <2>1, <2>2 DEF Chained, SameBy
<1>11. \A j \in Jobs \ (Repeating \cup disturbed') : Settled(j)'
    BY <1>2, <1>7, <1>8, <1>9, SettledSame DEF AdminInv
<1>12. \A j \in Repeating \ disturbed' : Chained(j)'
    BY <1>2, <1>7, <1>8, <1>10, ChainedSame, AdminAssumption DEF AdminInv
<1>13. Empty' /\ ~unchecked' => Empty /\ ~unchecked
    BY <1>2, <1>3, <1>6, NoEmptier
<1> QED BY <1>2, <1>3, <1>4, <1>6, <1>11, <1>12, <1>13, StoreAlone DEF AdminTypes

LEMMA SchedulesKeep ==
    ASSUME AdminInv, NEW w \in Runners, ScheduleRecord(w) \/ ScheduleTime(w)
    PROVE  AdminInv'
<1>1. PICK k : k = run[w].job
    OBVIOUS
<1>2. /\ UNCHANGED <<waiting, prioritized, active, expired, completed, failed, dlq>>
      /\ UNCHANGED <<repeatable, op, paused, muted, check, told, calls, faults>>
      /\ UNCHANGED <<disturbed, swept, underRun, clashed, unchecked>>
    BY DEF ScheduleRecord, ScheduleTime, SignalScript, checkVars, history
<1>3. PICK p \in {"stored", "scheduled"} :
         /\ run' = [run EXCEPT ![w] = [run[w] EXCEPT !.at = p]] /\ run[w].at \in {"running", "stored"}
         /\ \/ /\ p = "stored" /\ k \in Repeating
               /\ vault' = [vault EXCEPT ![k] = NewRec] /\ UNCHANGED <<delayed, due>>
            \/ /\ p = "scheduled" /\ run[w].at = "stored" /\ UNCHANGED vault
               /\ delayed' = delayed \cup {k} /\ due' = due \ {k}
    BY <1>1 DEF ScheduleRecord, ScheduleTime, SignalScript
<1>4. AdminTypes /\ StoreTypeOK /\ RunFits(w) /\ run[w] \in RunRec
    BY OfStore DEF AdminInv, AdminTypes
<1>5. k \in Repeating /\ k \in Jobs /\ Runs(k) /\ run[w].rec \in JobRec /\ run[w].rec.status = "active"
    BY <1>1, <1>3, <1>4, AdminAssumption DEF RunFits, Runs, NoRun
<1>6. PICK r \in RunRec : /\ r.at = p /\ r.job = k /\ r.rec = run[w].rec
                          /\ run' = [run EXCEPT ![w] = r]
    BY <1>1, <1>3, <1>4, <1>5 DEF RunRec
<1>7. NewRec \in JobRec /\ NewRec # Absent
    BY DEF NewRec, JobRec, Statuses, Absent
<1>8. /\ Present(vault, k) => Present(vault', k)
      /\ p = "stored" => Present(vault', k)
      /\ \A j \in Jobs \ {k} : vault'[j] = vault[j]
    BY <1>3, <1>4, <1>5, <1>7 DEF Present, StoreTypeOK
<1>9. StoreTypeOK' /\ Queued' = Queued
    BY <1>2, <1>3, <1>4, <1>5, <1>7 DEF StoreTypeOK, Queued
<1>10. /\ run'[w] = r /\ \A v \in Runners \ {w} : run'[v] = run[v]
       /\ RunFits(w)'
    BY <1>3, <1>4, <1>5, <1>6, OneRun DEF RunFits
<1>11. ASSUME NEW j \in Jobs \ {k} PROVE SameIn(j) /\ SameBy(j)
  <2>1. SameBy(j)
    BY <1>1, <1>2, <1>4, <1>6, <1>11, SameByRuns
  <2> QED BY <1>2, <1>3, <1>8, <1>9, <1>11, <2>1 DEF SameIn, ListedOnce
<1>12. ASSUME k \notin disturbed PROVE Chained(k)'
  <2>1. Chained(k) /\ (Adding(k)' <=> Adding(k))
    BY <1>2, <1>5, <1>12 DEF AdminInv, Adding
  <2>2. \A v \in Runners : run[v].job = k <=> v = w
    BY <1>1, <2>1 DEF Chained
  <2>3. \A v \in Runners : run'[v].job = k <=> v = w
    BY <1>6, <1>10, <2>2
  <2>4. HasPlace(k) => HasPlace(k)'
    BY <1>2, <1>3, <1>9 DEF HasPlace
  <2>5. r.at = "scheduled" => k \in delayed'
    BY <1>3, <1>6
  <2> QED BY <1>2, <1>5, <1>8, <1>10, <2>1, <2>3, <2>4, <2>5 DEF Chained, Present
<1>13. \A j \in Jobs \ (Repeating \cup disturbed') : Settled(j)'
    BY <1>2, <1>5, <1>11, SettledSame DEF AdminInv
<1>14. \A j \in Repeating \ disturbed' : Chained(j)'
    BY <1>2, <1>11, <1>12, ChainedSame, AdminAssumption DEF AdminInv
<1>15. ChecksFit'
    BY <1>2, <1>4, <1>9, NoEmptier, ChecksSame DEF AdminInv
<1> QED BY <1>2, <1>4, <1>6, <1>9, <1>10, <1>13, <1>14, <1>15, RunnerAlone DEF AdminTypes

LEMMA CrashKeeps ==
    ASSUME AdminInv, NEW w \in Runners, Crash(w)
    PROVE  AdminInv'
<1>1. PICK k : k = run[w].job
    OBVIOUS
<1>2. /\ Fault /\ run[w] # NoRun /\ run' = [run EXCEPT ![w] = NoRun]
      /\ check' = [check EXCEPT ![w] = NoCheck] /\ unchecked' = TRUE
      /\ disturbed' = IF run[w].at = "running" THEN disturbed ELSE disturbed \cup {k}
      /\ UNCHANGED <<repeatable, op, paused, muted, told, swept, underRun, clashed>>
      /\ UNCHANGED storeVars
    BY <1>1 DEF Crash
<1>3. AdminTypes /\ StoreTypeOK /\ RunFits(w) /\ k \in Jobs
    BY <1>1, <1>2, OfStore DEF AdminInv, RunFits
<1>4. StoreTypeOK' /\ \A j \in Jobs : SameIn(j)
    BY <1>2, <1>3 DEF StoreTypeOK, storeVars, SameIn, Queued, ListedOnce
<1>5. ASSUME NEW j \in Jobs \ {k} PROVE SameBy(j)
    BY <1>1, <1>2, <1>3, <1>5, NoRunIs, SameByRuns
<1>6. /\ run'[w] = NoRun /\ RunFits(w)' /\ \A v \in Runners \ {w} : run'[v] = run[v]
      /\ (OnMove(k)' <=> OnMove(k)) /\ (OneMoves(k) => OneMoves(k)') /\ (Adding(k)' <=> Adding(k))
    BY <1>2, <1>3, NoRunIs, OneRun DEF RunFits, OnMove, OneMoves, Adding
<1>7. ASSUME k \in Jobs \ (Repeating \cup disturbed') PROVE Settled(k)'
  <2>1. Settled(k) /\ SameIn(k)
    BY <1>2, <1>4, <1>7 DEF AdminInv
  <2>2. /\ Runs(k)' => Runs(k)
        /\ \A u \in Runners : run'[u].job = k => run[u].job = k
    BY <1>1, <1>6 DEF Runs
  <2> QED BY <1>6, <2>1, <2>2 DEF Settled, SameIn, Present
<1>8. ASSUME k \in Repeating \ disturbed' PROVE Chained(k)'
  <2>1. Chained(k) /\ SameIn(k) /\ run[w].at = "running"
    BY <1>2, <1>3, <1>4, <1>8 DEF AdminInv
  <2>2. /\ Runs(k)' => Runs(k)
        /\ \A u \in Runners : run'[u].job = k => run'[u] = run[u]
    BY <1>1, <1>3, <1>6, NoRunIs DEF Runs
  <2>3. (HasPlace(k)' <=> HasPlace(k)) /\ (Present(vault, k)' <=> Present(vault, k))
    BY <2>1 DEF HasPlace, Present, SameIn
  <2> QED BY <1>2, <1>6, <2>1, <2>2, <2>3 DEF Chained, SameIn
<1>9. \A j \in Jobs \ (Repeating \cup disturbed') : Settled(j)'
    BY <1>2, <1>4, <1>5, <1>7, SettledSame DEF AdminInv
<1>10. \A j \in Repeating \ disturbed' : Chained(j)'
    BY <1>2, <1>4, <1>5, <1>8, ChainedSame, AdminAssumption DEF AdminInv
<1>11. ChecksFit'
    BY <1>2 DEF ChecksFit
<1>12. /\ check' \in [Runners -> [on : BOOLEAN, seen : Seq(BOOLEAN)]]
       /\ \A v \in Runners : check'[v].on => Len(check'[v].seen) <= 2
    BY <1>2, <1>3 DEF NoCheck, AdminTypes
<1> QED BY <1>2, <1>3, <1>4, <1>6, <1>9, <1>10, <1>11, <1>12, NoRunIs, RunnerAlone DEF AdminTypes

LEMMA ReadsCountKeeps ==
    ASSUME AdminInv, NEW w \in Runners, ReadsCount(w)
    PROVE  AdminInv'
<1> DEFINE n == Len(check[w].seen)
           seen == Append(check[w].seen, Zeroes[n + 1])
<1>1. /\ check[w].on
      /\ IF Len(seen) < 3
         THEN check' = [check EXCEPT ![w].seen = seen] /\ UNCHANGED told
         ELSE /\ check' = [check EXCEPT ![w] = NoCheck]
              /\ told' = (told \/ (Empty /\ \A i \in 1..3 : seen[i]))
      /\ UNCHANGED <<repeatable, run, op, paused, muted, calls, faults>>
      /\ UNCHANGED <<disturbed, swept, underRun, clashed, unchecked>>
      /\ UNCHANGED storeVars
    BY DEF ReadsCount, history
<1>2. AdminTypes /\ StoreTypeOK /\ check[w] \in [on : BOOLEAN, seen : Seq(BOOLEAN)] /\ n \in 0..2
  <2>1. AdminTypes /\ StoreTypeOK /\ check[w] \in [on : BOOLEAN, seen : Seq(BOOLEAN)] /\ n <= 2
    BY <1>1, OfStore DEF AdminInv, AdminTypes
  <2>2. check[w].seen \in Seq(BOOLEAN)
    BY <2>1
  <2>3. n \in Nat
    BY <2>2
  <2> HIDE DEF n
  <2> QED BY <2>1, <2>3
<1>3. Zeroes[n + 1] \in BOOLEAN /\ (Empty => Zeroes[n + 1])
  <2> HIDE DEF n
  <2>1. n + 1 = 1 \/ n + 1 = 2 \/ n + 1 = 3
    BY <1>2
  <2>2. (active = {}) \in BOOLEAN /\ (waiting = <<>>) \in BOOLEAN /\ (prioritized = {}) \in BOOLEAN
    OBVIOUS
  <2>3. Zeroes[1] = (active = {}) /\ Zeroes[2] = (waiting = <<>>) /\ Zeroes[3] = (prioritized = {})
    BY DEF Zeroes
  <2>4. Zeroes[1] \in BOOLEAN /\ Zeroes[2] \in BOOLEAN /\ Zeroes[3] \in BOOLEAN
    BY <2>2, <2>3
  <2>5. Empty => Zeroes[1] /\ Zeroes[2] /\ Zeroes[3]
    BY DEF Empty
  <2> QED BY <2>1, <2>4, <2>5
<1>4. /\ seen \in Seq(BOOLEAN) /\ Len(seen) = n + 1
      /\ \A i \in 1..n : seen[i] = check[w].seen[i]
      /\ seen[n + 1] = Zeroes[n + 1] /\ DOMAIN seen = 1..(n + 1) /\ DOMAIN check[w].seen = 1..n
    BY <1>2, <1>3
<1> HIDE DEF n, seen
<1>5. StoreTypeOK' /\ (Empty' <=> Empty) /\ \A j \in Jobs : SameIn(j)
    BY <1>1, <1>2 DEF StoreTypeOK, storeVars, SameIn, Queued, ListedOnce, Empty, Zeroes
<1>6. \A j \in Jobs : SameBy(j)
    BY <1>1 DEF SameBy, OnMove, OneMoves, Adding
<1>7. (\A v \in Runners : RunFits(v)') /\ (\A a \in Admins : OpFits(a)')
    BY <1>1, FitsSame
<1>8. ASSUME n < 2
      PROVE  /\ check' \in [Runners -> [on : BOOLEAN, seen : Seq(BOOLEAN)]]
             /\ \A v \in Runners : check'[v].on => Len(check'[v].seen) <= 2
             /\ ChecksFit' /\ told' \in BOOLEAN
  <2>1. check' = [check EXCEPT ![w].seen = seen] /\ UNCHANGED told
    BY <1>1, <1>2, <1>4, <1>8
  <2>2. PICK c : c = [on |-> TRUE, seen |-> seen]
    OBVIOUS
  <2>3. /\ check' = [check EXCEPT ![w] = c] /\ c \in [on : BOOLEAN, seen : Seq(BOOLEAN)]
    <3>1. c \in [on : BOOLEAN, seen : Seq(BOOLEAN)]
      BY <1>4, <2>2
    <3>2. PICK d : d = check[w]
      OBVIOUS
    <3>3. d \in [on : BOOLEAN, seen : Seq(BOOLEAN)] /\ d.on = TRUE
      BY <1>1, <1>2, <3>2 DEF AdminTypes
    <3>6. PICK z : z = [d EXCEPT !.seen = seen]
      OBVIOUS
    <3>7. z \in [on : BOOLEAN, seen : Seq(BOOLEAN)] /\ z.on = TRUE /\ z.seen = seen
      BY <1>4, <3>3, <3>6
    <3>8. c \in [on : BOOLEAN, seen : Seq(BOOLEAN)] /\ c.on = TRUE /\ c.seen = seen
      BY <3>1, <2>2
    <3>9. z = c
      BY <3>7, <3>8
    <3>4. [d EXCEPT !.seen = seen] = c
      BY <3>6, <3>9
    <3>5. check' = [check EXCEPT ![w] = [d EXCEPT !.seen = seen]]
      BY <2>1, <3>2
    <3> QED BY <3>1, <3>4, <3>5
  <2>4. check'[w] = c /\ \A v \in Runners \ {w} : check'[v] = check[v]
    BY <1>2, <2>3 DEF AdminTypes
  <2>5. /\ check' \in [Runners -> [on : BOOLEAN, seen : Seq(BOOLEAN)]]
        /\ \A v \in Runners : check'[v].on => Len(check'[v].seen) <= 2
    BY <1>2, <1>4, <1>8, <2>2, <2>3, <2>4 DEF AdminTypes
  <2>6. ChecksFit'
    <3>1. SUFFICES ASSUME Empty, ~unchecked, ~told
                   PROVE  \E v \in Runners : check'[v].on /\ \A i \in DOMAIN check'[v].seen : check'[v].seen[i]
      BY <1>1, <1>5, <2>1 DEF ChecksFit
    <3>2. PICK v \in Runners : check[v].on /\ \A i \in DOMAIN check[v].seen : check[v].seen[i]
      BY <3>1 DEF AdminInv, ChecksFit
    <3>3. CASE v = w
      <4>1. \A i \in 1..(n + 1) : seen[i]
        BY <1>2, <1>3, <1>4, <3>1, <3>2, <3>3
      <4> QED BY <1>4, <2>2, <2>4, <4>1
    <3>4. CASE v # w
      BY <2>4, <3>2, <3>4
    <3> QED BY <3>3, <3>4
  <2> QED BY <1>2, <2>1, <2>5, <2>6 DEF AdminTypes
<1>9. ASSUME n = 2
      PROVE  /\ check' \in [Runners -> [on : BOOLEAN, seen : Seq(BOOLEAN)]]
             /\ \A v \in Runners : check'[v].on => Len(check'[v].seen) <= 2
             /\ ChecksFit' /\ told' \in BOOLEAN
  <2>1. check' = [check EXCEPT ![w] = NoCheck] /\ told' = (told \/ (Empty /\ \A i \in 1..3 : seen[i]))
    BY <1>1, <1>4, <1>9
  <2>2. check'[w] = NoCheck /\ \A v \in Runners \ {w} : check'[v] = check[v]
    BY <1>2, <2>1 DEF AdminTypes
  <2>3. /\ check' \in [Runners -> [on : BOOLEAN, seen : Seq(BOOLEAN)]]
        /\ \A v \in Runners : check'[v].on => Len(check'[v].seen) <= 2
    BY <1>2, <2>1, <2>2 DEF AdminTypes, NoCheck
  <2>4. ChecksFit'
    <3>1. SUFFICES ASSUME Empty, ~unchecked, ~told, ~told'
                   PROVE  \E v \in Runners : check'[v].on /\ \A i \in DOMAIN check'[v].seen : check'[v].seen[i]
      BY <1>1, <1>5, <2>1 DEF ChecksFit
    <3>2. PICK v \in Runners : check[v].on /\ \A i \in DOMAIN check[v].seen : check[v].seen[i]
      BY <3>1 DEF AdminInv, ChecksFit
    <3>3. v # w
      <4>1. ASSUME v = w PROVE \A i \in 1..3 : seen[i]
        BY <1>3, <1>4, <1>9, <3>1, <3>2, <4>1
      <4> QED BY <2>1, <3>1, <4>1
    <3> QED BY <2>2, <3>2, <3>3
  <2>5. told' \in BOOLEAN
    BY <1>2, <2>1 DEF AdminTypes
  <2> QED BY <2>3, <2>4, <2>5
<1>10. /\ check' \in [Runners -> [on : BOOLEAN, seen : Seq(BOOLEAN)]]
       /\ \A v \in Runners : check'[v].on => Len(check'[v].seen) <= 2
       /\ ChecksFit' /\ told' \in BOOLEAN
    BY <1>2, <1>8, <1>9 DEF AdminTypes
<1>11. AdminTypes'
    BY <1>1, <1>2, <1>5, <1>10, Bounds DEF AdminTypes
<1>12. TogglesFit'
    BY <1>1, TogglesSame DEF AdminInv, Toggling
<1>13. \A j \in Jobs \ (Repeating \cup disturbed') : Settled(j)'
    BY <1>1, <1>5, <1>6, SettledSame DEF AdminInv
<1>14. \A j \in Repeating \ disturbed' : Chained(j)'
    BY <1>1, <1>5, <1>6, ChainedSame, AdminAssumption DEF AdminInv
<1> QED BY <1>7, <1>10, <1>11, <1>12, <1>13, <1>14 DEF AdminInv

LEMMA FinalSame ==
    ASSUME VaultType(vault), NEW k \in Jobs, NEW outcome \in {"completed", "dead"}, NEW E \in SUBSET Jobs,
           vault' = FinalVault(k, outcome, E)
    PROVE  /\ VaultType(vault') /\ \A j \in E : vault'[j] = Absent
           /\ \A j \in Jobs \ (E \cup {k}) : vault'[j] = vault[j]
           /\ k \notin E => /\ Present(vault', k) <=> Present(vault, k)
                            /\ Present(vault, k) => vault'[k].status = outcome
<1> DEFINE f == Finished(vault, k, outcome)
<1>1. /\ \A j \in Jobs \ {k} : f[j] = vault[j]
      /\ Present(vault, k) <=> f[k] # Absent
      /\ Present(vault, k) => f[k].status = outcome
  <2>1. CASE Present(vault, k)
    <3>1. vault[k] \in JobRec /\ f[k] = [vault[k] EXCEPT !.status = outcome]
      BY <2>1 DEF VaultType, Present, Finished
    <3>2. f[k].status = outcome /\ f[k] # Absent
      BY <3>1 DEF JobRec, Absent
    <3> QED BY <2>1, <3>2 DEF VaultType, Finished
  <2>2. CASE ~Present(vault, k)
    BY <2>2 DEF Finished, Present
  <2> QED BY <2>1, <2>2
<1>2. VaultType(vault')
    BY FinalVaultType
<1>3. \A j \in Jobs : vault'[j] = IF j \in E THEN Absent ELSE f[j]
    BY DEF FinalVault, WithoutEntries
<1> HIDE DEF f
<1> QED BY <1>1, <1>2, <1>3 DEF Present

LEMMA EndsThen ==
    ASSUME AdminInv, NEW w \in Runners, RunEnds(w)
    PROVE  /\ run' = [run EXCEPT ![w] = NoRun] /\ run'[w] = NoRun /\ RunFits(w)'
           /\ \A v \in Runners \ {w} : run'[v] = run[v]
           /\ check' \in [Runners -> [on : BOOLEAN, seen : Seq(BOOLEAN)]]
           /\ \A v \in Runners : check'[v].on => Len(check'[v].seen) <= 2
           /\ told' \in BOOLEAN /\ unchecked' \in BOOLEAN /\ ChecksFit'
<1>1. run' = [run EXCEPT ![w] = NoRun] /\ UNCHANGED told /\ AdminTypes
    BY DEF RunEnds, AdminInv
<1>2. run'[w] = NoRun /\ RunFits(w)' /\ \A v \in Runners \ {w} : run'[v] = run[v]
    BY <1>1, NoRunIs, OneRun DEF RunFits
<1>3. CASE check' = check /\ Unseen
    BY <1>1, <1>2, <1>3, ChecksSame, UnseenIs DEF AdminInv, AdminTypes, Unseen
<1>4. CASE check' = [check EXCEPT ![w] = Reading] /\ UNCHANGED unchecked
  <2>1. Reading \in [on : BOOLEAN, seen : Seq(BOOLEAN)] /\ Reading.on /\ Len(Reading.seen) = 0 /\ DOMAIN Reading.seen = {}
    BY DEF Reading
  <2>2. check'[w] = Reading /\ \A v \in Runners \ {w} : check'[v] = check[v]
    BY <1>1, <1>4 DEF AdminTypes
  <2>3. ChecksFit'
    BY <2>1, <2>2 DEF ChecksFit
  <2> QED BY <1>1, <1>2, <1>4, <2>1, <2>2, <2>3 DEF AdminTypes
<1> QED BY <1>3, <1>4 DEF RunEnds

LEMMA CompletesKeeps ==
    ASSUME AdminInv, NEW w \in Runners, NEW E \in SUBSET Jobs, Completes(w, E)
    PROVE  AdminInv'
<1>1. PICK k : k = run[w].job
    OBVIOUS
<1>2. /\ (run[w].at = "running" /\ k \notin Repeating) \/ run[w].at = "scheduled"
      /\ FinalizeScript(k, "completed", E) /\ RunEnds(w)
      /\ swept' = swept \cup (E \cap Repeating)
      /\ UNCHANGED <<repeatable, op, paused, muted, calls, faults, disturbed, underRun, clashed>>
    BY <1>1 DEF Completes
<1>3. AdminTypes /\ StoreTypeOK /\ VaultType(vault) /\ RunFits(w)
    BY OfStore DEF AdminInv
<1>4. k \in Jobs /\ Runs(k) /\ (run[w].at = "scheduled" => k \in Repeating) /\ run[w].rec \in JobRec
    BY <1>1, <1>2, <1>3 DEF RunFits, NoRun, Runs
<1>5. /\ vault' = FinalVault(k, "completed", E) /\ E \subseteq completed \cup {k}
      /\ completed' = (completed \cup {k}) \ E /\ active' = active \ {k}
      /\ UNCHANGED <<waiting, prioritized, delayed, failed, dlq>>
    BY <1>2 DEF FinalizeScript, FinalizeIndexes, Evictions
<1>6. StoreTypeOK' /\ Queued' = Queued
    BY <1>2, <1>3, <1>4, <1>5, FinalizeKeeps DEF Queued
<1>7. /\ \A j \in E : vault'[j] = Absent
      /\ \A j \in Jobs \ (E \cup {k}) : vault'[j] = vault[j]
      /\ k \notin E => /\ Present(vault', k) <=> Present(vault, k)
                       /\ Present(vault, k) => vault'[k].status = "completed"
    BY <1>3, <1>4, <1>5, FinalSame
<1>8. /\ run' = [run EXCEPT ![w] = NoRun] /\ run'[w] = NoRun /\ RunFits(w)'
      /\ \A v \in Runners \ {w} : run'[v] = run[v]
      /\ check' \in [Runners -> [on : BOOLEAN, seen : Seq(BOOLEAN)]]
      /\ \A v \in Runners : check'[v].on => Len(check'[v].seen) <= 2
      /\ told' \in BOOLEAN /\ unchecked' \in BOOLEAN /\ ChecksFit'
    BY <1>2, EndsThen
<1>9. ASSUME NEW j \in Jobs \ {k} PROVE SameBy(j)
    BY <1>1, <1>2, <1>3, <1>8, <1>9, NoRunIs, SameByRuns
<1>10. ASSUME NEW j \in Jobs \ (E \cup {k}) PROVE SameIn(j)
    BY <1>5, <1>6, <1>7, <1>10 DEF SameIn, ListedOnce
<1>11. /\ (OnMove(k)' <=> OnMove(k)) /\ (OneMoves(k) => OneMoves(k)') /\ (Adding(k)' <=> Adding(k))
    BY <1>2 DEF OnMove, OneMoves, Adding
<1>12. ASSUME k \in Jobs \ (Repeating \cup disturbed) PROVE Settled(k)'
  <2>1. Settled(k)
    BY <1>12 DEF AdminInv
  <2>2. /\ k \notin Queued \cup delayed \cup completed \cup failed \cup dlq /\ ~OnMove(k) /\ Present(vault, k)
        /\ \A u, v \in Runners : run[u].job = k /\ run[v].job = k => u = v
    BY <1>4, <2>1 DEF Settled
  <2>3. ~Runs(k)' /\ ListedOnce(k)' /\ OneMoves(k)'
    BY <1>1, <1>4, <1>5, <1>8, <1>11, <2>1, <2>2, NoRunIs DEF Runs, Settled, ListedOnce
  <2>4. CASE k \in E
    BY <1>5, <1>6, <1>7, <1>11, <2>2, <2>3, <2>4 DEF Settled, Present, Absent
  <2>5. CASE k \notin E
    BY <1>5, <1>6, <1>7, <1>11, <2>2, <2>3, <2>5 DEF Settled
  <2> QED BY <2>4, <2>5
<1>13. ASSUME NEW j \in E \ {k}, j \in Jobs \ (Repeating \cup disturbed) PROVE Settled(j)'
  <2>1. Settled(j) /\ j \in completed /\ SameBy(j)
    BY <1>5, <1>9, <1>13 DEF AdminInv
  <2>2. /\ j \notin Queued \cup active \cup delayed \cup failed /\ ~OnMove(j) /\ ~Runs(j)
    BY <2>1 DEF Settled
  <2>3. ~OnMove(j)' /\ ~Runs(j)' /\ OneMoves(j)' /\ ListedOnce(j)'
    BY <1>5, <2>1, <2>2, SameRuns DEF SameBy, Settled, ListedOnce
  <2> QED BY <1>5, <1>6, <1>7, <1>13, <2>2, <2>3 DEF Settled, Present, Absent
<1>14. ASSUME k \in Repeating \ disturbed PROVE Chained(k)'
  <2>1. Chained(k) /\ run[w].at = "scheduled"
    BY <1>2, <1>14 DEF AdminInv
  <2>2. \A v \in Runners : run'[v].job # k
    BY <1>1, <1>4, <1>8, <2>1, NoRunIs DEF Chained
  <2>3. k \notin underRun => k \in Queued \cup delayed
    BY <1>1, <2>1 DEF Chained
  <2>4. Present(vault, k)' => Present(vault, k)
    BY <1>7 DEF Present
  <2>5. k \notin swept' => Present(vault, k)' = Present(vault, k)
    BY <1>2, <1>7, <1>14 DEF Present
  <2> QED BY <1>2, <1>5, <1>6, <1>11, <2>1, <2>2, <2>3, <2>4, <2>5 DEF Chained, Runs, HasPlace
<1>15. ASSUME NEW j \in E \ {k}, j \in Repeating \ disturbed PROVE Chained(j)'
  <2>1. Chained(j) /\ SameBy(j) /\ j \in swept' /\ ~Present(vault, j)'
    BY <1>2, <1>7, <1>9, <1>15 DEF AdminInv, Present
  <2>2. Runs(j)' <=> Runs(j)
    BY <2>1, SameRuns
  <2> QED BY <1>2, <1>5, <1>6, <2>1, <2>2 DEF Chained, SameBy
<1>16. \A j \in Jobs \ (Repeating \cup disturbed') : Settled(j)'
    BY <1>2, <1>9, <1>10, <1>12, <1>13, SettledSame DEF AdminInv
<1>17. \A j \in Repeating \ disturbed' : Chained(j)'
    BY <1>2, <1>9, <1>10, <1>14, <1>15, ChainedSame, AdminAssumption DEF AdminInv
<1>18. disturbed' \subseteq Jobs /\ swept' \subseteq Jobs /\ underRun' \subseteq Jobs
    BY <1>2, <1>3 DEF AdminTypes
<1> QED BY <1>2, <1>6, <1>8, <1>16, <1>17, <1>18, NoRunIs, RunnerAlone

LEMMA DiesKeeps ==
    ASSUME AdminInv, NEW w \in Runners, NEW E \in SUBSET Jobs, Dies(w, E)
    PROVE  AdminInv'
<1>1. PICK k : k = run[w].job
    OBVIOUS
<1>2. /\ run[w].at = "running" /\ vault' = FinalVault(k, "dead", E) /\ RunEnds(w)
      /\ E \subseteq failed \cup {k} /\ failed' = (failed \cup {k}) \ E /\ dlq' = (dlq \ E) \cup {k}
      /\ active' = active \ {k} /\ expired' = expired \ {k}
      /\ swept' = swept \cup (E \cap Repeating) /\ disturbed' = disturbed \cup (E \cap {k})
      /\ UNCHANGED <<waiting, prioritized, delayed, due, completed>>
      /\ UNCHANGED <<repeatable, op, paused, muted, calls, faults, underRun, clashed>>
    BY <1>1 DEF Dies, Evictions
<1>3. AdminTypes /\ StoreTypeOK /\ VaultType(vault) /\ RunFits(w)
    BY OfStore DEF AdminInv
<1>4. k \in Jobs /\ Runs(k)
    BY <1>1, <1>2, <1>3 DEF RunFits, NoRun, Runs
<1>5. /\ VaultType(vault') /\ \A j \in E : vault'[j] = Absent
      /\ \A j \in Jobs \ (E \cup {k}) : vault'[j] = vault[j]
      /\ k \notin E => /\ Present(vault', k) <=> Present(vault, k)
                       /\ Present(vault, k) => vault'[k].status = "dead"
    BY <1>2, <1>3, <1>4, FinalSame
<1>6. StoreTypeOK' /\ Queued' = Queued
  <2>1. vault' \in [Jobs -> JobRec \cup {Absent}]
    BY <1>5 DEF VaultType
  <2> QED BY <1>2, <1>3, <1>4, <2>1 DEF StoreTypeOK, Queued
<1>7. /\ run' = [run EXCEPT ![w] = NoRun] /\ run'[w] = NoRun /\ RunFits(w)'
      /\ \A v \in Runners \ {w} : run'[v] = run[v]
      /\ check' \in [Runners -> [on : BOOLEAN, seen : Seq(BOOLEAN)]]
      /\ \A v \in Runners : check'[v].on => Len(check'[v].seen) <= 2
      /\ told' \in BOOLEAN /\ unchecked' \in BOOLEAN /\ ChecksFit'
    BY <1>2, EndsThen
<1>8. ASSUME NEW j \in Jobs \ {k} PROVE SameBy(j)
    BY <1>1, <1>2, <1>3, <1>7, <1>8, NoRunIs, SameByRuns
<1>9. ASSUME NEW j \in Jobs \ (E \cup {k}) PROVE SameIn(j)
    BY <1>2, <1>5, <1>6, <1>9 DEF SameIn, ListedOnce
<1>10. /\ (OnMove(k)' <=> OnMove(k)) /\ (OneMoves(k) => OneMoves(k)') /\ (Adding(k)' <=> Adding(k))
    BY <1>2 DEF OnMove, OneMoves, Adding
<1>11. ASSUME k \in Jobs \ (Repeating \cup disturbed') PROVE Settled(k)'
  <2>1. Settled(k) /\ k \notin E
    BY <1>2, <1>11 DEF AdminInv
  <2>2. /\ k \notin Queued \cup delayed \cup completed \cup failed /\ ~OnMove(k) /\ Present(vault, k)
        /\ \A u, v \in Runners : run[u].job = k /\ run[v].job = k => u = v
    BY <1>4, <2>1 DEF Settled
  <2>3. ~Runs(k)' /\ ListedOnce(k)' /\ OneMoves(k)'
    BY <1>1, <1>2, <1>4, <1>7, <1>10, <2>1, <2>2, NoRunIs DEF Runs, Settled, ListedOnce
  <2> QED BY <1>2, <1>5, <1>6, <1>10, <2>1, <2>2, <2>3 DEF Settled
<1>12. ASSUME NEW j \in E \ {k}, j \in Jobs \ (Repeating \cup disturbed) PROVE Settled(j)'
  <2>1. Settled(j) /\ j \in failed /\ SameBy(j)
    BY <1>2, <1>8, <1>12 DEF AdminInv
  <2>2. /\ j \notin Queued \cup active \cup delayed \cup completed /\ ~OnMove(j) /\ ~Runs(j)
    BY <2>1 DEF Settled
  <2>3. ~OnMove(j)' /\ ~Runs(j)' /\ OneMoves(j)' /\ ListedOnce(j)'
    BY <1>2, <2>1, <2>2, SameRuns DEF SameBy, Settled, ListedOnce
  <2> QED BY <1>2, <1>5, <1>6, <1>12, <2>2, <2>3 DEF Settled, Present, Absent
<1>13. ASSUME k \in Repeating \ disturbed' PROVE Chained(k)'
  <2>1. Chained(k) /\ k \notin E
    BY <1>2, <1>13 DEF AdminInv
  <2>2. \A v \in Runners : run'[v].job # k
    BY <1>1, <1>4, <1>7, <2>1, NoRunIs DEF Chained
  <2>3. (Present(vault, k)' <=> Present(vault, k)) /\ HasPlace(k)'
    BY <1>2, <1>5, <2>1 DEF Present, HasPlace
  <2> QED BY <1>2, <1>10, <2>1, <2>2, <2>3 DEF Chained, Runs
<1>14. ASSUME NEW j \in E \ {k}, j \in Repeating \ disturbed PROVE Chained(j)'
  <2>1. Chained(j) /\ SameBy(j) /\ j \in swept' /\ ~Present(vault, j)'
    BY <1>2, <1>5, <1>8, <1>14 DEF AdminInv, Present
  <2>2. Runs(j)' <=> Runs(j)
    BY <2>1, SameRuns
  <2> QED BY <1>2, <1>6, <2>1, <2>2 DEF Chained, SameBy
<1>15. \A j \in Jobs \ (Repeating \cup disturbed') : Settled(j)'
    BY <1>2, <1>8, <1>9, <1>11, <1>12, SettledSame DEF AdminInv
<1>16. \A j \in Repeating \ disturbed' : Chained(j)'
    BY <1>2, <1>8, <1>9, <1>13, <1>14, ChainedSame, AdminAssumption DEF AdminInv
<1>17. disturbed' \subseteq Jobs /\ swept' \subseteq Jobs /\ underRun' \subseteq Jobs
    BY <1>2, <1>3, <1>4 DEF AdminTypes
<1> QED BY <1>2, <1>6, <1>7, <1>15, <1>16, <1>17, NoRunIs, RunnerAlone

-----------------------------------------------------------------------------
LEMMA AdminStarts == AdminInit => AdminInv
<1> SUFFICES ASSUME AdminInit PROVE AdminInv
    OBVIOUS
<1>1. /\ StoreInit /\ repeatable = {} /\ paused = FALSE /\ muted = FALSE /\ calls = 0 /\ faults = 0
      /\ run = [w \in Runners |-> NoRun] /\ op = [a \in Admins |-> Resting]
      /\ disturbed = {} /\ swept = {} /\ underRun = {} /\ clashed = FALSE
      /\ check = [w \in Runners |-> NoCheck] /\ told = TRUE /\ unchecked = FALSE
    BY DEF AdminInit
<1>2. /\ \A j \in Jobs : vault[j] = Absent
      /\ Queued = {} /\ active = {} /\ delayed = {} /\ completed = {} /\ failed = {} /\ dlq = {}
      /\ \A j : ListedOnce(j)
    BY <1>1 DEF StoreInit, Queued, ToSet, ListedOnce, OnceIn
<1>3. \A j : ~OnMove(j) /\ ~Adding(j) /\ OneMoves(j) /\ (j \in Jobs => ~Runs(j))
    BY <1>1, RestingIs, NoRunIs DEF OnMove, Moves, Adding, OneMoves, Runs
<1>4. StoreTypeOK
    BY <1>1 DEF StoreInit, StoreTypeOK
<1>5. AdminTypes
  <2>1. NoCheck \in [on : BOOLEAN, seen : Seq(BOOLEAN)] /\ ~NoCheck.on
    BY DEF NoCheck
  <2>2. /\ check \in [Runners -> [on : BOOLEAN, seen : Seq(BOOLEAN)]]
        /\ \A w \in Runners : check[w].on => Len(check[w].seen) <= 2
    BY <1>1, <2>1
  <2>3. run \in [Runners -> RunRec] /\ op \in [Admins -> OpRec]
    BY <1>1, RestingIs, NoRunIs
  <2>4. calls \in 0..MaxCalls /\ faults \in 0..MaxFaults
    BY <1>1, AdminAssumption
  <2> QED BY <1>1, <1>4, <2>2, <2>3, <2>4 DEF AdminTypes
<1>6. (\A w \in Runners : RunFits(w)) /\ (\A a \in Admins : OpFits(a))
    BY <1>1, RestingIs DEF RunFits, OpFits
<1>7. \A j \in Jobs : Settled(j)
    BY <1>2, <1>3 DEF Settled, Present, Absent
<1>8. \A j \in Jobs : Chained(j)
    BY <1>1, <1>2, <1>3 DEF Chained, Present, Runs
<1>9. TogglesFit /\ ChecksFit
    BY <1>1, RestingIs DEF TogglesFit, Toggling, ChecksFit
<1> QED BY <1>5, <1>6, <1>7, <1>8, <1>9, AdminAssumption DEF AdminInv

LEMMA AdminSteps == AdminInv /\ [AdminNext]_queueVars => AdminInv'
<1> SUFFICES ASSUME AdminInv, [AdminNext]_queueVars PROVE AdminInv'
    OBVIOUS
<1>1. ASSUME NEW j \in Jobs, JobStep(j) PROVE AdminInv'
    BY <1>1, AddKeeps, RetryAdmin, ClockKeeps, RemoveRepeatableKeeps DEF JobStep
<1>2. ASSUME NEW w \in Runners, WorkerStep(w) PROVE AdminInv'
    BY <1>2, TakeKeeps, RenewKeeps, SchedulesKeep, CrashKeeps, ReadsCountKeeps, CompletesKeeps,
       DiesKeeps DEF WorkerStep
<1>3. ASSUME NEW a \in Admins, AdminStep(a) PROVE AdminInv'
  <2>1. ASSUME NEW j \in Jobs, AddRepeat(a, j) \/ IndexRepeat(a, j) PROVE AdminInv'
    BY <2>1, AddRepeatKeeps, IndexRepeatKeeps
  <2>2. ASSUME NEW j \in Jobs, DelayStarts(a, j) \/ DelayLooks(a, j) \/ DelayRemoves(a, j)
                               \/ DelayMoves(a, j) \/ DelayWrites(a, j)
        PROVE  AdminInv'
    BY <2>2, LooksKeep, DelayRemovesKeeps, DelayMovesKeeps, DelayWritesKeeps
  <2>3. ASSUME NEW j \in Jobs, ZombieScans(a, j) \/ ZombieReads(a, j) \/ ZombieActs(a, j)
        PROVE  AdminInv'
    BY <2>3, LooksKeep, ZombieActsKeeps
  <2>4. ASSUME NEW type \in {"completed", "failed"}, NEW S \in SUBSET Jobs, CleanReads(a, type, S)
        PROVE  AdminInv'
    BY <2>4, CleanReadsKeeps
  <2>5. CleanDeletes(a) \/ GiveUp(a) \/ ToggleReads(a) \/ ToggleWrites(a) => AdminInv'
    BY CleanDeletesKeeps, GiveUpKeeps, ToggleKeeps
  <2> QED BY <1>3, <2>1, <2>2, <2>3, <2>4, <2>5 DEF AdminStep
<1>4. ASSUME UNCHANGED queueVars PROVE AdminInv'
  <2>1. /\ UNCHANGED <<adminVars, clashed>> /\ UNCHANGED <<run, op>> /\ UNCHANGED storeVars
        /\ UNCHANGED <<calls, faults, disturbed, swept, underRun, unchecked, repeatable>>
    BY <1>4 DEF queueVars, history, adminVars
  <2>2. AdminTypes /\ StoreTypeOK
    BY OfStore DEF AdminInv
  <2>3. StoreTypeOK' /\ Queued' = Queued /\ active' = active
    BY <2>1, <2>2 DEF StoreTypeOK, storeVars, Queued
  <2>4. \A j \in Jobs : SameIn(j) /\ SameBy(j)
    BY <2>1, <2>3, SameHands DEF SameBy, SameIn, ListedOnce, storeVars
  <2>5. Empty' /\ ~unchecked' => Empty /\ ~unchecked
    BY <2>1, <2>2, <2>3, NoEmptier
  <2>6. \A j \in Jobs \ (Repeating \cup disturbed') : Settled(j)'
    BY <2>1, <2>4, SettledSame DEF AdminInv
  <2>7. \A j \in Repeating \ disturbed' : Chained(j)'
    BY <2>1, <2>4, ChainedSame, AdminAssumption DEF AdminInv
  <2> QED BY <2>1, <2>2, <2>3, <2>5, <2>6, <2>7, StoreAlone DEF AdminTypes
<1> QED BY <1>1, <1>2, <1>3, <1>4, PromoteAdmin, RecoverAdmin, ObliterateKeeps DEF AdminNext

LEMMA AdminKept == AdminSpec => []AdminInv
<1>1. AdminInit => AdminInv
    BY AdminStarts
<1>2. AdminInv /\ [AdminNext]_queueVars => AdminInv'
    BY AdminSteps
<1> QED BY <1>1, <1>2, PTL DEF AdminSpec

-----------------------------------------------------------------------------
(***************************************************************************)
(* What the readers see: the whole list of one type is the structure.      *)
(***************************************************************************)
LEMMA RepeatHolds == AdminInv => RepeatSound
<1> SUFFICES ASSUME AdminInv PROVE RepeatSound
    OBVIOUS
<1>1. ASSUME NEW j \in repeatable \ (disturbed \cup swept \cup underRun)
      PROVE  j \in Listed /\ HasPlace(j)
  <2>1. Chained(j)
    BY <1>1 DEF AdminInv, AdminTypes
  <2> QED BY <1>1, <2>1 DEF Chained, Listed
<1>2. ASSUME NEW j \in Repeating \ (underRun \cup disturbed), Present(vault, j)
      PROVE  j \in Listed \/ Adding(j)
  <2>1. Chained(j)
    BY <1>2 DEF AdminInv
  <2> QED BY <1>2, <2>1 DEF Chained, Listed
<1> QED BY <1>1, <1>2 DEF RepeatSound, ChainGoesOn, WhatRepeatsIsListed, HasPlace

LEMMA DrainedHolds == AdminInv => DrainedIsTold
BY DEF AdminInv, ChecksFit, DrainedIsTold

LEMMA TypesHold == AdminInv => AdminTypeOK
<1> SUFFICES ASSUME AdminInv PROVE AdminTypeOK
    OBVIOUS
<1>1. \A w \in Runners :
         /\ run[w].at \in {"idle", "running", "stored", "scheduled"}
         /\ run[w].at \in {"stored", "scheduled"} => run[w].job \in Repeating
         /\ run[w] # NoRun => run[w].job \in Jobs /\ run[w].rec \in JobRec
  <2>1. \A w \in Runners : RunFits(w) /\ run[w] \in RunRec
    BY DEF AdminInv, AdminTypes
  <2> QED BY <2>1, NoRunIs DEF RunFits, RunRec
<1>2. \A a \in Admins : /\ op[a].jobs \subseteq Jobs
                        /\ op[a].kind \in {"none", "repeat", "delay", "clean", "zombie", "toggle"}
  <2>1. \A a \in Admins : op[a] \in OpRec
    BY DEF AdminInv, AdminTypes
  <2> QED BY <2>1 DEF OpRec
<1> QED BY <1>1, <1>2 DEF AdminInv, AdminTypes, AdminTypeOK

LEMMA ListOf ==
    ASSUME NEW S, IsFiniteSet(S)
    PROVE  SetToSeq(S) \in Seq(S) /\ ToSet(SetToSeq(S)) = S /\ Len(SetToSeq(S)) = Cardinality(S)
<1> DEFINE n == Cardinality(S)
           q == SetToSeq(S)
<1>1. n \in Nat /\ ExistsBijection(1..n, S)
    BY FS_CardinalityType
<1>2. q \in [1..n -> S] /\ IsInjective(q)
  <2>1. PICK f : f \in Bijection(1..n, S)
    BY <1>1 DEF ExistsBijection
  <2>2. f \in [1..n -> S] /\ IsInjective(f)
    BY <2>1 DEF Bijection, Injection
  <2> QED BY <2>2 DEF SetToSeq
<1> HIDE DEF q, n
<1>3. IsFiniteSet(1..n) /\ Cardinality(1..n) = n
    BY <1>1, FS_Interval
<1>4. q \in Surjection(1..n, S)
  <2>1. q \in Injection(1..n, S)
    BY <1>2 DEF Injection
  <2> QED BY <1>3, <2>1, FS_Injection DEF n
<1>5. \A e \in S : \E i \in 1..n : q[i] = e
    BY <1>4 DEF Surjection
<1>6. q \in Seq(S) /\ Len(q) = n /\ DOMAIN q = 1..n
    BY <1>1, <1>2
<1>7. ToSet(q) = S
    BY <1>2, <1>5, <1>6 DEF ToSet
<1> QED BY <1>6, <1>7 DEF q, n

LEMMA WholeRange ==
    ASSUME NEW S, NEW s \in Seq(S)
    PROVE  Ranged(s, 0, -1) = s
<1>1. Ranged(s, 0, -1) = SubSeq(s, 1, Len(s))
    BY DEF Ranged
<1> QED BY <1>1

\* A fold over one element is one step.
LEMMA OneType ==
    ASSUME NEW t
    PROVE  GetJobIds(<<t>>, 0, -1) = PageStep(0, -1, [index |-> 0, ids |-> <<>>], t).ids
<1> DEFINE base == [index |-> 0, ids |-> <<>>]
           iter == CHOOSE it : it = [s \in SUBSET DOMAIN <<t>> |->
                      IF s = {} THEN base ELSE PageStep(0, -1, it[s \ {Max(s)}], <<t>>[Max(s)])]
<1>1. GetJobIds(<<t>>, 0, -1) = iter[DOMAIN <<t>>].ids
    BY DEF GetJobIds, FoldLeft, MapThenFoldSet
<1>2. Max({1}) = 1
    BY DEF Max
<1>3. DOMAIN <<t>> = {1} /\ <<t>>[1] = t
    OBVIOUS
<1>4. PICK g : g = [s \in SUBSET {1} |-> IF s = {} THEN base ELSE PageStep(0, -1, base, t)]
    OBVIOUS
<1>5. g = [s \in SUBSET DOMAIN <<t>> |->
              IF s = {} THEN base ELSE PageStep(0, -1, g[s \ {Max(s)}], <<t>>[Max(s)])]
  <2> HIDE DEF base
  <2>1. \A s \in SUBSET {1} : s = {} \/ s = {1}
    OBVIOUS
  <2>2. g[{1} \ {1}] = base
    BY <1>4
  <2>3. \A s \in SUBSET {1} : (IF s = {} THEN base ELSE PageStep(0, -1, g[s \ {Max(s)}], <<t>>[Max(s)]))
                              = (IF s = {} THEN base ELSE PageStep(0, -1, base, t))
    BY <1>2, <1>3, <2>1, <2>2
  <2> QED BY <1>3, <1>4, <2>3
<1>6. iter = [s \in SUBSET DOMAIN <<t>> |->
                 IF s = {} THEN base ELSE PageStep(0, -1, iter[s \ {Max(s)}], <<t>>[Max(s)])]
    BY <1>5
<1> HIDE DEF iter, base
<1>7. iter[{}] = base
    BY <1>6
<1>8. iter[{1}] = PageStep(0, -1, iter[{1} \ {Max({1})}], <<t>>[Max({1})])
    BY <1>3, <1>6
<1>9. {1} \ {1} = {}
    OBVIOUS
<1>10. iter[{1}] = PageStep(0, -1, base, t)
    BY <1>2, <1>3, <1>7, <1>8, <1>9
<1> QED BY <1>1, <1>3, <1>10 DEF base

LEMMA WholeList ==
    ASSUME StoreTypeOK, NEW t \in Types
    PROVE  ToSet(GetJobIds(<<t>>, 0, -1)) =
               CASE t = "waiting" -> Queued [] t = "active" -> active [] t = "delayed" -> delayed
                 [] t = "completed" -> completed [] t = "failed" -> failed [] t = "dead" -> dlq
<1> DEFINE p == SetToSeq(prioritized)
           start == [index |-> 0, ids |-> <<>>]
<1>1. \A S \in SUBSET Jobs : SetToSeq(S) \in Seq(Jobs) /\ ToSet(SetToSeq(S)) = S
  <2> TAKE S \in SUBSET Jobs
  <2>1. IsFiniteSet(S)
    BY JobsAssumption, FS_Subset
  <2>2. SetToSeq(S) \in Seq(S) /\ ToSet(SetToSeq(S)) = S
    BY <2>1, ListOf
  <2>3. Seq(S) \subseteq Seq(Jobs)
    BY SeqMonotonic
  <2> QED BY <2>2, <2>3
<1>2. /\ p \in Seq(Jobs) /\ waiting \in Seq(Jobs) /\ ToSet(p) = prioritized
      /\ p \o waiting \in Seq(Jobs) /\ ToSet(p \o waiting) = ToSet(p) \cup ToSet(waiting)
    BY <1>1, ToSetConcat DEF StoreTypeOK
<1> HIDE DEF p
<1>3. Members(t) \in Seq(Jobs)
    BY <1>1, <1>2 DEF Members, Types, StoreTypeOK, p
<1>4. ToSet(Members(t)) =
          CASE t = "waiting" -> Queued [] t = "active" -> active [] t = "delayed" -> delayed
            [] t = "completed" -> completed [] t = "failed" -> failed [] t = "dead" -> dlq
    BY <1>1, <1>2 DEF Members, Types, StoreTypeOK, Queued, p
<1>5. WaitingRange(0, -1) = p \o waiting
  <2>1. Ranged(p, 0, -1) = p /\ Ranged(waiting, 0, -1) = waiting /\ Len(p) \in Nat
    BY <1>2, WholeRange
  <2>2. Len(p) > 0 \/ p = <<>>
    BY <1>2
  <2>3. WaitingRange(0, -1) =
            (IF 0 < Len(p) THEN Ranged(p, 0, -1) ELSE <<>>) \o Ranged(waiting, 0, -1)
    <3>1. ~(0 > Len(p)) /\ (IF 0 > Len(p) THEN 0 - Len(p) ELSE 0) = 0
      BY <2>1
    <3>2. WaitingRange(0, -1) =
              (IF 0 < Len(p) THEN Ranged(p, 0, -1) ELSE <<>>)
                  \o Ranged(waiting, IF 0 > Len(p) THEN 0 - Len(p) ELSE 0, -1)
      BY Zenon DEF WaitingRange, p
    <3> QED BY <3>1, <3>2
  <2> QED BY <2>1, <2>2, <2>3
<1>6. PageStep(0, -1, start, t).ids = Members(t)
  <2>1. Len(Members(t)) \in Nat /\ (Len(Members(t)) <= 0 => Members(t) = <<>>)
    BY <1>3
  <2>2. t = "waiting" => WaitingRange(0, -1) = Members(t)
    BY <1>5 DEF Members, p
  <2>3. Ranged(Members(t), 0, -1) = Members(t)
    BY <1>3, WholeRange
  <2>4. PageStep(0, -1, start, t) =
            [index |-> 0 + Len(Members(t)),
             ids |-> <<>> \o (IF 0 + Len(Members(t)) <= 0 THEN <<>>
                              ELSE IF t = "waiting" THEN WaitingRange(0, -1)
                              ELSE Ranged(Members(t), 0, -1))]
    BY DEF PageStep
  <2>5. PageStep(0, -1, start, t).ids = <<>> \o Members(t)
    BY <2>1, <2>2, <2>3, <2>4
  <2> QED BY <1>3, <2>5
<1> QED BY <1>4, <1>6, OneType

\* Which of the lists a job is in, from where it is.
LEMMA ListsAre ==
    ASSUME StoreTypeOK, NEW j, NEW t \in Types
    PROVE  j \in GetJobs(<<t>>, 0, -1) <=>
               CASE t = "waiting" -> j \in Queued /\ (Present(vault, j) \/ j \in dlq)
                 [] t = "active" -> j \in active /\ (Present(vault, j) \/ j \in dlq)
                 [] t = "delayed" -> j \in delayed /\ (Present(vault, j) \/ j \in dlq)
                 [] t = "completed" -> j \in completed /\ Present(vault, j)
                 [] t = "failed" -> j \in failed /\ Present(vault, j)
                 [] t = "dead" -> j \in dlq
<1>1. \A u : <<t>> = <<u>> <=> t = u
    OBVIOUS
<1>2. j \in GetJobs(<<t>>, 0, -1) <=>
          /\ j \in ToSet(GetJobIds(<<t>>, 0, -1))
          /\ Present(vault, j) \/ (j \in dlq /\ t # "completed" /\ t # "failed")
    BY <1>1 DEF GetJobs
<1> QED BY <1>2, WholeList DEF Types

LEMMA AtMostOne ==
    ASSUME NEW s \in Seq(Jobs), NEW j, OnceIn(s, j)
    PROVE  /\ Cardinality({i \in DOMAIN s : s[i] = j}) <= 1
           /\ ToSet(s) \subseteq {j} => Len(s) = IF j \in ToSet(s) THEN 1 ELSE 0
<1> DEFINE places == {i \in DOMAIN s : s[i] = j}
<1>1. places = {} \/ \E i : places = {i}
    BY DEF OnceIn
<1>2. Cardinality(places) <= 1
  <2> HIDE DEF places
  <2>1. ASSUME NEW i, places = {i} PROVE Cardinality(places) = 1
    BY <2>1, FS_Singleton
  <2>2. ASSUME places = {} PROVE Cardinality(places) = 0
    BY <2>2, FS_EmptySet
  <2> QED BY <1>1, <2>1, <2>2
<1>3. ASSUME ToSet(s) \subseteq {j} PROVE Len(s) = IF j \in ToSet(s) THEN 1 ELSE 0
  <2>1. Len(s) \in Nat /\ DOMAIN s = 1..Len(s) /\ \A i \in 1..Len(s) : s[i] = j
    BY <1>3 DEF ToSet
  <2>2. \A a, b \in 1..Len(s) : a = b
    BY <2>1 DEF OnceIn
  <2>3. Len(s) <= 1
    BY <2>1, <2>2
  <2>4. j \in ToSet(s) <=> 1 <= Len(s)
    BY <2>1 DEF ToSet
  <2> QED BY <2>1, <2>3, <2>4
<1> QED BY <1>2, <1>3

LEMMA CountOne ==
    ASSUME NEW S, NEW j, S \subseteq {j}
    PROVE  Cardinality(S) = IF j \in S THEN 1 ELSE 0
<1>1. S = {} \/ S = {j}
    OBVIOUS
<1> QED BY <1>1, FS_EmptySet, FS_Singleton

\* A job alone on its queue is counted once if it has a record.
LEMMA CountsAgree ==
    ASSUME StoreTypeOK, NEW j \in Jobs, Settled(j), ~OnMove(j),
           \A k \in Jobs \ {j} : \A t \in Types : k \notin ToSet(Members(t))
    PROVE  GetJobCounts("waiting") + GetJobCounts("active") + GetJobCounts("delayed")
               + GetJobCounts("completed") + GetJobCounts("failed")
           = (IF Present(vault, j) THEN 1 ELSE 0)
<1>1. \A S \in SUBSET Jobs : SetToSeq(S) \in Seq(Jobs) /\ ToSet(SetToSeq(S)) = S
  <2> TAKE S \in SUBSET Jobs
  <2>1. IsFiniteSet(S)
    BY JobsAssumption, FS_Subset
  <2>2. SetToSeq(S) \in Seq(S) /\ ToSet(SetToSeq(S)) = S
    BY <2>1, ListOf
  <2>3. Seq(S) \subseteq Seq(Jobs)
    BY SeqMonotonic
  <2> QED BY <2>2, <2>3
<1>2. /\ ToSet(Members("waiting")) = prioritized \cup ToSet(waiting)
      /\ ToSet(Members("active")) = active /\ ToSet(Members("delayed")) = delayed
      /\ ToSet(Members("completed")) = completed /\ ToSet(Members("failed")) = failed
    BY <1>1, ToSetConcat DEF Members, StoreTypeOK
<1>3. /\ prioritized \subseteq {j} /\ ToSet(waiting) \subseteq {j} /\ active \subseteq {j}
      /\ delayed \subseteq {j} /\ completed \subseteq {j} /\ failed \subseteq {j}
  <2>1. \A t \in Types : ToSet(Members(t)) \cap Jobs \subseteq {j}
    OBVIOUS
  <2>2. ToSet(waiting) \subseteq Jobs
    BY RangeOfSeq DEF StoreTypeOK, ToSet, Range
  <2> QED BY <1>2, <2>1, <2>2 DEF Types, StoreTypeOK
<1>4. /\ Len(waiting) = IF j \in ToSet(waiting) THEN 1 ELSE 0
      /\ Cardinality(prioritized) = IF j \in prioritized THEN 1 ELSE 0
      /\ Cardinality(active) = IF j \in active THEN 1 ELSE 0
      /\ Cardinality(delayed) = IF j \in delayed THEN 1 ELSE 0
      /\ Cardinality(completed) = IF j \in completed THEN 1 ELSE 0
      /\ Cardinality(failed) = IF j \in failed THEN 1 ELSE 0
    BY <1>3, AtMostOne, CountOne DEF Settled, ListedOnce, StoreTypeOK
<1>5. /\ GetJobCounts("waiting") = Len(waiting) + Cardinality(prioritized)
      /\ GetJobCounts("active") = Cardinality(active) /\ GetJobCounts("delayed") = Cardinality(delayed)
      /\ GetJobCounts("completed") = Cardinality(completed) /\ GetJobCounts("failed") = Cardinality(failed)
    BY DEF GetJobCounts
<1>6. /\ Present(vault, j) <=> j \in Queued \cup active \cup delayed \cup completed \cup failed
      /\ j \in Queued => j \notin active \cup delayed \cup completed \cup failed
      /\ j \in active => j \notin delayed \cup completed \cup failed
      /\ j \in delayed => j \notin completed \cup failed
      /\ j \in completed => j \notin failed
      /\ j \in Queued <=> j \in ToSet(waiting) \/ j \in prioritized
      /\ ~(j \in ToSet(waiting) /\ j \in prioritized)
    BY DEF Settled, ListedOnce, Queued
<1> QED BY <1>4, <1>5, <1>6

LEMMA ReadersHold == AdminInv => ReadersAgree
<1> SUFFICES ASSUME AdminInv, NEW j \in Jobs, Steady(j)
             PROVE  LET says == GetJob(j)
                        lists == {t \in Types : j \in GetJobs(<<t>>, 0, -1)}
                    IN  /\ lists = IF says = "none" THEN {}
                                   ELSE IF says = "dead" THEN {"dead"} \cup ({"failed"} \cap lists)
                                   ELSE {says}
                        /\ says = "dead" /\ Present(vault, j) => "failed" \in lists
                        /\ says \in {"waiting", "active", "delayed", "completed"} =>
                               /\ Cardinality({i \in DOMAIN waiting : waiting[i] = j}) <= 1
                               /\ \A t \in {"active", "completed"} : says = t <=> DashboardState(j) = t
                        /\ says = "dead" <=> DashboardState(j) = "failed"
                        /\ (\A k \in Jobs \ {j} : \A t \in Types : k \notin ToSet(Members(t))) =>
                               GetJobCounts("waiting") + GetJobCounts("active") + GetJobCounts("delayed")
                                   + GetJobCounts("completed") + GetJobCounts("failed")
                               = (IF Present(vault, j) THEN 1 ELSE 0)
    BY DEF ReadersAgree
<1> DEFINE says == GetJob(j)
           lists == {t \in Types : j \in GetJobs(<<t>>, 0, -1)}
<1>1. StoreTypeOK /\ Settled(j) /\ ~OnMove(j) /\ vault[j] \in JobRec \cup {Absent}
    BY DEF AdminInv, AdminTypes, Steady, OnMove, Moves, StoreTypeOK
<1>2. /\ Present(vault, j) <=> j \in Queued \cup active \cup delayed \cup completed \cup failed
      /\ j \in Queued => j \notin active \cup delayed \cup completed \cup failed
      /\ j \in active => j \notin delayed \cup completed \cup failed
      /\ j \in delayed => j \notin completed \cup failed
      /\ j \in completed => j \notin failed
      /\ j \in failed => j \in dlq
      /\ j \in dlq /\ Present(vault, j) => j \in failed
    BY <1>1 DEF Settled
<1>3. /\ "waiting" \in lists <=> j \in Queued
      /\ "active" \in lists <=> j \in active
      /\ "delayed" \in lists <=> j \in delayed
      /\ "completed" \in lists <=> j \in completed
      /\ "failed" \in lists <=> j \in failed
      /\ "dead" \in lists <=> j \in dlq
  <2>1. \A t \in Types : t \in lists <=>
            CASE t = "waiting" -> j \in Queued /\ (Present(vault, j) \/ j \in dlq)
              [] t = "active" -> j \in active /\ (Present(vault, j) \/ j \in dlq)
              [] t = "delayed" -> j \in delayed /\ (Present(vault, j) \/ j \in dlq)
              [] t = "completed" -> j \in completed /\ Present(vault, j)
              [] t = "failed" -> j \in failed /\ Present(vault, j)
              [] t = "dead" -> j \in dlq
    BY <1>1, ListsAre
  <2> HIDE DEF lists
  <2> QED BY <1>2, <2>1 DEF Types
<1>4. lists \subseteq Types
    OBVIOUS
<1> HIDE DEF lists
<1>5. says = IF j \in dlq THEN "dead" ELSE IF ~Present(vault, j) THEN "none"
             ELSE IF j \in active THEN "active" ELSE IF j \in delayed THEN "delayed"
             ELSE IF j \in completed THEN "completed" ELSE "waiting"
    BY <1>2 DEF GetJob
<1> HIDE DEF says
<1>6. lists = IF says = "none" THEN {}
              ELSE IF says = "dead" THEN {"dead"} \cup ({"failed"} \cap lists)
              ELSE {says}
  <2>1. CASE j \in dlq
    <3>1. "dead" \in lists /\ \A t \in lists : t = "dead" \/ t = "failed"
      BY <1>2, <1>3, <1>4, <2>1 DEF Types
    <3>2. lists = {"dead"} \cup ({"failed"} \cap lists)
      BY <3>1
    <3> QED BY <1>5, <2>1, <3>2
  <2>2. CASE j \notin dlq /\ ~Present(vault, j)
    <3>1. \A t \in Types : t \notin lists
      BY <1>2, <1>3, <2>2 DEF Types
    <3> QED BY <1>4, <1>5, <2>2, <3>1
  <2>3. CASE j \notin dlq /\ Present(vault, j)
    <3>1. says \in lists /\ (\A t \in lists : t = says) /\ says # "none" /\ says # "dead"
      BY <1>2, <1>3, <1>4, <1>5, <2>3 DEF Types
    <3> QED BY <3>1
  <2> QED BY <2>1, <2>2, <2>3
<1>7. says = "dead" /\ Present(vault, j) => "failed" \in lists
    BY <1>2, <1>3, <1>5
<1>8. Cardinality({i \in DOMAIN waiting : waiting[i] = j}) <= 1
    BY <1>1, AtMostOne DEF Settled, ListedOnce, StoreTypeOK
<1>9. /\ j \in active <=> vault[j].status = "active"
      /\ j \in completed <=> vault[j].status = "completed"
      /\ j \in failed <=> vault[j].status = "dead"
      /\ vault[j].status # "failed"
    BY <1>1 DEF Settled, JobRec, Statuses, Absent
<1>10. DashboardState(j) = IF j \in dlq THEN "failed" ELSE vault[j].status
    BY <1>2, <1>9 DEF DashboardState
<1>11. says = "dead" <=> DashboardState(j) = "failed"
    BY <1>5, <1>9, <1>10
<1>12. \A t \in {"active", "completed"} : says = t <=> DashboardState(j) = t
    BY <1>2, <1>5, <1>9, <1>10
<1>13. (\A k \in Jobs \ {j} : \A t \in Types : k \notin ToSet(Members(t))) =>
           GetJobCounts("waiting") + GetJobCounts("active") + GetJobCounts("delayed")
               + GetJobCounts("completed") + GetJobCounts("failed")
           = (IF Present(vault, j) THEN 1 ELSE 0)
    BY <1>1, CountsAgree
<1> QED BY <1>6, <1>7, <1>8, <1>11, <1>12, <1>13 DEF says, lists

LEMMA TogglesHold == AdminInv => TogglesAgree
BY DEF AdminInv, TogglesFit, Toggling, TogglesAgree

-----------------------------------------------------------------------------
(***************************************************************************)
(* A page is a slice of the lists put one after the other.                 *)
(***************************************************************************)
Until(s, to) == IF to = -1 THEN Len(s) ELSE IF to + 1 < Len(s) THEN to + 1 ELSE Len(s)

\* r is what s holds from one place on, before another.
SliceOf(r, s, from, n) ==
    /\ r \in Seq(Jobs)
    /\ from < n => Len(r) = n - from
    /\ from >= n => Len(r) = 0
    /\ \A i \in 1..(n - from) : r[i] = s[from + i]

LEMMA RangedIs ==
    ASSUME NEW s \in Seq(Jobs), NEW from \in Nat, NEW to \in Nat \cup {-1}, NEW n, n = Until(s, to)
    PROVE  SliceOf(Ranged(s, from, to), s, from, n)
<1>1. n \in Nat /\ n <= Len(s)
    BY DEF Until
<1>2. Ranged(s, from, to) = SubSeq(s, from + 1, n)
    BY DEF Ranged, Until
<1>3. \A i \in (from + 1)..n : s[i] \in Jobs
    BY <1>1
<1>4. PICK o \in Nat : o = from + 1
    OBVIOUS
<1>5. /\ SubSeq(s, o, n) \in Seq(Jobs)
      /\ Len(SubSeq(s, o, n)) = IF o <= n THEN n - o + 1 ELSE 0
      /\ \A i \in 1..(n - o + 1) : SubSeq(s, o, n)[i] = s[o + i - 1]
    BY <1>1, <1>3, <1>4, SubSeqProperties
<1>6. ASSUME NEW i \in 1..(n - from) PROVE Ranged(s, from, to)[i] = s[from + i]
  <2>1. i \in 1..(n - o + 1) /\ o + i - 1 = from + i
    BY <1>1, <1>4, <1>6
  <2>2. SubSeq(s, o, n)[i] = s[o + i - 1]
    BY <1>5, <2>1
  <2> QED BY <1>2, <1>4, <2>1, <2>2
<1>7. PICK l : l = Len(SubSeq(s, o, n))
    OBVIOUS
<1>8. (from < n => l = n - from) /\ (from >= n => l = 0)
    BY <1>1, <1>4, <1>5, <1>7
<1> QED BY <1>2, <1>4, <1>5, <1>6, <1>7, <1>8 DEF SliceOf

LEMMA SameSeq ==
    ASSUME NEW s \in Seq(Jobs), NEW q \in Seq(Jobs), Len(s) = Len(q), \A i \in 1..Len(s) : s[i] = q[i]
    PROVE  s = q
OBVIOUS

LEMMA RangedOver ==
    ASSUME NEW s \in Seq(Jobs), NEW m \in Seq(Jobs), NEW from \in Nat, NEW to \in Nat, Len(s) > to
    PROVE  Ranged(s \o m, from, to) = Ranged(s, from, to)
<1>1. /\ s \o m \in Seq(Jobs) /\ Len(s \o m) = Len(s) + Len(m)
      /\ \A i \in 1..Len(s) : (s \o m)[i] = s[i]
    BY ConcatProperties
<1>2. PICK n \in Nat : n = to + 1 /\ n <= Len(s)
    BY <1>1
<1>3. n = Until(s \o m, to) /\ n = Until(s, to)
    BY <1>1, <1>2 DEF Until
<1> DEFINE a == Ranged(s, from, to)
           c == Ranged(s \o m, from, to)
<1>4. SliceOf(a, s, from, n) /\ SliceOf(c, s \o m, from, n)
    BY <1>1, <1>3, RangedIs
<1> HIDE DEF a, c
<1>5. /\ a \in Seq(Jobs) /\ c \in Seq(Jobs)
      /\ (from < n => Len(a) = n - from /\ Len(c) = n - from)
      /\ (from >= n => Len(a) = 0 /\ Len(c) = 0)
      /\ \A i \in 1..(n - from) : a[i] = s[from + i] /\ c[i] = (s \o m)[from + i]
    BY <1>4 DEF SliceOf
<1>6. ASSUME NEW i \in 1..Len(a) PROVE c[i] = a[i]
  <2>1. i \in 1..(n - from) /\ from + i \in 1..Len(s)
    BY <1>2, <1>5, <1>6
  <2> QED BY <1>1, <1>5, <2>1
<1>7. Len(a) = Len(c)
    BY <1>5
<1>8. c = a
    BY <1>5, <1>6, <1>7, SameSeq
<1> QED BY <1>8 DEF a, c

\* What a range that reaches beyond the first k is of what comes after them.
Beyond(to, k) == to = -1 \/ to >= k
FromAfter(from, k) == IF from > k THEN from - k ELSE 0
ToAfter(to, k) == IF to = -1 THEN -1 ELSE to - k

LEMMA RangedConcat ==
    ASSUME NEW s \in Seq(Jobs), NEW m \in Seq(Jobs), NEW from \in Nat, NEW to \in Nat \cup {-1},
           Beyond(to, Len(s))
    PROVE  Ranged(s \o m, from, to) =
               Ranged(s, from, to) \o Ranged(m, FromAfter(from, Len(s)), ToAfter(to, Len(s)))
<1>1. s \o m \in Seq(Jobs) /\ Len(s \o m) = Len(s) + Len(m) /\ Len(s) \in Nat /\ Len(m) \in Nat
    BY ConcatProperties
<1>10. to = -1 \/ to >= Len(s)
    BY DEF Beyond
<1>8. FromAfter(from, Len(s)) \in Nat /\ ToAfter(to, Len(s)) \in Nat \cup {-1}
    BY <1>1, <1>10 DEF FromAfter, ToAfter
<1>9. PICK rest \in Nat, last \in Nat \cup {-1} :
          rest = FromAfter(from, Len(s)) /\ last = ToAfter(to, Len(s))
    BY <1>8
<1>2. PICK k \in Nat, n \in Nat : k = Len(s) /\ n = Until(m, last) /\ n <= Len(m)
    BY <1>1, <1>9, <1>10 DEF Until
<1>3. k = Until(s, to) /\ k + n = Until(s \o m, to) /\ k + n \in Nat
    BY <1>1, <1>2, <1>9, <1>10 DEF Until, ToAfter
<1>4. (from > k => rest = from - k) /\ (from <= k => rest = 0)
    BY <1>1, <1>2, <1>9 DEF FromAfter
<1>5. /\ SliceOf(Ranged(s, from, to), s, from, k) /\ SliceOf(Ranged(m, rest, last), m, rest, n)
      /\ SliceOf(Ranged(s \o m, from, to), s \o m, from, k + n)
    BY <1>1, <1>2, <1>3, RangedIs
<1>6. PICK a, b, c : /\ a = Ranged(s, from, to) /\ b = Ranged(m, rest, last)
                     /\ c = Ranged(s \o m, from, to)
    OBVIOUS
<1>7. SliceOf(a, s, from, k) /\ SliceOf(b, m, rest, n) /\ SliceOf(c, s \o m, from, k + n)
    BY <1>5, <1>6
<1>11. /\ s \o m \in Seq(Jobs) /\ Len(s \o m) = Len(s) + Len(m)
       /\ \A i \in 1..Len(s) : (s \o m)[i] = s[i]
       /\ \A i \in 1..Len(m) : (s \o m)[Len(s) + i] = m[i]
    BY ConcatProperties
<1>12. /\ a \in Seq(Jobs) /\ b \in Seq(Jobs) /\ c \in Seq(Jobs)
       /\ \A i \in 1..(k - from) : a[i] = s[from + i]
       /\ \A i \in 1..(n - rest) : b[i] = m[rest + i]
       /\ \A i \in 1..(k + n - from) : c[i] = (s \o m)[from + i]
  <2>1. a \in Seq(Jobs) /\ \A i \in 1..(k - from) : a[i] = s[from + i]
    BY <1>7 DEF SliceOf
  <2>2. b \in Seq(Jobs) /\ \A i \in 1..(n - rest) : b[i] = m[rest + i]
    BY <1>7 DEF SliceOf
  <2>3. c \in Seq(Jobs) /\ \A i \in 1..(k + n - from) : c[i] = (s \o m)[from + i]
    <3>1. PICK q : q = s \o m
      OBVIOUS
    <3>4. PICK l \in Nat : l = k + n
      BY <1>2
    <3>2. SliceOf(c, q, from, l)
      BY <1>7, <3>1, <3>4
    <3>3. c \in Seq(Jobs) /\ \A i \in 1..(l - from) : c[i] = q[from + i]
      BY <3>2 DEF SliceOf
    <3>5. ASSUME NEW i \in 1..(k + n - from) PROVE c[i] = q[from + i]
      <4>1. i \in 1..(l - from)
        BY <3>4
      <4> QED BY <3>3, <4>1
    <3> QED BY <3>1, <3>3, <3>5
  <2> QED BY <2>1, <2>2, <2>3
<1>13. PICK x, y, z : x = Len(a) /\ y = Len(b) /\ z = Len(c)
    OBVIOUS
<1>14. x \in Nat /\ y \in Nat /\ z \in Nat
    BY <1>2, <1>4, <1>12, <1>13
<1>15. /\ (from < k => x = k - from) /\ (from >= k => x = 0)
       /\ (rest < n => y = n - rest) /\ (rest >= n => y = 0)
       /\ (from < k + n => z = k + n - from) /\ (from >= k + n => z = 0)
  <2>1. (from < k => x = k - from) /\ (from >= k => x = 0)
    BY <1>7, <1>13 DEF SliceOf
  <2>2. (rest < n => y = n - rest) /\ (rest >= n => y = 0)
    BY <1>7, <1>13 DEF SliceOf
  <2>3. (from < k + n => z = k + n - from) /\ (from >= k + n => z = 0)
    <3>1. PICK l \in Nat : l = k + n
      BY <1>2
    <3>2. SliceOf(c, s \o m, from, l)
      BY <1>7, <3>1
    <3>3. (from < l => z = l - from) /\ (from >= l => z = 0)
      BY <1>13, <3>2 DEF SliceOf
    <3> QED BY <1>2, <3>1, <3>3
  <2> QED BY <2>1, <2>2, <2>3
<1>16. z = x + y
  <2>1. CASE from < k
    <3>1. rest = 0 /\ x = k - from /\ z = k + n - from /\ y = n
      BY <1>4, <1>15, <2>1
    <3> QED BY <3>1
  <2>2. CASE from >= k
    <3>1. rest = from - k /\ x = 0
      BY <1>4, <1>15, <2>2
    <3>2. CASE rest < n
      BY <1>15, <2>2, <3>1, <3>2
    <3>3. CASE rest >= n
      BY <1>15, <2>2, <3>1, <3>3
    <3> QED BY <3>2, <3>3
  <2> QED BY <2>1, <2>2
<1>17. /\ a \o b \in Seq(Jobs) /\ Len(a \o b) = x + y
       /\ \A i \in 1..x : (a \o b)[i] = a[i]
       /\ \A i \in 1..y : (a \o b)[x + i] = b[i]
    BY <1>2, <1>4, <1>12, <1>13, ConcatProperties
<1>18. ASSUME NEW i \in 1..z PROVE c[i] = (a \o b)[i]
  <2>1. i \in 1..(k + n - from)
    BY <1>2, <1>4, <1>14, <1>15, <1>18
  <2>2. c[i] = (s \o m)[from + i]
    BY <1>2, <1>4, <1>12, <2>1
  <2>3. CASE i <= x
    <3>1. i \in 1..x /\ i \in 1..(k - from) /\ from + i \in 1..k
      BY <1>2, <1>4, <1>14, <1>15, <1>18, <2>3
    <3>2. (a \o b)[i] = a[i] /\ a[i] = s[from + i] /\ (s \o m)[from + i] = s[from + i]
      BY <1>2, <1>4, <1>11, <1>12, <1>17, <3>1
    <3> QED BY <2>2, <3>2
  <2>4. CASE i > x
    <3>1. PICK e \in Nat : e = i - x
      BY <1>2, <1>4, <1>14, <1>18, <2>4
    <3>2. e \in 1..y /\ e \in 1..(n - rest) /\ i = x + e
      <4>1. i \in Nat /\ i = x + e
        BY <1>14, <1>18, <3>1
      <4>2. e \in 1..y
        BY <1>14, <1>16, <1>18, <2>4, <4>1
      <4>3. rest < n /\ y = n - rest
        BY <1>14, <1>15, <4>2
      <4> QED BY <4>1, <4>2, <4>3
    <3>3. rest + e \in 1..n /\ from + i = k + (rest + e)
      <4>1. i \in Nat
        BY <1>14, <1>18
      <4>2. CASE from < k
        BY <1>4, <1>15, <3>2, <4>1, <4>2
      <4>3. CASE from >= k
        <5>1. rest = from - k /\ x = 0
          BY <1>4, <1>15, <4>3
        <5> QED BY <3>2, <4>1, <4>3, <5>1
      <4> QED BY <4>2, <4>3
    <3>4. PICK d \in 1..n : d = rest + e
      BY <1>2, <1>4, <3>3
    <3>5. (s \o m)[k + d] = m[d] /\ b[e] = m[d] /\ (a \o b)[i] = b[e]
      <4>1. d \in 1..Len(m)
        BY <1>2, <1>4, <3>4
      <4> QED BY <1>2, <1>4, <1>11, <1>12, <1>17, <3>2, <3>4, <4>1
    <3> QED BY <2>2, <3>3, <3>4, <3>5
  <2>5. i \in Nat /\ (i <= x \/ i > x)
    BY <1>2, <1>4, <1>14, <1>16, <1>18
  <2> QED BY <2>3, <2>4, <2>5
<1>19. c = a \o b
    BY <1>12, <1>13, <1>16, <1>17, <1>18, SameSeq
<1> QED BY <1>6, <1>9, <1>19

LEMMA ListsOf ==
    ASSUME StoreTypeOK
    PROVE  /\ SetToSeq(prioritized) \in Seq(Jobs) /\ waiting \in Seq(Jobs)
           /\ \A t \in Types : Members(t) \in Seq(Jobs)
<1>1. \A S \in SUBSET Jobs : SetToSeq(S) \in Seq(Jobs)
  <2> TAKE S \in SUBSET Jobs
  <2>1. IsFiniteSet(S)
    BY JobsAssumption, FS_Subset
  <2>2. SetToSeq(S) \in Seq(S)
    BY <2>1, ListOf
  <2> QED BY <2>2, SeqMonotonic
<1>2. /\ SetToSeq(prioritized) \in Seq(Jobs) /\ waiting \in Seq(Jobs)
      /\ SetToSeq(prioritized) \o waiting \in Seq(Jobs)
    BY <1>1, ToSetConcat DEF StoreTypeOK
<1> QED BY <1>1, <1>2 DEF Members, Types, StoreTypeOK

LEMMA WaitingIsSlice ==
    ASSUME StoreTypeOK, NEW from \in Nat, NEW to \in Nat \cup {-1}
    PROVE  WaitingRange(from, to) = Ranged(Members("waiting"), from, to)
<1> DEFINE p == SetToSeq(prioritized)
           n == Len(p)
           upto == IF to = -1 THEN -1 ELSE IF to < n - 1 THEN to ELSE n - 1
           rest == IF from > n THEN from - n ELSE 0
           last == IF to = -1 THEN -1 ELSE to - n
           head == IF from < n THEN Ranged(p, from, upto) ELSE <<>>
           tail == IF to = -1 \/ to >= n THEN Ranged(waiting, rest, last) ELSE <<>>
<1>1. WaitingRange(from, to) = head \o tail
    BY Zenon DEF WaitingRange
<1>2. p \in Seq(Jobs) /\ waiting \in Seq(Jobs) /\ n \in Nat /\ Members("waiting") = p \o waiting
    BY ListsOf DEF Members
<1> HIDE DEF p
<1>3. head = Ranged(p, from, to)
  <2>1. CASE from < n
    <3>1. Until(p, upto) = Until(p, to) /\ upto \in Nat \cup {-1}
      BY <1>2, <2>1 DEF Until
    <3>2. Ranged(p, from, upto) = SubSeq(p, from + 1, Until(p, upto))
      BY DEF Ranged, Until
    <3>3. Ranged(p, from, to) = SubSeq(p, from + 1, Until(p, to))
      BY DEF Ranged, Until
    <3> QED BY <2>1, <3>1, <3>2, <3>3
  <2>2. CASE from >= n
    <3>3. Until(p, to) <= n
      BY <1>2 DEF Until
    <3>4. PICK u : u = Until(p, to)
      OBVIOUS
    <3>5. SliceOf(Ranged(p, from, to), p, from, u)
      BY <1>2, <3>4, RangedIs
    <3>6. from >= u
      BY <1>2, <2>2, <3>3, <3>4 DEF Until
    <3>1. Ranged(p, from, to) \in Seq(Jobs) /\ Len(Ranged(p, from, to)) = 0
      BY <3>5, <3>6 DEF SliceOf
    <3>2. Ranged(p, from, to) = <<>>
      BY <3>1
    <3> QED BY <1>2, <2>2, <3>2
  <2> QED BY <1>2, <2>1, <2>2
<1>4. Ranged(p, from, to) \in Seq(Jobs)
    BY <1>2, RangedIs DEF SliceOf
<1>5. CASE to = -1 \/ to >= n
  <2>5. tail = Ranged(waiting, FromAfter(from, Len(p)), ToAfter(to, Len(p)))
    BY <1>5 DEF FromAfter, ToAfter
  <2>6. Beyond(to, Len(p))
    BY <1>5 DEF Beyond
  <2> HIDE DEF n, rest, last, head, tail, upto
  <2>3. Ranged(p \o waiting, from, to) = Ranged(p, from, to) \o tail
    BY <1>2, <2>5, <2>6, RangedConcat
  <2> QED BY <1>1, <1>2, <1>3, <2>3
<1>6. CASE ~(to = -1 \/ to >= n)
  <2>1. Ranged(p \o waiting, from, to) = Ranged(p, from, to)
    BY <1>2, <1>6, RangedOver
  <2>2. tail = <<>> /\ Ranged(p, from, to) \o <<>> = Ranged(p, from, to)
    BY <1>4, <1>6
  <2> QED BY <1>1, <1>2, <1>3, <2>1, <2>2
<1> QED BY <1>5, <1>6

\* What the pages hold once the lists of s are counted.
PageFits(acc, s, start, end) ==
    /\ acc.index \in Nat /\ acc = [index |-> acc.index, ids |-> Ranged(s, start, end)]
    /\ acc.index = Len(s) \/ (end # -1 /\ acc.index > end /\ acc.index <= Len(s))

LEMMA PageGrows ==
    ASSUME StoreTypeOK, NEW s \in Seq(Jobs), NEW t \in Types, NEW acc,
           NEW start \in Nat, NEW end \in Nat \cup {-1}, PageFits(acc, s, start, end)
    PROVE  PageFits(PageStep(start, end, acc, t), s \o Members(t), start, end)
<1>1. PICK m \in Seq(Jobs) : m = Members(t)
    BY ListsOf
<1>2. PICK at \in Nat : at = acc.index
    BY DEF PageFits
<1>3. PICK k \in Nat, count \in Nat : k = Len(s) /\ count = Len(m)
    OBVIOUS
<1>4. s \o m \in Seq(Jobs) /\ Len(s \o m) = k + count
    BY <1>1, <1>3, ConcatProperties
<1>5. /\ acc = [index |-> at, ids |-> Ranged(s, start, end)]
      /\ at = k \/ (end # -1 /\ at > end /\ at <= k)
    BY <1>2, <1>3 DEF PageFits
<1>6. CASE end # -1 /\ at > end
  <2>1. PageStep(start, end, acc, t) = acc
    BY <1>2, <1>6 DEF PageStep
  <2>2. Ranged(s \o m, start, end) = Ranged(s, start, end)
    BY <1>3, <1>5, <1>6, RangedOver
  <2>3. PageFits(acc, s \o m, start, end)
    BY <1>2, <1>3, <1>4, <1>5, <1>6, <2>2 DEF PageFits
  <2> QED BY <1>1, <2>1, <2>3
<1>7. CASE ~(end # -1 /\ at > end)
  <2>1. at = k /\ (end = -1 \/ end >= k)
    BY <1>5, <1>7
  <2>2. PICK from \in Nat : from = IF start > at THEN start - at ELSE 0
    <3>1. (IF start > at THEN start - at ELSE 0) \in Nat
      OBVIOUS
    <3> QED BY <3>1
  <2>3. PICK to \in Nat \cup {-1} : to = IF end = -1 THEN -1 ELSE end - at
    <3>1. (IF end = -1 THEN -1 ELSE end - at) \in Nat \cup {-1}
      BY <2>1
    <3> QED BY <3>1
  <2>4. Ranged(s \o m, start, end) = Ranged(s, start, end) \o Ranged(m, from, to)
    <3>1. Beyond(end, Len(s))
      BY <1>3, <2>1 DEF Beyond
    <3>2. from = FromAfter(start, Len(s)) /\ to = ToAfter(end, Len(s))
      BY <1>3, <2>1, <2>2, <2>3 DEF FromAfter, ToAfter
    <3> QED BY <3>1, <3>2, RangedConcat
  <2>5. WaitingRange(from, to) = Ranged(Members("waiting"), from, to)
    BY WaitingIsSlice
  <2>6. PageStep(start, end, acc, t) =
            [index |-> at + count,
             ids |-> acc.ids \o (IF at + count <= start THEN <<>> ELSE Ranged(m, from, to))]
    BY <1>1, <1>2, <1>3, <1>7, <2>2, <2>3, <2>5 DEF PageStep
  <2>7. (IF at + count <= start THEN <<>> ELSE Ranged(m, from, to)) = Ranged(m, from, to)
    <3>1. CASE at + count <= start
      <4>1. PICK n : n = Until(m, to)
        OBVIOUS
      <4>2. SliceOf(Ranged(m, from, to), m, from, n)
        BY <4>1, RangedIs
      <4>3. from >= n
        BY <1>3, <2>2, <3>1, <4>1 DEF Until
      <4>4. Ranged(m, from, to) \in Seq(Jobs) /\ Len(Ranged(m, from, to)) = 0
        BY <4>2, <4>3 DEF SliceOf
      <4>5. Ranged(m, from, to) = <<>>
        BY <4>4
      <4> QED BY <3>1, <4>5
    <3> QED BY <3>1
  <2>8. PageStep(start, end, acc, t) = [index |-> at + count, ids |-> Ranged(s \o m, start, end)]
    BY <1>5, <2>4, <2>6, <2>7
  <2> QED BY <1>1, <1>4, <2>1, <2>8 DEF PageFits
<1> QED BY <1>6, <1>7

\* A fold over the first n types, as a function of the sets of places.
Folds(h, start, end, n) ==
    h = [u \in SUBSET (1..n) |->
            IF u = {} THEN [index |-> 0, ids |-> <<>>]
            ELSE PageStep(start, end, h[u \ {Max(u)}], Shown[Max(u)])]

LEMMA FoldGrows ==
    ASSUME NEW start, NEW end, NEW n \in Nat, NEW h, Folds(h, start, end, n)
    PROVE  \E g : Folds(g, start, end, n + 1)
<1>1. PICK l \in Nat : l = n + 1
    OBVIOUS
<1>2. PICK g : g = [u \in SUBSET (1..l) |->
                       IF l \in u THEN PageStep(start, end, h[u \ {l}], Shown[l]) ELSE h[u]]
    OBVIOUS
<1>3. \A u \in SUBSET (1..l) : u # {} =>
          g[u] = PageStep(start, end, g[u \ {Max(u)}], Shown[Max(u)])
  <2> SUFFICES ASSUME NEW u \in SUBSET (1..l), u # {}
               PROVE  g[u] = PageStep(start, end, g[u \ {Max(u)}], Shown[Max(u)])
    OBVIOUS
  <2>1. CASE l \in u
    <3>1. Max(u) = l
      <4>1. \A x \in u : (\A y \in u : x >= y) <=> x = l
        BY <1>1, <2>1
      <4> QED BY <2>1, <4>1 DEF Max
    <3>2. u \ {l} \in SUBSET (1..l) /\ l \notin u \ {l}
      OBVIOUS
    <3>3. g[u \ {l}] = h[u \ {l}]
      BY <1>2, <3>2
    <3> QED BY <1>2, <2>1, <3>1, <3>3
  <2>2. CASE l \notin u
    <3>1. u \in SUBSET (1..n)
      BY <1>1, <2>2
    <3>2. h[u] = PageStep(start, end, h[u \ {Max(u)}], Shown[Max(u)])
      BY <3>1 DEF Folds
    <3>3. g[u] = h[u] /\ g[u \ {Max(u)}] = h[u \ {Max(u)}]
      BY <1>2, <2>2
    <3> QED BY <3>2, <3>3
  <2> QED BY <2>1, <2>2
<1>4. g[{}] = [index |-> 0, ids |-> <<>>]
  <2>1. g[{}] = h[{}]
    BY <1>2
  <2>2. h[{}] = [index |-> 0, ids |-> <<>>]
    BY DEF Folds
  <2> QED BY <2>1, <2>2
<1>5. g = [u \in SUBSET (1..l) |->
              IF u = {} THEN [index |-> 0, ids |-> <<>>]
              ELSE PageStep(start, end, g[u \ {Max(u)}], Shown[Max(u)])]
  <2>1. g = [u \in SUBSET (1..l) |-> g[u]]
    BY <1>2
  <2>2. \A u \in SUBSET (1..l) :
            g[u] = IF u = {} THEN [index |-> 0, ids |-> <<>>]
                   ELSE PageStep(start, end, g[u \ {Max(u)}], Shown[Max(u)])
    BY <1>3, <1>4
  <2> QED BY <2>1, <2>2
<1> QED BY <1>1, <1>5 DEF Folds

LEMMA FoldUp ==
    ASSUME NEW start, NEW end, NEW n \in Nat, NEW h, Folds(h, start, end, n), NEW k \in 1..n
    PROVE  h[1..k] = PageStep(start, end, h[1..(k - 1)], Shown[k])
<1>1. 1..k \in SUBSET (1..n) /\ 1..k # {}
    OBVIOUS
<1>2. Max(1..k) = k
    BY DEF Max
<1>3. (1..k) \ {k} = 1..(k - 1)
    OBVIOUS
<1>4. h[1..k] = PageStep(start, end, h[(1..k) \ {Max(1..k)}], Shown[Max(1..k)])
    BY <1>1 DEF Folds
<1> QED BY <1>2, <1>3, <1>4

All == FlattenSeq([i \in DOMAIN Shown |-> Members(Shown[i])])

\* The six lists, one put after the other at a time.
Grown == LET s1 == Members("waiting")
             s2 == s1 \o Members("active")
             s3 == s2 \o Members("delayed")
             s4 == s3 \o Members("completed")
             s5 == s4 \o Members("failed")
         IN  <<s1, s2, s3, s4, s5, s5 \o Members("dead")>>

LEMMA ShownIs ==
    /\ DOMAIN Shown = 1..6 /\ \A i \in 1..6 : Shown[i] \in Types
    /\ Shown[1] = "waiting" /\ Shown[2] = "active" /\ Shown[3] = "delayed"
    /\ Shown[4] = "completed" /\ Shown[5] = "failed" /\ Shown[6] = "dead"
BY DEF Shown, Types

LEMMA GrownOver == Grown = [i \in 1..6 |-> Grown[i]]
BY DEF Grown

LEMMA GrownIs ==
    /\ Grown[1] = Members(Shown[1])
    /\ \A i \in 2..6 : Grown[i] = Grown[i - 1] \o Members(Shown[i])
<1> DEFINE s1 == Members("waiting")
           s2 == s1 \o Members("active")
           s3 == s2 \o Members("delayed")
           s4 == s3 \o Members("completed")
           s5 == s4 \o Members("failed")
           s6 == s5 \o Members("dead")
<1>1. Grown = <<s1, s2, s3, s4, s5, s6>>
    BY Zenon DEF Grown
<1>2. /\ s2 = s1 \o Members("active") /\ s3 = s2 \o Members("delayed") /\ s4 = s3 \o Members("completed")
      /\ s5 = s4 \o Members("failed") /\ s6 = s5 \o Members("dead") /\ s1 = Members("waiting")
    OBVIOUS
<1> HIDE DEF s1, s2, s3, s4, s5, s6
<1>3. /\ Grown[1] = s1 /\ Grown[2] = s2 /\ Grown[3] = s3
      /\ Grown[4] = s4 /\ Grown[5] = s5 /\ Grown[6] = s6
    BY <1>1
<1>5. ASSUME NEW i \in 2..6 PROVE Grown[i] = Grown[i - 1] \o Members(Shown[i])
  <2>1. i = 2 \/ i = 3 \/ i = 4 \/ i = 5 \/ i = 6
    OBVIOUS
  <2>2. CASE i = 2
    <3>1. i - 1 = 1
      BY <2>2
    <3> QED BY <1>2, <1>3, <2>2, <3>1, ShownIs
  <2>3. CASE i = 3
    <3>1. i - 1 = 2
      BY <2>3
    <3> QED BY <1>2, <1>3, <2>3, <3>1, ShownIs
  <2>4. CASE i = 4
    <3>1. i - 1 = 3
      BY <2>4
    <3> QED BY <1>2, <1>3, <2>4, <3>1, ShownIs
  <2>5. CASE i = 5
    <3>1. i - 1 = 4
      BY <2>5
    <3> QED BY <1>2, <1>3, <2>5, <3>1, ShownIs
  <2>6. CASE i = 6
    <3>1. i - 1 = 5
      BY <2>6
    <3> QED BY <1>2, <1>3, <2>6, <3>1, ShownIs
  <2> QED BY <2>1, <2>2, <2>3, <2>4, <2>5, <2>6
<1> QED BY <1>2, <1>3, <1>5, ShownIs

LEMMA AllIs == All = Grown[6]
<1> DEFINE seqs == [i \in DOMAIN Shown |-> Members(Shown[i])]
           flatten == CHOOSE f : f = [i \in 1..Len(seqs) |->
                                         IF i = 1 THEN seqs[i] ELSE f[i - 1] \o seqs[i]]
<1>1. seqs = [i \in 1..6 |-> Members(Shown[i])] /\ Len(seqs) = 6
    BY ShownIs
<1>2. All = flatten[6]
  <2>1. Len(seqs) # 0
    BY <1>1
  <2>2. All = IF Len(seqs) = 0 THEN seqs ELSE flatten[Len(seqs)]
    BY Zenon DEF All, FlattenSeq
  <2> HIDE DEF seqs, flatten
  <2> QED BY <1>1, <2>1, <2>2
<1>3. Grown = [i \in 1..Len(seqs) |-> IF i = 1 THEN seqs[i] ELSE Grown[i - 1] \o seqs[i]]
  <2>1. \A i \in 1..6 : Grown[i] = IF i = 1 THEN seqs[i] ELSE Grown[i - 1] \o seqs[i]
    <3> TAKE i \in 1..6
    <3>1. seqs[i] = Members(Shown[i]) /\ (i = 1 \/ i \in 2..6)
      BY <1>1
    <3> HIDE DEF seqs, flatten
    <3> QED BY <3>1, GrownIs
  <2> HIDE DEF seqs, flatten
  <2>2. Grown = [i \in 1..6 |-> IF i = 1 THEN seqs[i] ELSE Grown[i - 1] \o seqs[i]]
    BY <2>1, GrownOver
  <2> QED BY <1>1, <2>2
<1>4. flatten = [i \in 1..Len(seqs) |-> IF i = 1 THEN seqs[i] ELSE flatten[i - 1] \o seqs[i]]
    BY <1>3
<1>6. \A i \in 1..6 : seqs[i] = Members(Shown[i])
    BY <1>1
<1> HIDE DEF flatten, seqs
<1>12. flatten = [i \in 1..6 |-> IF i = 1 THEN seqs[i] ELSE flatten[i - 1] \o seqs[i]]
    BY <1>1, <1>4
<1>13. \A i \in 1..6 : flatten[i] = IF i = 1 THEN seqs[i] ELSE flatten[i - 1] \o seqs[i]
    BY <1>12
<1>5. /\ flatten[1] = seqs[1]
      /\ \A i \in 2..6 : flatten[i] = flatten[i - 1] \o seqs[i]
  <2>1. flatten[1] = seqs[1]
    BY <1>13
  <2>2. ASSUME NEW i \in 2..6 PROVE flatten[i] = flatten[i - 1] \o seqs[i]
    <3>1. i \in 1..6 /\ i # 1
      OBVIOUS
    <3> QED BY <1>13, <3>1
  <2> QED BY <2>1, <2>2
<1>7. flatten[1] = Grown[1]
    BY <1>5, <1>6, GrownIs
<1>8. \A i \in 2..6 : flatten[i - 1] = Grown[i - 1] => flatten[i] = Grown[i]
  <2> TAKE i \in 2..6
  <2>1. i \in 1..6
    OBVIOUS
  <2> QED BY <1>5, <1>6, <2>1, GrownIs
<1>9. flatten[2] = Grown[2] /\ flatten[3] = Grown[3]
    BY <1>7, <1>8
<1>10. flatten[4] = Grown[4] /\ flatten[5] = Grown[5]
    BY <1>8, <1>9
<1>11. flatten[6] = Grown[6]
    BY <1>8, <1>10
<1> QED BY <1>2, <1>11

\* The page after six steps.
LEMMA PageIs ==
    ASSUME NEW start, NEW end
    PROVE  \E h : Folds(h, start, end, 6) /\ GetJobIds(Shown, start, end) = h[1..6].ids
<1> DEFINE iter == CHOOSE it : it = [u \in SUBSET DOMAIN Shown |->
                      IF u = {} THEN [index |-> 0, ids |-> <<>>]
                      ELSE PageStep(start, end, it[u \ {Max(u)}], Shown[Max(u)])]
<1>1. GetJobIds(Shown, start, end) = iter[DOMAIN Shown].ids
    BY DEF GetJobIds, FoldLeft, MapThenFoldSet
<1>2. PICK h0 : h0 = [u \in SUBSET (1..0) |-> [index |-> 0, ids |-> <<>>]]
    OBVIOUS
<1>3. Folds(h0, start, end, 0)
  <2>1. \A u \in SUBSET (1..0) : u = {}
    OBVIOUS
  <2> QED BY <1>2, <2>1 DEF Folds
<1>4. PICK h1 : Folds(h1, start, end, 1)
    BY <1>3, FoldGrows
<1>5. PICK h2 : Folds(h2, start, end, 2)
    BY <1>4, FoldGrows
<1>6. PICK h3 : Folds(h3, start, end, 3)
    BY <1>5, FoldGrows
<1>7. PICK h4 : Folds(h4, start, end, 4)
    BY <1>6, FoldGrows
<1>8. PICK h5 : Folds(h5, start, end, 5)
    BY <1>7, FoldGrows
<1>9. PICK h6 : Folds(h6, start, end, 6)
    BY <1>8, FoldGrows
<1>10. \A it : Folds(it, start, end, 6) <=>
           it = [u \in SUBSET DOMAIN Shown |->
                    IF u = {} THEN [index |-> 0, ids |-> <<>>]
                    ELSE PageStep(start, end, it[u \ {Max(u)}], Shown[Max(u)])]
    BY ShownIs DEF Folds
<1>11. Folds(iter, start, end, 6)
    BY <1>9, <1>10
<1> HIDE DEF iter
<1> QED BY <1>1, <1>11, ShownIs

LEMMA PageHolds ==
    ASSUME StoreTypeOK, NEW start \in Nat, NEW end \in Nat \cup {-1}
    PROVE  GetJobIds(Shown, start, end) = Ranged(All, start, end)
<1>1. PICK h : Folds(h, start, end, 6) /\ GetJobIds(Shown, start, end) = h[1..6].ids
    BY PageIs
<1>2. \A i \in 1..6 : h[1..i] = PageStep(start, end, h[1..(i - 1)], Shown[i])
  <2>1. PICK n \in Nat : n = 6
    OBVIOUS
  <2>2. Folds(h, start, end, n)
    BY <1>1, <2>1
  <2>3. ASSUME NEW i \in 1..n PROVE h[1..i] = PageStep(start, end, h[1..(i - 1)], Shown[i])
    BY <2>2, FoldUp
  <2> QED BY <2>1, <2>3
<1>3. h[1..0] = [index |-> 0, ids |-> <<>>]
    BY <1>1 DEF Folds
<1>4. PageFits(h[1..0], <<>>, start, end)
  <2>1. Ranged(<<>>, start, end) = <<>>
    <3>1. Until(<<>>, end) = 0 /\ <<>> \in Seq(Jobs)
      BY DEF Until
    <3>2. SliceOf(Ranged(<<>>, start, end), <<>>, start, 0)
      BY <3>1, RangedIs
    <3>3. Ranged(<<>>, start, end) \in Seq(Jobs) /\ Len(Ranged(<<>>, start, end)) = 0
      BY <3>2 DEF SliceOf
    <3> QED BY <3>3
  <2> QED BY <1>3, <2>1 DEF PageFits
<1>5. PICK m : m = [i \in 1..6 |-> Members(Shown[i])]
    OBVIOUS
<1>6. \A i \in 1..6 : Shown[i] \in Types /\ m[i] = Members(Shown[i]) /\ m[i] \in Seq(Jobs)
    BY <1>5, ListsOf, ShownIs
<1>7. ASSUME NEW i \in 1..6, NEW s \in Seq(Jobs), PageFits(h[1..(i - 1)], s, start, end)
      PROVE  PageFits(h[1..i], s \o m[i], start, end) /\ s \o m[i] \in Seq(Jobs)
  <2>1. PageFits(PageStep(start, end, h[1..(i - 1)], Shown[i]), s \o Members(Shown[i]), start, end)
    BY <1>6, <1>7, PageGrows
  <2> QED BY <1>2, <1>6, <2>1, ConcatProperties
<1>8. PageFits(h[1..1], Grown[1], start, end) /\ Grown[1] \in Seq(Jobs)
  <2>1. <<>> \in Seq(Jobs) /\ <<>> \o m[1] = m[1]
    BY <1>6
  <2>2. PageFits(h[1..1], <<>> \o m[1], start, end)
    <3>1. 1 \in 1..6 /\ 1 - 1 = 0
      OBVIOUS
    <3>2. PageFits(h[1..(1 - 1)], <<>>, start, end)
      BY <1>4, <3>1
    <3> QED BY <1>7, <2>1, <3>1, <3>2
  <2> QED BY <1>6, <2>1, <2>2, GrownIs
<1>9. ASSUME NEW i \in 2..6, PageFits(h[1..(i - 1)], Grown[i - 1], start, end), Grown[i - 1] \in Seq(Jobs)
      PROVE  PageFits(h[1..i], Grown[i], start, end) /\ Grown[i] \in Seq(Jobs)
  <2>1. i \in 1..6
    OBVIOUS
  <2>2. Grown[i] = Grown[i - 1] \o m[i]
    BY <1>6, <2>1, GrownIs
  <2>3. PICK g \in Seq(Jobs) : g = Grown[i - 1]
    BY <1>9
  <2>4. PageFits(h[1..(i - 1)], g, start, end)
    BY <1>9, <2>3
  <2> QED BY <1>7, <2>1, <2>2, <2>3, <2>4
<1>10. PageFits(h[1..2], Grown[2], start, end) /\ Grown[2] \in Seq(Jobs)
    BY <1>8, <1>9
<1>11. PageFits(h[1..3], Grown[3], start, end) /\ Grown[3] \in Seq(Jobs)
    BY <1>9, <1>10
<1>12. PageFits(h[1..4], Grown[4], start, end) /\ Grown[4] \in Seq(Jobs)
    BY <1>9, <1>11
<1>13. PageFits(h[1..5], Grown[5], start, end) /\ Grown[5] \in Seq(Jobs)
    BY <1>9, <1>12
<1>14. PageFits(h[1..6], Grown[6], start, end)
    BY <1>9, <1>13
<1>15. h[1..6].ids = Ranged(All, start, end)
    BY <1>14, AllIs DEF PageFits
<1> QED BY <1>1, <1>15

LEMMA PagesHold == AdminInv => PagesAreSlices
<1> SUFFICES ASSUME AdminInv PROVE PagesAreSlices
    OBVIOUS
<1>1. StoreTypeOK
    BY TypesHold DEF AdminTypeOK
<1>2. \A start, end \in 0..2 : /\ GetJobIds(Shown, start, end) = Ranged(All, start, end)
                               /\ GetJobIds(Shown, start, -1) = Ranged(All, start, -1)
    BY <1>1, PageHolds
<1> QED BY <1>2 DEF PagesAreSlices, All

-----------------------------------------------------------------------------
(* The theorems about the operators of a queue. *)

\* However many workers look at the three counts, each in commands of its own,
\* while jobs come and go between them: a queue that emptied is told to be
\* drained, unless another than the end of a run emptied it (worker.js:470).
THEOREM EmptyIsTold == AdminSpec => []DrainedIsTold
BY AdminKept, DrainedHolds, PTL

\* For any repeating jobs, workers and operators: such a job stays on its
\* chain as long as it is listed and is listed as long as anything is kept of
\* it, but for what ChainGoesOn and WhatRepeatsIsListed name (worker.js:651,
\* queue.js:555).
THEOREM RepeatsAreSound == AdminSpec => []RepeatSound
BY AdminKept, RepeatHolds, PTL

\* What the readers say of a job that no operation caught on the move agrees,
\* a page is a slice of the lists, and the two flags of the toggle agree
\* (queue.js:325, :367, server.js:682).
THEOREM ReadersAreSound == AdminSpec => []ReadersSound
<1>1. AdminInv => ReadersSound
    BY TypesHold, ReadersHold, PagesHold, TogglesHold DEF ReadersSound
<1> QED BY <1>1, AdminKept, PTL

\* The pages of the run have the bounds 0 to 2 and -1; this is for every page,
\* at every moment: the range of getJobs, split among six lists of which the
\* first has two parts, shows the same entries as one range over all of them
\* (queue.js:376).
PagesExact ==
    \A start \in Nat, end \in Nat \cup {-1} :
        GetJobIds(Shown, start, end) = Ranged(All, start, end)

THEOREM PagesAreExact == AdminSpec => []PagesExact
<1>1. AdminInv => PagesExact
    BY TypesHold, PageHolds DEF AdminTypeOK, PagesExact
<1> QED BY <1>1, AdminKept, PTL
=============================================================================
