---------------------------- MODULE UpkeepProofs ----------------------------
(***************************************************************************)
(* Two parts.                                                              *)
(*                                                                         *)
(* Lifecycle: schedulers that look again in time, loops and a subscription *)
(* that stop and come back, and a closeAll that leaves nothing open: for   *)
(* any number of schedulers, jobs, delays and faults.  SomeoneMinds says   *)
(* of each delayed job that somebody will look at it in time, though the   *)
(* tokens are shared.  What makes it inductive is that a running scheduler *)
(* is never over (Running), that a timer never outlasts any delayed job by *)
(* more than a second (TimersShort), and that the list of blocked clients  *)
(* holds each scheduler that is blocked, once.                             *)
(*                                                                         *)
(* FlowUpkeep: a flow that is added, undone, deleted and looked at, for    *)
(* any tree of nodes and any other jobs.  FlowSound says that a job that   *)
(* waits will be released and that a failed flow is gone.  What makes it   *)
(* inductive is that the counter is exactly the jobs still owed (CountFits)*)
(* and the two ends of a dependency fit (Edges, Parked); that a walk has   *)
(* seen everything that waits for what it saw (WalkFits); that a job not   *)
(* yet added has left no trace (Untouched); and that a node at work has a  *)
(* parent that waits for it, up to the root (InTurn).                      *)
(***************************************************************************)
EXTENDS Lifecycle, FlowUpkeep, SequenceTheorems, FiniteSetTheorems, WellFoundedInduction, TLAPS

LoopPlaces == {"off", "promote", "zrange", "yield", "timer", "blpop", "blocked", "ended", "dead"}

SchedTypes ==
    /\ now \in 0..MaxTime /\ tokens \in Nat /\ asked \in 0..MaxDelays
    /\ due \in [Jobs -> Nat \cup {None}]
    /\ blocked \in Seq(Scheds)
    /\ loop \in [Scheds -> [at : LoopPlaces, wake : Nat]]
    /\ guard \in [Scheds -> {"off", "sweep", "asleep", "ended", "dead"}]
    /\ live \in [Scheds -> BOOLEAN]
    /\ stop \in [Scheds -> {"no", "push", "clear", "pause", "done"}]
    /\ moving \in Jobs \cup {None} /\ stranded \subseteq Delayed

\* The list of blocked clients is the schedulers that are blocked.
Listed ==
    /\ IsInjective(blocked)
    /\ \A s \in Scheds : loop[s].at = "blocked" <=> s \in ToSet(blocked)

\* A scheduler runs until stop() begins or its process dies, and its loop is
\* not over while it runs; stop() then ends the timers and the blocking pop.
Running ==
    \A s \in Scheds :
        /\ live[s] => stop[s] = "no" /\ loop[s].at \notin {"ended", "dead"}
        /\ stop[s] \in {"pause", "done"} => loop[s].at # "timer" /\ guard[s] # "asleep"
        /\ stop[s] = "done" => loop[s].at # "blocked"

\* A timer is set for a second at most, and until the earliest job.
TimersShort ==
    \A s \in Scheds :
        loop[s].at = "timer" =>
            loop[s].wake <= now + 2 /\ \A j \in Delayed : loop[s].wake <= due[j] + 2

Sound == SchedTypes /\ Listed /\ Running /\ TimersShort /\ PopsEnd /\ SomeoneMinds

-----------------------------------------------------------------------------
(* The list of blocked clients.                                            *)

LEMMA ToSetIs ==
    ASSUME NEW S, NEW q \in Seq(S)
    PROVE  /\ ToSet(q) \subseteq S
           /\ \A x : x \in ToSet(q) <=> \E i \in 1..Len(q) : q[i] = x
BY DEF ToSet

LEMMA Distinct ==
    ASSUME NEW S, NEW q \in Seq(S), IsInjective(q), NEW i \in 1..Len(q), NEW k \in 1..Len(q),
           q[i] = q[k]
    PROVE  i = k
BY DEF IsInjective

LEMMA WithoutSound ==
    ASSUME NEW s \in Scheds, blocked \in Seq(Scheds), IsInjective(blocked)
    PROVE  /\ Without(s) \in Seq(Scheds) /\ IsInjective(Without(s))
           /\ ToSet(Without(s)) = ToSet(blocked) \ {s}
<1> DEFINE q == blocked
<1>1. CASE s \notin ToSet(q)
  BY <1>1 DEF Without
<1>2. CASE s \in ToSet(q)
  <2>1. PICK i \in 1..Len(q) : i = CHOOSE k \in DOMAIN q : q[k] = s
    BY <1>2, ToSetIs
  <2>2. q[i] = s
    BY <1>2, <2>1, ToSetIs
  <2>3. Without(s) = RemoveAt(q, i)
    BY <1>2, <2>1 DEF Without
  <2>4. PICK p : p = RemoveAt(q, i)
    OBVIOUS
  <2>5. /\ p \in Seq(Scheds) /\ Len(p) = Len(q) - 1
        /\ \A k \in 1..Len(p) : p[k] = IF k < i THEN q[k] ELSE q[k + 1]
    <3> DEFINE a == SubSeq(q, 1, i - 1)
               b == SubSeq(q, i + 1, Len(q))
    <3>1. Len(q) \in Nat /\ i \in 1..Len(q)
      BY LenProperties
    <3>2. a \in Seq(Scheds) /\ Len(a) = i - 1 /\ \A k \in 1..Len(a) : a[k] = q[k]
      BY <3>1
    <3>3. b \in Seq(Scheds) /\ Len(b) = Len(q) - i /\ \A k \in 1..Len(b) : b[k] = q[k + i]
      BY <3>1
    <3>4. p = a \o b
      BY <2>4 DEF RemoveAt
    <3> HIDE DEF a, b
    <3>5. p \in Seq(Scheds) /\ Len(p) = Len(a) + Len(b)
      BY <3>2, <3>3, <3>4, ConcatProperties
    <3>6. \A k \in 1..Len(p) : p[k] = IF k <= Len(a) THEN a[k] ELSE b[k - Len(a)]
      BY <3>2, <3>3, <3>4, ConcatProperties
    <3>7. ASSUME NEW k \in 1..Len(p) PROVE p[k] = IF k < i THEN q[k] ELSE q[k + 1]
      <4>1. CASE k < i
        BY <4>1, <3>1, <3>2, <3>6
      <4>2. CASE ~(k < i)
        <5>1. PICK n : n = k - (i - 1)
          OBVIOUS
        <5>2. n \in 1..Len(b) /\ n + i = k + 1 /\ p[k] = b[n]
          BY <5>1, <4>2, <3>1, <3>2, <3>3, <3>5, <3>6
        <5>3. b[n] = q[n + i]
          BY <5>2, <3>3
        <5> QED BY <5>2, <5>3, <4>2
      <4> QED BY <4>1, <4>2
    <3> QED BY <3>1, <3>2, <3>3, <3>5, <3>7
  <2>6. IsInjective(p)
    <3>1. ASSUME NEW k \in 1..Len(p), NEW m \in 1..Len(p), p[k] = p[m] PROVE k = m
      <4>1. PICK u : u = IF k < i THEN k ELSE k + 1
        OBVIOUS
      <4>2. PICK v : v = IF m < i THEN m ELSE m + 1
        OBVIOUS
      <4>3. u \in 1..Len(q) /\ v \in 1..Len(q) /\ p[k] = q[u] /\ p[m] = q[v]
        BY <4>1, <4>2, <2>5, LenProperties
      <4>4. u = v
        BY <4>3, <3>1, Distinct
      <4> QED BY <4>1, <4>2, <4>4
    <3> QED BY <3>1, <2>5 DEF IsInjective
  <2>7. ToSet(p) = ToSet(q) \ {s}
    <3>1. ASSUME NEW x \in ToSet(p) PROVE x \in ToSet(q) \ {s}
      <4>1. PICK k \in 1..Len(p) : p[k] = x
        BY <2>5, ToSetIs
      <4> DEFINE m == IF k < i THEN k ELSE k + 1
      <4>2. m \in 1..Len(q) /\ q[m] = x /\ m # i
        BY <4>1, <2>5, LenProperties
      <4>3. x # s
        BY <4>2, <2>2, Distinct
      <4> QED BY <4>2, <4>3, ToSetIs
    <3>2. ASSUME NEW x \in ToSet(q), x # s PROVE x \in ToSet(p)
      <4>1. PICK m \in 1..Len(q) : q[m] = x
        BY ToSetIs
      <4> DEFINE k == IF m < i THEN m ELSE m - 1
      <4>2. m # i
        BY <4>1, <3>2, <2>2
      <4>3. k \in 1..Len(p) /\ p[k] = x
        BY <4>1, <4>2, <2>5, LenProperties
      <4> QED BY <4>3, <2>5, ToSetIs
    <3> QED BY <3>1, <3>2
  <2> QED BY <2>3, <2>4, <2>5, <2>6, <2>7
<1> QED BY <1>1, <1>2

LEMMA HeadLeaves ==
    ASSUME blocked \in Seq(Scheds), IsInjective(blocked), blocked # <<>>
    PROVE  /\ Head(blocked) \in Scheds /\ Head(blocked) \in ToSet(blocked)
           /\ Tail(blocked) \in Seq(Scheds) /\ IsInjective(Tail(blocked))
           /\ ToSet(Tail(blocked)) = ToSet(blocked) \ {Head(blocked)}
<1> DEFINE q == blocked
           t == Tail(blocked)
<1>1. /\ Head(q) = q[1] /\ Len(q) \in Nat /\ 1 \in 1..Len(q)
      /\ t \in Seq(Scheds) /\ Len(t) = Len(q) - 1
      /\ \A k \in 1..Len(t) : t[k] = q[k + 1]
  OBVIOUS
<1> HIDE DEF t
<1>2. IsInjective(t)
  BY <1>1 DEF IsInjective
<1>3. ASSUME NEW x \in ToSet(t) PROVE x \in ToSet(q) \ {q[1]}
  <2>1. PICK k \in 1..Len(t) : t[k] = x
    BY <1>1, ToSetIs
  <2>2. k + 1 \in 1..Len(q) /\ q[k + 1] = x /\ k + 1 # 1
    BY <2>1, <1>1
  <2>3. x # q[1]
    BY <2>2, <1>1, Distinct
  <2> QED BY <2>2, <2>3, ToSetIs
<1>4. ASSUME NEW x \in ToSet(q), x # q[1] PROVE x \in ToSet(t)
  <2>1. PICK m \in 1..Len(q) : q[m] = x
    BY ToSetIs
  <2>2. m - 1 \in 1..Len(t) /\ t[m - 1] = x
    BY <2>1, <1>4, <1>1
  <2> QED BY <2>2, <1>1, ToSetIs
<1> QED BY <1>1, <1>2, <1>3, <1>4, ToSetIs DEF t

LEMMA BlockJoins ==
    ASSUME NEW s \in Scheds, blocked \in Seq(Scheds), IsInjective(blocked), s \notin ToSet(blocked)
    PROVE  /\ Append(blocked, s) \in Seq(Scheds) /\ IsInjective(Append(blocked, s))
           /\ ToSet(Append(blocked, s)) = ToSet(blocked) \cup {s}
<1> DEFINE q == blocked
           a == Append(blocked, s)
<1>1. /\ a \in Seq(Scheds) /\ Len(a) = Len(q) + 1 /\ Len(q) \in Nat
      /\ \A k \in 1..Len(q) : a[k] = q[k]
      /\ a[Len(q) + 1] = s
  OBVIOUS
<1> HIDE DEF a
<1>2. \A k \in 1..Len(q) : q[k] # s
  BY ToSetIs
<1>3. IsInjective(a)
  <2>1. ASSUME NEW k \in 1..Len(a), NEW m \in 1..Len(a), a[k] = a[m] PROVE k = m
    <3>1. CASE k \in 1..Len(q) /\ m \in 1..Len(q)
      BY <3>1, <2>1, <1>1, Distinct
    <3>2. CASE k = Len(q) + 1 \/ m = Len(q) + 1
      BY <3>2, <2>1, <1>1, <1>2
    <3> QED BY <3>1, <3>2, <1>1
  <2> QED BY <2>1, <1>1 DEF IsInjective
<1>4. ASSUME NEW x PROVE x \in ToSet(a) <=> x \in ToSet(q) \cup {s}
  <2>1. ASSUME x \in ToSet(a) PROVE x \in ToSet(q) \cup {s}
    <3>1. PICK k \in 1..Len(a) : a[k] = x
      BY <2>1, <1>1, ToSetIs
    <3>2. k \in 1..Len(q) \/ k = Len(q) + 1
      BY <1>1
    <3> QED BY <3>1, <3>2, <1>1, ToSetIs
  <2>2. ASSUME x \in ToSet(q) \cup {s} PROVE x \in ToSet(a)
    <3>1. \E k \in 1..Len(q) + 1 : a[k] = x
      BY <2>2, <1>1, ToSetIs
    <3> QED BY <3>1, <1>1, ToSetIs
  <2> QED BY <2>1, <2>2
<1> QED BY <1>1, <1>3, <1>4 DEF a

(* The sleep until the earliest job.                                       *)

LEMMA LeastNumber ==
    ASSUME NEW T \in SUBSET Nat, T # {}
    PROVE  \E m \in T : \A k \in T : m <= k
<1> DEFINE R == {ss \in Nat \X Nat : ss[1] < ss[2]}
<1>1. OpToRel(<, Nat) = R
  BY Zenon DEF OpToRel
<1>2. IsWellFoundedOn(R, Nat)
  BY <1>1, NatLessThanWellFounded
<1>3. \E m \in T : \A k \in T : ~ (<<k, m>> \in R)
  <2> HIDE DEF R
  <2> QED BY <1>2, WFMin
<1>4. PICK m \in T : \A k \in T : ~ (<<k, m>> \in R)
  BY <1>3
<1>5. ASSUME NEW k \in T PROVE m <= k
  <2>1. k \in Nat /\ m \in Nat /\ ~ (<<k, m>> \in R)
    BY <1>4
  <2>2. ~(k < m)
    BY <2>1
  <2> QED BY <2>1, <2>2
<1> QED BY <1>5

LEMMA WaitForSound ==
    ASSUME SchedTypes
    PROVE  /\ WaitFor \in Nat
           /\ Delayed = {} => WaitFor > 2
           /\ WaitFor > 0 => \A j \in Delayed : now + WaitFor <= due[j]
<1>1. \A j \in Delayed : due[j] \in Nat
  BY DEF SchedTypes, Delayed
<1>2. now \in Nat
  BY SchedulersAssumption DEF SchedTypes
<1>3. CASE Delayed = {}
  BY <1>3, SchedulersAssumption DEF WaitFor
<1>4. CASE Delayed # {}
  <2> DEFINE T == {due[j] : j \in Delayed}
  <2>1. T \in SUBSET Nat /\ T # {}
    BY <1>1, <1>4
  <2>2. PICK m \in T : \A k \in T : m <= k
    BY <2>1, LeastNumber
  <2>3. \E j \in Delayed : \A k \in Delayed : due[j] <= due[k]
    BY <2>2
  <2>4. PICK j : j = CHOOSE i \in Delayed : \A k \in Delayed : due[i] <= due[k]
    OBVIOUS
  <2>5. j \in Delayed /\ \A k \in Delayed : due[j] <= due[k]
    BY <2>3, <2>4
  <2>6. WaitFor = IF due[j] > now THEN due[j] - now ELSE 0
    BY <1>4, <2>4 DEF WaitFor
  <2>7. due[j] \in Nat
    BY <2>5, <1>1
  <2>8. CASE due[j] > now
    <3>1. WaitFor = due[j] - now
      BY <2>8, <2>6
    <3> QED BY <3>1, <2>5, <2>7, <2>8, <1>1, <1>2, <1>4
  <2>9. CASE ~(due[j] > now)
    <3>1. WaitFor = 0
      BY <2>9, <2>6
    <3> QED BY <3>1, <1>4
  <2> QED BY <2>8, <2>9
<1> QED BY <1>3, <1>4

-----------------------------------------------------------------------------
(* Tokens: whoever takes one looks again, or strands those it was for.     *)

LEMMA RoundIs ==
    ASSUME SchedTypes, NEW s \in Scheds
    PROVE  /\ Round(s) \in [at : LoopPlaces, wake : Nat]
           /\ live[s] => Round(s).at = "promote"
           /\ ~live[s] => Round(s).at = "ended"
BY DEF Round, LoopPlaces, SchedTypes

LEMMA PushTypes ==
    ASSUME SchedTypes, Listed, NEW told \in SUBSET Jobs, Push(told)
    PROVE  /\ tokens' \in Nat /\ blocked' \in Seq(Scheds)
           /\ loop' \in [Scheds -> [at : LoopPlaces, wake : Nat]]
           /\ Listed'
           /\ \A s \in Scheds : loop'[s] = loop[s] \/ (loop[s].at = "blocked" /\ loop'[s] = Round(s))
           /\ stranded \subseteq stranded' /\ stranded' \subseteq stranded \cup told
<1>1. CASE blocked = <<>>
  <2>1. tokens' = tokens + 1 /\ UNCHANGED <<blocked, loop, stranded>>
    BY <1>1 DEF Push
  <2> QED BY <2>1 DEF SchedTypes, Listed
<1>2. CASE blocked # <<>>
  <2>1. PICK h : h = Head(blocked)
    OBVIOUS
  <2>2. /\ blocked' = Tail(blocked) /\ loop' = [loop EXCEPT ![h] = Round(h)]
        /\ stranded' = (IF live[h] THEN stranded ELSE stranded \cup told)
        /\ tokens' = tokens
    BY <1>2, <2>1 DEF Push
  <2>3. /\ h \in Scheds /\ h \in ToSet(blocked)
        /\ Tail(blocked) \in Seq(Scheds) /\ IsInjective(Tail(blocked))
        /\ ToSet(Tail(blocked)) = ToSet(blocked) \ {h}
    BY <1>2, <2>1, HeadLeaves DEF SchedTypes, Listed
  <2>4. \A s \in Scheds : loop'[s] = IF s = h THEN Round(h) ELSE loop[s]
    BY <2>2 DEF SchedTypes
  <2>5. loop' \in [Scheds -> [at : LoopPlaces, wake : Nat]]
    BY <2>2, <2>3, RoundIs DEF SchedTypes
  <2>6. \A s \in Scheds : loop'[s].at = "blocked" <=> s \in ToSet(blocked')
    BY <2>2, <2>3, <2>4, RoundIs DEF Listed
  <2>7. IsInjective(blocked')
    BY <2>2, <2>3
  <2>8. loop[h].at = "blocked"
    BY <2>3 DEF Listed
  <2> QED BY <2>2, <2>3, <2>4, <2>5, <2>6, <2>7, <2>8 DEF SchedTypes, Listed
<1> QED BY <1>1, <1>2

\* Who minded a job still does.
LEMMA PushMinds ==
    ASSUME SchedTypes, Listed, NEW told \in SUBSET Jobs, Push(told),
           now' = now, live' = live, NEW j \in Jobs, due'[j] = due[j],
           NEW s \in Scheds, Minds(s, j)
    PROVE  Minds(s, j)'
<1>1. loop'[s] = loop[s] \/ loop'[s] = Round(s)
  BY PushTypes
<1>2. tokens' >= tokens /\ tokens \in Nat /\ tokens' \in Nat
  <2>1. CASE blocked = <<>>
    BY <2>1 DEF Push, SchedTypes
  <2>2. CASE blocked # <<>>
    BY <2>2 DEF Push, SchedTypes
  <2> QED BY <2>1, <2>2
<1>3. CASE loop'[s] = loop[s]
  BY <1>2, <1>3 DEF Minds
<1>4. CASE loop'[s] = Round(s)
  BY <1>4, RoundIs DEF Minds
<1> QED BY <1>1, <1>3, <1>4

\* And with one scheduler running somebody minds the jobs the token is for.
LEMMA PushTells ==
    ASSUME Sound, NEW told \in SUBSET Jobs, Push(told),
           now' = now, live' = live, TimersShort', NEW j \in told \ stranded', j \in Delayed',
           NEW s \in Scheds, live[s], loop[s].at # "off"
    PROVE  \E t \in Scheds : Minds(t, j)'
<1>1. CASE blocked = <<>>
  <2>1. tokens' = tokens + 1 /\ loop' = loop
    BY <1>1 DEF Push
  <2>2. loop[s].at # "blocked"
    <3>1. s \notin ToSet(blocked)
      BY <1>1 DEF ToSet
    <3> QED BY <3>1 DEF Sound, Listed
  <2>3. loop[s].at \in {"promote", "zrange", "yield", "timer", "blpop"}
    BY <2>2 DEF Sound, Running, SchedTypes, LoopPlaces
  <2>4. tokens' > 0
    BY <2>1 DEF Sound, SchedTypes
  <2>5. loop'[s].at = "timer" => loop'[s].wake <= due'[j] + 2
    BY DEF TimersShort
  <2> QED BY <2>1, <2>3, <2>4, <2>5 DEF Minds
<1>2. CASE blocked # <<>>
  <2>1. PICK h : h = Head(blocked)
    OBVIOUS
  <2>2. /\ loop' = [loop EXCEPT ![h] = Round(h)]
        /\ stranded' = IF live[h] THEN stranded ELSE stranded \cup told
    BY <1>2, <2>1 DEF Push
  <2>3. h \in Scheds
    BY <1>2, <2>1, HeadLeaves DEF Sound, SchedTypes, Listed
  <2>4. live[h]
    BY <2>2
  <2>5. loop'[h] = Round(h)
    BY <2>2, <2>3 DEF Sound, SchedTypes
  <2>6. loop'[h].at = "promote"
    BY <2>3, <2>4, <2>5, RoundIs DEF Sound
  <2> QED BY <2>3, <2>4, <2>6 DEF Minds
<1> QED BY <1>1, <1>2

\* The parts that a token leaves alone.
LEMMA PushKeeps ==
    ASSUME Sound, NEW told \in SUBSET Jobs, Push(told), UNCHANGED <<now, live, guard>>,
           \A s \in Scheds : stop'[s] = stop[s] \/ (stop[s] = "push" /\ stop'[s] = "clear"),
           \A j \in Delayed' : due'[j] = due[j] \/ due'[j] >= now,
           due' \in [Jobs -> Nat \cup {None}]
    PROVE  Listed' /\ Running' /\ TimersShort' /\ PopsEnd'
<1>1. SchedTypes /\ Listed /\ Running /\ TimersShort /\ PopsEnd
  BY DEF Sound
<1>2. /\ Listed'
      /\ \A s \in Scheds : loop'[s] = loop[s] \/ (loop[s].at = "blocked" /\ loop'[s] = Round(s))
  BY <1>1, PushTypes
<1>3. \A s \in Scheds : loop'[s].at \in {"timer", "blpop", "blocked"} => loop'[s] = loop[s]
  BY <1>1, <1>2, RoundIs
<1>4. Running'
  <2>1. ASSUME NEW s \in Scheds
        PROVE  /\ live'[s] => stop'[s] = "no" /\ loop'[s].at \notin {"ended", "dead"}
               /\ stop'[s] \in {"pause", "done"} => loop'[s].at # "timer" /\ guard'[s] # "asleep"
               /\ stop'[s] = "done" => loop'[s].at # "blocked"
    <3>1. live'[s] => stop'[s] = "no" /\ loop'[s].at \notin {"ended", "dead"}
      BY <1>1, <1>2, RoundIs DEF Running
    <3>2. stop'[s] \in {"pause", "done"} => stop'[s] = stop[s]
      OBVIOUS
    <3> QED BY <3>1, <3>2, <1>1, <1>3 DEF Running
  <2> QED BY <2>1 DEF Running
<1>5. TimersShort'
  <2>1. ASSUME NEW s \in Scheds, loop'[s].at = "timer", NEW j \in Delayed'
        PROVE  loop'[s].wake <= now + 2 /\ loop'[s].wake <= due'[j] + 2
    <3>1. loop'[s] = loop[s] /\ loop[s].at = "timer" /\ loop[s].wake \in Nat /\ now \in Nat
      BY <1>1, <1>3, <2>1, SchedulersAssumption DEF SchedTypes
    <3>2. loop[s].wake <= now + 2 /\ \A k \in Delayed : loop[s].wake <= due[k] + 2
      BY <1>1, <3>1 DEF TimersShort
    <3>3. due'[j] \in Nat
      BY DEF Delayed
    <3>4. CASE due'[j] = due[j]
      <4>1. j \in Delayed
        BY <3>4, <3>3, SchedulersAssumption DEF Delayed
      <4> QED BY <4>1, <3>1, <3>2, <3>4
    <3>5. CASE due'[j] >= now
      BY <3>1, <3>2, <3>3, <3>5
    <3> QED BY <3>4, <3>5
  <2>2. ASSUME NEW s \in Scheds, loop'[s].at = "timer" PROVE loop'[s].wake <= now' + 2
    BY <1>1, <1>3, <2>2 DEF TimersShort
  <2> QED BY <2>1, <2>2 DEF TimersShort
<1>6. PopsEnd'
  BY <1>1, <1>3 DEF PopsEnd
<1> QED BY <1>2, <1>4, <1>5, <1>6

-----------------------------------------------------------------------------
(* The callers.                                                            *)

LEMMA DelayKeeps ==
    ASSUME Sound, NEW j \in Jobs, NEW d \in Delays, Delay(j, d)
    PROVE  Sound'
<1>1. /\ asked < MaxDelays /\ j \notin Delayed /\ due' = [due EXCEPT ![j] = now + d]
      /\ Push({j}) /\ asked' = asked + 1 /\ UNCHANGED <<now, guard, live, stop, moving>>
  BY DEF Delay
<1>2. SchedTypes /\ Listed /\ SomeoneMinds
  BY DEF Sound
<1>3. now \in Nat /\ d \in Nat /\ None \notin Nat
  BY <1>2, SchedulersAssumption DEF SchedTypes
<1>4. /\ due' \in [Jobs -> Nat \cup {None}] /\ due'[j] = now + d
      /\ \A k \in Jobs \ {j} : due'[k] = due[k]
  BY <1>1, <1>2, <1>3 DEF SchedTypes
<1>5. Delayed' = Delayed \cup {j}
  BY <1>3, <1>4 DEF Delayed
<1>6. Listed' /\ Running' /\ TimersShort' /\ PopsEnd'
  BY <1>1, <1>3, <1>4, PushKeeps
<1>7. SchedTypes'
  <2>1. asked' \in 0..MaxDelays
    BY <1>1, <1>2, SchedulersAssumption DEF SchedTypes
  <2>2. stranded' \subseteq Delayed'
    BY <1>1, <1>2, <1>5, PushTypes DEF SchedTypes
  <2>3. tokens' \in Nat /\ blocked' \in Seq(Scheds) /\ loop' \in [Scheds -> [at : LoopPlaces, wake : Nat]]
    BY <1>1, <1>2, PushTypes
  <2> QED BY <1>1, <1>2, <1>4, <2>1, <2>2, <2>3 DEF SchedTypes
<1>8. SomeoneMinds'
  <2>1. ASSUME NEW k \in Delayed', k \notin stranded' \cup {moving'},
               NEW s \in Scheds, live'[s], loop'[s].at # "off"
        PROVE  (\E t \in Scheds : Minds(t, k)') \/ \E t \in Scheds : stop'[t] = "push"
    <3>1. stranded \subseteq stranded' /\ live[s] /\ loop[s].at # "off"
      BY <1>1, <1>2, <2>1, PushTypes
    <3>2. CASE k = j
      <4>1. \E t \in Scheds : Minds(t, j)'
        BY <1>1, <1>6, <2>1, <3>1, <3>2, PushTells
      <4> QED BY <4>1, <3>2
    <3>3. CASE k # j
      <4>1. k \in Delayed /\ due'[k] = due[k] /\ k \in Jobs
        BY <1>4, <1>5, <3>3, <2>1 DEF Delayed
      <4>2. (\E t \in Scheds : Minds(t, k)) \/ \E t \in Scheds : stop[t] = "push"
        BY <1>1, <1>2, <2>1, <3>1, <4>1 DEF SomeoneMinds
      <4>3. \A t \in Scheds : Minds(t, k) => Minds(t, k)'
        BY <1>1, <1>2, <4>1, PushMinds
      <4> QED BY <1>1, <4>2, <4>3
    <3> QED BY <3>2, <3>3
  <2> QED BY <2>1 DEF SomeoneMinds
<1> QED BY <1>6, <1>7, <1>8 DEF Sound

LEMMA MoveKeeps ==
    ASSUME Sound, NEW j \in Jobs, NEW d \in Delays, Move(j, d)
    PROVE  Sound'
<1>1. /\ asked < MaxDelays /\ moving = None /\ due' = [due EXCEPT ![j] = now + d] /\ moving' = j
      /\ asked' = asked + 1
      /\ UNCHANGED <<now, tokens, blocked, loop, guard, live, stop, stranded>>
  BY DEF Move
<1>2. SchedTypes /\ Listed /\ Running /\ TimersShort /\ PopsEnd /\ SomeoneMinds
  BY DEF Sound
<1>3. now \in Nat /\ d \in Nat /\ None \notin Nat /\ None \notin Jobs
  BY <1>2, SchedulersAssumption DEF SchedTypes
<1>4. /\ due' \in [Jobs -> Nat \cup {None}] /\ due'[j] = now + d
      /\ \A k \in Jobs \ {j} : due'[k] = due[k]
  BY <1>1, <1>2, <1>3 DEF SchedTypes
<1>5. Delayed' = Delayed \cup {j}
  BY <1>3, <1>4 DEF Delayed
<1>6. SchedTypes'
  <2>1. asked' \in 0..MaxDelays
    BY <1>1, <1>2, SchedulersAssumption DEF SchedTypes
  <2> QED BY <1>1, <1>2, <1>4, <1>5, <2>1 DEF SchedTypes
<1>7. Listed' /\ Running' /\ PopsEnd'
  BY <1>1, <1>2 DEF Listed, Running, PopsEnd
<1>8. TimersShort'
  <2>1. ASSUME NEW s \in Scheds, loop[s].at = "timer"
        PROVE  loop[s].wake <= now + 2 /\ \A k \in Delayed' : loop[s].wake <= due'[k] + 2
    <3>1. loop[s].wake <= now + 2 /\ (\A k \in Delayed : loop[s].wake <= due[k] + 2)
          /\ loop[s].wake \in Nat
      BY <1>2, <2>1 DEF TimersShort, SchedTypes
    <3>2. loop[s].wake <= due'[j] + 2
      BY <3>1, <1>3, <1>4
    <3> QED BY <3>1, <3>2, <1>4, <1>5 DEF Delayed
  <2> QED BY <1>1, <2>1 DEF TimersShort
<1>9. SomeoneMinds'
  <2>1. ASSUME NEW k \in Delayed', k \notin stranded' \cup {moving'},
               NEW s \in Scheds, live'[s], loop'[s].at # "off"
        PROVE  (\E t \in Scheds : Minds(t, k)') \/ \E t \in Scheds : stop'[t] = "push"
    <3>1. k \in Delayed /\ k # None /\ due'[k] = due[k]
      BY <1>1, <1>3, <1>4, <1>5, <2>1 DEF Delayed
    <3>2. (\E t \in Scheds : Minds(t, k)) \/ \E t \in Scheds : stop[t] = "push"
      BY <1>1, <1>2, <2>1, <3>1 DEF SomeoneMinds
    <3>3. \A t \in Scheds : Minds(t, k) => Minds(t, k)'
      BY <1>1, <3>1 DEF Minds
    <3> QED BY <1>1, <3>2, <3>3
  <2> QED BY <2>1 DEF SomeoneMinds
<1> QED BY <1>6, <1>7, <1>8, <1>9 DEF Sound

LEMMA MoveToldKeeps ==
    ASSUME Sound, MoveTold
    PROVE  Sound'
<1>1. /\ moving # None /\ moving' = None /\ Push({moving} \cap Delayed)
      /\ UNCHANGED <<now, due, guard, live, stop, asked>>
  BY DEF MoveTold
<1>2. SchedTypes /\ Listed /\ SomeoneMinds
  BY DEF Sound
<1>3. Delayed' = Delayed /\ Delayed \subseteq Jobs /\ {moving} \cap Delayed \in SUBSET Jobs
  BY <1>1 DEF Delayed
<1>4. Listed' /\ Running' /\ TimersShort' /\ PopsEnd'
  <2>1. due' \in [Jobs -> Nat \cup {None}] /\ \A j \in Delayed' : due'[j] = due[j]
    BY <1>1, <1>2 DEF SchedTypes
  <2> QED BY <1>1, <1>3, <2>1, PushKeeps
<1>5. SchedTypes'
  <2>1. stranded' \subseteq Delayed'
    BY <1>1, <1>2, <1>3, PushTypes DEF SchedTypes
  <2>2. tokens' \in Nat /\ blocked' \in Seq(Scheds) /\ loop' \in [Scheds -> [at : LoopPlaces, wake : Nat]]
    BY <1>1, <1>2, <1>3, PushTypes
  <2> QED BY <1>1, <1>2, <2>1, <2>2 DEF SchedTypes
<1>6. SomeoneMinds'
  <2>1. ASSUME NEW k \in Delayed', k \notin stranded' \cup {moving'},
               NEW s \in Scheds, live'[s], loop'[s].at # "off"
        PROVE  (\E t \in Scheds : Minds(t, k)') \/ \E t \in Scheds : stop'[t] = "push"
    <3>1. stranded \subseteq stranded' /\ live[s] /\ loop[s].at # "off" /\ k \in Delayed /\ k \in Jobs
      BY <1>1, <1>2, <1>3, <2>1, PushTypes
    <3>2. CASE k = moving
      <4>1. k \in ({moving} \cap Delayed) \ stranded'
        BY <2>1, <3>1, <3>2
      <4>2. \E t \in Scheds : Minds(t, k)'
        BY <1>1, <1>3, <1>4, <2>1, <3>1, <4>1, PushTells
      <4> QED BY <4>2
    <3>3. CASE k # moving
      <4>1. (\E t \in Scheds : Minds(t, k)) \/ \E t \in Scheds : stop[t] = "push"
        BY <1>2, <2>1, <3>1, <3>3 DEF SomeoneMinds
      <4>2. \A t \in Scheds : Minds(t, k) => Minds(t, k)'
        BY <1>1, <1>2, <1>3, <3>1, PushMinds
      <4> QED BY <1>1, <4>1, <4>2
    <3> QED BY <3>2, <3>3
  <2> QED BY <2>1 DEF SomeoneMinds
<1> QED BY <1>4, <1>5, <1>6 DEF Sound

LEMMA MoverDiesKeeps ==
    ASSUME Sound, MoverDies
    PROVE  Sound'
<1>1. /\ moving' = None /\ stranded' = stranded \cup ({moving} \cap Delayed)
      /\ UNCHANGED <<now, due, tokens, blocked, loop, guard, live, stop, asked>>
  BY DEF MoverDies
<1>2. Delayed' = Delayed
  BY <1>1 DEF Delayed
<1>3. SchedTypes'
  BY <1>1, <1>2 DEF Sound, SchedTypes
<1>4. Listed' /\ Running' /\ TimersShort' /\ PopsEnd'
  BY <1>1, <1>2 DEF Sound, Listed, Running, TimersShort, PopsEnd
<1>5. \A s \in Scheds, j \in Jobs : Minds(s, j)' <=> Minds(s, j)
  BY <1>1 DEF Minds
<1>6. SomeoneMinds'
  BY <1>1, <1>2, <1>5 DEF Sound, SomeoneMinds, Delayed
<1> QED BY <1>3, <1>4, <1>6 DEF Sound

-----------------------------------------------------------------------------
(* The loops.                                                              *)

\* A scheduler that moves leaves somebody to mind each job if it minds them
\* itself now.
LEMMA Relooks ==
    ASSUME Sound, NEW s \in Scheds, NEW r, loop' = [loop EXCEPT ![s] = r],
           UNCHANGED <<now, due, stop, moving>>, tokens' = tokens, live' = live,
           stranded \subseteq stranded',
           live[s] => \A j \in Delayed : Minds(s, j)'
    PROVE  SomeoneMinds'
<1>1. ASSUME NEW j \in Delayed', j \notin stranded' \cup {moving'},
             NEW u \in Scheds, live'[u], loop'[u].at # "off"
      PROVE  (\E t \in Scheds : Minds(t, j)') \/ \E t \in Scheds : stop'[t] = "push"
  <2>1. j \in Delayed /\ j \in Jobs /\ j \notin stranded \cup {moving}
    BY <1>1 DEF Delayed
  <2>2. CASE live[s]
    BY <2>1, <2>2
  <2>3. CASE ~live[s]
    <3>1. u # s /\ loop[u].at # "off" /\ live[u]
      BY <1>1, <2>3 DEF Sound, SchedTypes
    <3>2. (\E t \in Scheds : Minds(t, j)) \/ \E t \in Scheds : stop[t] = "push"
      BY <2>1, <3>1 DEF Sound, SomeoneMinds
    <3>3. ASSUME NEW t \in Scheds, Minds(t, j) PROVE Minds(t, j)'
      <4>1. t # s
        BY <2>3, <3>3 DEF Minds
      <4>2. loop'[t] = loop[t]
        BY <4>1 DEF Sound, SchedTypes
      <4> QED BY <3>3, <4>2 DEF Minds
    <3> QED BY <3>2, <3>3
  <2> QED BY <2>2, <2>3
<1> QED BY <1>1 DEF SomeoneMinds

LEMMA StartKeeps ==
    ASSUME Sound, NEW s \in Scheds, Start(s)
    PROVE  Sound'
<1>1. /\ loop[s].at = "off" /\ loop' = [loop EXCEPT ![s] = Round(s)]
      /\ guard' = [guard EXCEPT ![s] = IF live[s] THEN "sweep" ELSE "ended"]
      /\ UNCHANGED <<now, due, tokens, blocked, live, stop, moving, asked, stranded>>
  BY DEF Start
<1>2. SchedTypes /\ Listed /\ Running /\ TimersShort /\ PopsEnd
  BY DEF Sound
<1>3. /\ Round(s) \in [at : LoopPlaces, wake : Nat] /\ loop'[s] = Round(s)
      /\ \A t \in Scheds \ {s} : loop'[t] = loop[t]
      /\ live[s] => Round(s).at = "promote"
      /\ ~live[s] => Round(s).at = "ended"
  BY <1>1, <1>2, RoundIs DEF SchedTypes
<1>4. Delayed' = Delayed
  BY <1>1 DEF Delayed
<1>5. SchedTypes'
  BY <1>1, <1>2, <1>3, <1>4 DEF SchedTypes
<1>6. Listed'
  BY <1>1, <1>2, <1>3 DEF Listed
<1>7. Running'
  <2>1. \A t \in Scheds : guard'[t] = IF t = s THEN (IF live[s] THEN "sweep" ELSE "ended") ELSE guard[t]
    BY <1>1, <1>2 DEF SchedTypes
  <2> QED BY <1>1, <1>2, <1>3, <2>1 DEF Running
<1>8. TimersShort'
  BY <1>1, <1>2, <1>3, <1>4 DEF TimersShort
<1>9. PopsEnd'
  BY <1>1, <1>2, <1>3 DEF PopsEnd
<1>10. SomeoneMinds'
  <2>1. live[s] => \A j \in Delayed : Minds(s, j)'
    BY <1>1, <1>3 DEF Minds
  <2> QED BY <1>1, <1>3, <2>1, Relooks
<1> QED BY <1>5, <1>6, <1>7, <1>8, <1>9, <1>10 DEF Sound

LEMMA PromoteKeeps ==
    ASSUME Sound, NEW s \in Scheds, Promote(s)
    PROVE  Sound'
<1>1. /\ loop[s].at = "promote" /\ loop' = [loop EXCEPT ![s].at = "zrange"]
      /\ due' = [j \in Jobs |-> IF j \in Delayed /\ due[j] <= now THEN None ELSE due[j]]
      /\ stranded' = {j \in stranded : due[j] > now}
      /\ UNCHANGED <<now, tokens, blocked, guard, live, stop, moving, asked>>
  BY DEF Promote
<1>2. SchedTypes /\ Listed /\ Running /\ TimersShort /\ PopsEnd /\ SomeoneMinds
  BY DEF Sound
<1>3. /\ loop' \in [Scheds -> [at : LoopPlaces, wake : Nat]]
      /\ loop'[s].at = "zrange" /\ \A t \in Scheds \ {s} : loop'[t] = loop[t]
  BY <1>1, <1>2 DEF SchedTypes, LoopPlaces
<1>4. due' \in [Jobs -> Nat \cup {None}]
  BY <1>1, <1>2 DEF SchedTypes
<1>5. Delayed' = {j \in Delayed : ~(due[j] <= now)}
  BY <1>1 DEF Delayed
<1>6. \A j \in Delayed' : j \in Delayed /\ due'[j] = due[j]
  BY <1>1, <1>5 DEF Delayed
<1>7. SchedTypes'
  <2>1. ASSUME NEW j \in stranded' PROVE j \in Delayed'
    <3>1. j \in Delayed /\ due[j] > now
      BY <1>1, <1>2 DEF SchedTypes
    <3>2. due[j] \in Nat /\ now \in Nat
      BY <1>2, <3>1, SchedulersAssumption DEF SchedTypes, Delayed
    <3> QED BY <3>1, <3>2, <1>5
  <2> QED BY <1>1, <1>2, <1>3, <1>4, <2>1 DEF SchedTypes
<1>8. Listed'
  BY <1>1, <1>2, <1>3 DEF Listed
<1>9. Running'
  BY <1>1, <1>2, <1>3 DEF Running
<1>10. TimersShort' /\ PopsEnd'
  BY <1>1, <1>2, <1>3, <1>6 DEF TimersShort, PopsEnd
<1>11. SomeoneMinds'
  <2>1. ASSUME NEW j \in Delayed', j \notin stranded' \cup {moving'},
               NEW u \in Scheds, live'[u], loop'[u].at # "off"
        PROVE  (\E t \in Scheds : Minds(t, j)') \/ \E t \in Scheds : stop'[t] = "push"
    <3>1. j \in Delayed /\ due'[j] = due[j] /\ due[j] \in Nat /\ now \in Nat /\ ~(due[j] <= now)
      BY <1>2, <1>5, <1>6, SchedulersAssumption DEF SchedTypes, Delayed
    <3>2. j \notin stranded \cup {moving}
      BY <1>1, <2>1, <3>1
    <3>3. live[u] /\ loop[u].at # "off"
      BY <1>1, <1>3, <2>1
    <3>4. (\E t \in Scheds : Minds(t, j)) \/ \E t \in Scheds : stop[t] = "push"
      BY <1>2, <3>1, <3>2, <3>3 DEF SomeoneMinds
    <3>5. ASSUME NEW t \in Scheds, Minds(t, j) PROVE Minds(t, j)'
      <4>1. CASE t = s
        BY <1>1, <1>3, <3>5, <4>1 DEF Minds
      <4>2. CASE t # s
        BY <1>1, <1>3, <3>1, <3>5, <4>2 DEF Minds
      <4> QED BY <4>1, <4>2
    <3> QED BY <1>1, <3>4, <3>5
  <2> QED BY <2>1 DEF SomeoneMinds
<1> QED BY <1>7, <1>8, <1>9, <1>10, <1>11 DEF Sound

\* The timer ends no later than the earliest job, the blocking pop before it.
LEMMA LookSound ==
    ASSUME Sound, NEW s \in Scheds, NEW r,
           r = IF WaitFor = 0 THEN [at |-> "yield", wake |-> now]
               ELSE IF WaitFor <= 2
               THEN IF live[s] THEN [at |-> "timer", wake |-> now + WaitFor] ELSE Round(s)
               ELSE [at |-> "blpop", wake |-> now + 2 * (WaitFor \div 2)]
    PROVE  /\ r \in [at : LoopPlaces, wake : Nat]
           /\ r.at \in {"yield", "timer", "blpop"} \/ (~live[s] /\ r.at = "ended")
           /\ r.at = "timer" =>
                  live[s] /\ r.wake <= now + 2 /\ \A j \in Delayed : r.wake <= due[j]
           /\ r.at = "blpop" => r.wake > now /\ \A j \in Delayed : r.wake <= due[j]
<1>1. WaitFor \in Nat /\ (WaitFor > 0 => \A j \in Delayed : now + WaitFor <= due[j])
  BY WaitForSound DEF Sound
<1>2. PICK w : w = WaitFor
  OBVIOUS
<1>3. now \in Nat /\ w \in Nat /\ \A j \in Delayed : due[j] \in Nat
  BY <1>1, <1>2, SchedulersAssumption DEF Sound, SchedTypes, Delayed
<1>4. w > 0 => \A j \in Delayed : now + w <= due[j]
  BY <1>1, <1>2
<1>5. CASE w = 0
  <2>1. r = [at |-> "yield", wake |-> now]
    BY <1>2, <1>5
  <2> QED BY <2>1, <1>3 DEF LoopPlaces
<1>6. CASE w # 0 /\ w <= 2 /\ live[s]
  <2>1. r = [at |-> "timer", wake |-> now + w]
    BY <1>2, <1>6
  <2> QED BY <2>1, <1>3, <1>4, <1>6 DEF LoopPlaces
<1>7. CASE w # 0 /\ w <= 2 /\ ~live[s]
  <2>1. r = Round(s)
    BY <1>2, <1>7
  <2> QED BY <2>1, <1>7, RoundIs DEF Sound
<1>8. CASE ~(w <= 2)
  <2>1. r = [at |-> "blpop", wake |-> now + 2 * (w \div 2)]
    BY <1>2, <1>3, <1>8
  <2>2. PICK h : h = 2 * (w \div 2)
    OBVIOUS
  <2>3. h \in Nat /\ h > 0 /\ h <= w
    BY <1>3, <1>8, <2>2
  <2>4. r = [at |-> "blpop", wake |-> now + h] /\ now + h \in Nat /\ now + h > now
    BY <1>3, <2>1, <2>2, <2>3
  <2>5. \A j \in Delayed : now + h <= due[j]
    BY <1>3, <1>4, <1>8, <2>3
  <2> QED BY <2>4, <2>5 DEF LoopPlaces
<1> QED BY <1>3, <1>5, <1>6, <1>7, <1>8

LEMMA LookKeeps ==
    ASSUME Sound, NEW s \in Scheds, Look(s)
    PROVE  Sound'
<1>1. PICK r : r = IF WaitFor = 0 THEN [at |-> "yield", wake |-> now]
                   ELSE IF WaitFor <= 2
                   THEN IF live[s] THEN [at |-> "timer", wake |-> now + WaitFor] ELSE Round(s)
                   ELSE [at |-> "blpop", wake |-> now + 2 * (WaitFor \div 2)]
  OBVIOUS
<1>2. /\ loop[s].at = "zrange" /\ loop' = [loop EXCEPT ![s] = r]
      /\ UNCHANGED <<now, due, tokens, blocked, guard, live, stop, moving, asked, stranded>>
  BY <1>1 DEF Look
<1>3. SchedTypes /\ Listed /\ Running /\ TimersShort /\ PopsEnd
  BY DEF Sound
<1>4. /\ r \in [at : LoopPlaces, wake : Nat]
      /\ r.at \in {"yield", "timer", "blpop"} \/ (~live[s] /\ r.at = "ended")
      /\ r.at = "timer" => live[s] /\ r.wake <= now + 2 /\ \A j \in Delayed : r.wake <= due[j]
      /\ r.at = "blpop" => r.wake > now /\ \A j \in Delayed : r.wake <= due[j]
  BY <1>1, LookSound
<1>5. loop'[s] = r /\ \A t \in Scheds \ {s} : loop'[t] = loop[t]
  BY <1>2, <1>3 DEF SchedTypes
<1>6. Delayed' = Delayed /\ \A j \in Delayed : due[j] \in Nat
  BY <1>2, <1>3 DEF Delayed, SchedTypes
<1>7. SchedTypes'
  BY <1>2, <1>3, <1>4, <1>6 DEF SchedTypes
<1>8. Listed'
  BY <1>2, <1>3, <1>4, <1>5 DEF Listed
<1>9. Running'
  BY <1>2, <1>3, <1>4, <1>5 DEF Running
<1>10. TimersShort'
  <2>1. ASSUME NEW t \in Scheds, loop'[t].at = "timer"
        PROVE  loop'[t].wake <= now' + 2 /\ \A j \in Delayed' : loop'[t].wake <= due'[j] + 2
    <3>1. CASE t = s
      BY <1>2, <1>4, <1>5, <1>6, <2>1, <3>1
    <3>2. CASE t # s
      BY <1>2, <1>3, <1>5, <1>6, <2>1, <3>2 DEF TimersShort
    <3> QED BY <3>1, <3>2
  <2> QED BY <2>1 DEF TimersShort
<1>11. PopsEnd'
  BY <1>2, <1>3, <1>4, <1>5 DEF PopsEnd
<1>12. SomeoneMinds'
  <2>1. ASSUME live[s], NEW j \in Delayed PROVE Minds(s, j)'
    <3>1. r.at = "timer" => r.wake <= due[j] + 2
      BY <1>4, <1>6
    <3>2. r.at \in {"yield", "timer", "blpop"}
      BY <1>4, <2>1
    <3> QED BY <1>2, <1>4, <1>5, <2>1, <3>1, <3>2 DEF Minds
  <2> QED BY <1>2, <2>1, Relooks
<1> QED BY <1>7, <1>8, <1>9, <1>10, <1>11, <1>12 DEF Sound

LEMMA BlockKeeps ==
    ASSUME Sound, NEW s \in Scheds, Block(s)
    PROVE  Sound'
<1>1. /\ loop[s].at = "blpop"
      /\ UNCHANGED <<now, due, guard, live, stop, moving, asked>>
  BY DEF Block
<1>2. SchedTypes /\ Listed /\ Running /\ TimersShort /\ PopsEnd
  BY DEF Sound
<1>3. Delayed' = Delayed
  BY <1>1 DEF Delayed
<1>4. s \notin ToSet(blocked)
  BY <1>1, <1>2 DEF Listed
<1>5. CASE stop[s] = "done" \/ tokens > 0
  <2>1. /\ loop' = [loop EXCEPT ![s] = Round(s)] /\ blocked' = blocked
        /\ tokens' = (IF stop[s] = "done" THEN tokens ELSE tokens - 1)
        /\ stranded' = IF live[s] THEN stranded ELSE stranded \cup Delayed
    BY <1>5 DEF Block
  <2>2. /\ Round(s) \in [at : LoopPlaces, wake : Nat] /\ loop'[s] = Round(s)
        /\ \A t \in Scheds \ {s} : loop'[t] = loop[t]
        /\ live[s] => Round(s).at = "promote"
        /\ ~live[s] => Round(s).at = "ended"
    BY <1>2, <2>1, RoundIs DEF SchedTypes
  <2>3. tokens' \in Nat
    BY <1>2, <1>5, <2>1 DEF SchedTypes
  <2>4. SchedTypes'
    <3>1. stranded' \subseteq Delayed'
      BY <1>2, <1>3, <2>1 DEF SchedTypes
    <3> QED BY <1>1, <1>2, <2>1, <2>2, <2>3, <3>1 DEF SchedTypes
  <2>5. Listed'
    BY <1>2, <1>4, <2>1, <2>2 DEF Listed
  <2>6. Running'
    BY <1>1, <1>2, <2>2 DEF Running
  <2>7. TimersShort' /\ PopsEnd'
    BY <1>1, <1>2, <1>3, <2>2 DEF TimersShort, PopsEnd
  <2>8. SomeoneMinds'
    <3>1. CASE live[s]
      BY <1>1, <2>2, <3>1 DEF SomeoneMinds, Minds
    <3>2. CASE ~live[s]
      BY <1>3, <2>1, <3>2 DEF SomeoneMinds
    <3> QED BY <3>1, <3>2
  <2> QED BY <2>4, <2>5, <2>6, <2>7, <2>8 DEF Sound
<1>6. CASE ~(stop[s] = "done" \/ tokens > 0)
  <2>1. /\ loop' = [loop EXCEPT ![s].at = "blocked"] /\ blocked' = Append(blocked, s)
        /\ UNCHANGED <<tokens, stranded>>
    BY <1>6 DEF Block
  <2>2. /\ loop' \in [Scheds -> [at : LoopPlaces, wake : Nat]]
        /\ loop'[s].at = "blocked" /\ loop'[s].wake = loop[s].wake
        /\ \A t \in Scheds \ {s} : loop'[t] = loop[t]
    BY <1>2, <2>1 DEF SchedTypes, LoopPlaces
  <2>3. /\ blocked' \in Seq(Scheds) /\ IsInjective(blocked')
        /\ ToSet(blocked') = ToSet(blocked) \cup {s}
    BY <1>2, <1>4, <2>1, BlockJoins DEF SchedTypes, Listed
  <2>4. SchedTypes'
    BY <1>1, <1>2, <1>3, <2>1, <2>2, <2>3 DEF SchedTypes
  <2>5. Listed'
    BY <1>2, <2>2, <2>3 DEF Listed
  <2>6. Running'
    <3>1. stop[s] # "done"
      BY <1>6
    <3> QED BY <1>1, <1>2, <2>2, <3>1 DEF Running
  <2>7. TimersShort' /\ PopsEnd'
    BY <1>1, <1>2, <1>3, <2>2 DEF TimersShort, PopsEnd
  <2>8. ASSUME NEW j \in Delayed, NEW t \in Scheds, Minds(t, j) PROVE Minds(t, j)'
    <3>1. ~(tokens > 0)
      BY <1>6
    <3>2. CASE t = s
      BY <1>1, <2>1, <2>2, <2>8, <3>1, <3>2 DEF Minds
    <3>3. CASE t # s
      BY <1>1, <2>1, <2>2, <2>8, <3>3 DEF Minds
    <3> QED BY <3>2, <3>3
  <2>9. \A t \in Scheds : loop'[t].at # "off" => loop[t].at # "off"
    BY <1>1, <2>2
  <2>10. SomeoneMinds'
    <3>1. ASSUME NEW j \in Delayed', j \notin stranded' \cup {moving'},
                 NEW u \in Scheds, live'[u], loop'[u].at # "off"
          PROVE  (\E t \in Scheds : Minds(t, j)') \/ \E t \in Scheds : stop'[t] = "push"
      <4>1. (\E t \in Scheds : Minds(t, j)) \/ \E t \in Scheds : stop[t] = "push"
        BY <1>1, <1>3, <2>1, <2>9, <3>1 DEF Sound, SomeoneMinds
      <4> QED BY <1>1, <1>3, <2>8, <4>1
    <3> QED BY <3>1 DEF SomeoneMinds
  <2> QED BY <2>4, <2>5, <2>6, <2>7, <2>10 DEF Sound
<1> QED BY <1>5, <1>6

LEMMA WakeKeeps ==
    ASSUME Sound, NEW s \in Scheds, Wake(s)
    PROVE  Sound'
<1>1. /\ loop[s].at \in {"yield", "timer", "blocked"}
      /\ loop' = [loop EXCEPT ![s] = Round(s)] /\ blocked' = Without(s)
      /\ UNCHANGED <<now, due, tokens, guard, live, stop, moving, asked, stranded>>
  BY DEF Wake
<1>2. SchedTypes /\ Listed /\ Running /\ TimersShort /\ PopsEnd
  BY DEF Sound
<1>3. /\ Round(s) \in [at : LoopPlaces, wake : Nat] /\ loop'[s] = Round(s)
      /\ \A t \in Scheds \ {s} : loop'[t] = loop[t]
      /\ live[s] => Round(s).at = "promote"
      /\ ~live[s] => Round(s).at = "ended"
  BY <1>1, <1>2, RoundIs DEF SchedTypes
<1>4. /\ blocked' \in Seq(Scheds) /\ IsInjective(blocked')
      /\ ToSet(blocked') = ToSet(blocked) \ {s}
  BY <1>1, <1>2, WithoutSound DEF SchedTypes, Listed
<1>5. Delayed' = Delayed
  BY <1>1 DEF Delayed
<1>6. SchedTypes'
  BY <1>1, <1>2, <1>3, <1>4, <1>5 DEF SchedTypes
<1>7. Listed'
  BY <1>2, <1>3, <1>4 DEF Listed
<1>8. Running'
  BY <1>1, <1>2, <1>3 DEF Running
<1>9. TimersShort' /\ PopsEnd'
  BY <1>1, <1>2, <1>3, <1>5 DEF TimersShort, PopsEnd
<1>10. SomeoneMinds'
  <2>1. live[s] => \A j \in Delayed : Minds(s, j)'
    BY <1>1, <1>3 DEF Minds
  <2> QED BY <1>1, <2>1, Relooks
<1> QED BY <1>6, <1>7, <1>8, <1>9, <1>10 DEF Sound

LEMMA WatchKeeps ==
    ASSUME Sound, NEW s \in Scheds, Watch(s)
    PROVE  Sound'
<1>1. /\ guard[s] \in {"sweep", "asleep"}
      /\ guard' = [guard EXCEPT ![s] = IF ~live[s] THEN "ended"
                                       ELSE IF guard[s] = "sweep" THEN "asleep" ELSE "sweep"]
      /\ UNCHANGED <<now, due, tokens, blocked, loop, live, stop, moving, asked, stranded>>
  BY DEF Watch
<1>2. SchedTypes /\ Listed /\ Running /\ TimersShort /\ PopsEnd /\ SomeoneMinds
  BY DEF Sound
<1>3. Delayed' = Delayed
  BY <1>1 DEF Delayed
<1>4. SchedTypes'
  BY <1>1, <1>2, <1>3 DEF SchedTypes
<1>5. Running'
  <2>1. \A t \in Scheds : guard'[t] = "asleep" => guard[t] = "asleep" \/ live[t]
    BY <1>1, <1>2 DEF SchedTypes
  <2> QED BY <1>1, <1>2, <2>1 DEF Running
<1>6. Listed' /\ TimersShort' /\ PopsEnd'
  BY <1>1, <1>2, <1>3 DEF Listed, TimersShort, PopsEnd
<1>7. \A t \in Scheds, j \in Jobs : Minds(t, j)' <=> Minds(t, j)
  BY <1>1 DEF Minds
<1>8. SomeoneMinds'
  BY <1>1, <1>2, <1>3, <1>7 DEF SomeoneMinds, Delayed
<1> QED BY <1>4, <1>5, <1>6, <1>8 DEF Sound

-----------------------------------------------------------------------------
(* stop(), deaths and the clock.                                           *)

LEMMA StopBeginsKeeps ==
    ASSUME Sound, NEW S \in SUBSET Scheds, \A s \in S : stop[s] = "no", StopBegins(S)
    PROVE  Sound'
<1>1. /\ live' = [s \in Scheds |-> live[s] /\ s \notin S]
      /\ stop' = [s \in Scheds |-> IF s \in S THEN "push" ELSE stop[s]]
      /\ UNCHANGED <<now, due, tokens, blocked, loop, guard, moving, asked, stranded>>
  BY DEF StopBegins
<1>2. SchedTypes /\ Listed /\ Running /\ TimersShort /\ PopsEnd /\ SomeoneMinds
  BY DEF Sound
<1>3. Delayed' = Delayed
  BY <1>1 DEF Delayed
<1>4. SchedTypes'
  <2>1. live' \in [Scheds -> BOOLEAN]
    BY <1>1
  <2>2. stop' \in [Scheds -> {"no", "push", "clear", "pause", "done"}]
    BY <1>1, <1>2 DEF SchedTypes
  <2> QED BY <1>1, <1>2, <1>3, <2>1, <2>2 DEF SchedTypes
<1>5. \A s \in Scheds : /\ live'[s] => live[s] /\ s \notin S
                        /\ stop'[s] = IF s \in S THEN "push" ELSE stop[s]
  BY <1>1
<1>6. Listed' /\ TimersShort' /\ PopsEnd'
  BY <1>1, <1>2, <1>3 DEF Listed, TimersShort, PopsEnd
<1>7. Running'
  BY <1>1, <1>2, <1>5 DEF Running
<1>8. SomeoneMinds'
  <2>1. CASE S = {}
    <3>1. \A s \in Scheds : live'[s] <=> live[s]
      BY <1>1, <2>1
    <3>2. \A t \in Scheds, j \in Jobs : Minds(t, j) => Minds(t, j)'
      BY <1>1, <3>1 DEF Minds
    <3>3. \A t \in Scheds : stop'[t] = stop[t]
      BY <1>5, <2>1
    <3> QED BY <1>1, <1>2, <1>3, <3>1, <3>2, <3>3 DEF SomeoneMinds, Delayed
  <2>2. CASE S # {}
    <3>1. \E t \in Scheds : stop'[t] = "push"
      BY <1>5, <2>2
    <3> QED BY <3>1 DEF SomeoneMinds
  <2> QED BY <2>1, <2>2
<1> QED BY <1>4, <1>6, <1>7, <1>8 DEF Sound

\* The token that stop() leaves is for all: who takes it looks again, or the
\* jobs are stranded; without one in Redis, it stays for who comes there.
LEMMA StopPushesKeeps ==
    ASSUME Sound, NEW s \in Scheds, StopPushes(s)
    PROVE  Sound'
<1>1. /\ stop[s] = "push" /\ Push(Delayed) /\ stop' = [stop EXCEPT ![s] = "clear"]
      /\ UNCHANGED <<now, due, guard, live, moving, asked>>
  BY DEF StopPushes
<1>2. SchedTypes /\ Listed
  BY DEF Sound
<1>3. Delayed' = Delayed /\ Delayed \in SUBSET Jobs
  BY <1>1 DEF Delayed
<1>4. \A t \in Scheds : stop'[t] = stop[t] \/ (stop[t] = "push" /\ stop'[t] = "clear")
  BY <1>1, <1>2 DEF SchedTypes
<1>5. Listed' /\ Running' /\ TimersShort' /\ PopsEnd'
  <2>1. due' \in [Jobs -> Nat \cup {None}] /\ \A j \in Delayed' : due'[j] = due[j]
    BY <1>1, <1>2 DEF SchedTypes
  <2> QED BY <1>1, <1>3, <1>4, <2>1, PushKeeps
<1>6. SchedTypes'
  <2>1. stranded' \subseteq Delayed'
    BY <1>1, <1>2, <1>3, PushTypes DEF SchedTypes
  <2>2. tokens' \in Nat /\ blocked' \in Seq(Scheds) /\ loop' \in [Scheds -> [at : LoopPlaces, wake : Nat]]
    BY <1>1, <1>2, <1>3, PushTypes
  <2> QED BY <1>1, <1>2, <2>1, <2>2 DEF SchedTypes
<1>7. SomeoneMinds'
  <2>1. ASSUME NEW k \in Delayed', k \notin stranded' \cup {moving'},
               NEW u \in Scheds, live'[u], loop'[u].at # "off"
        PROVE  \E t \in Scheds : Minds(t, k)'
    <3>1. live[u] /\ loop[u].at # "off" /\ k \in Delayed \ stranded'
      BY <1>1, <1>2, <1>3, <2>1, PushTypes
    <3> QED BY <1>1, <1>3, <1>5, <2>1, <3>1, PushTells
  <2> QED BY <2>1 DEF SomeoneMinds
<1> QED BY <1>5, <1>6, <1>7 DEF Sound

LEMMA StopClearsKeeps ==
    ASSUME Sound, NEW s \in Scheds, StopClears(s)
    PROVE  Sound'
<1>1. /\ stop[s] = "clear" /\ stop' = [stop EXCEPT ![s] = "pause"]
      /\ loop' = (IF loop[s].at = "timer" THEN [loop EXCEPT ![s] = Round(s)] ELSE loop)
      /\ guard' = (IF guard[s] = "asleep" THEN [guard EXCEPT ![s] = "ended"] ELSE guard)
      /\ UNCHANGED <<now, due, tokens, blocked, live, moving, asked, stranded>>
  BY DEF StopClears
<1>2. SchedTypes /\ Listed /\ Running /\ TimersShort /\ PopsEnd /\ SomeoneMinds
  BY DEF Sound
<1>3. ~live[s]
  BY <1>1, <1>2 DEF Running
<1>4. /\ loop' \in [Scheds -> [at : LoopPlaces, wake : Nat]]
      /\ loop'[s] = IF loop[s].at = "timer" THEN Round(s) ELSE loop[s]
      /\ \A t \in Scheds \ {s} : loop'[t] = loop[t]
      /\ Round(s).at = "ended"
  BY <1>1, <1>2, <1>3, RoundIs DEF SchedTypes
<1>5. /\ stop' \in [Scheds -> {"no", "push", "clear", "pause", "done"}]
      /\ stop'[s] = "pause" /\ \A t \in Scheds \ {s} : stop'[t] = stop[t]
  BY <1>1, <1>2 DEF SchedTypes
<1>6. /\ guard' \in [Scheds -> {"off", "sweep", "asleep", "ended", "dead"}]
      /\ guard'[s] # "asleep" /\ \A t \in Scheds \ {s} : guard'[t] = guard[t]
  BY <1>1, <1>2 DEF SchedTypes
<1>7. Delayed' = Delayed
  BY <1>1 DEF Delayed
<1>8. SchedTypes'
  BY <1>1, <1>2, <1>4, <1>5, <1>6, <1>7 DEF SchedTypes
<1>9. Listed'
  BY <1>1, <1>2, <1>4 DEF Listed
<1>10. Running'
  BY <1>1, <1>2, <1>3, <1>4, <1>5, <1>6 DEF Running
<1>11. TimersShort' /\ PopsEnd'
  BY <1>1, <1>2, <1>4, <1>7 DEF TimersShort, PopsEnd
<1>12. SomeoneMinds'
  <2>1. \A t \in Scheds, j \in Jobs : Minds(t, j) => Minds(t, j)'
    BY <1>1, <1>3, <1>4 DEF Minds
  <2>2. \A t \in Scheds : live'[t] /\ loop'[t].at # "off" => live[t] /\ loop[t].at # "off"
    BY <1>1, <1>3, <1>4
  <2>3. \A t \in Scheds : stop[t] = "push" => stop'[t] = "push"
    BY <1>1, <1>5
  <2> QED BY <1>1, <1>2, <1>7, <2>1, <2>2, <2>3 DEF SomeoneMinds, Delayed
<1> QED BY <1>8, <1>9, <1>10, <1>11, <1>12 DEF Sound

LEMMA StopDisconnectsKeeps ==
    ASSUME Sound, NEW s \in Scheds, StopDisconnects(s)
    PROVE  Sound'
<1>1. /\ stop[s] = "pause" /\ stop' = [stop EXCEPT ![s] = "done"]
      /\ loop' = (IF loop[s].at = "blocked" THEN [loop EXCEPT ![s] = Round(s)] ELSE loop)
      /\ blocked' = Without(s)
      /\ UNCHANGED <<now, due, tokens, guard, live, moving, asked, stranded>>
  BY DEF StopDisconnects
<1>2. SchedTypes /\ Listed /\ Running /\ TimersShort /\ PopsEnd /\ SomeoneMinds
  BY DEF Sound
<1>3. ~live[s]
  BY <1>1, <1>2 DEF Running
<1>4. /\ loop' \in [Scheds -> [at : LoopPlaces, wake : Nat]]
      /\ loop'[s] = IF loop[s].at = "blocked" THEN Round(s) ELSE loop[s]
      /\ \A t \in Scheds \ {s} : loop'[t] = loop[t]
      /\ Round(s).at = "ended"
  BY <1>1, <1>2, <1>3, RoundIs DEF SchedTypes
<1>5. /\ stop' \in [Scheds -> {"no", "push", "clear", "pause", "done"}]
      /\ stop'[s] = "done" /\ \A t \in Scheds \ {s} : stop'[t] = stop[t]
  BY <1>1, <1>2 DEF SchedTypes
<1>6. /\ blocked' \in Seq(Scheds) /\ IsInjective(blocked')
      /\ ToSet(blocked') = ToSet(blocked) \ {s}
  BY <1>1, <1>2, WithoutSound DEF SchedTypes, Listed
<1>7. Delayed' = Delayed
  BY <1>1 DEF Delayed
<1>8. SchedTypes'
  BY <1>1, <1>2, <1>4, <1>5, <1>6, <1>7 DEF SchedTypes
<1>9. Listed'
  BY <1>2, <1>4, <1>6 DEF Listed
<1>10. Running'
  BY <1>1, <1>2, <1>3, <1>4, <1>5 DEF Running
<1>11. TimersShort' /\ PopsEnd'
  BY <1>1, <1>2, <1>4, <1>7 DEF TimersShort, PopsEnd
<1>12. SomeoneMinds'
  <2>1. \A t \in Scheds, j \in Jobs : Minds(t, j) => Minds(t, j)'
    BY <1>1, <1>3, <1>4 DEF Minds
  <2>2. \A t \in Scheds : live'[t] /\ loop'[t].at # "off" => live[t] /\ loop[t].at # "off"
    BY <1>1, <1>3, <1>4
  <2>3. \A t \in Scheds : stop[t] = "push" => stop'[t] = "push"
    BY <1>1, <1>5
  <2> QED BY <1>1, <1>2, <1>7, <2>1, <2>2, <2>3 DEF SomeoneMinds, Delayed
<1> QED BY <1>8, <1>9, <1>10, <1>11, <1>12 DEF Sound

LEMMA DiesKeeps ==
    ASSUME Sound, NEW s \in Scheds, Dies(s)
    PROVE  Sound'
<1>1. /\ loop' = [loop EXCEPT ![s] = [at |-> "dead", wake |-> 0]]
      /\ guard' = [guard EXCEPT ![s] = "dead"]
      /\ live' = [live EXCEPT ![s] = FALSE] /\ stop' = [stop EXCEPT ![s] = "done"]
      /\ blocked' = Without(s) /\ stranded' = stranded \cup Delayed
      /\ UNCHANGED <<now, due, tokens, moving, asked>>
  BY DEF Dies
<1>2. SchedTypes /\ Listed /\ Running /\ TimersShort /\ PopsEnd
  BY DEF Sound
<1>3. /\ loop' \in [Scheds -> [at : LoopPlaces, wake : Nat]]
      /\ loop'[s].at = "dead" /\ \A t \in Scheds \ {s} : loop'[t] = loop[t]
  BY <1>1, <1>2 DEF SchedTypes, LoopPlaces
<1>4. /\ live' \in [Scheds -> BOOLEAN]
      /\ ~live'[s] /\ \A t \in Scheds \ {s} : live'[t] = live[t]
  BY <1>1, <1>2 DEF SchedTypes
<1>5. /\ stop' \in [Scheds -> {"no", "push", "clear", "pause", "done"}]
      /\ \A t \in Scheds \ {s} : stop'[t] = stop[t]
  BY <1>1, <1>2 DEF SchedTypes
<1>6. /\ guard' \in [Scheds -> {"off", "sweep", "asleep", "ended", "dead"}]
      /\ guard'[s] # "asleep" /\ \A t \in Scheds \ {s} : guard'[t] = guard[t]
  BY <1>1, <1>2 DEF SchedTypes
<1>7. /\ blocked' \in Seq(Scheds) /\ IsInjective(blocked')
      /\ ToSet(blocked') = ToSet(blocked) \ {s}
  BY <1>1, <1>2, WithoutSound DEF SchedTypes, Listed
<1>8. Delayed' = Delayed
  BY <1>1 DEF Delayed
<1>9. SchedTypes'
  <2>1. stranded' \subseteq Delayed'
    BY <1>1, <1>2, <1>8 DEF SchedTypes
  <2> QED BY <1>1, <1>2, <1>3, <1>4, <1>5, <1>6, <1>7, <2>1 DEF SchedTypes
<1>10. Listed'
  BY <1>2, <1>3, <1>7 DEF Listed
<1>11. Running'
  <2>1. ASSUME NEW t \in Scheds
        PROVE  /\ live'[t] => stop'[t] = "no" /\ loop'[t].at \notin {"ended", "dead"}
               /\ stop'[t] \in {"pause", "done"} => loop'[t].at # "timer" /\ guard'[t] # "asleep"
               /\ stop'[t] = "done" => loop'[t].at # "blocked"
    <3>1. CASE t = s
      BY <1>3, <1>4, <1>6, <3>1
    <3>2. CASE t # s
      BY <1>2, <1>3, <1>4, <1>5, <1>6, <3>2 DEF Running
    <3> QED BY <3>1, <3>2
  <2> QED BY <2>1 DEF Running
<1>12. TimersShort' /\ PopsEnd'
  BY <1>1, <1>2, <1>3, <1>8 DEF TimersShort, PopsEnd
<1>13. SomeoneMinds'
  BY <1>1, <1>8 DEF SomeoneMinds
<1> QED BY <1>9, <1>10, <1>11, <1>12, <1>13 DEF Sound

LEMMA TickKeeps ==
    ASSUME Sound, Tick
    PROVE  Sound'
<1>1. /\ now < MaxTime /\ now' = now + 1
      /\ UNCHANGED <<due, tokens, blocked, loop, guard, live, stop, moving, asked, stranded>>
  BY DEF Tick
<1>2. \A s \in Scheds :
          /\ \/ loop[s].at \in {"off", "ended", "dead"}
             \/ loop[s].at \in {"timer", "blocked"} /\ now < loop[s].wake
          /\ stop[s] \in {"no", "done"}
  BY DEF Tick
<1>3. SchedTypes /\ Listed /\ Running /\ TimersShort /\ PopsEnd /\ SomeoneMinds
  BY DEF Sound
<1>4. Delayed' = Delayed /\ now \in Nat
  BY <1>1, <1>3, SchedulersAssumption DEF Delayed, SchedTypes
<1>5. SchedTypes'
  BY <1>1, <1>3, <1>4, SchedulersAssumption DEF SchedTypes
<1>6. Listed' /\ Running'
  BY <1>1, <1>3 DEF Listed, Running
<1>7. TimersShort'
  BY <1>1, <1>3, <1>4 DEF TimersShort, SchedTypes
<1>8. PopsEnd'
  BY <1>1, <1>2 DEF PopsEnd
<1>9. SomeoneMinds'
  <2>1. ASSUME NEW j \in Delayed, NEW t \in Scheds, Minds(t, j) PROVE Minds(t, j)'
    <3>1. /\ live[t] /\ loop[t].wake \in Nat
          /\ \/ loop[t].at = "timer" /\ loop[t].wake <= due[j] + 2
             \/ loop[t].at = "blocked" /\ (loop[t].wake <= due[j] \/ loop[t].wake <= now)
      BY <1>2, <1>3, <2>1 DEF Minds, SchedTypes
    <3>2. now < loop[t].wake
      BY <1>2, <3>1
    <3> QED BY <1>1, <1>4, <3>1, <3>2 DEF Minds
  <2> QED BY <1>1, <1>3, <1>4, <2>1 DEF SomeoneMinds
<1> QED BY <1>5, <1>6, <1>7, <1>8, <1>9 DEF Sound

-----------------------------------------------------------------------------
(* The subscription: what Redis knows the client knows, over a connection  *)
(* that is up, and the client has ended exactly when close() is through.   *)

LinkSound ==
    /\ LinkTypeOK /\ ComesBack
    /\ subscribed => known /\ link = "up"
    /\ link = "ended" <=> closing = "done"

LEMMA LinkKeeps ==
    ASSUME LinkSound, LinkStep \/ LinkFault \/ CloseBegins \/ UNCHANGED linkVars
    PROVE  LinkSound'
<1> USE LinkAssumption DEF LinkSound, LinkTypeOK, ComesBack
<1>1. ASSUME NEW c \in Nat, Reconnect(c)
      PROVE  /\ pending' = c /\ attempts' \in 0..MaxAttempts /\ timers' \in Nat /\ gaveUp' \in BOOLEAN
             /\ timers' > 0 \/ gaveUp'
  <2>1. CASE attempts >= MaxAttempts
    BY <1>1, <2>1 DEF Reconnect
  <2>2. CASE ~(attempts >= MaxAttempts)
    BY <1>1, <2>2 DEF Reconnect
  <2> QED BY <2>1, <2>2
<1>2. CASE Subscribe
  <2>1. /\ timers \in Nat /\ pending \in Nat /\ timers > 0 /\ timers' = timers - 1
        /\ pending' = (IF link = "ended" THEN pending ELSE pending + 1)
        /\ UNCHANGED <<link, subscribed, known, attempts, closing, gaveUp>>
    BY <1>2 DEF Subscribe
  <2>2. timers' \in Nat /\ pending' \in Nat /\ (link # "ended" => pending' > 0)
    BY <2>1
  <2> QED BY <2>1, <2>2
<1>3. CASE Answered
  <2>1. /\ link = "up" /\ subscribed' = TRUE /\ known' = TRUE /\ gaveUp' = FALSE
        /\ UNCHANGED <<link, timers, closing>>
    BY <1>3 DEF Answered
  <2>2. pending' \in Nat /\ attempts' \in 0..MaxAttempts
    BY <1>3 DEF Answered
  <2> QED BY <2>1, <2>2
<1>4. ASSUME NEW w, Refused(w) PROVE LinkSound'
  <2>1. pending - 1 \in Nat /\ Reconnect(pending - 1)
    BY <1>4 DEF Refused
  <2> QED BY <1>1, <1>4, <2>1 DEF Refused
<1>5. CASE Connects
  BY <1>5 DEF Connects
<1>6. CASE Unsubscribed
  BY <1>6 DEF Unsubscribed
<1>7. CASE Disconnected
  <2>1. Reconnect(pending)
    BY <1>7 DEF Disconnected
  <2> QED BY <1>1, <1>7, <2>1 DEF Disconnected
<1>8. CASE Drops
  BY <1>8 DEF Drops
<1>9. CASE ConnectFails
  <2>1. Reconnect(pending)
    BY <1>9 DEF ConnectFails
  <2> QED BY <1>1, <1>9, <2>1 DEF ConnectFails
<1>10. CASE CloseBegins
  BY <1>10 DEF CloseBegins
<1>11. CASE UNCHANGED linkVars
  BY <1>11 DEF linkVars
<1> QED BY <1>2, <1>3, <1>4, <1>5, <1>6, <1>7, <1>8, <1>9, <1>10, <1>11 DEF LinkStep, LinkFault

-----------------------------------------------------------------------------
(* closeAll(): a stage begins when the one before it is over.              *)

Closing ==
    /\ app \in Apps /\ faults \in 0..MaxFaults
    /\ phase \in {"no", "workers", "schedulers", "events", "done"}
    /\ phase \in {"events", "done"} => \A s \in app.scheds : Stopped(s)
    /\ phase = "done" /\ app.events => closing = "done"

Inv == Sound /\ LinkSound /\ Closing

LEMMA InitSound == Init => Inv
<1> SUFFICES ASSUME Init PROVE Inv
  OBVIOUS
<1> USE DEF Init, SchedInit, LinkInit
<1>1. Delayed = {}
  BY DEF Delayed
<1>2. SchedTypes
  BY <1>1, SchedulersAssumption DEF SchedTypes, LoopPlaces
<1>3. ToSet(blocked) = {} /\ IsInjective(blocked)
  BY DEF ToSet, IsInjective
<1>4. Listed /\ Running /\ TimersShort /\ PopsEnd /\ SomeoneMinds
  BY <1>1, <1>3 DEF Listed, Running, TimersShort, PopsEnd, SomeoneMinds
<1>5. LinkSound
  <2>1. /\ subscribed = FALSE /\ known = FALSE /\ gaveUp = FALSE /\ closing = "no"
        /\ link \in {"none", "down"}
    OBVIOUS
  <2>2. attempts \in 0..MaxAttempts /\ timers \in Nat /\ pending \in Nat
    BY LinkAssumption
  <2>3. link = "down" => pending > 0
    OBVIOUS
  <2> QED BY <2>1, <2>2, <2>3 DEF LinkSound, LinkTypeOK, ComesBack
<1>6. Closing
  BY LifecycleAssumption DEF Closing
<1> QED BY <1>2, <1>4, <1>5, <1>6 DEF Inv, Sound

LEMMA SchedStepKeeps ==
    ASSUME Sound, NEW s \in Scheds, SchedStep(s)
    PROVE  Sound' /\ \A t \in Scheds : stop[t] = "done" => stop'[t] = "done"
<1>1. Sound'
  BY StartKeeps, PromoteKeeps, LookKeeps, BlockKeeps, WakeKeeps, WatchKeeps,
     StopPushesKeeps, StopClearsKeeps, StopDisconnectsKeeps DEF SchedStep
<1>2. \/ stop' = stop
      \/ stop[s] # "done" /\ \E v : stop' = [stop EXCEPT ![s] = v]
  BY DEF SchedStep, Start, Promote, Look, Block, Wake, Watch, StopPushes, StopClears,
         StopDisconnects
<1>3. \A t \in Scheds : stop[t] = "done" => stop'[t] = "done"
  BY <1>2 DEF Sound, SchedTypes
<1> QED BY <1>1, <1>3

LEMMA StutterSound ==
    ASSUME Sound, UNCHANGED schedVars
    PROVE  Sound'
<1>1. UNCHANGED <<now, due, tokens, blocked, loop, guard, live, stop, moving, asked, stranded>>
  BY DEF schedVars
<1>2. Delayed' = Delayed
  BY <1>1 DEF Delayed
<1>3. SchedTypes' /\ Listed' /\ Running' /\ TimersShort' /\ PopsEnd'
  BY <1>1, <1>2 DEF Sound, SchedTypes, Listed, Running, TimersShort, PopsEnd
<1>4. \A t \in Scheds, j \in Jobs : Minds(t, j)' <=> Minds(t, j)
  BY <1>1 DEF Minds
<1>5. SomeoneMinds'
  BY <1>1, <1>2, <1>4 DEF Sound, SomeoneMinds, Delayed
<1> QED BY <1>3, <1>5 DEF Sound

LEMMA StepSound == Inv /\ [Next]_vars => Inv'
<1> SUFFICES ASSUME Inv, [Next]_vars PROVE Inv'
  OBVIOUS
<1>1. Sound /\ LinkSound /\ Closing /\ app.scheds \subseteq Scheds
  BY LifecycleAssumption DEF Inv, Closing
<1>2. ASSUME UNCHANGED schedVars PROVE Sound' /\ stop' = stop
  BY <1>1, <1>2, StutterSound DEF schedVars
<1>3. ASSUME UNCHANGED linkVars PROVE LinkSound' /\ closing' = closing
  BY <1>1, <1>3, LinkKeeps DEF linkVars
<1>4. ASSUME UNCHANGED <<linkVars, app, phase>>, faults' \in 0..MaxFaults, Sound',
             \A s \in Scheds : stop[s] = "done" => stop'[s] = "done"
      PROVE  Inv'
  <2>1. Closing'
    BY <1>1, <1>3, <1>4 DEF Closing, Stopped
  <2> QED BY <1>3, <1>4, <2>1 DEF Inv
<1>5. faults \in 0..MaxFaults
  BY <1>1 DEF Closing
<1>6. Faulty => faults' \in 0..MaxFaults /\ UNCHANGED <<app, phase>>
  BY <1>5, LifecycleAssumption DEF Faulty
<1>7. CASE CloseBegun
  <2>1. Closing'
    BY <1>1, <1>7 DEF Closing, CloseBegun
  <2> QED BY <1>2, <1>3, <1>7, <2>1 DEF CloseBegun, Inv
<1>8. CASE CloseSchedulers
  <2> DEFINE S == {s \in app.scheds : stop[s] = "no"}
  <2>1. S \in SUBSET Scheds /\ (\A s \in S : stop[s] = "no") /\ StopBegins(S)
    BY <1>1, <1>8 DEF CloseSchedulers
  <2>2. Sound'
    <3> HIDE DEF S
    <3> QED BY <1>1, <2>1, StopBeginsKeeps
  <2>3. Closing'
    BY <1>1, <1>8 DEF Closing, CloseSchedulers
  <2> QED BY <1>3, <1>8, <2>2, <2>3 DEF CloseSchedulers, Inv
<1>9. CASE CloseEvents
  <2>1. LinkSound'
    BY <1>1, <1>9, LinkKeeps DEF CloseEvents
  <2>2. Closing'
    BY <1>1, <1>2, <1>9 DEF Closing, CloseEvents, Stopped
  <2> QED BY <1>2, <1>9, <2>1, <2>2 DEF CloseEvents, Inv
<1>10. CASE CloseEnds
  <2>1. Closing'
    BY <1>1, <1>2, <1>3, <1>10 DEF Closing, CloseEnds, Stopped
  <2> QED BY <1>2, <1>3, <1>10, <2>1 DEF CloseEnds, Inv
<1>11. ASSUME NEW s \in app.scheds, SchedStep(s), UNCHANGED <<linkVars, app, phase, faults>>
       PROVE  Inv'
  <2>1. Sound' /\ \A t \in Scheds : stop[t] = "done" => stop'[t] = "done"
    BY <1>1, <1>11, SchedStepKeeps
  <2> QED BY <1>4, <1>5, <1>11, <2>1
<1>12. ASSUME NEW s \in app.scheds, stop[s] = "no", StopBegins({s}),
              UNCHANGED <<linkVars, app, phase, faults>>
       PROVE  Inv'
  <2>1. Sound'
    BY <1>1, <1>12, StopBeginsKeeps
  <2>2. \A t \in Scheds : stop[t] = "done" => stop'[t] = "done"
    BY <1>12 DEF StopBegins
  <2> QED BY <1>4, <1>5, <1>12, <2>1, <2>2
<1>13. CASE CallerStep /\ UNCHANGED <<linkVars, app, phase, faults>>
  <2>1. Sound'
    BY <1>1, <1>13, DelayKeeps, MoveKeeps, MoveToldKeeps, MoverDiesKeeps DEF CallerStep
  <2>2. stop' = stop
    BY <1>13 DEF CallerStep, Delay, Move, MoveTold, MoverDies
  <2> QED BY <1>4, <1>5, <1>13, <2>1, <2>2
<1>14. CASE Tick /\ UNCHANGED <<linkVars, app, phase, faults>>
  <2>1. Sound' /\ stop' = stop
    BY <1>1, <1>14, TickKeeps DEF Tick
  <2> QED BY <1>4, <1>5, <1>14, <2>1
<1>15. ASSUME NEW s \in app.scheds, Dies(s), Faulty, UNCHANGED linkVars
       PROVE  Inv'
  <2>1. Sound'
    BY <1>1, <1>15, DiesKeeps
  <2>2. \A t \in Scheds : stop[t] = "done" => stop'[t] = "done"
    <3>1. stop' = [stop EXCEPT ![s] = "done"]
      BY <1>15 DEF Dies
    <3> QED BY <1>1, <3>1 DEF Sound, SchedTypes
  <2> QED BY <1>4, <1>6, <1>15, <2>1, <2>2
<1>16. ASSUME LinkStep \/ LinkFault, UNCHANGED <<schedVars, app, phase>>, faults' \in 0..MaxFaults
       PROVE  Inv'
  <2>1. LinkSound'
    BY <1>1, <1>16, LinkKeeps
  <2>2. closing = "done" => closing' = "done"
    BY <1>16 DEF LinkStep, LinkFault, Subscribe, Answered, Refused, Connects, Unsubscribed,
                 Disconnected, Drops, ConnectFails
  <2>3. Closing'
    BY <1>1, <1>2, <1>16, <2>2 DEF Closing, Stopped
  <2> QED BY <1>2, <1>16, <2>1, <2>3 DEF Inv
<1>17. CASE UNCHANGED vars
  <2>1. UNCHANGED schedVars /\ UNCHANGED linkVars /\ UNCHANGED <<app, phase, faults>>
    BY <1>17 DEF vars
  <2>2. Sound' /\ stop' = stop
    BY <1>2, <2>1
  <2> QED BY <1>4, <1>5, <2>1, <2>2
<1> QED BY <1>5, <1>6, <1>7, <1>8, <1>9, <1>10, <1>11, <1>12, <1>13, <1>14, <1>15, <1>16, <1>17 DEF Next

LEMMA AlwaysSound == Spec => []Inv
BY InitSound, StepSound, PTL DEF Spec

-----------------------------------------------------------------------------
(* Some running scheduler looks again before a delayed job's time is past, *)
(* or a second later, whoever took the token that came with the job, but   *)
(* for the stranded jobs (scheduler.js:107).                               *)
THEOREM DelayedAreMinded == Spec => []SomeoneMinds
<1>1. Inv => SomeoneMinds
  BY DEF Inv, Sound
<1> QED BY <1>1, AlwaysSound, PTL

(* Pops end, stopped loops are awake, the subscription comes back until it *)
(* is closed, and not afterwards (scheduler.js:115, queue-events.js:42).   *)
THEOREM LoopsKept == Spec => []LoopsSound
<1>1. Inv => LoopsSound
  <2> SUFFICES ASSUME Inv PROVE LoopsSound
    OBVIOUS
  <2>1. SchedTypes /\ Listed /\ Running /\ PopsEnd /\ LinkSound /\ Closing
    BY DEF Inv, Sound
  <2>2. SchedTypeOK
    <3>1. ToSet(blocked) \subseteq Scheds
      BY <2>1, ToSetIs DEF SchedTypes
    <3>2. \A s \in Scheds : loop[s].at \in LoopPlaces
      BY <2>1 DEF SchedTypes
    <3>3. stranded \subseteq Jobs
      BY <2>1 DEF SchedTypes, Delayed
    <3> QED BY <2>1, <3>1, <3>2, <3>3 DEF SchedTypes, SchedTypeOK, LoopPlaces, Listed
  <2>3. TypeOK
    BY <2>1, <2>2 DEF TypeOK, LinkSound, Closing
  <2>4. StoppedIsAwake
    BY <2>1 DEF StoppedIsAwake, Running
  <2>5. ComesBack /\ ClosedIsSilent
    BY <2>1 DEF LinkSound, ClosedIsSilent
  <2> QED BY <2>1, <2>3, <2>4, <2>5 DEF LoopsSound
<1> QED BY <1>1, AlwaysSound, PTL

(* When closeAll() has returned no loop sleeps or waits in Redis, and the  *)
(* subscription is gone (lifecycle.js:20).                                 *)
THEOREM NothingOpen == Spec => []AllClosed
<1>1. Inv => AllClosed
  <2> SUFFICES ASSUME Inv, phase = "done" PROVE AllClosed
    BY DEF AllClosed
  <2>1. Running /\ LinkSound /\ Closing /\ app.scheds \subseteq Scheds
    BY LifecycleAssumption DEF Inv, Sound, Closing
  <2>2. ASSUME NEW s \in app.scheds
        PROVE  /\ ~live[s] /\ Stopped(s)
               /\ loop[s].at \notin {"timer", "blocked"} /\ guard[s] # "asleep"
    BY <2>1 DEF Closing, Stopped, Running
  <2>3. app.events => ~subscribed /\ link = "ended"
    BY <2>1 DEF Closing, LinkSound
  <2> QED BY <2>2, <2>3 DEF AllClosed
<1> QED BY <1>1, AlwaysSound, PTL

-----------------------------------------------------------------------------
(***************************************************************************)
(* FlowUpkeep                                                              *)
(***************************************************************************)
Added == created \cup sent
Live == {"kids", "adding", "undo"}
WalkRec == [at : {"idle", "walk", "names", "purge"}, from : FlowJobs,
            todo : SUBSET FlowJobs, found : SUBSET FlowJobs, names : SUBSET FlowJobs]

FlowTypes ==
    /\ rec \subseteq FlowJobs /\ hand \subseteq seized /\ seized \subseteq FlowJobs
    /\ place \in [FlowJobs -> Places] /\ created \subseteq Nodes /\ sent \subseteq Others
    /\ kids \subseteq FlowJobs \X FlowJobs /\ pars \subseteq FlowJobs \X FlowJobs
    /\ count \in [FlowJobs -> Int] /\ \A j \in FlowJobs \ counted : count[j] = 0
    /\ counted \subseteq FlowJobs /\ named \subseteq FlowJobs
    /\ bereft \subseteq FlowJobs /\ listed \subseteq FlowJobs
    /\ missed \subseteq FlowJobs /\ late \subseteq FlowJobs

\* A walk has seen what its sets say, and everything that waits for it.
WalkFits ==
    /\ walk \in WalkRec /\ walk.todo \cap walk.found = {}
    /\ walk.at = "idle" => walk.todo = {} /\ walk.found = {}
    /\ walk.at \in {"names", "purge"} => walk.todo = {}
    /\ \A d, c \in FlowJobs : <<d, c>> \in kids /\ d \in walk.found =>
           c \in walk.found \cup walk.todo \cup late
    /\ \A d, c \in FlowJobs : c \in walk.found => <<d, c>> \notin kids \cap pars

\* A job that was not added yet has left no trace.
Untouched ==
    \A j \in FlowJobs \ Added :
        /\ j \notin rec /\ j \notin hand /\ place[j] = "none"
        /\ j \notin walk.found \cup walk.todo
        /\ \A d \in FlowJobs : <<d, j>> \notin kids /\ <<d, j>> \notin pars

InHand == \A j \in hand : place[j] \in {"active", "none"}

Edges ==
    /\ \A d, c \in FlowJobs : <<d, c>> \in kids \cup pars => d \in Needs[c]
    /\ \A d, c \in FlowJobs : <<d, c>> \in kids \ pars => c \in listed
    /\ \A d, c \in FlowJobs : <<d, c>> \in kids => c \in rec \cup listed
    /\ \A d, c \in FlowJobs : <<d, c>> \in pars \ kids => c \in bereft \cup walk.found

\* A job that is blocked knows whom it waits for; they will complete, unless
\* it was bereft of one; a job that is not blocked waits for nobody.
Parked ==
    /\ \A d, c \in FlowJobs : <<d, c>> \in kids /\ place[c] = "blocked" => <<d, c>> \in pars
    /\ \A d, c \in FlowJobs : <<d, c>> \in kids /\ c \notin bereft =>
           ~Gone(d) \/ place[d] = "completed"
    /\ \A d, c \in FlowJobs : <<d, c>> \in kids /\ place[c] # "blocked" /\ c \notin listed =>
           place[d] = "completed"

\* The jobs that c was parked with and that have not completed.
Owing(c) == {d \in FlowJobs : <<d, c>> \in kids /\ place[d] # "completed"}
CountFits(c) ==
    place[c] = "blocked" =>
        /\ count[c] >= Cardinality(Owing(c))
        /\ c \notin bereft \cup walk.found => count[c] = Cardinality(Owing(c))

UpkeepInv ==
    /\ FlowTypes /\ WalkFits /\ Untouched /\ InHand /\ Edges /\ Parked
    /\ (\A c \in FlowJobs : CountFits(c)) /\ CountsOwned

\* A node is added once, and one at work has a parent that waits for it.
InTurn ==
    /\ pc \in [Nodes -> Pcs] /\ tasks \in 0..MaxTasks /\ failures \in 0..MaxFailures
    /\ \A n \in Nodes :
        /\ pc[n] \in {"todo", "adding"} => n \notin created
        /\ pc[n] = "kids" /\ n \notin FanOut => n \notin created
        /\ pc[n] \in {"rejected", "swallowed"} => n = Root
        /\ pc[n] \in Live => n = Root \/ \E p \in Above(n) : pc[p] = "kids"

FlowInv == UpkeepInv /\ InTurn /\ FailedFlowIsGone

-----------------------------------------------------------------------------
LEMMA OwingCounts ==
    ASSUME NEW S, S \subseteq FlowJobs
    PROVE  /\ IsFiniteSet(S) /\ Cardinality(S) \in Nat
           /\ \A T \in SUBSET S : IsFiniteSet(T) /\ Cardinality(T) \in Nat
                                  /\ Cardinality(T) <= Cardinality(S)
<1>1. IsFiniteSet(S) /\ Cardinality(S) \in Nat
    BY FlowAssumption, FS_Subset, FS_CardinalityType
<1>2. ASSUME NEW T \in SUBSET S
      PROVE  IsFiniteSet(T) /\ Cardinality(T) \in Nat /\ Cardinality(T) <= Cardinality(S)
    BY <1>1, <1>2, FS_Subset, FS_CardinalityType
<1> QED BY <1>1, <1>2

\* A step that parks no job and credits none.
LEMMA CountStays ==
    ASSUME FlowTypes, NEW c \in FlowJobs, CountFits(c),
           place'[c] = "blocked" => place[c] = "blocked" /\ count'[c] = count[c],
           Owing(c)' \subseteq Owing(c),
           c \notin bereft' \cup walk'.found =>
               c \notin bereft \cup walk.found /\ Owing(c)' = Owing(c)
    PROVE  CountFits(c)'
<1> SUFFICES ASSUME place'[c] = "blocked"
             PROVE  /\ count'[c] >= Cardinality(Owing(c)')
                    /\ c \notin bereft' \cup walk'.found => count'[c] = Cardinality(Owing(c)')
    BY DEF CountFits
<1>1. Owing(c) \subseteq FlowJobs
    BY DEF Owing
<1>2. Cardinality(Owing(c)) \in Nat /\ Cardinality(Owing(c)') \in Nat
      /\ Cardinality(Owing(c)') <= Cardinality(Owing(c))
    BY <1>1, OwingCounts
<1>3. /\ count[c] >= Cardinality(Owing(c))
      /\ c \notin bereft \cup walk.found => count[c] = Cardinality(Owing(c))
      /\ count[c] \in Int
    BY DEF CountFits, FlowTypes
<1> QED BY <1>2, <1>3

LEMMA UpkeepInvInit == FlowInit => FlowInv
<1> SUFFICES ASSUME FlowInit PROVE FlowInv
    OBVIOUS
<1> USE FlowAssumption DEF FlowInit
<1>1. Root \in FlowJobs /\ NoWalk \in WalkRec /\ NoWalk.todo = {} /\ NoWalk.found = {}
    BY DEF NoWalk, WalkRec, FlowJobs
<1>2. FlowTypes /\ WalkFits /\ Untouched /\ InHand /\ Edges
    BY <1>1 DEF FlowTypes, WalkFits, Untouched, InHand, Edges, Places, NoWalk
<1>3. Parked /\ (\A c \in FlowJobs : CountFits(c)) /\ CountsOwned
    BY DEF Parked, CountFits, CountsOwned
<1>4. InTurn /\ FailedFlowIsGone
    BY DEF InTurn, FailedFlowIsGone, Pcs, Live
<1> QED BY <1>2, <1>3, <1>4 DEF FlowInv, UpkeepInv

-----------------------------------------------------------------------------
\* What a step of processNode that adds and deletes nothing leaves.
LEMMA UpkeepRests ==
    ASSUME UpkeepInv, UNCHANGED <<jobVars, created, sent, walk, flowHistory>>
    PROVE  UpkeepInv'
<1> USE DEF jobVars, flowHistory
<1>1. FlowTypes' /\ WalkFits' /\ InHand' /\ Edges'
    BY DEF UpkeepInv, FlowTypes, WalkFits, InHand, Edges
<1>2. Untouched' /\ Parked' /\ CountsOwned'
    BY DEF UpkeepInv, Untouched, Added, Parked, Gone, CountsOwned
<1>3. ASSUME NEW c \in FlowJobs PROVE CountFits(c)'
  <2>1. Owing(c)' = Owing(c)
    BY DEF Owing
  <2> QED BY <2>1 DEF UpkeepInv, CountFits
<1> QED BY <1>1, <1>2, <1>3 DEF UpkeepInv

LEMMA NeedsAre == \A j \in FlowJobs : Needs[j] \subseteq FlowJobs
BY FlowAssumption DEF Needs, Deps, Above, FlowJobs

LEMMA QueueIs == \A j : Queue(j) \in {"queued", "ranked"}
BY DEF Queue

-----------------------------------------------------------------------------
LEMMA AddJobKeeps ==
    ASSUME UpkeepInv, NEW j \in FlowJobs, j \notin Added, NEW deps, deps = Needs[j],
           AddJob(j, deps), created' \subseteq Nodes, sent' \subseteq Others,
           Added' = Added \cup {j}, UNCHANGED <<hand, walk, seized, listed, missed>>
    PROVE  UpkeepInv'
<1> DEFINE awaited == Pending(j, deps)
<1>1. /\ FlowTypes /\ WalkFits /\ Untouched /\ InHand /\ Edges /\ Parked /\ CountsOwned
      /\ \A c \in FlowJobs : CountFits(c)
    BY DEF UpkeepInv
<1>2. /\ j \notin rec /\ j \notin hand /\ place[j] = "none" /\ j \notin walk.found \cup walk.todo
      /\ \A d \in FlowJobs : <<d, j>> \notin kids /\ <<d, j>> \notin pars
    BY <1>1 DEF Untouched
<1>3. deps \subseteq FlowJobs /\ awaited \subseteq deps
    BY NeedsAre DEF Pending
<1>4. /\ rec' = rec \cup {j} /\ kids' = kids \cup (deps \X {j}) /\ pars' = pars \cup (deps \X {j})
      /\ bereft' = IF \E d \in awaited : Gone(d) THEN bereft \cup {j} ELSE bereft
      /\ late' = IF deps \cap walk.found # {} THEN late \cup {j} ELSE late
    BY <1>2 DEF AddJob
<1>5. /\ place' = [place EXCEPT ![j] = IF awaited = {} THEN Queue(j) ELSE "blocked"]
      /\ awaited = {} => count' = count /\ counted' = counted /\ named' = named
      /\ awaited # {} => /\ count' = [count EXCEPT ![j] = Cardinality(awaited)]
                         /\ counted' = counted \cup {j} /\ named' = named \cup {j}
    BY <1>2 DEF AddJob
<1>6. Cardinality(awaited) \in Nat
    BY <1>3, OwingCounts
<1>7. /\ \A i \in FlowJobs : place'[i] = IF i = j THEN IF awaited = {} THEN Queue(j) ELSE "blocked"
                                         ELSE place[i]
      /\ \A d, c : <<d, c>> \in kids' <=> <<d, c>> \in kids \/ (d \in deps /\ c = j)
      /\ \A d, c : <<d, c>> \in pars' <=> <<d, c>> \in pars \/ (d \in deps /\ c = j)
    BY <1>1, <1>4, <1>5 DEF FlowTypes
<1> HIDE DEF awaited
<1>8. place'[j] \in {"queued", "ranked", "blocked"}
    BY <1>7, QueueIs
<1>9. FlowTypes'
  <2>1. place' \in [FlowJobs -> Places]
    BY <1>1, <1>5, QueueIs DEF FlowTypes, Places
  <2>2. count' \in [FlowJobs -> Int] /\ \A i \in FlowJobs \ counted' : count'[i] = 0
    BY <1>1, <1>5, <1>6 DEF FlowTypes
  <2>3. kids' \subseteq FlowJobs \X FlowJobs /\ pars' \subseteq FlowJobs \X FlowJobs
    BY <1>1, <1>3, <1>4 DEF FlowTypes
  <2> QED BY <2>1, <2>2, <2>3, <1>1, <1>4, <1>5 DEF FlowTypes
<1>10. WalkFits'
    BY <1>1, <1>2, <1>3, <1>4, <1>7 DEF WalkFits
<1>11. Untouched' /\ InHand'
    BY <1>1, <1>2, <1>4, <1>7 DEF Untouched, InHand, FlowTypes
<1>12. Edges'
    BY <1>1, <1>2, <1>3, <1>4, <1>7 DEF Edges
<1>13. \A d \in FlowJobs : Gone(d)' => Gone(d)
    BY <1>4, <1>7, <1>8, <1>2 DEF Gone
<1>14. Gone(j) /\ \A d \in deps : d \notin awaited => place[d] = "completed"
    BY <1>2 DEF Gone, awaited, Pending, Here
<1>15. Parked'
  <2>1. \A d, c \in FlowJobs : <<d, c>> \in kids' /\ place'[c] = "blocked" => <<d, c>> \in pars'
    BY <1>1, <1>7, <1>2 DEF Parked
  <2>2. ASSUME NEW d \in FlowJobs, NEW c \in FlowJobs, <<d, c>> \in kids', c \notin bereft'
        PROVE  ~Gone(d)' \/ place'[d] = "completed"
    <3>1. CASE c = j
      BY <3>1, <2>2, <1>4, <1>7, <1>2, <1>13, <1>14
    <3>2. CASE c # j
      BY <3>2, <2>2, <1>4, <1>7, <1>2, <1>1, <1>13 DEF Parked
    <3> QED BY <3>1, <3>2
  <2>3. ASSUME NEW d \in FlowJobs, NEW c \in FlowJobs, <<d, c>> \in kids',
               place'[c] # "blocked", c \notin listed'
        PROVE  place'[d] = "completed"
    <3>1. CASE c = j
      BY <3>1, <2>3, <1>7, <1>2, <1>14
    <3>2. CASE c # j
      BY <3>2, <2>3, <1>7, <1>2, <1>1 DEF Parked
    <3> QED BY <3>1, <3>2
  <2> QED BY <2>1, <2>2, <2>3 DEF Parked
<1>16. ASSUME NEW c \in FlowJobs PROVE CountFits(c)'
  <2>1. CASE c # j
    <3>1. Owing(c)' = Owing(c)
      BY <2>1, <1>2, <1>7, <1>8 DEF Owing
    <3>2. place'[c] = place[c] /\ count'[c] = count[c] /\ walk' = walk /\ (c \in bereft' <=> c \in bereft)
      BY <2>1, <1>1, <1>4, <1>5, <1>7 DEF FlowTypes
    <3> QED BY <3>1, <3>2, <1>1, CountStays
  <2>2. CASE c = j
    <3>1. Owing(j)' \subseteq awaited
      BY <1>2, <1>7, <1>14 DEF Owing
    <3>2. j \notin bereft' => Owing(j)' = awaited
      <4>1. HAVE j \notin bereft'
      <4>2. \A d \in awaited : ~Gone(d)
        BY <4>1, <1>4
      <4>3. \A d \in awaited : d # j /\ place[d] # "completed"
        BY <4>2, <1>14, <1>1 DEF Gone, InHand
      <4> QED BY <4>3, <3>1, <1>3, <1>7 DEF Owing
    <3>3. awaited # {} => count'[j] = Cardinality(awaited)
      BY <1>1, <1>5 DEF FlowTypes
    <3>4. awaited = {} => place'[j] # "blocked"
      BY <1>7, QueueIs
    <3>5. Cardinality(Owing(j)') \in Nat /\ Cardinality(Owing(j)') <= Cardinality(awaited)
      BY <3>1, <1>3, OwingCounts
    <3> QED BY <2>2, <3>2, <3>3, <3>4, <3>5, <1>6 DEF CountFits
  <2> QED BY <2>1, <2>2
<1>17. CountsOwned'
    BY <1>1, <1>2, <1>5, <1>7 DEF CountsOwned, FlowTypes
<1> QED BY <1>9, <1>10, <1>11, <1>12, <1>15, <1>16, <1>17 DEF UpkeepInv

-----------------------------------------------------------------------------
\* What is deleted is in no structure but the prioritized one.
LEMMA TakenOutIs ==
    ASSUME FlowTypes, NEW S \in SUBSET FlowJobs, place' = TakenOut(S)
    PROVE  /\ place' \in [FlowJobs -> Places]
           /\ \A j \in FlowJobs : place'[j] = IF j \in S /\ place[j] # "ranked" THEN "none" ELSE place[j]
BY DEF FlowTypes, TakenOut, Places

LEMMA ForgetTypes ==
    ASSUME FlowTypes, NEW S \in SUBSET FlowJobs, Forget(S)
    PROVE  /\ kids' \subseteq kids /\ pars' \subseteq pars
           /\ \A d, c \in FlowJobs : <<d, c>> \in kids' <=> <<d, c>> \in kids /\ d \notin S
           /\ \A d, c \in FlowJobs : <<d, c>> \in pars' <=> <<d, c>> \in pars /\ c \notin S
           /\ count' \in [FlowJobs -> Int] /\ \A j \in FlowJobs \ counted' : count'[j] = 0
           /\ \A j \in FlowJobs : count'[j] = IF j \in S THEN 0 ELSE count[j]
           /\ counted' = counted \ S /\ named' = named \ S
           /\ bereft \subseteq bereft' /\ bereft' \subseteq FlowJobs
           /\ \A d, c \in FlowJobs : <<d, c>> \in kids /\ d \in S /\ c \notin S => c \in bereft'
<1>1. /\ kids' = {p \in kids : p[1] \notin S} /\ pars' = {p \in pars : p[2] \notin S}
      /\ count' = [j \in FlowJobs |-> IF j \in S THEN 0 ELSE count[j]]
      /\ counted' = counted \ S /\ named' = named \ S
      /\ bereft' = bereft \cup {j \in FlowJobs \ S : \E d \in S : <<d, j>> \in kids}
    BY DEF Forget
<1>2. /\ count \in [FlowJobs -> Int] /\ \A j \in FlowJobs \ counted : count[j] = 0
      /\ bereft \subseteq FlowJobs
    BY DEF FlowTypes
<1>3. /\ \A d, c \in FlowJobs : <<d, c>> \in kids' <=> <<d, c>> \in kids /\ d \notin S
      /\ \A d, c \in FlowJobs : <<d, c>> \in pars' <=> <<d, c>> \in pars /\ c \notin S
    BY <1>1
<1>4. /\ \A j \in FlowJobs : count'[j] = IF j \in S THEN 0 ELSE count[j]
      /\ count' \in [FlowJobs -> Int]
    BY <1>1, <1>2
<1>5. \A j \in FlowJobs \ counted' : count'[j] = 0
    BY <1>1, <1>2, <1>4
<1>6. /\ kids' \subseteq kids /\ pars' \subseteq pars
      /\ bereft \subseteq bereft' /\ bereft' \subseteq FlowJobs
    BY <1>1, <1>2
<1>7. \A d, c \in FlowJobs : <<d, c>> \in kids /\ d \in S /\ c \notin S => c \in bereft'
    BY <1>1
<1> QED BY <1>1, <1>3, <1>4, <1>5, <1>6, <1>7

LEMMA CompensateKeeps ==
    ASSUME UpkeepInv, Compensate
    PROVE  UpkeepInv'
<1>1. /\ FlowTypes /\ WalkFits /\ Untouched /\ InHand /\ Edges /\ Parked /\ CountsOwned
      /\ \A c \in FlowJobs : CountFits(c)
    BY DEF UpkeepInv
<1>2. created \in SUBSET FlowJobs
    BY <1>1 DEF FlowTypes, FlowJobs
<1>3. Forget(created) /\ place' = TakenOut(created)
    BY DEF Compensate
<1>4. /\ rec' = rec \ created /\ created' = created /\ sent' = sent /\ hand' = hand
      /\ walk' = walk /\ late' = late /\ seized' = seized /\ missed' = missed
      /\ listed' = listed \cup {j \in created : \E d \in FlowJobs \ created : <<d, j>> \in kids}
    BY DEF Compensate
<1>5. /\ place' \in [FlowJobs -> Places]
      /\ \A j \in FlowJobs :
            place'[j] = IF j \in created /\ place[j] # "ranked" THEN "none" ELSE place[j]
    BY <1>1, <1>2, <1>3, TakenOutIs
<1>6. /\ kids' \subseteq kids /\ pars' \subseteq pars
      /\ \A d, c \in FlowJobs : <<d, c>> \in kids' <=> <<d, c>> \in kids /\ d \notin created
      /\ \A d, c \in FlowJobs : <<d, c>> \in pars' <=> <<d, c>> \in pars /\ c \notin created
      /\ count' \in [FlowJobs -> Int] /\ \A j \in FlowJobs \ counted' : count'[j] = 0
      /\ \A j \in FlowJobs : count'[j] = IF j \in created THEN 0 ELSE count[j]
      /\ counted' = counted \ created /\ named' = named \ created
      /\ bereft \subseteq bereft' /\ bereft' \subseteq FlowJobs
      /\ \A d, c \in FlowJobs : <<d, c>> \in kids /\ d \in created /\ c \notin created => c \in bereft'
    BY <1>1, <1>2, <1>3, ForgetTypes
<1>7. FlowTypes' /\ WalkFits'
    BY <1>1, <1>2, <1>4, <1>5, <1>6 DEF FlowTypes, WalkFits
<1>8. Untouched' /\ InHand'
    BY <1>1, <1>4, <1>5, <1>6 DEF Untouched, InHand, Added, FlowTypes
<1>9. \A d, c \in FlowJobs : <<d, c>> \in kids' /\ c \in created => c \in listed'
    BY <1>4, <1>6
<1>10. Edges'
    BY <1>1, <1>4, <1>6, <1>9 DEF Edges
<1>11. Parked'
    BY <1>1, <1>4, <1>5, <1>6, <1>9 DEF Parked, Gone
<1>12. ASSUME NEW c \in FlowJobs PROVE CountFits(c)'
  <2>1. Owing(c)' \subseteq Owing(c)
    BY <1>5, <1>6 DEF Owing
  <2>2. c \notin bereft' \cup walk'.found /\ c \notin created => Owing(c)' = Owing(c)
    BY <1>5, <1>6 DEF Owing
  <2>3. c \in created => place'[c] # "blocked"
    BY <1>5
  <2>4. CASE c \in created
    BY <2>3, <2>4 DEF CountFits
  <2>5. CASE c \notin created
    BY <2>1, <2>2, <2>5, <1>1, <1>4, <1>5, <1>6, CountStays
  <2> QED BY <2>4, <2>5
<1>13. CountsOwned'
    BY <1>1, <1>4, <1>5, <1>6 DEF CountsOwned, FlowTypes
<1> QED BY <1>7, <1>8, <1>10, <1>11, <1>12, <1>13 DEF UpkeepInv

-----------------------------------------------------------------------------
LEMMA RemoveJobKeeps ==
    ASSUME UpkeepInv, NEW j \in FlowJobs, RemoveJob(j)
    PROVE  UpkeepInv'
<1> USE DEF jobVars, flowHistory
<1>1. /\ FlowTypes /\ WalkFits /\ Untouched /\ InHand /\ Edges /\ Parked /\ CountsOwned
      /\ \A c \in FlowJobs : CountFits(c)
    BY DEF UpkeepInv
<1>2. /\ walk.at = "idle" /\ j \in rec /\ UNCHANGED <<jobVars, created, sent, flowHistory>>
      /\ walk' = [at |-> "walk", from |-> j, todo |-> {j}, found |-> {}, names |-> {}]
    BY DEF RemoveJob, NoWalk
<1>3. walk.todo = {} /\ walk.found = {} /\ walk' \in WalkRec
    BY <1>1, <1>2 DEF WalkFits, WalkRec
<1>4. FlowTypes' /\ WalkFits' /\ InHand' /\ Edges'
    BY <1>1, <1>2, <1>3 DEF FlowTypes, WalkFits, InHand, Edges
<1>5. Untouched' /\ Parked' /\ CountsOwned'
    BY <1>1, <1>2, <1>3 DEF Untouched, Added, Parked, Gone, CountsOwned
<1>6. ASSUME NEW c \in FlowJobs PROVE CountFits(c)'
  <2>1. Owing(c)' = Owing(c)
    BY <1>2 DEF Owing
  <2> QED BY <2>1, <1>1, <1>2, <1>3 DEF CountFits
<1> QED BY <1>4, <1>5, <1>6 DEF UpkeepInv

LEMMA WalkKeeps == ASSUME UpkeepInv, Walk PROVE UpkeepInv'
<1>1. /\ FlowTypes /\ WalkFits /\ Untouched /\ InHand /\ Edges /\ Parked /\ CountsOwned
      /\ \A c \in FlowJobs : CountFits(c)
    BY DEF UpkeepInv
<1>2. PICK id \in walk.todo :
        /\ kids' = {p \in kids : ~(p[2] = id /\ p \in pars)}
        /\ walk' = [walk EXCEPT !.todo = Left(id), !.found = walk.found \cup {id},
                                !.at = IF Left(id) = {} THEN "names" ELSE "walk"]
    BY DEF Walk
<1>3. /\ walk.at = "walk" /\ rec' = rec /\ place' = place /\ hand' = hand /\ pars' = pars
      /\ count' = count /\ counted' = counted /\ named' = named /\ created' = created
      /\ sent' = sent /\ bereft' = bereft /\ listed' = listed /\ missed' = missed
      /\ late' = late /\ seized' = seized
    BY DEF Walk, flowHistory
<1>4. /\ walk.todo \subseteq FlowJobs /\ walk.found \subseteq FlowJobs /\ walk \in WalkRec
      /\ id \notin walk.found
    BY <1>1 DEF WalkFits, WalkRec
<1>5. Left(id) \subseteq FlowJobs
    BY <1>4 DEF Left, Found
<1>6. /\ walk'.todo = Left(id) /\ walk'.found = walk.found \cup {id}
      /\ walk'.at = IF Left(id) = {} THEN "names" ELSE "walk"
      /\ walk' \in WalkRec
    BY <1>2, <1>4, <1>5 DEF WalkRec
<1>7. /\ kids' \subseteq kids
      /\ \A d, c \in FlowJobs : <<d, c>> \in kids' <=>
            <<d, c>> \in kids /\ (c = id => <<d, c>> \notin pars)
    BY <1>2
<1>8. FlowTypes' /\ InHand'
    BY <1>1, <1>3, <1>7 DEF FlowTypes, InHand
<1>9. WalkFits'
  <2>1. \A d, c \in FlowJobs : <<d, c>> \in kids' /\ d \in walk'.found =>
            c \in walk'.found \cup walk'.todo \cup late'
    BY <1>1, <1>3, <1>6, <1>7 DEF WalkFits, Left, Found
  <2>2. \A d, c \in FlowJobs : c \in walk'.found => <<d, c>> \notin kids' \cap pars'
    BY <1>1, <1>3, <1>6, <1>7 DEF WalkFits
  <2>3. walk'.todo \cap walk'.found = {}
    BY <1>6 DEF Left
  <2> QED BY <2>1, <2>2, <2>3, <1>6 DEF WalkFits
<1>10. Untouched'
  <2>1. \A c \in Found(id) : c \in Added
    BY <1>1, <1>4 DEF Found, Untouched
  <2> QED BY <2>1, <1>1, <1>3, <1>6, <1>7 DEF Untouched, Left, Added
<1>11. Edges' /\ Parked' /\ CountsOwned'
    BY <1>1, <1>3, <1>6, <1>7 DEF Edges, Parked, Gone, CountsOwned
<1>12. ASSUME NEW c \in FlowJobs PROVE CountFits(c)'
  <2>1. Owing(c)' \subseteq Owing(c) /\ (c # id => Owing(c)' = Owing(c))
    BY <1>3, <1>7 DEF Owing
  <2> QED BY <2>1, <1>1, <1>3, <1>6, CountStays
<1> QED BY <1>8, <1>9, <1>10, <1>11, <1>12 DEF UpkeepInv

LEMMA NamesKeeps == ASSUME UpkeepInv, Names PROVE UpkeepInv'
<1> USE DEF jobVars, flowHistory
<1>1. /\ FlowTypes /\ WalkFits /\ Untouched /\ InHand /\ Edges /\ Parked /\ CountsOwned
      /\ \A c \in FlowJobs : CountFits(c)
    BY DEF UpkeepInv
<1>2. /\ walk.at = "names" /\ UNCHANGED <<jobVars, created, sent, flowHistory>>
      /\ walk' = [walk EXCEPT !.at = "purge", !.names = walk.found \cap named]
    BY DEF Names
<1>3. /\ walk'.todo = walk.todo /\ walk'.found = walk.found /\ walk'.at = "purge"
      /\ walk' \in WalkRec
    BY <1>1, <1>2 DEF WalkFits, WalkRec
<1>4. FlowTypes' /\ WalkFits' /\ InHand' /\ Edges'
    BY <1>1, <1>2, <1>3 DEF FlowTypes, WalkFits, InHand, Edges
<1>5. Untouched' /\ Parked' /\ CountsOwned'
    BY <1>1, <1>2, <1>3 DEF Untouched, Added, Parked, Gone, CountsOwned
<1>6. ASSUME NEW c \in FlowJobs PROVE CountFits(c)'
  <2>1. Owing(c)' = Owing(c)
    BY <1>2 DEF Owing
  <2> QED BY <2>1, <1>1, <1>2, <1>3 DEF CountFits
<1> QED BY <1>4, <1>5, <1>6 DEF UpkeepInv

\* What the walk found and the last pipeline misses keeps its place, but waits
\* for nobody any more.
LEMMA PurgeKeeps == ASSUME UpkeepInv, Purge PROVE UpkeepInv'
<1>1. /\ FlowTypes /\ WalkFits /\ Untouched /\ InHand /\ Edges /\ Parked /\ CountsOwned
      /\ \A c \in FlowJobs : CountFits(c)
    BY DEF UpkeepInv
<1>2. walk.at = "purge" /\ walk.found \in SUBSET FlowJobs
    BY <1>1 DEF Purge, WalkFits, WalkRec
<1>3. PICK here \in SUBSET walk.found :
        /\ rec' = rec \ here /\ place' = TakenOut(here)
        /\ missed' = missed \cup (walk.found \ here)
    BY DEF Purge
<1>4. /\ Forget(walk.found) /\ walk' = NoWalk /\ hand' = hand /\ created' = created
      /\ sent' = sent /\ seized' = seized /\ listed' = listed /\ late' = late
    BY DEF Purge
<1>5. /\ place' \in [FlowJobs -> Places]
      /\ \A j \in FlowJobs :
            place'[j] = IF j \in here /\ place[j] # "ranked" THEN "none" ELSE place[j]
    BY <1>1, <1>2, <1>3, TakenOutIs
<1>6. /\ kids' \subseteq kids /\ pars' \subseteq pars
      /\ \A d, c \in FlowJobs : <<d, c>> \in kids' <=> <<d, c>> \in kids /\ d \notin walk.found
      /\ \A d, c \in FlowJobs : <<d, c>> \in pars' <=> <<d, c>> \in pars /\ c \notin walk.found
      /\ count' \in [FlowJobs -> Int] /\ \A j \in FlowJobs \ counted' : count'[j] = 0
      /\ \A j \in FlowJobs : count'[j] = IF j \in walk.found THEN 0 ELSE count[j]
      /\ counted' = counted \ walk.found /\ named' = named \ walk.found
      /\ bereft \subseteq bereft' /\ bereft' \subseteq FlowJobs
      /\ \A d, c \in FlowJobs :
            <<d, c>> \in kids /\ d \in walk.found /\ c \notin walk.found => c \in bereft'
    BY <1>1, <1>2, <1>4, ForgetTypes
<1>7. /\ walk' \in WalkRec /\ walk'.todo = {} /\ walk'.found = {}
      /\ walk'.at \notin {"names", "purge"}
    BY <1>4, FlowAssumption DEF NoWalk, WalkRec, FlowJobs
<1>8. FlowTypes' /\ WalkFits'
    BY <1>1, <1>2, <1>3, <1>4, <1>5, <1>6, <1>7 DEF FlowTypes, WalkFits
<1>9. Untouched' /\ InHand'
    BY <1>1, <1>3, <1>4, <1>5, <1>6, <1>7 DEF Untouched, InHand, Added, FlowTypes
<1>10. \A d, c \in FlowJobs : <<d, c>> \in kids /\ c \in walk.found =>
            <<d, c>> \notin pars /\ c \in listed /\ place[c] # "blocked"
    BY <1>1 DEF WalkFits, Edges, Parked
<1>11. Edges'
  <2>1. \A d, c \in FlowJobs : <<d, c>> \in kids' => c \in rec' \cup listed'
    BY <1>1, <1>3, <1>4, <1>6, <1>10 DEF Edges
  <2>2. \A d, c \in FlowJobs : <<d, c>> \in pars' \ kids' => c \in bereft' \cup walk'.found
    BY <1>1, <1>6 DEF Edges
  <2> QED BY <2>1, <2>2, <1>1, <1>4, <1>6, <1>10 DEF Edges
<1>12. Parked'
  <2>1. \A d \in FlowJobs : d \notin walk.found => place'[d] = place[d] /\ (Gone(d)' <=> Gone(d))
    BY <1>3, <1>4, <1>5 DEF Gone
  <2>2. \A c \in FlowJobs : place'[c] = "blocked" => place[c] = "blocked"
    BY <1>5
  <2>3. \A c \in FlowJobs : place'[c] # "blocked" => place[c] # "blocked" \/ c \in walk.found
    BY <1>5, <1>3
  <2>4. \A d, c \in FlowJobs : <<d, c>> \in kids' /\ place'[c] = "blocked" => <<d, c>> \in pars'
    BY <2>2, <1>1, <1>6, <1>10 DEF Parked
  <2>5. \A d, c \in FlowJobs : <<d, c>> \in kids' /\ c \notin bereft' =>
            ~Gone(d)' \/ place'[d] = "completed"
    BY <2>1, <1>1, <1>6 DEF Parked
  <2>6. \A d, c \in FlowJobs : <<d, c>> \in kids' /\ place'[c] # "blocked" /\ c \notin listed' =>
            place'[d] = "completed"
    BY <2>1, <2>3, <1>1, <1>4, <1>6, <1>10 DEF Parked
  <2> QED BY <2>4, <2>5, <2>6 DEF Parked
<1>13. ASSUME NEW c \in FlowJobs PROVE CountFits(c)'
  <2>1. CASE c \in walk.found
    <3>1. place'[c] = "blocked" => Owing(c)' = {}
      BY <2>1, <1>5, <1>6, <1>10 DEF Owing
    <3>2. count'[c] = 0 /\ Cardinality({}) = 0
      BY <2>1, <1>6, FS_EmptySet
    <3> QED BY <3>1, <3>2 DEF CountFits
  <2>2. CASE c \notin walk.found
    <3>1. Owing(c)' \subseteq Owing(c) /\ (c \notin bereft' => Owing(c)' = Owing(c))
      BY <2>2, <1>3, <1>5, <1>6 DEF Owing
    <3>2. place'[c] = place[c] /\ count'[c] = count[c]
      BY <2>2, <1>3, <1>5, <1>6
    <3> QED BY <3>1, <3>2, <2>2, <1>1, <1>6, <1>7, CountStays
  <2> QED BY <2>1, <2>2
<1>14. CountsOwned'
    BY <1>1, <1>3, <1>4, <1>5, <1>6 DEF CountsOwned, FlowTypes
<1> QED BY <1>8, <1>9, <1>11, <1>12, <1>13, <1>14 DEF UpkeepInv

-----------------------------------------------------------------------------
LEMMA PickUpKeeps == ASSUME UpkeepInv, NEW j \in FlowJobs, PickUp(j) PROVE UpkeepInv'
<1>1. /\ FlowTypes /\ WalkFits /\ Untouched /\ InHand /\ Edges /\ Parked /\ CountsOwned
      /\ \A c \in FlowJobs : CountFits(c)
    BY DEF UpkeepInv
<1>2. /\ place[j] \in {"queued", "ranked", "delayed"}
      /\ place' = [place EXCEPT ![j] = IF j \in rec THEN "active" ELSE "none"]
      /\ hand' = IF j \in rec THEN hand \cup {j} ELSE hand
      /\ seized' = IF j \in rec THEN seized \cup {j} ELSE seized
      /\ UNCHANGED <<rec, kids, pars, count, counted, named, created, sent, walk>>
      /\ UNCHANGED <<bereft, listed, missed, late>>
    BY DEF PickUp
<1>3. \A i \in FlowJobs : place'[i] = IF i = j THEN IF j \in rec THEN "active" ELSE "none" ELSE place[i]
    BY <1>1, <1>2 DEF FlowTypes
<1>4. FlowTypes' /\ WalkFits'
    BY <1>1, <1>2 DEF FlowTypes, WalkFits, Places
<1>5. Untouched' /\ InHand' /\ Edges' /\ CountsOwned'
    BY <1>1, <1>2, <1>3 DEF Untouched, Added, InHand, Edges, CountsOwned, FlowTypes
<1>6. \A d \in FlowJobs : Gone(d)' => Gone(d)
    BY <1>2, <1>3 DEF Gone
<1>7. Parked'
    BY <1>1, <1>2, <1>3, <1>6 DEF Parked
<1>8. ASSUME NEW c \in FlowJobs PROVE CountFits(c)'
  <2>1. Owing(c)' = Owing(c)
    BY <1>2, <1>3 DEF Owing
  <2> QED BY <2>1, <1>1, <1>2, <1>3, CountStays
<1> QED BY <1>4, <1>5, <1>7, <1>8 DEF UpkeepInv

LEMMA SendBackKeeps == ASSUME UpkeepInv, NEW j \in FlowJobs, SendBack(j) PROVE UpkeepInv'
<1>1. /\ FlowTypes /\ WalkFits /\ Untouched /\ InHand /\ Edges /\ Parked /\ CountsOwned
      /\ \A c \in FlowJobs : CountFits(c)
    BY DEF UpkeepInv
<1>2. /\ j \in hand /\ hand' = hand \ {j} /\ rec' = rec \cup {j}
      /\ place' = [place EXCEPT ![j] = "delayed"]
      /\ UNCHANGED <<kids, pars, count, counted, named, created, sent, walk>>
      /\ UNCHANGED <<seized, bereft, listed, missed, late>>
    BY DEF SendBack, flowHistory
<1>3. /\ \A i \in FlowJobs : place'[i] = IF i = j THEN "delayed" ELSE place[i]
      /\ place[j] \in {"active", "none"}
    BY <1>1, <1>2 DEF FlowTypes, InHand
<1>4. FlowTypes' /\ WalkFits'
    BY <1>1, <1>2 DEF FlowTypes, WalkFits, Places
<1>5. Untouched' /\ InHand' /\ Edges' /\ CountsOwned'
    BY <1>1, <1>2, <1>3 DEF Untouched, Added, InHand, Edges, CountsOwned, FlowTypes
<1>6. \A d \in FlowJobs : Gone(d)' => Gone(d)
    BY <1>2, <1>3 DEF Gone
<1>7. Parked'
    BY <1>1, <1>2, <1>3, <1>6 DEF Parked
<1>8. ASSUME NEW c \in FlowJobs PROVE CountFits(c)'
  <2>1. Owing(c)' = Owing(c)
    BY <1>2, <1>3 DEF Owing
  <2> QED BY <2>1, <1>1, <1>2, <1>3, CountStays
<1> QED BY <1>4, <1>5, <1>7, <1>8 DEF UpkeepInv

LEMMA CompleteKeeps == ASSUME UpkeepInv, NEW j \in FlowJobs, Complete(j) PROVE UpkeepInv'
<1> DEFINE freed == {c \in FlowJobs : <<j, c>> \in kids}
           open == {c \in freed : count[c] <= 1 /\ c \in named}
<1>1. /\ FlowTypes /\ WalkFits /\ Untouched /\ InHand /\ Edges /\ Parked /\ CountsOwned
      /\ \A c \in FlowJobs : CountFits(c)
    BY DEF UpkeepInv
<1>2. /\ j \in hand /\ hand' = hand \ {j}
      /\ kids' = kids \ ({j} \X freed) /\ pars' = pars \ ({j} \X freed)
      /\ count' = [c \in FlowJobs |-> IF c \in open THEN 0
                                      ELSE IF c \in freed THEN count[c] - 1 ELSE count[c]]
      /\ counted' = (counted \cup freed) \ open /\ named' = named \ open
      /\ place' = [c \in FlowJobs |-> IF c = j THEN "completed"
                                      ELSE IF c \in open /\ place[c] = "blocked"
                                      THEN Queue(c) ELSE place[c]]
      /\ UNCHANGED <<rec, created, sent, walk, seized, bereft, listed, missed, late>>
    BY DEF Complete, Untracked, flowHistory
<1>3. /\ open \subseteq freed /\ freed \subseteq FlowJobs
      /\ \A c \in FlowJobs : c \in freed <=> <<j, c>> \in kids
      /\ \A c \in open : count[c] <= 1
    OBVIOUS
<1> HIDE DEF freed, open
<1>4. /\ \A c \in FlowJobs : place'[c] = IF c = j THEN "completed"
                                         ELSE IF c \in open /\ place[c] = "blocked"
                                         THEN Queue(c) ELSE place[c]
      /\ \A c \in FlowJobs : count'[c] = IF c \in open THEN 0
                                         ELSE IF c \in freed THEN count[c] - 1 ELSE count[c]
      /\ \A d, c \in FlowJobs : <<d, c>> \in kids' <=> <<d, c>> \in kids /\ d # j
      /\ \A d, c \in FlowJobs : <<d, c>> \in pars' <=> <<d, c>> \in pars /\ ~(d = j /\ c \in freed)
      /\ kids' \subseteq kids /\ pars' \subseteq pars
      /\ place[j] \in {"active", "none"} /\ j \notin hand'
    BY <1>1, <1>2, <1>3 DEF InHand
<1>5. \A c \in FlowJobs : Queue(c) \in {"queued", "ranked"}
    BY QueueIs
<1>6. FlowTypes'
  <2>1. place' \in [FlowJobs -> Places]
    BY <1>1, <1>2, <1>5 DEF FlowTypes, Places
  <2>2. count' \in [FlowJobs -> Int]
    BY <1>1, <1>2 DEF FlowTypes
  <2>3. \A c \in FlowJobs \ counted' : count'[c] = 0
    BY <1>1, <1>2, <1>3, <1>4 DEF FlowTypes
  <2> QED BY <2>1, <2>2, <2>3, <1>1, <1>2, <1>3 DEF FlowTypes
<1>7. WalkFits'
    BY <1>1, <1>2, <1>4 DEF WalkFits
<1>8. Untouched' /\ InHand'
  <2>1. \A c \in FlowJobs : c \notin Added => c \notin freed /\ c # j
    BY <1>1, <1>2, <1>3 DEF Untouched
  <2>2. \A c \in hand' : c # j /\ place'[c] = place[c]
    BY <1>1, <1>2, <1>4 DEF InHand, FlowTypes
  <2> QED BY <2>1, <2>2, <1>1, <1>2, <1>3, <1>4 DEF Untouched, Added, InHand
<1>9. Edges'
    BY <1>1, <1>2, <1>3, <1>4 DEF Edges
<1>10. \A c \in freed : place[c] = "blocked" \/ c \in listed
    BY <1>1, <1>3, <1>4 DEF Parked
<1>11. ASSUME NEW c \in open, place[c] = "blocked"
       PROVE  Owing(c) = {j}
  <2>1. c \in FlowJobs /\ j \in Owing(c) /\ Owing(c) \subseteq FlowJobs
    BY <1>3, <1>4, <1>11 DEF Owing
  <2>2. Cardinality(Owing(c)) <= 1 /\ IsFiniteSet(Owing(c)) /\ Cardinality(Owing(c)) \in Nat
    BY <2>1, <1>1, <1>3, <1>11, OwingCounts DEF CountFits, FlowTypes
  <2>3. Cardinality(Owing(c) \ {j}) = Cardinality(Owing(c)) - 1 /\ IsFiniteSet(Owing(c) \ {j})
    BY <2>1, <2>2, FS_RemoveElement
  <2>4. Cardinality(Owing(c) \ {j}) = 0
    BY <2>1, <2>2, <2>3, FS_CardinalityType
  <2> QED BY <2>1, <2>3, <2>4, FS_EmptySet
<1>12. Parked'
  <2>1. \A d, c \in FlowJobs : <<d, c>> \in kids' /\ place'[c] = "blocked" => <<d, c>> \in pars'
    BY <1>1, <1>4, <1>5 DEF Parked
  <2>2. ASSUME NEW d \in FlowJobs, NEW c \in FlowJobs, <<d, c>> \in kids', c \notin bereft'
        PROVE  ~Gone(d)' \/ place'[d] = "completed"
    <3>1. d # j /\ (~Gone(d) \/ place[d] = "completed")
      BY <2>2, <1>1, <1>2, <1>4 DEF Parked
    <3>2. place[d] = "completed" => place'[d] = "completed"
      BY <3>1, <1>4
    <3>3. ~Gone(d) => ~Gone(d)'
      BY <3>1, <1>2, <1>4, <1>5 DEF Gone
    <3> QED BY <3>1, <3>2, <3>3
  <2>3. ASSUME NEW d \in FlowJobs, NEW c \in FlowJobs, <<d, c>> \in kids',
               place'[c] # "blocked", c \notin listed'
        PROVE  place'[d] = "completed"
    <3>1. <<d, c>> \in kids /\ d # j /\ c \notin listed
      BY <2>3, <1>2, <1>4
    <3>2. CASE place[c] # "blocked"
      <4>1. place[d] = "completed"
        BY <3>1, <3>2, <1>1 DEF Parked
      <4> QED BY <4>1, <3>1, <1>4
    <3>3. CASE place[c] = "blocked"
      <4>1. c \in open
        BY <3>3, <2>3, <1>4
      <4>2. d \notin Owing(c)
        BY <4>1, <3>1, <3>3, <1>11
      <4>3. place[d] = "completed"
        BY <4>2, <3>1 DEF Owing
      <4> QED BY <4>3, <3>1, <1>4
    <3> QED BY <3>2, <3>3
  <2> QED BY <2>1, <2>2, <2>3 DEF Parked
<1>13. ASSUME NEW c \in FlowJobs PROVE CountFits(c)'
  <2>1. Owing(c)' = Owing(c) \ {j}
    BY <1>4, <1>5 DEF Owing
  <2>2. CASE c \in open \/ c = j
    <3>1. place'[c] # "blocked"
      BY <2>2, <1>4, <1>5
    <3> QED BY <3>1 DEF CountFits
  <2>3. CASE c \notin freed /\ c # j
    <3>1. Owing(c)' = Owing(c)
      BY <2>1, <2>3, <1>3 DEF Owing
    <3> QED BY <3>1, <2>3, <1>1, <1>2, <1>3, <1>4, CountStays
  <2>4. CASE c \in freed /\ c \notin open /\ c # j
    <3>1. j \in Owing(c) /\ Owing(c) \subseteq FlowJobs
      BY <2>4, <1>3, <1>4 DEF Owing
    <3>2. IsFiniteSet(Owing(c)) /\ Cardinality(Owing(c)) \in Nat
      BY <3>1, OwingCounts
    <3>3. Cardinality(Owing(c)') = Cardinality(Owing(c)) - 1
      BY <2>1, <3>1, <3>2, FS_RemoveElement
    <3>4. place'[c] = place[c] /\ count'[c] = count[c] - 1 /\ count[c] \in Int
      BY <2>4, <1>1, <1>4 DEF FlowTypes
    <3> QED BY <3>2, <3>3, <3>4, <1>1, <1>2 DEF CountFits
  <2> QED BY <2>2, <2>3, <2>4
<1>14. CountsOwned'
  <2> SUFFICES ASSUME NEW c \in counted' PROVE place'[c] = "blocked" \/ c \in listed
    BY <1>2 DEF CountsOwned
  <2>1. c \in FlowJobs /\ c \notin open /\ (c \in counted \/ c \in freed)
    BY <1>1, <1>2, <1>3 DEF FlowTypes
  <2>2. place[c] = "blocked" \/ c \in listed
    BY <2>1, <1>1, <1>10 DEF CountsOwned
  <2> QED BY <2>1, <2>2, <1>4
<1> QED BY <1>6, <1>7, <1>8, <1>9, <1>12, <1>13, <1>14 DEF UpkeepInv

-----------------------------------------------------------------------------
\* Who is at work has somebody above at work, up to the root.
LEMMA RootWorks ==
    ASSUME InTurn, NEW n \in Nodes, pc[n] \in Live
    PROVE  pc[Root] \in Live
<1> SUFFICES ASSUME pc[Root] \notin Live PROVE FALSE
    OBVIOUS
<1> DEFINE S == {m \in Nodes : pc[m] \in Live}
<1>1. PICK m \in S : \A p \in S : m \notin Kids[p]
    BY TreeAssumption
<1>2. PICK p \in Above(m) : pc[p] = "kids"
    BY <1>1 DEF InTurn
<1>3. p \in S /\ m \in Kids[p]
    BY <1>2 DEF Above, Live
<1> QED BY <1>1, <1>3

LEMMA GoneStays ==
    ASSUME FailedFlowIsGone, pc'[Root] = "rejected" => pc[Root] = "rejected",
           created' = created, seized \subseteq seized',
           \A n \in created \ seized' :
               /\ n \in rec' => n \in rec
               /\ place[n] \in {"none", "ranked"} => place'[n] \in {"none", "ranked"}
    PROVE  FailedFlowIsGone'
BY DEF FailedFlowIsGone

LEMMA BeginKeeps == ASSUME FlowInv, NEW n \in Nodes, Begin(n) PROVE FlowInv'
<1>1. /\ pc[n] = "todo" /\ UNCHANGED <<jobVars, created, sent, walk, tasks, failures, flowHistory>>
      /\ Kids[n] # {} \/ n \in FanOut => n \notin created
      /\ pc' = [pc EXCEPT ![n] = IF Kids[n] = {} \/ n \in FanOut THEN "adding" ELSE "kids"]
      /\ n = Root \/ \E p \in Above(n) : pc[p] = "kids"
    BY DEF Begin, Goes, Reached, FlowInv, InTurn
<1>2. UpkeepInv'
    BY <1>1, UpkeepRests DEF FlowInv
<1>3. InTurn /\ FailedFlowIsGone
    BY DEF FlowInv
<1>4. \A m \in Nodes : pc'[m] = IF m = n THEN IF Kids[n] = {} \/ n \in FanOut THEN "adding" ELSE "kids"
                                ELSE pc[m]
    BY <1>1, <1>3 DEF InTurn
<1>5. InTurn'
  <2>1. pc' \in [Nodes -> Pcs] /\ tasks' \in 0..MaxTasks /\ failures' \in 0..MaxFailures
    BY <1>1, <1>3 DEF InTurn, Pcs
  <2>2. ASSUME NEW m \in Nodes
        PROVE  /\ pc'[m] \in {"todo", "adding"} => m \notin created
               /\ pc'[m] = "kids" /\ m \notin FanOut => m \notin created
               /\ pc'[m] \in {"rejected", "swallowed"} => m = Root
    BY <1>1, <1>3, <1>4 DEF InTurn
  <2>3. ASSUME NEW m \in Nodes, pc'[m] \in Live
        PROVE  m = Root \/ \E p \in Above(m) : pc'[p] = "kids"
    <3>1. m = Root \/ \E p \in Above(m) : pc[p] = "kids"
      BY <2>3, <1>1, <1>3, <1>4 DEF InTurn
    <3>2. \A p \in Above(m) : pc[p] = "kids" => pc'[p] = "kids"
      BY <1>1, <1>4 DEF Above
    <3> QED BY <3>1, <3>2
  <2> QED BY <2>1, <2>2, <2>3, <1>1 DEF InTurn
<1>6. FailedFlowIsGone'
    BY <1>1, <1>3, <1>4, FlowAssumption, GoneStays DEF jobVars, flowHistory
<1> QED BY <1>2, <1>5, <1>6 DEF FlowInv

\* A step of a node that does not let go of its children.
LEMMA TurnKept ==
    ASSUME InTurn, NEW n \in Nodes, NEW to \in Pcs, pc' = [pc EXCEPT ![n] = to],
           created' \subseteq created \cup {n},
           tasks' \in 0..MaxTasks, failures' \in 0..MaxFailures,
           to \in {"todo", "adding"} => n \notin created',
           to = "kids" => n \in FanOut,
           to \in {"rejected", "swallowed"} => n = Root,
           to \in Live => n = Root \/ \E p \in Above(n) : p # n /\ pc[p] = "kids",
           pc[n] = "kids" => \A k \in Kids[n] : pc[k] \notin Live
    PROVE  InTurn'
<1>1. \A m \in Nodes : pc'[m] = IF m = n THEN to ELSE pc[m]
    BY DEF InTurn
<1>2. pc' \in [Nodes -> Pcs]
    BY DEF InTurn
<1>3. ASSUME NEW m \in Nodes
      PROVE  /\ pc'[m] \in {"todo", "adding"} => m \notin created'
             /\ pc'[m] = "kids" /\ m \notin FanOut => m \notin created'
             /\ pc'[m] \in {"rejected", "swallowed"} => m = Root
    BY <1>1 DEF InTurn
<1>4. ASSUME NEW m \in Nodes, pc'[m] \in Live
      PROVE  m = Root \/ \E p \in Above(m) : pc'[p] = "kids"
  <2>1. CASE m = n
    <3>1. m = Root \/ \E p \in Above(m) : p # n /\ pc[p] = "kids"
      BY <2>1, <1>1, <1>4
    <3> QED BY <3>1, <1>1 DEF Above
  <2>2. CASE m # n
    <3>1. pc[m] \in Live
      BY <2>2, <1>1, <1>4
    <3>2. m = Root \/ \E p \in Above(m) : pc[p] = "kids"
      BY <3>1 DEF InTurn
    <3>3. \A p \in Above(m) : pc[p] = "kids" => p # n
      BY <3>1 DEF Above
    <3> QED BY <3>2, <3>3, <1>1 DEF Above
  <2> QED BY <2>1, <2>2
<1> QED BY <1>2, <1>3, <1>4 DEF InTurn

\* A node at work that does not wait for its children.
LEMMA ParentWaits ==
    ASSUME InTurn, NEW n \in Nodes, pc[n] \in Live
    PROVE  n = Root \/ \E p \in Above(n) : p # n /\ pc[p] = "kids"
<1>1. \A m \in Nodes : m \notin Kids[m]
  <2> SUFFICES ASSUME NEW m \in Nodes, m \in Kids[m] PROVE FALSE
    OBVIOUS
  <2>1. PICK S \in SUBSET Nodes : S = {m} /\ S # {}
    OBVIOUS
  <2>2. PICK k \in S : \A p \in S : k \notin Kids[p]
    BY <2>1, TreeAssumption
  <2> QED BY <2>1, <2>2
<1> QED BY <1>1 DEF InTurn, Above

LEMMA AddNodeKeeps == ASSUME FlowInv, NEW n \in Nodes, AddNode(n) PROVE FlowInv'
<1> DEFINE to == IF n \in FanOut /\ Kids[n] # {} THEN "kids" ELSE "done"
<1>1. /\ pc[n] = "adding" /\ AddJob(n, Deps(n)) /\ created' = created \cup {n}
      /\ pc' = [pc EXCEPT ![n] = to]
      /\ UNCHANGED <<hand, sent, walk, tasks, failures, seized, listed, missed>>
    BY DEF AddNode, Goes
<1>2. UpkeepInv /\ InTurn /\ FailedFlowIsGone
    BY DEF FlowInv
<1>3. n \notin created /\ n \notin sent /\ n \in FlowJobs
    BY <1>1, <1>2, FlowAssumption DEF InTurn, UpkeepInv, FlowTypes, FlowJobs
<1>4. Deps(n) = Needs[n] /\ n \notin Added /\ Added' = Added \cup {n}
    BY <1>1, <1>3 DEF Needs, Added
<1>5. UpkeepInv'
  <2>1. created' \subseteq Nodes /\ sent' \subseteq Others
    BY <1>1, <1>2 DEF UpkeepInv, FlowTypes
  <2>2. PICK deps : deps = Deps(n)
    OBVIOUS
  <2>3. deps = Needs[n] /\ AddJob(n, deps)
    BY <2>2, <1>1, <1>4
  <2> QED BY <2>1, <2>3, <1>1, <1>2, <1>3, <1>4, AddJobKeeps
<1>6. InTurn'
  <2>1. to \in Pcs /\ to \in {"kids", "done"} /\ (to = "kids" => n \in FanOut)
    BY DEF Pcs
  <2>2. n = Root \/ \E p \in Above(n) : p # n /\ pc[p] = "kids"
    BY <1>1, <1>2, ParentWaits DEF Live
  <2> HIDE DEF to
  <2>3. tasks' \in 0..MaxTasks /\ failures' \in 0..MaxFailures
    BY <1>1, <1>2 DEF InTurn
  <2> QED BY <2>1, <2>2, <2>3, <1>1, <1>2, TurnKept
<1>7. pc'[Root] # "rejected"
  <2>1. pc[Root] \in Live
    BY <1>1, <1>2, RootWorks DEF Live
  <2> QED BY <2>1, <1>1, <1>2, FlowAssumption DEF InTurn, Live
<1> QED BY <1>5, <1>6, <1>7 DEF FlowInv, FailedFlowIsGone

LEMMA AddFailsKeeps == ASSUME FlowInv, NEW n \in Nodes, AddFails(n) PROVE FlowInv'
<1>1. /\ pc[n] = "adding" /\ failures < MaxFailures /\ failures' = failures + 1
      /\ pc' = [pc EXCEPT ![n] = "failed"]
      /\ UNCHANGED <<jobVars, created, sent, walk, tasks, flowHistory>>
    BY DEF AddFails, Goes, Failure
<1>2. UpkeepInv /\ InTurn /\ FailedFlowIsGone
    BY DEF FlowInv
<1>3. UpkeepInv'
    BY <1>1, <1>2, UpkeepRests
<1>4. InTurn'
  <2>1. PICK to : to = "failed"
    OBVIOUS
  <2>2. to \in Pcs /\ to \notin Live /\ to \notin {"todo", "adding", "kids", "rejected", "swallowed"}
    BY <2>1 DEF Pcs, Live
  <2>3. tasks' \in 0..MaxTasks /\ failures' \in 0..MaxFailures
    BY <1>1, <1>2, FlowAssumption DEF InTurn
  <2> QED BY <2>1, <2>2, <2>3, <1>1, <1>2, TurnKept
<1>5. pc'[Root] = "rejected" => pc[Root] = "rejected"
    BY <1>1, <1>2, FlowAssumption DEF InTurn
<1>6. FailedFlowIsGone'
    BY <1>1, <1>2, <1>5, GoneStays DEF jobVars, flowHistory
<1> QED BY <1>3, <1>4, <1>6 DEF FlowInv

LEMMA KidsSettledKeeps == ASSUME FlowInv, NEW n \in Nodes, KidsSettled(n) PROVE FlowInv'
<1> DEFINE to == IF \E k \in Kids[n] : pc[k] = "failed" THEN "undo"
                 ELSE IF n \in FanOut THEN "done" ELSE "adding"
<1>1. /\ pc[n] = "kids" /\ AllSettled(n) /\ pc' = [pc EXCEPT ![n] = to]
      /\ UNCHANGED <<jobVars, created, sent, walk, tasks, failures, flowHistory>>
    BY DEF KidsSettled, Goes
<1>2. UpkeepInv /\ InTurn /\ FailedFlowIsGone
    BY DEF FlowInv
<1>3. UpkeepInv'
    BY <1>1, <1>2, UpkeepRests
<1>4. to \in Pcs /\ to \in {"undo", "done", "adding"} /\ (to = "adding" => n \notin FanOut)
    BY DEF Pcs
<1> HIDE DEF to
<1>5. InTurn'
  <2>1. n = Root \/ \E p \in Above(n) : p # n /\ pc[p] = "kids"
    BY <1>1, <1>2, ParentWaits DEF Live
  <2>2. \A k \in Kids[n] : pc[k] \notin Live
    BY <1>1 DEF AllSettled, Live
  <2>3. to = "adding" => n \notin created'
    BY <1>1, <1>2, <1>4 DEF InTurn
  <2>4. tasks' \in 0..MaxTasks /\ failures' \in 0..MaxFailures
    BY <1>1, <1>2 DEF InTurn
  <2> QED BY <2>1, <2>2, <2>3, <2>4, <1>1, <1>2, <1>4, TurnKept
<1>6. pc'[Root] = "rejected" => pc[Root] = "rejected"
    BY <1>1, <1>2, <1>4, FlowAssumption DEF InTurn
<1>7. FailedFlowIsGone'
    BY <1>1, <1>2, <1>6, GoneStays DEF jobVars, flowHistory
<1> QED BY <1>3, <1>5, <1>7 DEF FlowInv

LEMMA UndoKeeps == ASSUME FlowInv, NEW n \in Nodes, Undo(n) PROVE FlowInv'
<1>1. PICK to \in {"failed", "rejected", "swallowed"} :
        /\ pc' = [pc EXCEPT ![n] = to] /\ pc[n] \in {"undo", "failed"}
        /\ to # "failed" => n = Root /\ pc[Root] = "failed"
        /\ \/ Compensate /\ UNCHANGED failures
           \/ /\ failures < MaxFailures /\ failures' = failures + 1 /\ to # "rejected"
              /\ UNCHANGED <<jobVars, created, sent, walk, tasks, flowHistory>>
    BY DEF Undo, Goes, Failure
<1>2. UpkeepInv /\ InTurn /\ FailedFlowIsGone
    BY DEF FlowInv
<1>3. UpkeepInv'
    BY <1>1, <1>2, UpkeepRests, CompensateKeeps
<1>4. InTurn'
  <2>1. to \in Pcs /\ to \notin Live /\ to \notin {"todo", "adding", "kids"}
    BY <1>1 DEF Pcs, Live
  <2>2. tasks' \in 0..MaxTasks /\ failures' \in 0..MaxFailures /\ created' = created
    BY <1>1, <1>2, FlowAssumption DEF InTurn, Compensate
  <2> QED BY <2>1, <2>2, <1>1, <1>2, TurnKept
<1>5. FailedFlowIsGone'
  <2>1. CASE Compensate
    <3>1. rec' = rec \ created /\ place' = TakenOut(created) /\ created' = created
      BY <2>1 DEF Compensate
    <3>2. \A i \in created : place'[i] \in {"none", "ranked"} /\ i \notin rec'
      BY <3>1, <1>2 DEF TakenOut, UpkeepInv, FlowTypes, FlowJobs
    <3> QED BY <3>1, <3>2 DEF FailedFlowIsGone
  <2>2. CASE ~Compensate
    <3>1. UNCHANGED <<jobVars, created, sent, walk, tasks, flowHistory>> /\ to # "rejected"
      BY <2>2, <1>1
    <3>2. pc'[Root] = "rejected" => pc[Root] = "rejected"
      BY <3>1, <1>1, <1>2, FlowAssumption DEF InTurn
    <3> QED BY <3>1, <3>2, <1>2, GoneStays DEF jobVars, flowHistory
  <2> QED BY <2>1, <2>2
<1> QED BY <1>3, <1>4, <1>5 DEF FlowInv

-----------------------------------------------------------------------------
LEMMA AddOtherKeeps == ASSUME FlowInv, NEW o \in Others, AddOther(o) PROVE FlowInv'
<1>1. /\ o \notin sent /\ sent' = sent \cup {o} /\ AddJob(o, Late[o])
      /\ UNCHANGED <<hand, pc, created, walk, tasks, failures, seized, listed, missed>>
    BY DEF AddOther
<1>2. UpkeepInv /\ InTurn /\ FailedFlowIsGone
    BY DEF FlowInv
<1>3. o \in FlowJobs /\ o \notin Nodes /\ created \subseteq Nodes /\ sent \subseteq Others
    BY <1>2, FlowAssumption DEF FlowJobs, UpkeepInv, FlowTypes
<1>4. Late[o] = Needs[o] /\ o \notin Added /\ Added' = Added \cup {o}
    BY <1>1, <1>3 DEF Needs, Added
<1>5. UpkeepInv'
  <2>1. PICK deps : deps = Late[o]
    OBVIOUS
  <2>2. deps = Needs[o] /\ AddJob(o, deps)
    BY <2>1, <1>1, <1>4
  <2>3. created' \subseteq Nodes /\ sent' \subseteq Others
    BY <1>1, <1>3
  <2> QED BY <2>2, <2>3, <1>1, <1>2, <1>3, <1>4, AddJobKeeps
<1>6. InTurn'
    BY <1>1, <1>2 DEF InTurn
<1>7. \A n \in created : /\ n \in rec' => n \in rec
                         /\ place[n] \in {"none", "ranked"} => place'[n] \in {"none", "ranked"}
    BY <1>1, <1>2, <1>3, FlowAssumption DEF AddJob, FlowJobs, UpkeepInv, FlowTypes
<1>8. FailedFlowIsGone'
    BY <1>1, <1>2, <1>7, GoneStays
<1> QED BY <1>5, <1>6, <1>8 DEF FlowInv

\* Steps of the engine and of the workers leave the nodes where they are.
LEMMA JobStepKeeps ==
    ASSUME FlowInv, UpkeepInv', UNCHANGED <<pc, created>>, seized \subseteq seized',
           tasks' \in 0..MaxTasks, failures' \in 0..MaxFailures,
           \A n \in created \ seized' :
               /\ n \in rec' => n \in rec
               /\ place[n] \in {"none", "ranked"} => place'[n] \in {"none", "ranked"}
    PROVE  FlowInv'
<1>1. InTurn'
    BY DEF FlowInv, InTurn
<1>2. FailedFlowIsGone'
    BY GoneStays DEF FlowInv
<1> QED BY <1>1, <1>2 DEF FlowInv

LEMMA EngineKeeps ==
    ASSUME FlowInv, Walk \/ Names \/ Purge \/ \E j \in FlowJobs : RemoveJob(j)
    PROVE  FlowInv'
<1>1. UpkeepInv'
    BY WalkKeeps, NamesKeeps, PurgeKeeps, RemoveJobKeeps DEF FlowInv
<1>2. tasks' \in 0..MaxTasks /\ failures' = failures /\ pc' = pc /\ created' = created /\ seized' = seized
  <2>1. tasks \in 0..MaxTasks /\ MaxTasks \in Nat
    BY FlowAssumption DEF FlowInv, InTurn
  <2>2. CASE Walk \/ Names \/ Purge
    BY <2>1, <2>2 DEF Walk, Names, Purge, flowHistory
  <2>3. CASE \E j \in FlowJobs : RemoveJob(j)
    <3>1. /\ tasks < MaxTasks /\ tasks' = tasks + 1
          /\ UNCHANGED <<jobVars, pc, created, sent, failures, flowHistory>>
      BY <2>3 DEF RemoveJob
    <3> QED BY <3>1, <2>1 DEF flowHistory
  <2> QED BY <2>2, <2>3
<1>3. \A n \in created : /\ n \in rec' => n \in rec
                         /\ place[n] \in {"none", "ranked"} => place'[n] \in {"none", "ranked"}
  <2>1. CASE Purge
    <3>1. PICK here : place' = TakenOut(here) /\ rec' = rec \ here
      BY <2>1 DEF Purge
    <3> QED BY <3>1 DEF TakenOut, FlowInv, UpkeepInv, FlowTypes, FlowJobs
  <2>2. CASE ~Purge
    BY <2>2 DEF Walk, Names, RemoveJob, jobVars
  <2> QED BY <2>1, <2>2
<1> QED BY <1>1, <1>2, <1>3, JobStepKeeps DEF FlowInv, InTurn

LEMMA WorkerKeeps ==
    ASSUME FlowInv, NEW j \in FlowJobs, PickUp(j) \/ Complete(j) \/ SendBack(j)
    PROVE  FlowInv'
<1>1. UpkeepInv' /\ FlowTypes
    BY PickUpKeeps, CompleteKeeps, SendBackKeeps DEF FlowInv, UpkeepInv
<1>2. /\ tasks' = tasks /\ failures' \in 0..MaxFailures /\ pc' = pc /\ created' = created
      /\ seized \subseteq seized'
    BY FlowAssumption DEF FlowInv, InTurn, PickUp, Complete, SendBack, Failure, flowHistory
<1>3. ASSUME NEW n \in created \ seized'
      PROVE  /\ n \in rec' => n \in rec
             /\ place[n] \in {"none", "ranked"} => place'[n] \in {"none", "ranked"}
  <2>1. n \in FlowJobs /\ n \notin hand
    BY <1>1, <1>2, <1>3 DEF FlowTypes, FlowJobs
  <2>2. CASE PickUp(j)
    BY <2>1, <2>2, <1>1, <1>3 DEF PickUp, FlowTypes
  <2>3. CASE SendBack(j)
    BY <2>1, <2>3, <1>1 DEF SendBack, FlowTypes
  <2>4. CASE Complete(j)
    <3>1. rec' = rec /\ n # j
      BY <2>1, <2>4 DEF Complete
    <3>2. place[n] # "blocked" => place'[n] = place[n]
      BY <2>1, <2>4, <3>1 DEF Complete
    <3> QED BY <3>1, <3>2
  <2> QED BY <2>2, <2>3, <2>4
<1> QED BY <1>1, <1>2, <1>3, JobStepKeeps DEF FlowInv, InTurn

LEMMA FlowInvNext == FlowInv /\ [FlowNext]_flowVars => FlowInv'
<1> SUFFICES ASSUME FlowInv, [FlowNext]_flowVars PROVE FlowInv'
    OBVIOUS
<1>1. ASSUME NEW n \in Nodes, Begin(n) \/ AddNode(n) \/ AddFails(n) \/ KidsSettled(n) \/ Undo(n)
      PROVE  FlowInv'
    BY <1>1, BeginKeeps, AddNodeKeeps, AddFailsKeeps, KidsSettledKeeps, UndoKeeps
<1>2. CASE \E o \in Others : AddOther(o)
    BY <1>2, AddOtherKeeps
<1>3. ASSUME NEW j \in FlowJobs, PickUp(j) \/ Complete(j) \/ SendBack(j)
      PROVE  FlowInv'
    BY <1>3, WorkerKeeps
<1>4. CASE Walk \/ Names \/ Purge \/ \E j \in FlowJobs : RemoveJob(j)
    BY <1>4, EngineKeeps
<1>5. CASE UNCHANGED flowVars
  <2>1. UpkeepInv'
    BY <1>5, UpkeepRests DEF flowVars, FlowInv
  <2>2. InTurn' /\ FailedFlowIsGone'
    BY <1>5 DEF flowVars, jobVars, flowHistory, FlowInv, InTurn, FailedFlowIsGone
  <2> QED BY <2>1, <2>2 DEF FlowInv
<1> QED BY <1>1, <1>2, <1>3, <1>4, <1>5 DEF FlowNext

LEMMA FlowKept == FlowSpec => []FlowInv
BY UpkeepInvInit, FlowInvNext, PTL DEF FlowSpec

(***************************************************************************)
(* Whatever fails while any flow is added, and whatever jobs are deleted   *)
(* meanwhile: a blocked job's count is the number of those it waits for,   *)
(* counters have owners, and a flow whose add() has thrown left nothing,   *)
(* but for what the parts name (flowProducer.js:78, :144).                 *)
(***************************************************************************)
THEOREM FlowsStaySound == FlowSpec => []FlowSound
<1>1. ASSUME FlowInv PROVE FlowSound
  <2>1. UpkeepInv /\ InTurn /\ FailedFlowIsGone /\ FlowTypes
    BY <1>1 DEF FlowInv, UpkeepInv
  <2>2. ASSUME NEW j \in FlowJobs, j \notin bereft \cup walk.found, place[j] = "blocked"
        PROVE  count[j] = Cardinality({d \in FlowJobs : <<d, j>> \in kids /\ ~Gone(d)})
    <3>1. \A d \in FlowJobs : <<d, j>> \in kids => (~Gone(d) <=> place[d] # "completed")
      BY <2>1, <2>2 DEF UpkeepInv, Parked, Gone, InHand
    <3>2. {d \in FlowJobs : <<d, j>> \in kids /\ ~Gone(d)} = Owing(j)
      BY <3>1 DEF Owing
    <3> QED BY <3>2, <2>1, <2>2 DEF UpkeepInv, CountFits
  <2>3. FlowTypeOK
    BY <2>1 DEF FlowTypeOK, FlowTypes, UpkeepInv, WalkFits, WalkRec, InTurn
  <2> QED BY <2>1, <2>2, <2>3 DEF FlowSound, Releasable, UpkeepInv
<1> QED BY <1>1, FlowKept, PTL

(***************************************************************************)
(* Of any two stored jobs both views show the edge between them, and an    *)
(* unknown job is shown only where a compensated one is still listed, in   *)
(* all flows, with the exceptions ViewsAgree names (server.js:613).        *)
(***************************************************************************)
THEOREM ViewsStayAgreed == FlowSpec => []ViewsAgree
<1>1. ASSUME FlowInv PROVE ViewsAgree
  <2>1. FlowTypes /\ Edges
    BY <1>1 DEF FlowInv, UpkeepInv
  <2> SUFFICES ASSUME NEW x \in rec
               PROVE  LET seen == WaitersShown(x) IN
                      /\ seen \subseteq rec \cup listed
                      /\ \A c \in seen \cap rec : x \in NeedsShown(c) /\ c \in FlowList
                      /\ \A c \in rec \ (seen \cup walk.found) : x \in NeedsShown(c) =>
                             Found(x) # {} /\ (<<x, c>> \notin pars \/ c \in bereft)
                      /\ \A c \in seen \cap rec :
                             place[c] = "blocked" /\ QueueOf[x] # QueueOf[c] =>
                                 <<QueueOf[x], QueueOf[c]>> \in QueueArrows
    BY DEF ViewsAgree
  <2> DEFINE seen == WaitersShown(x)
  <2>2. x \in FlowJobs /\ rec \subseteq FlowJobs
    BY <2>1 DEF FlowTypes
  <2>3. \A c \in seen : c \in rec \cup listed /\ x \in Needs[c]
    BY <2>1, <2>2 DEF WaitersShown, Found, Edges
  <2>4. \A c \in seen \cap rec : x \in NeedsShown(c) /\ c \in FlowList
    BY <2>3 DEF NeedsShown, FlowList
  <2>5. ASSUME NEW c \in rec, c \notin seen, c \notin walk.found, x \in NeedsShown(c)
        PROVE  Found(x) # {} /\ (<<x, c>> \notin pars \/ c \in bereft)
    <3>1. x \in Needs[c]
      BY <2>1, <2>2, <2>5 DEF NeedsShown, Edges
    <3>2. Found(x) # {} /\ <<x, c>> \notin kids
      BY <3>1, <2>2, <2>5 DEF WaitersShown, Found
    <3> QED BY <3>2, <2>1, <2>2, <2>5 DEF Edges
  <2>6. ASSUME NEW c \in seen \cap rec, QueueOf[x] # QueueOf[c]
        PROVE  <<QueueOf[x], QueueOf[c]>> \in QueueArrows
    <3>1. <<x, c>> \in {p \in rec \X rec : p[1] \in Needs[p[2]] /\ QueueOf[p[1]] # QueueOf[p[2]]}
      BY <2>3, <2>6
    <3> QED BY <3>1 DEF QueueArrows
  <2> QED BY <2>3, <2>4, <2>5, <2>6
<1> QED BY <1>1, FlowKept, PTL

(***************************************************************************)
(* A deletion takes everything that waits for what it takes, for any       *)
(* dependencies, but for jobs that came after the walk and jobs it looks   *)
(* for in the wrong queue (maintenance.js).                                *)
(***************************************************************************)
THEOREM DeletedTogether == FlowSpec => PurgedTogether
<1> DEFINE A == Purge => /\ \A j \in walk.found \ missed' : j \notin rec'
                         /\ \A j \in FlowJobs \ late : place'[j] = "blocked" =>
                                \A d \in walk.found : <<d, j>> \notin kids
<1>1. ASSUME FlowInv PROVE A
  <2> SUFFICES ASSUME Purge
               PROVE  /\ \A j \in walk.found \ missed' : j \notin rec'
                      /\ \A j \in FlowJobs \ late : place'[j] = "blocked" =>
                             \A d \in walk.found : <<d, j>> \notin kids
    OBVIOUS
  <2>1. PICK here \in SUBSET walk.found :
            /\ rec' = rec \ here /\ place' = TakenOut(here)
            /\ missed' = missed \cup (walk.found \ here)
    BY DEF Purge
  <2>2. FlowTypes /\ WalkFits /\ Parked /\ walk.found \subseteq FlowJobs /\ walk.todo = {}
    BY <1>1 DEF Purge, FlowInv, UpkeepInv, WalkFits, WalkRec
  <2>3. ASSUME NEW j \in FlowJobs, j \notin late, place'[j] = "blocked",
               NEW d \in walk.found, <<d, j>> \in kids
        PROVE  FALSE
    <3>1. place[j] = "blocked"
      BY <2>1, <2>3 DEF TakenOut
    <3>2. <<d, j>> \in pars
      BY <3>1, <2>2, <2>3 DEF Parked
    <3>3. j \in walk.found
      BY <2>2, <2>3 DEF WalkFits
    <3> QED BY <3>2, <3>3, <2>2, <2>3 DEF WalkFits
  <2> QED BY <2>1, <2>3
<1>2. FlowInv => [A]_flowVars
    BY <1>1
<1>3. PurgedTogether <=> [][A]_flowVars
    BY DEF PurgedTogether
<1> HIDE DEF A
<1> QED BY <1>2, <1>3, FlowKept, PTL
=============================================================================
