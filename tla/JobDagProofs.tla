---------------------------- MODULE JobDagProofs ----------------------------
(***************************************************************************)
(* The count a blocked job waits on is exact, for every set of jobs, every *)
(* dependency relation (cycles and repeated parents included), any number  *)
(* of queues and runs, with deaths, crashes and retries.                   *)
(***************************************************************************)
EXTENDS JobDag, FiniteSetTheorems, SequenceTheorems, TLAPS

Stages == {"hget", "hset", "dlq", "hdel", "count", "name", "zadd"}

\* What a run may have in its hands, and which jobs the store may know.
Known ==
    /\ \A j \in Jobs : vault[j] # "absent" => j \in added
    /\ blocked \subseteq added /\ dlq \subseteq added
    /\ \A l \in links : l[2] \in added /\ l[1] \in Deps(l[2])
    /\ \A r \in Runs : at[r] \in Stages \ {"hget"} => Head(todo[r]) \in added

\* A cascade deletes the count only of a job it has taken out of blocked.
CascadeOrder ==
    \A r \in Runs : at[r] \in {"count", "name", "zadd"} => Head(todo[r]) \notin blocked

DagInv == TypeOK /\ Known /\ CascadeOrder /\ CountsCredits

LEMMA DepsFinite ==
    ASSUME NEW j \in Jobs
    PROVE  /\ Deps(j) \subseteq Jobs
           /\ IsFiniteSet(Credited(j)) /\ Cardinality(Credited(j)) \in Nat
<1>1. Deps(j) \subseteq Jobs
    BY DagAssumption DEF Deps, ToSet
<1>2. Credited(j) \in SUBSET Jobs
    BY <1>1 DEF Credited
<1> QED
    BY <1>1, <1>2, DagAssumption, FS_Subset, FS_CardinalityType

LEMMA PendingType == ASSUME NEW j \in Jobs PROVE Pending(j) \in Nat
<1> DEFINE S == {i \in DOMAIN Parents[j] : ~Done(Parents[j][i], QueueOf[j])}
<1>1. IsFiniteSet(1..Len(Parents[j])) /\ Parents[j] \in Seq(Jobs)
    BY DagAssumption, FS_Interval
<1>2. S \in SUBSET (1..Len(Parents[j]))
    BY <1>1
<1> QED
    BY <1>1, <1>2, FS_Subset, FS_CardinalityType DEF Pending

\* A step that does not touch a count, or a link, keeps every count exact.
LEMMA CountsStay ==
    ASSUME DagInv, UNCHANGED <<links, count, pendingAt>>,
           \A j \in blocked' : j \in blocked /\ j \in counted' /\ j \in named'
    PROVE  CountsCredits'
<1>1. \A j \in Jobs : Credited(j)' = Credited(j)
    BY DEF Credited
<1>2. blocked \subseteq Jobs
    BY DEF DagInv, TypeOK
<1> QED
    BY <1>1, <1>2 DEF DagInv, CountsCredits

\* A run that goes to a place where it has nothing left to do of a cascade.
LEMMA RunMoves ==
    ASSUME DagInv, NEW r \in Runs, NEW p \in Places \ Stages, NEW k \in Jobs \cup {None},
           Goes(r, p), job' = [job EXCEPT ![r] = k], todo' = [todo EXCEPT ![r] = <<>>],
           added \subseteq added', p # "idle" => k \in added'
    PROVE  /\ at' \in [Runs -> Places] /\ job' \in [Runs -> Jobs \cup {None}]
           /\ todo' \in [Runs -> Seq(Jobs)]
           /\ \A s \in Runs : at'[s] # "idle" => job'[s] \in added'
           /\ \A s \in Runs : at'[s] \in Stages <=> todo'[s] # <<>>
           /\ \A s \in Runs : at'[s] \in Stages => s # r /\ at'[s] = at[s] /\ todo'[s] = todo[s]
<1>1. /\ at' = [at EXCEPT ![r] = p] /\ at \in [Runs -> Places]
      /\ job \in [Runs -> Jobs \cup {None}] /\ todo \in [Runs -> Seq(Jobs)]
      /\ <<>> \in Seq(Jobs)
    BY DEF Goes, DagInv, TypeOK
<1>2. /\ at' \in [Runs -> Places] /\ job' \in [Runs -> Jobs \cup {None}]
      /\ todo' \in [Runs -> Seq(Jobs)]
    BY <1>1
<1>3. ASSUME NEW s \in Runs
      PROVE  /\ at'[s] # "idle" => job'[s] \in added'
             /\ at'[s] \in Stages <=> todo'[s] # <<>>
             /\ at'[s] \in Stages => s # r /\ at'[s] = at[s] /\ todo'[s] = todo[s]
  <2>1. CASE s = r
    BY <2>1, <1>1
  <2>2. CASE s # r
    BY <2>2, <1>1 DEF DagInv, TypeOK, Stages
  <2> QED
    BY <2>1, <2>2
<1> QED
    BY <1>2, <1>3

LEMMA RunsSame ==
    ASSUME DagInv, UNCHANGED runVars, added \subseteq added'
    PROVE  /\ at' \in [Runs -> Places] /\ job' \in [Runs -> Jobs \cup {None}]
           /\ todo' \in [Runs -> Seq(Jobs)]
           /\ \A s \in Runs : at'[s] # "idle" => job'[s] \in added'
           /\ \A s \in Runs : at'[s] \in Stages <=> todo'[s] # <<>>
           /\ \A s \in Runs : at'[s] \in Stages => at'[s] = at[s] /\ todo'[s] = todo[s]
BY DEF DagInv, TypeOK, runVars, Stages

\* What is left to show when the runs are accounted for.
RunsKept ==
    /\ at' \in [Runs -> Places] /\ job' \in [Runs -> Jobs \cup {None}]
    /\ todo' \in [Runs -> Seq(Jobs)]
    /\ \A s \in Runs : at'[s] # "idle" => job'[s] \in added'
    /\ \A s \in Runs : at'[s] \in Stages <=> todo'[s] # <<>>
    /\ \A s \in Runs : at'[s] \in Stages => at'[s] = at[s] /\ todo'[s] = todo[s]

StoreTyped ==
    /\ vault \in [Jobs -> {"absent", "waiting", "active", "completed", "dead"}]
    /\ queued \subseteq Jobs /\ active \subseteq Jobs /\ blocked \subseteq Jobs
    /\ completed \subseteq Jobs /\ failed \subseteq Jobs /\ dlq \subseteq Jobs
    /\ links \subseteq Jobs \X Jobs
    /\ count \in [Jobs -> Int] /\ counted \subseteq Jobs /\ named \subseteq Jobs
    /\ adding \subseteq added /\ faults \in Nat
    /\ added \subseteq Jobs /\ settled \subseteq added
    /\ skipped \in [Jobs -> SUBSET Jobs] /\ pendingAt \in [Jobs -> Nat]
    /\ twice \subseteq added /\ lost \subseteq added /\ forced \subseteq added

StoreKnown ==
    /\ \A j \in Jobs : vault[j] # "absent" => j \in added
    /\ blocked \subseteq added /\ dlq \subseteq added
    /\ \A l \in links : l[2] \in added /\ l[1] \in Deps(l[2])

LEMMA InvParts == DagInv => StoreTyped /\ StoreKnown
BY DEF DagInv, TypeOK, StoreTyped, Known, StoreKnown

LEMMA KeepsInv ==
    ASSUME DagInv, RunsKept, StoreTyped', StoreKnown', CountsCredits',
           added \subseteq added', blocked' \cap added \subseteq blocked
    PROVE  DagInv'
<1>1. TypeOK'
    BY DEF RunsKept, StoreTyped, TypeOK, Stages
<1>2. Known'
    BY DEF RunsKept, StoreKnown, DagInv, Known, Stages
<1>3. CascadeOrder'
    BY DEF RunsKept, DagInv, CascadeOrder, Known, Stages
<1> QED
    BY <1>1, <1>2, <1>3 DEF DagInv
----------------------------------------------------------------------------
(***************************************************************************)
(* Producers.                                                              *)
(***************************************************************************)
LEMMA AddPlainStep ==
    ASSUME DagInv, NEW j \in Jobs, AddPlain(j)
    PROVE  DagInv'
<1>1. StoreTyped /\ StoreKnown
    BY InvParts
<1>2. RunsKept /\ added \subseteq added'
    BY RunsSame DEF AddPlain, MayAdd, RunsKept
<1>3. StoreTyped'
    BY <1>1 DEF StoreTyped, AddPlain, MayAdd
<1>4. StoreKnown'
    BY <1>1 DEF StoreTyped, StoreKnown, AddPlain, MayAdd
<1>5. CountsCredits'
    BY CountsStay DEF AddPlain, MayAdd, DagInv, CountsCredits
<1> QED
    BY <1>2, <1>3, <1>4, <1>5, KeepsInv DEF AddPlain

LEMMA AddDependentStep ==
    ASSUME DagInv, NEW j \in Jobs, AddDependent(j)
    PROVE  DagInv'
<1>1. StoreTyped /\ StoreKnown
    BY InvParts
<1>2. RunsKept /\ added \subseteq added' /\ j \notin added
    BY RunsSame DEF AddDependent, MayAdd, RunsKept
<1>3. Pending(j) \in Nat /\ Deps(j) \subseteq Jobs
    BY PendingType, DepsFinite
<1>4. StoreTyped'
  <2>1. skipped' \in [Jobs -> SUBSET Jobs] /\ pendingAt' \in [Jobs -> Nat]
    BY <1>1, <1>3 DEF StoreTyped, AddDependent
  <2>2. links' \subseteq Jobs \X Jobs
    BY <1>1, <1>3 DEF StoreTyped, AddDependent
  <2>3. /\ vault' \in [Jobs -> {"absent", "waiting", "active", "completed", "dead"}]
        /\ added' \subseteq Jobs /\ lost' \subseteq added' /\ adding' \subseteq added'
    BY <1>1 DEF StoreTyped, AddDependent, MayAdd
  <2>4. /\ queued' \subseteq Jobs /\ blocked' \subseteq Jobs
        /\ count' \in [Jobs -> Int] /\ counted' \subseteq Jobs /\ named' \subseteq Jobs
    BY <1>1, <1>3 DEF StoreTyped, AddDependent
  <2> QED
    BY <1>1, <1>2, <2>1, <2>2, <2>3, <2>4 DEF StoreTyped, AddDependent
<1>5. StoreKnown'
    BY <1>1 DEF StoreTyped, StoreKnown, AddDependent, MayAdd
<1>6. CountsCredits'
  <2> SUFFICES ASSUME NEW k \in blocked'
               PROVE  /\ k \in counted' /\ k \in named' /\ count'[k] > 0
                      /\ count'[k] = pendingAt'[k] - Cardinality(Credited(k)')
    BY DEF CountsCredits
  <2>1. CASE k = j
    <3>1. j \notin blocked
        BY <1>1, <1>2 DEF StoreKnown
    <3>2. Pending(j) # 0 /\ count' = [count EXCEPT ![j] = Pending(j)]
          /\ counted' = counted \cup {j} /\ named' = named \cup {j}
        BY <2>1, <3>1 DEF AddDependent
    <3>3. Credited(j)' = {}
        BY DEF Credited, AddDependent
    <3>4. Cardinality(Credited(j)') = 0
        BY <3>3, FS_EmptySet
    <3>5. count'[j] = Pending(j) /\ pendingAt'[j] = Pending(j)
        BY <3>2, <1>1 DEF AddDependent, StoreTyped
    <3> QED
        BY <2>1, <3>2, <3>4, <3>5, <1>3
  <2>2. CASE k # j
    <3>1. k \in blocked /\ k \in Jobs
        BY <2>2, <1>1 DEF AddDependent, StoreTyped
    <3>2. Credited(k)' = Credited(k)
        BY <2>2 DEF Credited, AddDependent
    <3>3. count'[k] = count[k] /\ pendingAt'[k] = pendingAt[k]
          /\ counted \subseteq counted' /\ named \subseteq named'
        BY <2>2, <3>1, <1>1 DEF AddDependent, StoreTyped
    <3> QED
        BY <3>1, <3>2, <3>3 DEF DagInv, CountsCredits
  <2> QED
    BY <2>1, <2>2
<1>7. blocked' \cap added \subseteq blocked
    BY <1>2 DEF AddDependent
<1> QED
    BY <1>2, <1>4, <1>5, <1>6, <1>7, KeepsInv

LEMMA PromoteStep ==
    ASSUME DagInv, NEW j \in Jobs, PromoteIfUnblocked(j)
    PROVE  DagInv'
<1>1. StoreTyped /\ StoreKnown
    BY InvParts
<1>2. RunsKept /\ added' = added
    BY RunsSame DEF PromoteIfUnblocked, history, RunsKept
<1>3. StoreTyped' /\ StoreKnown'
    BY <1>1 DEF StoreTyped, StoreKnown, PromoteIfUnblocked, history
<1>4. CountsCredits'
    BY CountsStay DEF PromoteIfUnblocked, history, DagInv, CountsCredits
<1> QED
    BY <1>2, <1>3, <1>4, KeepsInv DEF PromoteIfUnblocked
----------------------------------------------------------------------------
(***************************************************************************)
(* Runs.                                                                   *)
(***************************************************************************)
\* A run is over, or goes to a place outside the cascade with a known job.
LEMMA OverKeeps ==
    ASSUME DagInv, NEW r \in Runs, Over(r), added' = added
    PROVE  RunsKept
<1>1. "idle" \in Places \ Stages
    BY DEF Places, Stages
<1>2. Goes(r, "idle") /\ job' = [job EXCEPT ![r] = None]
      /\ todo' = [todo EXCEPT ![r] = <<>>]
    BY DEF Over
<1> QED
    BY <1>1, <1>2, RunMoves DEF RunsKept

LEMMA EmptyTodo ==
    ASSUME DagInv, NEW r \in Runs, at[r] \notin Stages, UNCHANGED todo
    PROVE  todo' = [todo EXCEPT ![r] = <<>>]
<1>1. todo[r] = <<>> /\ todo \in [Runs -> Seq(Jobs)]
    BY DEF DagInv, TypeOK, Stages
<1> QED
    BY <1>1

LEMMA SameJob ==
    ASSUME DagInv, NEW r \in Runs, UNCHANGED job
    PROVE  job' = [job EXCEPT ![r] = job[r]]
BY DEF DagInv, TypeOK

LEMMA DequeueStep ==
    ASSUME DagInv, NEW r \in Runs, NEW j \in Jobs, Dequeue(r, j)
    PROVE  DagInv'
<1>1. StoreTyped /\ StoreKnown
    BY InvParts
<1>2. added' = added /\ blocked' = blocked
    BY DEF Dequeue, history
<1>3. RunsKept
  <2>1. CASE vault[j] = "absent"
    BY <2>1, <1>2, RunsSame DEF Dequeue, runVars, RunsKept
  <2>2. CASE vault[j] # "absent"
    <3>1. j \in added
        BY <2>2, <1>1 DEF StoreKnown
    <3>2. Goes(r, "running") /\ job' = [job EXCEPT ![r] = j]
        BY <2>2 DEF Dequeue
    <3>3. todo' = [todo EXCEPT ![r] = <<>>]
        BY EmptyTodo DEF Dequeue, Stages
    <3>4. "running" \in Places \ Stages
        BY DEF Places, Stages
    <3> QED
        BY <3>1, <3>2, <3>3, <3>4, <1>2, RunMoves DEF RunsKept
  <2> QED
    BY <2>1, <2>2
<1>4. StoreTyped'
    BY <1>1 DEF StoreTyped, Dequeue, history
<1>5. StoreKnown'
    BY <1>1 DEF StoreTyped, StoreKnown, Dequeue, history
<1>6. CountsCredits'
    BY CountsStay DEF Dequeue, history, DagInv, CountsCredits
<1> QED
    BY <1>2, <1>3, <1>4, <1>5, <1>6, KeepsInv

\* The job a run has in its hands.
LEMMA InHandKnown ==
    ASSUME DagInv, NEW r \in Runs, at[r] # "idle"
    PROVE  job[r] \in added /\ job[r] \in Jobs
BY DEF DagInv, TypeOK

LEMMA FinalizeStep ==
    ASSUME DagInv, NEW r \in Runs, Finalize(r)
    PROVE  DagInv'
<1>1. StoreTyped /\ StoreKnown
    BY InvParts
<1>2. job[r] \in added /\ job[r] \in Jobs
    BY InHandKnown DEF Finalize
<1>3. added' = added /\ blocked' = blocked
    BY DEF Finalize
<1>4. RunsKept
  <2>1. CASE job[r] \in InFlow
    <3>1. Goes(r, "completed") /\ job' = [job EXCEPT ![r] = job[r]]
        BY <2>1, SameJob DEF Finalize
    <3>2. todo' = [todo EXCEPT ![r] = <<>>]
        BY <2>1, EmptyTodo DEF Finalize, Stages
    <3>3. "completed" \in Places \ Stages
        BY DEF Places, Stages
    <3> QED
        BY <3>1, <3>2, <3>3, <1>2, <1>3, RunMoves DEF RunsKept
  <2>2. CASE job[r] \notin InFlow
    BY <2>2, <1>3, OverKeeps DEF Finalize
  <2> QED
    BY <2>1, <2>2
<1>5. StoreTyped'
  <2>1. PICK oldest \in SUBSET Jobs :
            LET E == {d \in oldest : ~Guarded(d)} IN
            /\ completed' = (completed \cup {job[r]}) \ E
            /\ vault' = [d \in Jobs |->
                            IF d \in E THEN "absent"
                            ELSE IF d = job[r] /\ vault[job[r]] # "absent" THEN "completed"
                            ELSE vault[d]]
    <3>1. {d \in completed : QueueOf[d] = QueueOf[job[r]]} \cup {job[r]} \subseteq Jobs
        BY <1>1, <1>2 DEF StoreTyped, StoreKnown
    <3>2. \A index \in SUBSET Jobs : Evictions(index) \subseteq SUBSET Jobs
        BY DEF Evictions
    <3> QED
        BY <3>1, <3>2 DEF Finalize
  <2>2. /\ completed' \subseteq Jobs
        /\ vault' \in [Jobs -> {"absent", "waiting", "active", "completed", "dead"}]
      BY <2>1, <1>1, <1>2 DEF StoreTyped
  <2>3. settled' \subseteq added' /\ lost' \subseteq added'
      BY <1>1, <1>2, <1>3 DEF Finalize, StoreTyped, StoreKnown, Waiters
  <2> QED
      BY <1>1, <1>2, <2>2, <2>3 DEF StoreTyped, Finalize
<1>6. StoreKnown'
  <2>1. \A d \in Jobs : vault'[d] # "absent" => vault[d] # "absent"
      BY <1>1 DEF Finalize, StoreTyped
  <2> QED
      BY <1>1, <2>1 DEF StoreKnown, Finalize
<1>7. CountsCredits'
    BY CountsStay DEF Finalize, DagInv, CountsCredits
<1> QED
    BY <1>3, <1>4, <1>5, <1>6, <1>7, KeepsInv

\* Every job that waits for the finished one is credited once, and one whose
\* count comes to zero leaves the blocked hash.
LEMMA UnblockStep ==
    ASSUME DagInv, NEW r \in Runs, Unblock(r)
    PROVE  DagInv'
<1> DEFINE d == job[r]
<1>1. StoreTyped /\ StoreKnown
    BY InvParts
<1>2. d \in added /\ d \in Jobs
    BY InHandKnown DEF Unblock
<1>3. added' = added
    BY DEF Unblock
<1>4. RunsKept
    BY <1>3, OverKeeps DEF Unblock
<1>5. Waiters(d) \subseteq added /\ Waiters(d) \subseteq Jobs /\ AtZero(d) \subseteq Jobs
    BY <1>1 DEF Waiters, StoreTyped, StoreKnown, AtZero
<1>6. \A j \in Jobs : Decremented(j) \in Int
    BY <1>1 DEF Decremented, StoreTyped
<1>7. StoreTyped'
  <2>1. count' \in [Jobs -> Int]
      BY <1>1, <1>6 DEF StoreTyped, Unblock
  <2>2. links' \subseteq Jobs \X Jobs
      BY <1>1 DEF StoreTyped, Unblock, Unlinked
  <2>3. twice' \subseteq added'
      BY <1>1, <1>3, <1>5 DEF StoreTyped, Unblock
  <2>4. /\ counted' \subseteq Jobs /\ named' \subseteq Jobs /\ queued' \subseteq Jobs
        /\ blocked' \subseteq Jobs
      BY <1>1, <1>5 DEF StoreTyped, Unblock
  <2> QED
      BY <1>1, <2>1, <2>2, <2>3, <2>4 DEF StoreTyped, Unblock
<1>8. StoreKnown'
    BY <1>1 DEF StoreKnown, Unblock, Unlinked
<1>9. CountsCredits'
  <2> SUFFICES ASSUME NEW j \in blocked'
               PROVE  /\ j \in counted' /\ j \in named' /\ count'[j] > 0
                      /\ count'[j] = pendingAt'[j] - Cardinality(Credited(j)')
      BY DEF CountsCredits
  <2>1. j \in blocked /\ j \in Jobs /\ j \notin AtZero(d)
      BY <1>1 DEF Unblock, StoreTyped
  <2>2. /\ j \in counted /\ j \in named /\ count[j] > 0 /\ count[j] \in Int
        /\ count[j] = pendingAt[j] - Cardinality(Credited(j)) /\ pendingAt[j] \in Nat
      BY <2>1, <1>1 DEF DagInv, CountsCredits, StoreTyped
  <2>3. j \in counted' /\ j \in named' /\ pendingAt' = pendingAt
      BY <2>1, <2>2 DEF Unblock
  <2>4. CASE j \in Waiters(d)
    <3>1. count'[j] = count[j] - 1 /\ Decremented(j) = count[j] - 1
        BY <2>1, <2>2, <2>4 DEF Unblock, Decremented
    <3>2. count[j] - 1 > 0
        BY <2>1, <2>2, <2>4, <3>1 DEF AtZero
    <3>3. d \in Deps(j) /\ d \notin Credited(j)
        BY <2>4, <1>1 DEF Waiters, StoreKnown, Credited
    <3>4. Credited(j)' = Credited(j) \cup {d}
        BY <3>3, <1>2 DEF Credited, Unblock, Unlinked
    <3>5. Cardinality(Credited(j)') = Cardinality(Credited(j)) + 1
        BY <3>3, <3>4, <2>1, DepsFinite, FS_AddElement
    <3>6. Cardinality(Credited(j)) \in Nat
        BY <2>1, DepsFinite
    <3> QED
        BY <2>2, <2>3, <3>1, <3>2, <3>5, <3>6
  <2>5. CASE j \notin Waiters(d)
    <3>1. count'[j] = count[j]
        BY <2>1, <2>5 DEF Unblock
    <3>2. Credited(j)' = Credited(j)
        BY <2>1, <2>5 DEF Credited, Unblock, Unlinked, Waiters
    <3> QED
        BY <2>2, <2>3, <3>1, <3>2
  <2> QED
      BY <2>4, <2>5
<1>10. blocked' \cap added \subseteq blocked
    BY DEF Unblock
<1> QED
    BY <1>3, <1>4, <1>7, <1>8, <1>9, <1>10, KeepsInv

LEMMA FinalizeDeadStep ==
    ASSUME DagInv, NEW r \in Runs, FinalizeDead(r)
    PROVE  DagInv'
<1>1. StoreTyped /\ StoreKnown
    BY InvParts
<1>2. job[r] \in added /\ job[r] \in Jobs
    BY InHandKnown DEF FinalizeDead
<1>3. added' = added /\ blocked' = blocked
    BY DEF FinalizeDead, history
<1>4. RunsKept
  <2>1. Goes(r, "dead") /\ job' = [job EXCEPT ![r] = job[r]]
        /\ todo' = [todo EXCEPT ![r] = <<>>]
      BY SameJob, EmptyTodo DEF FinalizeDead, Stages
  <2>2. "dead" \in Places \ Stages
      BY DEF Places, Stages
  <2> QED
      BY <2>1, <2>2, <1>2, <1>3, RunMoves DEF RunsKept
<1>5. StoreTyped'
    BY <1>1, <1>2 DEF StoreTyped, FinalizeDead, history
<1>6. StoreKnown'
    BY <1>1, <1>2 DEF StoreTyped, StoreKnown, FinalizeDead, history
<1>7. CountsCredits'
    BY CountsStay DEF FinalizeDead, history, DagInv, CountsCredits
<1> QED
    BY <1>3, <1>4, <1>5, <1>6, <1>7, KeepsInv
----------------------------------------------------------------------------
(***************************************************************************)
(* The cascade of a dead job.                                              *)
(***************************************************************************)
LEMMA StageKeeps ==
    ASSUME DagInv, NEW r \in Runs, NEW p \in Stages, NEW t \in Seq(Jobs),
           Goes(r, p), todo' = [todo EXCEPT ![r] = t], UNCHANGED job,
           t # <<>>, job[r] \in added, added' = added, blocked' \subseteq blocked,
           p # "hget" => Head(t) \in added,
           p \in {"count", "name", "zadd"} => Head(t) \notin blocked',
           StoreTyped', StoreKnown', CountsCredits'
    PROVE  DagInv'
<1>1. /\ at' = [at EXCEPT ![r] = p] /\ at \in [Runs -> Places] /\ p \in Places
      /\ todo \in [Runs -> Seq(Jobs)] /\ job \in [Runs -> Jobs \cup {None}]
    BY DEF Goes, DagInv, TypeOK, Stages, Places
<1>2. at' \in [Runs -> Places] /\ todo' \in [Runs -> Seq(Jobs)]
    BY <1>1
<1>3. ASSUME NEW s \in Runs
      PROVE  /\ at'[s] # "idle" => job'[s] \in added'
             /\ at'[s] \in Stages <=> todo'[s] # <<>>
             /\ at'[s] \in Stages \ {"hget"} => Head(todo'[s]) \in added'
             /\ at'[s] \in {"count", "name", "zadd"} => Head(todo'[s]) \notin blocked'
  <2>1. CASE s = r
      BY <2>1, <1>1
  <2>2. CASE s # r
      BY <2>2, <1>1 DEF DagInv, TypeOK, Known, CascadeOrder, Stages
  <2> QED
      BY <2>1, <2>2
<1>4. TypeOK'
    BY <1>1, <1>2, <1>3 DEF TypeOK, StoreTyped, Stages
<1> QED
    BY <1>3, <1>4 DEF DagInv, Known, StoreKnown, CascadeOrder

LEMMA WriteDlqStep ==
    ASSUME DagInv, NEW r \in Runs, WriteDlq(r)
    PROVE  DagInv'
<1>1. StoreTyped /\ StoreKnown
    BY InvParts
<1>2. job[r] \in added /\ job[r] \in Jobs
    BY InHandKnown DEF WriteDlq
<1>3. added' = added /\ blocked' = blocked
    BY DEF WriteDlq, history
<1>4. StoreTyped' /\ StoreKnown'
    BY <1>1, <1>2 DEF StoreTyped, StoreKnown, WriteDlq, history
<1>5. CountsCredits'
    BY CountsStay DEF WriteDlq, history, DagInv, CountsCredits
<1>6. CASE job[r] \in InFlow /\ Parents[job[r]] # <<>>
  <2>1. /\ Goes(r, "hget") /\ todo' = [todo EXCEPT ![r] = Parents[job[r]]]
        /\ UNCHANGED job
      BY <1>6 DEF WriteDlq
  <2>2. Parents[job[r]] \in Seq(Jobs) /\ "hget" \in Stages
      BY <1>2, DagAssumption DEF Stages
  <2> QED
      BY <1>2, <1>3, <1>4, <1>5, <1>6, <2>1, <2>2, StageKeeps
<1>7. CASE ~(job[r] \in InFlow /\ Parents[job[r]] # <<>>)
  <2>1. RunsKept
      BY <1>3, <1>7, OverKeeps DEF WriteDlq
  <2> QED
      BY <2>1, <1>3, <1>4, <1>5, KeepsInv
<1> QED
    BY <1>6, <1>7

LEMMA TailLeft ==
    ASSUME NEW S, NEW s \in Seq(S), s # <<>>, Len(s) # 1
    PROVE  Tail(s) \in Seq(S) /\ Tail(s) # <<>>
<1>1. Len(s) \in Nat \ {0}
    BY EmptySeq
<1>2. Tail(s) \in Seq(S) /\ Len(Tail(s)) = Len(s) - 1
    BY HeadTailProperties
<1>3. Len(Tail(s)) # 0
    BY <1>1, <1>2
<1> QED
    BY <1>2, <1>3, EmptySeq

LEMMA NextParentKeeps ==
    ASSUME DagInv, NEW r \in Runs, at[r] \in Stages, NextParent(r),
           added' = added, blocked' \subseteq blocked,
           StoreTyped', StoreKnown', CountsCredits'
    PROVE  DagInv'
<1>1. todo[r] # <<>> /\ todo[r] \in Seq(Jobs) /\ job[r] \in added
    BY DEF DagInv, TypeOK, Stages
<1>2. CASE Len(todo[r]) = 1
  <2>1. RunsKept
      BY <1>2, OverKeeps DEF NextParent
  <2> QED
      BY <2>1, KeepsInv
<1>3. CASE Len(todo[r]) # 1
  <2>1. Tail(todo[r]) \in Seq(Jobs) /\ Tail(todo[r]) # <<>>
      BY <1>1, <1>3, TailLeft
  <2>2. /\ Goes(r, "hget") /\ UNCHANGED job
        /\ todo' = [todo EXCEPT ![r] = Tail(todo[r])]
      BY <1>3 DEF NextParent
  <2>3. "hget" \in Stages
      BY DEF Stages
  <2> QED
      BY <1>1, <2>1, <2>2, <2>3, StageKeeps
<1> QED
    BY <1>2, <1>3

LEMMA CascadeStep ==
    ASSUME DagInv, NEW r \in Runs, Cascade(r)
    PROVE  DagInv'
<1> DEFINE p == Head(todo[r])
<1>1. StoreTyped /\ StoreKnown
    BY InvParts
<1>2. /\ at[r] \in Stages /\ todo[r] # <<>> /\ todo[r] \in Seq(Jobs)
      /\ job[r] \in added /\ p \in Jobs /\ at \in [Runs -> Places]
      /\ todo \in [Runs -> Seq(Jobs)]
    BY DEF Cascade, DagInv, TypeOK, Stages
<1>3. /\ added' = added
      /\ UNCHANGED <<adding, faults, settled, skipped, pendingAt, twice, lost>>
      /\ \/ forced' = forced
         \/ forced' = forced \cup ({p} \cap blocked)
    BY DEF Cascade
<1>4. at[r] # "hget" => p \in added
    BY <1>2 DEF DagInv, Known
<1>5. at[r] \in {"count", "name", "zadd"} => p \notin blocked
    BY DEF DagInv, CascadeOrder
<1>6. StoreTyped' /\ StoreKnown' /\ CountsCredits' /\ blocked' \subseteq blocked
  <2>1. blocked' \subseteq blocked /\ UNCHANGED <<links, count, pendingAt>>
      BY <1>3 DEF Cascade, storeVars
  <2>2. \A j \in blocked' : j \in blocked /\ j \in counted' /\ j \in named'
      BY <2>1, <1>5 DEF Cascade, storeVars, DagInv, CountsCredits
  <2>3. CountsCredits'
      BY <2>1, <2>2, CountsStay
  <2>4. StoreTyped'
    <3>1. forced' \subseteq added'
        BY <1>1, <1>3 DEF StoreTyped, StoreKnown
    <3> QED
        BY <1>1, <1>2, <1>3, <3>1 DEF StoreTyped, Cascade, storeVars
  <2>5. StoreKnown'
      BY <1>1, <1>2, <1>3, <1>4 DEF StoreTyped, StoreKnown, Cascade, storeVars
  <2> QED
      BY <2>1, <2>3, <2>4, <2>5
<1>7. CASE NextParent(r)
    BY <1>2, <1>3, <1>6, <1>7, NextParentKeeps
<1>8. CASE ~NextParent(r)
  <2>1. /\ at[r] # "zadd" /\ UNCHANGED <<job, todo>>
        /\ \/ at[r] = "hget" /\ Goes(r, "hset") /\ vault[p] # "absent"
           \/ at[r] = "hset" /\ Goes(r, "dlq")
           \/ at[r] = "dlq" /\ Goes(r, "hdel")
           \/ at[r] = "hdel" /\ Goes(r, "count") /\ blocked' = blocked \ {p}
           \/ at[r] = "count" /\ Goes(r, "name") /\ UNCHANGED blocked
           \/ at[r] = "name" /\ Goes(r, "zadd") /\ UNCHANGED blocked
      BY <1>8 DEF Cascade
  <2>2. p \in added
      BY <1>1, <1>2, <1>4, <2>1 DEF StoreKnown
  <2>3. todo' = [todo EXCEPT ![r] = todo[r]]
      BY <1>2, <2>1
  <2>4. PICK q \in Stages : /\ Goes(r, q)
                            /\ q \in {"count", "name", "zadd"} => p \notin blocked'
      BY <2>1, <1>5 DEF Stages
  <2> QED
      BY <1>2, <1>3, <1>6, <2>1, <2>2, <2>3, <2>4, StageKeeps
<1> QED
    BY <1>7, <1>8
----------------------------------------------------------------------------
(***************************************************************************)
(* Crashes, the watchdog, operators.                                       *)
(***************************************************************************)
LEMMA CrashStep ==
    ASSUME DagInv, NEW r \in Runs, Crash(r)
    PROVE  DagInv'
<1>1. StoreTyped /\ StoreKnown
    BY InvParts
<1>2. added' = added /\ blocked' = blocked
    BY DEF Crash, storeVars
<1>3. RunsKept
    BY <1>2, OverKeeps DEF Crash
<1>4. StoreTyped' /\ StoreKnown'
    BY <1>1 DEF StoreTyped, StoreKnown, Crash, Fault, storeVars, Waiters
<1>5. CountsCredits'
    BY CountsStay DEF Crash, storeVars, DagInv, CountsCredits
<1> QED
    BY <1>2, <1>3, <1>4, <1>5, KeepsInv

LEMMA RecoverRetryStep ==
    ASSUME DagInv, NEW j \in Jobs, Recover(j) \/ Retry(j)
    PROVE  DagInv'
<1>1. StoreTyped /\ StoreKnown
    BY InvParts
<1>2. added' = added /\ blocked' = blocked
    BY DEF Recover, Retry, history
<1>3. RunsKept
    BY <1>2, RunsSame DEF Recover, Retry, RunsKept
<1>4. j \in added
    BY <1>1 DEF Recover, Retry, StoreKnown
<1>5. StoreTyped'
    BY <1>1, <1>4 DEF StoreTyped, Recover, Retry, Fault, history
<1>6. StoreKnown'
    BY <1>1, <1>4 DEF StoreTyped, StoreKnown, Recover, Retry, history
<1>7. CountsCredits'
    BY CountsStay DEF Recover, Retry, history, DagInv, CountsCredits
<1> QED
    BY <1>2, <1>3, <1>5, <1>6, <1>7, KeepsInv

LEMMA StutterStep == ASSUME DagInv, UNCHANGED vars PROVE DagInv'
<1>1. StoreTyped /\ StoreKnown
    BY InvParts
<1>2. StoreTyped' /\ StoreKnown'
    BY <1>1 DEF StoreTyped, StoreKnown, vars, storeVars, history
<1>3. RunsKept
    BY RunsSame DEF vars, history, RunsKept
<1>4. CountsCredits'
    BY CountsStay DEF vars, storeVars, history, DagInv, CountsCredits
<1> QED
    BY <1>2, <1>3, <1>4, KeepsInv DEF vars, storeVars, history

LEMMA DagInit == Init => DagInv
<1> SUFFICES ASSUME Init PROVE DagInv
    OBVIOUS
<1>1. TypeOK
    BY DEF Init, TypeOK, Places
<1>2. Known /\ CascadeOrder /\ CountsCredits
    BY DEF Init, Known, CascadeOrder, CountsCredits, Stages
<1> QED
    BY <1>1, <1>2 DEF DagInv

LEMMA DagStep == DagInv /\ [Next]_vars => DagInv'
<1> SUFFICES ASSUME DagInv, [Next]_vars PROVE DagInv'
    OBVIOUS
<1>1. ASSUME NEW j \in Jobs,
             \/ AddPlain(j) \/ AddDependent(j) \/ PromoteIfUnblocked(j)
             \/ Recover(j) \/ Retry(j)
      PROVE  DagInv'
    BY <1>1, AddPlainStep, AddDependentStep, PromoteStep, RecoverRetryStep
<1>2. ASSUME NEW r \in Runs, RunSteps(r) PROVE DagInv'
    BY <1>2, FinalizeStep, FinalizeDeadStep, UnblockStep, WriteDlqStep, CascadeStep
       DEF RunSteps
<1>3. ASSUME NEW r \in Runs, Crash(r) \/ \E j \in Jobs : Dequeue(r, j)
      PROVE  DagInv'
    BY <1>3, CrashStep, DequeueStep
<1>4. CASE UNCHANGED vars
    BY <1>4, StutterStep
<1> QED
    BY <1>1, <1>2, <1>3, <1>4 DEF Next

\* The dependency state keeps its types.
THEOREM DagTyped == Spec => []TypeOK
<1>1. DagInv => TypeOK
    BY DEF DagInv
<1> QED
    BY <1>1, DagInit, DagStep, PTL DEF Spec

\* The count of a blocked job is what it was parked with, less one for each
\* parent that has been credited to it (addJob.lua:73-76, unblock.lua:20-24).
THEOREM CountsExact == Spec => []CountsCredits
<1>1. DagInv => CountsCredits
    BY DEF DagInv
<1> QED
    BY <1>1, DagInit, DagStep, PTL DEF Spec
-----------------------------------------------------------------------------
(***************************************************************************)
(* No job runs before what it waits for.                                   *)
(*                                                                         *)
(* A job is parked with at least as many parents to come as it has         *)
(* unfinished ones, and each parent credited to it has completed and was   *)
(* not finished before, or the job is in `twice'.  When its count reaches  *)
(* zero, as many unfinished parents as there are have been credited, so    *)
(* that every one has.                                                     *)
(***************************************************************************)
Owing(j) == Deps(j) \ skipped[j]
Ready(j) == Deps(j) \subseteq settled \cup skipped[j]

ReleasersSettled == \A r \in Runs : at[r] = "completed" => job[r] \in settled

WaitInv ==
    /\ ReleasersSettled
    /\ queued \cup active \subseteq added
    /\ \A j \in added : Credited(j) \subseteq settled
    /\ \A j \in (queued \cup active) \ forced : j \notin blocked
    /\ \A j \in blocked : Cardinality(Owing(j)) <= pendingAt[j]
    /\ \A j \in blocked \ twice : Credited(j) \cap skipped[j] = {}
    /\ \A j \in added \ (twice \cup forced) : j \in blocked \/ Ready(j)

\* Repeated parents are counted as often as they are listed.
LEMMA PendingCovers ==
    ASSUME NEW j \in Jobs
    PROVE  Cardinality({d \in Deps(j) : ~Done(d, QueueOf[j])}) <= Pending(j)
<1> DEFINE S == {i \in DOMAIN Parents[j] : ~Done(Parents[j][i], QueueOf[j])}
           T == {d \in Deps(j) : ~Done(d, QueueOf[j])}
           f == [i \in S |-> Parents[j][i]]
<1>1. IsFiniteSet(1..Len(Parents[j])) /\ Parents[j] \in Seq(Jobs)
    BY DagAssumption, FS_Interval
<1>2. IsFiniteSet(S)
  <2>1. S \in SUBSET (1..Len(Parents[j]))
    BY <1>1
  <2> QED
    BY <1>1, <2>1, FS_Subset
<1>3. f \in Surjection(S, T)
    BY DEF Surjection, Deps, ToSet
<1>4. Cardinality(T) <= Cardinality(S)
    BY <1>2, <1>3, FS_Surjection
<1> QED
    BY <1>4 DEF Pending

\* A step that neither adds a job nor credits a parent.
LEMMA WaitStays ==
    ASSUME DagInv, DagInv', WaitInv, ReleasersSettled',
           UNCHANGED <<links, added, skipped, pendingAt, twice>>,
           settled \subseteq settled', forced \subseteq forced',
           blocked' \subseteq blocked, blocked \ blocked' \subseteq forced',
           \A j \in (queued' \cup active') \ (queued \cup active) :
               j \in added /\ (j \in forced' \/ j \notin blocked)
    PROVE  WaitInv'
<1>1. \A j \in Jobs : Credited(j)' = Credited(j) /\ Owing(j)' = Owing(j)
    BY DEF Credited, Owing
<1>2. added \subseteq Jobs /\ blocked \subseteq added
    BY DEF DagInv, TypeOK, Known
<1> QED
    BY <1>1, <1>2 DEF WaitInv, Ready

LEMMA AddPlainWaits ==
    ASSUME DagInv, DagInv', WaitInv, NEW j \in Jobs, AddPlain(j) PROVE WaitInv'
<1>1. Deps(j) = {}
    BY DagAssumption DEF AddPlain, Deps, ToSet
<1>2. /\ added' = added \cup {j} /\ j \notin added /\ queued' = queued \cup {j}
      /\ UNCHANGED <<active, blocked, links, at, job, settled, skipped, pendingAt,
                     twice, forced>>
    BY DEF AddPlain, MayAdd, runVars
<1>3. \A k \in Jobs : Credited(k)' = Credited(k) /\ Owing(k)' = Owing(k)
    BY <1>2 DEF Credited, Owing
<1>4. added \subseteq Jobs /\ blocked \subseteq added
    BY DEF DagInv, TypeOK, Known
<1>5. Credited(j) = {}
    BY <1>1 DEF Credited
<1> QED
    BY <1>1, <1>2, <1>3, <1>4, <1>5 DEF WaitInv, ReleasersSettled, Ready

LEMMA AddDependentWaits ==
    ASSUME DagInv, DagInv', WaitInv, NEW j \in Jobs, AddDependent(j) PROVE WaitInv'
<1> DEFINE D == {d \in Deps(j) : Done(d, QueueOf[j])}
<1>1. /\ added' = added \cup {j} /\ j \notin added
      /\ links' = links \cup {<<d, j>> : d \in Deps(j)}
      /\ skipped' = [skipped EXCEPT ![j] = D]
      /\ pendingAt' = [pendingAt EXCEPT ![j] = Pending(j)]
      /\ UNCHANGED <<active, at, job, settled, twice, forced>>
    BY DEF AddDependent, MayAdd, runVars
<1>2. /\ added \subseteq Jobs /\ blocked \subseteq added /\ forced \subseteq added
      /\ skipped \in [Jobs -> SUBSET Jobs] /\ pendingAt \in [Jobs -> Nat]
    BY DEF DagInv, TypeOK, Known
<1>3. Credited(j)' = {} /\ skipped'[j] = D /\ pendingAt'[j] = Pending(j)
    BY <1>1, <1>2 DEF Credited
<1>4. \A k \in Jobs \ {j} : /\ Credited(k)' = Credited(k) /\ Owing(k)' = Owing(k)
                            /\ skipped'[k] = skipped[k] /\ pendingAt'[k] = pendingAt[k]
    BY <1>1, <1>2 DEF Credited, Owing
<1>5. Owing(j)' = {d \in Deps(j) : ~Done(d, QueueOf[j])}
    BY <1>3 DEF Owing
<1>6. Cardinality(Owing(j)') <= pendingAt'[j]
    BY <1>3, <1>5, PendingCovers
<1>7. \/ /\ Pending(j) = 0 /\ queued' = queued \cup {j} /\ blocked' = blocked
      \/ blocked' = blocked \cup {j} /\ queued' = queued
    BY DEF AddDependent
<1>8. Pending(j) = 0 => Ready(j)'
  <2>1. IsFiniteSet(Owing(j)') /\ Cardinality(Owing(j)') \in Nat
    <3>1. Owing(j)' \in SUBSET Jobs
      BY DepsFinite, <1>5
    <3> QED
      BY <3>1, DagAssumption, FS_Subset, FS_CardinalityType
  <2>2. Pending(j) = 0 => Owing(j)' = {}
    BY <1>3, <1>6, <2>1, FS_EmptySet
  <2> QED
    BY <2>2, <1>3 DEF Owing, Ready
<1>9. j \notin queued /\ j \notin active /\ j \notin blocked
    BY <1>1, <1>2 DEF WaitInv
<1>10. ReleasersSettled' /\ queued' \cup active' \subseteq added'
    BY <1>1, <1>7 DEF WaitInv, ReleasersSettled
<1>11. /\ \A k \in added' : Credited(k)' \subseteq settled'
       /\ \A k \in blocked' : Cardinality(Owing(k)') <= pendingAt'[k]
       /\ \A k \in blocked' \ twice' : Credited(k)' \cap skipped'[k] = {}
    BY <1>1, <1>2, <1>3, <1>4, <1>6, <1>7 DEF WaitInv
<1>12. \A k \in (queued' \cup active') \ forced' : k \notin blocked'
    BY <1>1, <1>7, <1>9 DEF WaitInv
<1>13. \A k \in added' \ (twice' \cup forced') : k \in blocked' \/ Ready(k)'
    BY <1>1, <1>2, <1>4, <1>7, <1>8 DEF WaitInv, Ready
<1> QED
    BY <1>10, <1>11, <1>12, <1>13 DEF WaitInv

LEMMA UnblockWaits ==
    ASSUME DagInv, DagInv', WaitInv, NEW r \in Runs, Unblock(r) PROVE WaitInv'
<1> DEFINE d == job[r]
<1>1. /\ at[r] = "completed" /\ links' = Unlinked(d) /\ Over(r)
      /\ queued' = queued \cup (AtZero(d) \cap blocked) /\ blocked' = blocked \ AtZero(d)
      /\ twice' = twice \cup {j \in Waiters(d) : d \in skipped[j]}
      /\ UNCHANGED <<active, added, settled, skipped, pendingAt, forced>>
    BY DEF Unblock
<1>2. d \in settled /\ d \in Jobs /\ added \subseteq Jobs /\ blocked \subseteq added
    BY <1>1 DEF WaitInv, ReleasersSettled, DagInv, TypeOK, Known
<1>3. \A j \in Jobs : /\ Credited(j)' = Credited(j) \cup ({d} \cap Deps(j))
                      /\ Owing(j)' = Owing(j) /\ Ready(j)' = Ready(j)
    BY <1>1, <1>2 DEF Credited, Unlinked, Owing, Ready
<1>4. \A j \in Jobs : j \in Waiters(d) \/ d \notin Deps(j) \/ d \in Credited(j)
    BY <1>2 DEF Waiters, Credited
<1>5. ReleasersSettled'
  <2>1. at' = [at EXCEPT ![r] = "idle"] /\ job' = [job EXCEPT ![r] = None]
        /\ at \in [Runs -> Places] /\ job \in [Runs -> Jobs \cup {None}]
    BY <1>1 DEF Over, Goes, DagInv, TypeOK
  <2> QED
    BY <2>1, <1>1 DEF WaitInv, ReleasersSettled
<1>6. /\ \A j \in added' : Credited(j)' \subseteq settled'
      /\ \A j \in blocked' : Cardinality(Owing(j)') <= pendingAt'[j]
    BY <1>1, <1>2, <1>3 DEF WaitInv
<1>7. \A j \in blocked' \ twice' : Credited(j)' \cap skipped'[j] = {}
    BY <1>1, <1>2, <1>3, <1>4 DEF WaitInv
<1>8. ASSUME NEW j \in AtZero(d) \cap blocked, j \notin twice' PROVE Ready(j)
  <2>1. j \in Waiters(d) /\ j \in Jobs /\ j \in added /\ j \notin twice /\ d \notin skipped[j]
    BY <1>1, <1>2, <1>8 DEF AtZero
  <2>2. d \in Deps(j) /\ d \notin Credited(j)
    BY <2>1 DEF Waiters, Credited, DagInv, Known
  <2>3. /\ count[j] \in Int /\ count[j] > 0 /\ pendingAt[j] \in Nat /\ j \in counted
        /\ count[j] = pendingAt[j] - Cardinality(Credited(j))
    BY <2>1, <1>8 DEF DagInv, CountsCredits, TypeOK
  <2>4. count[j] - 1 <= 0
    BY <1>8, <2>3 DEF AtZero, Decremented
  <2>5. IsFiniteSet(Credited(j)) /\ Cardinality(Credited(j)) \in Nat /\ IsFiniteSet(Owing(j))
        /\ Cardinality(Owing(j)) \in Nat
    <3>1. Owing(j) \in SUBSET Jobs
      BY DepsFinite, <2>1 DEF Owing
    <3> QED
      BY <3>1, <2>1, DepsFinite, DagAssumption, FS_Subset, FS_CardinalityType
  <2>6. Cardinality(Credited(j) \cup {d}) = Cardinality(Credited(j)) + 1
        /\ IsFiniteSet(Credited(j) \cup {d})
    BY <2>2, <2>5, FS_AddElement
  <2>7. Cardinality(Owing(j)) <= Cardinality(Credited(j) \cup {d})
    BY <1>8, <2>3, <2>4, <2>5, <2>6 DEF WaitInv
  <2>8. Credited(j) \cup {d} \in SUBSET Owing(j)
    BY <1>8, <2>1, <2>2 DEF WaitInv, Credited, Owing
  <2>9. Credited(j) \cup {d} = Owing(j)
    BY <2>5, <2>6, <2>7, <2>8, FS_Subset
  <2> QED
    BY <2>1, <2>9, <1>2 DEF WaitInv, Owing, Ready
<1>9. \A j \in added' \ (twice' \cup forced') : j \in blocked' \/ Ready(j)'
    BY <1>1, <1>2, <1>3, <1>8 DEF WaitInv
<1> QED
    BY <1>1, <1>2, <1>5, <1>6, <1>7, <1>9 DEF WaitInv

\* The other steps of runs.
LEMMA RunsWait ==
    ASSUME DagInv, DagInv', WaitInv, NEW r \in Runs,
           \/ Finalize(r) \/ FinalizeDead(r) \/ WriteDlq(r) \/ Cascade(r) \/ Crash(r)
           \/ \E j \in Jobs : Dequeue(r, j)
    PROVE  WaitInv'
<1>1. at \in [Runs -> Places] /\ job \in [Runs -> Jobs \cup {None}]
    BY DEF DagInv, TypeOK
<1>2. settled \subseteq settled'
    BY DEF Finalize, FinalizeDead, WriteDlq, Cascade, Crash, Dequeue, history
<1>3. \A s \in Runs \ {r} : at'[s] = at[s] /\ job'[s] = job[s]
    BY <1>1 DEF Finalize, FinalizeDead, WriteDlq, Cascade, NextParent, Crash, Dequeue, Over, Goes
<1>4. at'[r] = "completed" => job'[r] \in settled'
  <2>1. CASE Finalize(r)
    BY <1>1, <2>1 DEF Finalize, Over, Goes
  <2>2. CASE ~Finalize(r)
    BY <1>1, <2>2 DEF FinalizeDead, WriteDlq, Cascade, NextParent, Crash, Dequeue, Over, Goes,
                      WaitInv, ReleasersSettled
  <2> QED
    BY <2>1, <2>2
<1>5. ReleasersSettled'
    BY <1>2, <1>3, <1>4 DEF WaitInv, ReleasersSettled
<1>6. UNCHANGED <<links, added, skipped, pendingAt, twice>>
    BY DEF Finalize, FinalizeDead, WriteDlq, Cascade, Crash, Dequeue, history, storeVars
<1>7. /\ forced \subseteq forced' /\ blocked' \subseteq blocked
      /\ blocked \ blocked' \subseteq forced'
    BY DEF Finalize, FinalizeDead, WriteDlq, Cascade, Crash, Dequeue, history, storeVars
<1>8. queued' \cup active' \subseteq queued \cup active
    BY DEF Finalize, FinalizeDead, WriteDlq, Cascade, Crash, Dequeue, storeVars
<1> QED
    BY <1>2, <1>5, <1>6, <1>7, <1>8, WaitStays

\* The watchdog, operators and the producer's second call.
LEMMA OthersWait ==
    ASSUME DagInv, DagInv', WaitInv, NEW j \in Jobs,
           Recover(j) \/ Retry(j) \/ PromoteIfUnblocked(j)
    PROVE  WaitInv'
<1>1. ReleasersSettled'
    BY DEF Recover, Retry, PromoteIfUnblocked, runVars, history, WaitInv, ReleasersSettled
<1>2. UNCHANGED <<links, added, skipped, pendingAt, twice, settled>>
    BY DEF Recover, Retry, PromoteIfUnblocked, history
<1>3. CASE Recover(j)
  <2>1. /\ UNCHANGED <<blocked, forced>>
        /\ queued' \cup active' \subseteq queued \cup active
    BY <1>3 DEF Recover, Stalled, history
  <2> QED
    BY <1>1, <1>2, <2>1, WaitStays
<1>4. CASE Retry(j)
  <2>1. j \in added /\ UNCHANGED <<blocked, active>>
        /\ forced' = forced \cup {j} /\ queued' = queued \cup {j}
    BY <1>4 DEF Retry, DagInv, Known
  <2> QED
    BY <1>1, <1>2, <2>1, WaitStays
<1>5. CASE PromoteIfUnblocked(j)
  <2>1. j \in counted /\ count[j] <= 0 => j \notin blocked
    BY DEF DagInv, TypeOK, CountsCredits
  <2>2. j \in added /\ UNCHANGED <<active, forced>>
    BY <1>5 DEF PromoteIfUnblocked, history, DagInv, TypeOK
  <2>3. blocked' = blocked
    BY <1>5, <2>1 DEF PromoteIfUnblocked
  <2>4. \A k \in queued' \ queued : k = j /\ j \notin blocked
    BY <1>5, <2>1 DEF PromoteIfUnblocked
  <2> QED
    BY <1>1, <1>2, <2>2, <2>3, <2>4, WaitStays
<1> QED
    BY <1>3, <1>4, <1>5

LEMMA WaitStep == DagInv /\ WaitInv /\ [Next]_vars => WaitInv'
<1> SUFFICES ASSUME DagInv, WaitInv, [Next]_vars PROVE WaitInv'
    OBVIOUS
<1>1. DagInv'
    BY DagStep
<1>2. CASE UNCHANGED vars
  <2>1. ReleasersSettled'
    BY <1>2 DEF vars, runVars, history, WaitInv, ReleasersSettled
  <2> QED
    BY <1>1, <1>2, <2>1, WaitStays DEF vars, storeVars, history
<1> QED
    BY <1>1, <1>2, AddPlainWaits, AddDependentWaits, UnblockWaits, RunsWait, OthersWait
    DEF Next, RunSteps

LEMMA WaitInit == Init => WaitInv
BY DEF Init, WaitInv, ReleasersSettled

LEMMA WaitSuffices == DagInv /\ WaitInv => WaitsForParents
BY DEF DagInv, TypeOK, WaitInv, WaitsForParents, Ready

\* For every set of jobs and every dependency relation: what is queued or run
\* has seen all its parents through, but for the jobs that were credited twice,
\* retried, or taken out of the blocked hash (addJob.lua:40, unblock.lua:20).
THEOREM ParentsFirst == Spec => []WaitsForParents
BY WaitInit, WaitStep, WaitSuffices, DagInit, DagStep, PTL DEF Spec
=============================================================================
