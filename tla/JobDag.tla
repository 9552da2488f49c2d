------------------------------- MODULE JobDag -------------------------------
(***************************************************************************)
(* Jobs that wait for other jobs.  The option `parent' of a job lists the  *)
(* jobs it waits for; addJob.lua parks it in the blocked hash with a count *)
(* of the unfinished ones, and a worker that finished a job runs           *)
(* unblock.lua, which releases the jobs whose count it brings to zero.     *)
(*                                                                         *)
(* Finishing a job and releasing its dependents are two scripts, issued by *)
(* one run of _executeJob with an await in between; a death is followed by *)
(* a series of single commands (worker.js:546-569).                        *)
(*                                                                         *)
(* The order of the queues, leases that lapse under a run and attempts     *)
(* that are repeated are the subject of JobExecution: here the waiting     *)
(* list and the prioritized ZSET are one set, and a run lasts until the    *)
(* job's last attempt.  The sets dependent:d:children: and                 *)
(* dependent:j:parent: always change together: they are one relation.      *)
(***************************************************************************)
EXTENDS Integers, Sequences, FiniteSets, SequencesExt

CONSTANTS
    Jobs,              \* job ids
    Parents,           \* `parent': the jobs each job waits for
    QueueOf,           \* the queue of each job
    InFlow,            \* jobs whose `flow' is true, false or 'fan-out'
    AddedAfter,        \* jobs a producer adds before it adds this one
    Failing,           \* jobs that may die
    RemoveOnComplete,  \* how many completed jobs are kept, 0 for all
    Runs,              \* runs of _executeJob
    None,              \* no job
    MaxFaults          \* bound: crashes and operators' retries

ASSUME DagAssumption == /\ IsFiniteSet(Jobs) /\ None \notin Jobs
                        /\ Parents \in [Jobs -> Seq(Jobs)]
                        /\ AddedAfter \in [Jobs -> SUBSET Jobs]
                        /\ RemoveOnComplete \in Nat

VARIABLES
    vault,      \* status in the stored JSON; "absent" for no entry
    queued,     \* waiting or prioritized
    active,     \* active ZSET
    blocked,    \* blocked HASH
    completed,  \* completed ZSET
    failed,     \* failed ZSET
    dlq,        \* dead-letter HASH
    links,      \* <<d, j>>: j is in the set of jobs that wait for d
    count,      \* value of job:j:count
    counted,    \* jobs whose job:j:count exists
    named       \* jobs whose job:j:name exists

VARIABLES
    at,         \* where each run is
    job,        \* its job
    todo,       \* what is left of job.parent in the dead-job cascade
    adding,     \* jobs whose producer has promoteIfUnblocked to call
    faults

\* History.
VARIABLES
    added,      \* jobs that were added
    settled,    \* jobs that have been completed once
    skipped,    \* per job, the parents found finished when it was added
    pendingAt,  \* per job, the count it was parked with
    twice,      \* jobs an uncounted parent has been credited to
    lost,       \* jobs a counted parent's completion will not be credited to
    forced      \* jobs an operator has retried, or the death of a job that
                \* was released too early has taken out of the blocked hash

storeVars == <<vault, queued, active, blocked, completed, failed, dlq,
               links, count, counted, named>>
runVars == <<at, job, todo>>
history == <<added, settled, skipped, pendingAt, twice, lost, forced>>
vars == <<storeVars, runVars, adding, faults, history>>

Deps(j) == ToSet(Parents[j])

Places == {"idle", "running", "completed", "dead",
           "hget", "hset", "dlq", "hdel", "count", "name", "zadd"}

TypeOK ==
    /\ vault \in [Jobs -> {"absent", "waiting", "active", "completed", "dead"}]
    /\ queued \subseteq Jobs /\ active \subseteq Jobs /\ blocked \subseteq Jobs
    /\ completed \subseteq Jobs /\ failed \subseteq Jobs /\ dlq \subseteq Jobs
    /\ links \subseteq Jobs \X Jobs
    /\ count \in [Jobs -> Int] /\ counted \subseteq Jobs /\ named \subseteq Jobs
    /\ at \in [Runs -> Places] /\ job \in [Runs -> Jobs \cup {None}]
    /\ todo \in [Runs -> Seq(Jobs)]
    /\ adding \subseteq added /\ faults \in Nat
    /\ added \subseteq Jobs /\ settled \subseteq added
    /\ skipped \in [Jobs -> SUBSET Jobs] /\ pendingAt \in [Jobs -> Nat]
    /\ twice \subseteq added /\ lost \subseteq added /\ forced \subseteq added
    /\ \A r \in Runs : at[r] # "idle" => job[r] \in added
    /\ \A r \in Runs : at[r] \in {"hget", "hset", "dlq", "hdel", "count", "name",
                                  "zadd"} <=> todo[r] # <<>>

Init ==
    /\ vault = [j \in Jobs |-> "absent"]
    /\ queued = {} /\ active = {} /\ blocked = {}
    /\ completed = {} /\ failed = {} /\ dlq = {}
    /\ links = {} /\ count = [j \in Jobs |-> 0] /\ counted = {} /\ named = {}
    /\ at = [r \in Runs |-> "idle"]
    /\ job = [r \in Runs |-> None]
    /\ todo = [r \in Runs |-> <<>>]
    /\ adding = {} /\ faults = 0
    /\ added = {} /\ settled = {}
    /\ skipped = [j \in Jobs |-> {}] /\ pendingAt = [j \in Jobs |-> 0]
    /\ twice = {} /\ lost = {} /\ forced = {}

Waiters(d) == {j \in Jobs : <<d, j>> \in links}
Releasing(d) == \E r \in Runs : at[r] = "completed" /\ job[r] = d
Fault == faults < MaxFaults /\ faults' = faults + 1
----------------------------------------------------------------------------
(***************************************************************************)
(* queue.add, addJob.lua.  A parent counts as finished if it is in the     *)
(* completed ZSET or the dead-letter hash of the new job's own queue.      *)
(***************************************************************************)
\* Mutant: only the dead-letter hash is looked at.
DoneDeadOnly(d, q) == QueueOf[d] = q /\ d \in dlq

Done(d, q) == QueueOf[d] = q /\ (d \in completed \/ d \in dlq)

Pending(j) == Cardinality({i \in DOMAIN Parents[j] : ~Done(Parents[j][i], QueueOf[j])})

MayAdd(j) ==
    /\ j \notin added /\ AddedAfter[j] \subseteq added
    /\ added' = added \cup {j}
    /\ vault' = [vault EXCEPT ![j] = "waiting"]

\* A job that waits for nothing.
AddPlain(j) ==
    /\ Parents[j] = <<>>
    /\ MayAdd(j)
    /\ queued' = queued \cup {j}
    /\ UNCHANGED <<active, blocked, completed, failed, dlq, links, count, counted, named>>
    /\ UNCHANGED <<runVars, adding, faults, settled, skipped, pendingAt, twice, lost, forced>>

\* A parent whose completion was missed: it has run its unblock, and the
\* script cannot see that it is finished.
Missed(j) == \E d \in Deps(j) : /\ d \in settled /\ ~Releasing(d)
                                /\ QueueOf[d] # QueueOf[j] \/ d \notin completed \cup dlq

AddDependent(j) ==
    /\ Parents[j] # <<>>
    /\ MayAdd(j)
    /\ links' = links \cup {<<d, j>> : d \in Deps(j)}
    /\ skipped' = [skipped EXCEPT ![j] = {d \in Deps(j) : Done(d, QueueOf[j])}]
    /\ pendingAt' = [pendingAt EXCEPT ![j] = Pending(j)]
    /\ lost' = IF Missed(j) THEN lost \cup {j} ELSE lost
    /\ IF Pending(j) = 0
       THEN /\ queued' = queued \cup {j}
            /\ UNCHANGED <<blocked, count, counted, named, adding>>
       ELSE /\ blocked' = blocked \cup {j}
            /\ count' = [count EXCEPT ![j] = Pending(j)]
            /\ counted' = counted \cup {j} /\ named' = named \cup {j}
            /\ adding' = adding \cup {j}
            /\ UNCHANGED queued
    /\ UNCHANGED <<active, completed, failed, dlq>>
    /\ UNCHANGED <<runVars, faults, settled, twice, forced>>

\* The producer's second call, promoteIfUnblocked.lua.
PromoteIfUnblocked(j) ==
    /\ j \in adding /\ adding' = adding \ {j}
    /\ IF j \in counted /\ count[j] <= 0
       THEN /\ counted' = counted \ {j} /\ named' = named \ {j}
            /\ blocked' = blocked \ {j}
            /\ queued' = queued \cup {j}
       ELSE UNCHANGED <<counted, named, blocked, queued>>
    /\ UNCHANGED <<vault, active, completed, failed, dlq, links, count>>
    /\ UNCHANGED <<runVars, faults, history>>
----------------------------------------------------------------------------
(***************************************************************************)
(* A run: dequeue, handler, finalize, and what _postFinalize does after it.*)
(***************************************************************************)
Goes(r, place) == at' = [at EXCEPT ![r] = place]

\* Mutant: the place is left with the cascade unfinished.
OverEarly(r) == Goes(r, "idle") /\ job' = [job EXCEPT ![r] = None] /\ UNCHANGED todo

Over(r) == /\ Goes(r, "idle") /\ job' = [job EXCEPT ![r] = None]
           /\ todo' = [todo EXCEPT ![r] = <<>>]

Dequeue(r, j) ==
    /\ at[r] = "idle" /\ j \in queued
    /\ queued' = queued \ {j}
    /\ IF vault[j] = "absent" THEN UNCHANGED <<active, vault, at, job>>
       ELSE /\ active' = active \cup {j}
            /\ vault' = [vault EXCEPT ![j] = "active"]
            /\ Goes(r, "running") /\ job' = [job EXCEPT ![r] = j]
    /\ UNCHANGED <<blocked, completed, failed, dlq, links, count, counted, named>>
    /\ UNCHANGED <<todo, adding, faults, history>>

\* The eviction guard: jobs others wait for, or that have a count, stay.
\* Entries come in the order of the workers' clocks, that is in any order.
Guarded(d) == d \in counted \/ Waiters(d) # {}
Evictions(index) ==
    {E \in SUBSET index :
        /\ Cardinality(E) = IF RemoveOnComplete > 0 /\ Cardinality(index) > RemoveOnComplete
                            THEN Cardinality(index) - RemoveOnComplete ELSE 0}

Finalize(r) ==
    LET j == job[r]
        index == {d \in completed : QueueOf[d] = QueueOf[j]} \cup {j}
    IN
    /\ at[r] = "running"
    /\ \E oldest \in Evictions(index) :
        LET E == {d \in oldest : ~Guarded(d)} IN
        /\ completed' = (completed \cup {j}) \ E
        /\ vault' = [d \in Jobs |-> IF d \in E THEN "absent"
                                    ELSE IF d = j /\ vault[j] # "absent" THEN "completed"
                                    ELSE vault[d]]
    /\ active' = active \ {j}
    /\ settled' = settled \cup {j}
    /\ IF j \in InFlow THEN Goes(r, "completed") /\ UNCHANGED <<job, todo>> ELSE Over(r)
    /\ lost' = IF j \in InFlow THEN lost ELSE lost \cup Waiters(j)
    /\ UNCHANGED <<queued, blocked, failed, dlq, links, count, counted, named>>
    /\ UNCHANGED <<adding, faults, added, skipped, pendingAt, twice, forced>>

\* unblock.lua.  DECR of a key that is gone makes it -1.
Decremented(j) == IF j \in counted THEN count[j] - 1 ELSE -1

\* Mutant: released one parent too early.
AtZeroEarly(d) == {j \in Waiters(d) \cap named : Decremented(j) <= 1}
AtZero(d) == {j \in Waiters(d) \cap named : Decremented(j) <= 0}

\* Mutant: the relationship is not removed.
UnlinkedKeeps(d) == IF d \in Jobs THEN links ELSE {}
Unlinked(d) == {l \in links : l[1] # d}

Unblock(r) ==
    LET d == job[r] IN
    /\ at[r] = "completed"
    /\ links' = Unlinked(d)
    /\ count' = [j \in Jobs |-> IF j \in Waiters(d) THEN Decremented(j) ELSE count[j]]
    /\ counted' = (counted \cup Waiters(d)) \ AtZero(d)
    /\ named' = named \ AtZero(d)
    /\ queued' = queued \cup (AtZero(d) \cap blocked)
    /\ blocked' = blocked \ AtZero(d)
    /\ twice' = twice \cup {j \in Waiters(d) : d \in skipped[j]}
    /\ Over(r)
    /\ UNCHANGED <<vault, active, completed, failed, dlq>>
    /\ UNCHANGED <<adding, faults, added, settled, skipped, pendingAt, lost, forced>>

(***************************************************************************)
(* A death, with removeOnFail 0: failed jobs are not evicted.  The run     *)
(* writes the dead-letter entry and then, in seven commands for each,      *)
(* marks the jobs of job.parent in its own queue dead as well.             *)
(***************************************************************************)
FinalizeDead(r) ==
    LET j == job[r] IN
    /\ at[r] = "running" /\ j \in Failing
    /\ vault' = IF vault[j] = "absent" THEN vault ELSE [vault EXCEPT ![j] = "dead"]
    /\ active' = active \ {j} /\ failed' = failed \cup {j}
    /\ Goes(r, "dead")
    /\ UNCHANGED <<queued, blocked, completed, dlq, links, count, counted, named>>
    /\ UNCHANGED <<job, todo, adding, faults, history>>

WriteDlq(r) ==
    /\ at[r] = "dead"
    /\ dlq' = dlq \cup {job[r]}
    /\ IF job[r] \in InFlow /\ Parents[job[r]] # <<>>
       THEN Goes(r, "hget") /\ todo' = [todo EXCEPT ![r] = Parents[job[r]]] /\ UNCHANGED job
       ELSE Over(r)
    /\ UNCHANGED <<vault, queued, active, blocked, completed, failed, links, count,
                   counted, named>>
    /\ UNCHANGED <<adding, faults, history>>

\* On to the next of job.parent.
NextParent(r) ==
    IF Len(todo[r]) = 1 THEN Over(r)
    ELSE Goes(r, "hget") /\ todo' = [todo EXCEPT ![r] = Tail(@)] /\ UNCHANGED job

Cascade(r) ==
    LET p == Head(todo[r]) IN
    /\ todo[r] # <<>>
    /\ \/ /\ at[r] = "hget"
          /\ IF vault[p] = "absent" \/ QueueOf[p] # QueueOf[job[r]] THEN NextParent(r)
             ELSE Goes(r, "hset") /\ UNCHANGED <<job, todo>>
          /\ UNCHANGED storeVars
       \/ /\ at[r] = "hset" /\ Goes(r, "dlq")
          /\ vault' = [vault EXCEPT ![p] = "dead"]
          /\ UNCHANGED <<job, todo, queued, active, blocked, completed, failed, dlq,
                         links, count, counted, named>>
       \/ /\ at[r] = "dlq" /\ Goes(r, "hdel")
          /\ dlq' = dlq \cup {p}
          /\ UNCHANGED <<job, todo, vault, queued, active, blocked, completed, failed,
                         links, count, counted, named>>
       \/ /\ at[r] = "hdel" /\ Goes(r, "count")
          /\ blocked' = blocked \ {p} /\ forced' = forced \cup ({p} \cap blocked)
          /\ UNCHANGED <<job, todo, vault, queued, active, completed, failed, dlq,
                         links, count, counted, named>>
       \/ /\ at[r] = "count" /\ Goes(r, "name")
          /\ counted' = counted \ {p}
          /\ UNCHANGED <<job, todo, vault, queued, active, blocked, completed, failed,
                         dlq, links, count, named>>
       \/ /\ at[r] = "name" /\ Goes(r, "zadd")
          /\ named' = named \ {p}
          /\ UNCHANGED <<job, todo, vault, queued, active, blocked, completed, failed,
                         dlq, links, count, counted>>
       \/ /\ at[r] = "zadd" /\ NextParent(r)
          /\ failed' = failed \cup {p}
          /\ UNCHANGED <<vault, queued, active, blocked, completed, dlq, links, count,
                         counted, named>>
    /\ at[r] # "hdel" => UNCHANGED forced
    /\ UNCHANGED <<adding, faults, added, settled, skipped, pendingAt, twice, lost>>
----------------------------------------------------------------------------
(***************************************************************************)
(* A worker dies; the watchdog finds the job it ran (and takes it as       *)
(* unfinished, or as out of attempts, with no cascade); an operator        *)
(* retries a dead job.                                                     *)
(***************************************************************************)
Crash(r) ==
    /\ at[r] # "idle" /\ Fault
    /\ Over(r)
    /\ lost' = IF at[r] = "completed"
               THEN lost \cup {j \in Waiters(job[r]) : job[r] \notin skipped[j]} ELSE lost
    /\ UNCHANGED <<storeVars, adding, added, settled, skipped, pendingAt, twice, forced>>

Stalled(j) == j \in active /\ \A r \in Runs : ~(at[r] = "running" /\ job[r] = j)

Recover(j) ==
    /\ Stalled(j)
    /\ active' = active \ {j}
    /\ \/ /\ vault[j] # "absent"
          /\ vault' = [vault EXCEPT ![j] = "waiting"]
          /\ queued' = queued \cup {j}
          /\ UNCHANGED <<failed, dlq>>
       \/ /\ vault[j] # "absent" /\ j \in Failing
          /\ vault' = [vault EXCEPT ![j] = "dead"]
          /\ failed' = failed \cup {j} /\ dlq' = dlq \cup {j}
          /\ UNCHANGED queued
    /\ UNCHANGED <<blocked, completed, links, count, counted, named>>
    /\ UNCHANGED <<runVars, adding, faults, history>>

Retry(j) ==
    /\ j \in dlq /\ Fault
    /\ dlq' = dlq \ {j} /\ failed' = failed \ {j}
    /\ vault' = [vault EXCEPT ![j] = "waiting"]
    /\ queued' = queued \cup {j}
    /\ forced' = forced \cup {j}
    /\ UNCHANGED <<active, blocked, completed, links, count, counted, named>>
    /\ UNCHANGED <<runVars, adding, added, settled, skipped, pendingAt, twice, lost>>

RunSteps(r) == Finalize(r) \/ FinalizeDead(r) \/ Unblock(r) \/ WriteDlq(r) \/ Cascade(r)

Next ==
    \/ \E j \in Jobs : \/ AddPlain(j) \/ AddDependent(j) \/ PromoteIfUnblocked(j)
                       \/ Recover(j) \/ Retry(j)
    \/ \E r \in Runs : RunSteps(r) \/ Crash(r) \/ \E j \in Jobs : Dequeue(r, j)

Spec == Init /\ [][Next]_vars

(***************************************************************************)
(* Fairness.  Workers fetch and their runs go on, the watchdog sweeps.     *)
(***************************************************************************)
Fairness ==
    /\ \A r \in Runs : WF_vars(RunSteps(r))
    /\ \A j \in Jobs : /\ WF_vars(\E r \in Runs : Dequeue(r, j))
                       /\ WF_vars(Recover(j))

FairSpec == Spec /\ Fairness
----------------------------------------------------------------------------
(***************************************************************************)
(* The count of a blocked job is what it was parked with less one for each *)
(* parent that has been released to it, and is positive: no order of adds, *)
(* completions, deaths and retries decrements twice for one parent.        *)
(***************************************************************************)
Credited(j) == {d \in Deps(j) : <<d, j>> \notin links}

CountsCredits ==
    \A j \in blocked :
        /\ j \in counted \cap named
        /\ count[j] = pendingAt[j] - Cardinality(Credited(j))
        /\ count[j] > 0

(***************************************************************************)
(* A job is queued or run only when every job it waits for has completed   *)
(* once, or was found finished when it was added; unless a parent that was *)
(* not counted has been credited to it, an operator has retried it, or the *)
(* death of such a job has taken it out of the blocked hash: an unblock    *)
(* that comes then leaves it a count below zero and without a name, by     *)
(* which promoteIfUnblocked.lua queues it.                                 *)
(***************************************************************************)
WaitsForParents ==
    \A j \in queued \cup active :
        j \in twice \cup forced \/ Deps(j) \subseteq settled \cup skipped[j]

(***************************************************************************)
(* A blocked job whose parents have all completed is released, unless the  *)
(* completion of one of them could not be seen when it was added, or the   *)
(* worker died between the finalize script and unblock.                    *)
(***************************************************************************)
Released == \A j \in Jobs :
    j \in blocked /\ Deps(j) \subseteq settled ~> j \notin blocked \/ j \in lost
=============================================================================
