------------------------------ MODULE JobStore ------------------------------
(***************************************************************************)
(* The Redis state of one queue and the Lua scripts that change it.        *)
(*                                                                         *)
(* Redis runs a script to its end before it looks at another client, so    *)
(* each script is one atomic operator here, and the modules that describe  *)
(* the JavaScript clients build their actions from these operators.        *)
(*                                                                         *)
(* Time is abstracted by two sets: a job of `expired' is an entry of the   *)
(* active ZSET whose score (the lease's end) has passed, a job of `due' is *)
(* an entry of the delayed ZSET whose execution time has come.  A vault    *)
(* entry keeps what the scripts branch on.  The wake-up tokens of the      *)
(* signal lists are the subject of WakeTokens; here a fetcher may look at  *)
(* the queue at any time.                                                  *)
(***************************************************************************)
EXTENDS Naturals, Sequences, FiniteSets, SequencesExt

CONSTANTS
    Jobs,              \* job ids
    MaxRetries,        \* maxretries of each job, clamped to 0..100 by Job
    Prioritised,       \* the jobs created with a priority above zero
    Score,             \* their score in the prioritized ZSET
    RemoveOnComplete,  \* how many completed jobs are kept, 0 for all
    RemoveOnFail       \* how many failed jobs are kept, 0 for all

ASSUME JobsAssumption == IsFiniteSet(Jobs) /\ Prioritised \subseteq Jobs
ASSUME OptionsAssumption == /\ MaxRetries \in [Jobs -> Nat]
                            /\ Score \in [Jobs -> Nat]
                            /\ RemoveOnComplete \in Nat
                            /\ RemoveOnFail \in Nat

VARIABLES
    vault,        \* jobs HASH: the stored JSON of each job
    waiting,      \* waiting LIST, head first; an id may be in it twice
    prioritized,  \* prioritized ZSET
    active,       \* active ZSET
    expired,      \* the active entries whose lease has run out
    delayed,      \* delayed ZSET
    due,          \* the delayed entries whose time has come
    completed,    \* completed ZSET
    failed,       \* failed ZSET
    dlq           \* dead-letter HASH

storeVars == <<vault, waiting, prioritized, active, expired, delayed, due,
               completed, failed, dlq>>

(***************************************************************************)
(* The fields of a stored job that steer the code.  `picked' is            *)
(* "processedOn is set"; the status "absent" stands for HEXISTS = 0.       *)
(***************************************************************************)
Statuses == {"waiting", "active", "retrying", "completed", "dead"}
JobRec == [status : Statuses, attempts : Nat, picked : BOOLEAN]
Absent == [status |-> "absent", attempts |-> 0, picked |-> FALSE]
NewRec == [status |-> "waiting", attempts |-> 0, picked |-> FALSE]

Present(v, j) == v[j] # Absent

StoreTypeOK ==
    /\ vault \in [Jobs -> JobRec \cup {Absent}]
    /\ waiting \in Seq(Jobs)
    /\ prioritized \subseteq Jobs
    /\ active \subseteq Jobs /\ expired \subseteq active
    /\ delayed \subseteq Jobs /\ due \subseteq delayed
    /\ completed \subseteq Jobs /\ failed \subseteq Jobs /\ dlq \subseteq Jobs

StoreInit ==
    /\ vault = [j \in Jobs |-> Absent]
    /\ waiting = <<>>
    /\ prioritized = {} /\ active = {} /\ expired = {}
    /\ delayed = {} /\ due = {}
    /\ completed = {} /\ failed = {} /\ dlq = {}

Queued == ToSet(waiting) \cup prioritized

(***************************************************************************)
(* Helpers.  A ZSET range comes in score order, and the scores are times   *)
(* of different machines: any order is possible.  A part of a sequence, as *)
(* what LREM leaves, is the one sequence of its elements in their order.   *)
(***************************************************************************)
Orders(S) == {q \in [1..Cardinality(S) -> S] :
                 \A j \in S : \E i \in DOMAIN q : q[i] = j}

PartAt(s, keep) ==
    LET places == {q \in Orders(keep) :
                      \A a, b \in DOMAIN q : a < b => q[a] < q[b]}
    IN  {[i \in DOMAIN q |-> s[q[i]]] : q \in places}

LRem(s, e) == PartAt(s, {i \in DOMAIN s : s[i] # e})

\* RPUSH of the jobs of S without a priority, ZADD of the others.
Enqueue(S) ==
    /\ \E q \in Orders(S \ Prioritised) : waiting' = waiting \o q
    /\ prioritized' = prioritized \cup (S \cap Prioritised)

(***************************************************************************)
(* addJob.lua in immediate mode, and addDelayed.lua.                       *)
(***************************************************************************)
\* Mutant: the HEXISTS check is forgotten.
AddJobTwice(j) ==
    /\ vault' = [vault EXCEPT ![j] = NewRec]
    /\ Enqueue({j})
    /\ UNCHANGED <<active, expired, delayed, due, completed, failed, dlq>>

AddJobScript(j) ==
    /\ ~Present(vault, j)
    /\ vault' = [vault EXCEPT ![j] = NewRec]
    /\ Enqueue({j})
    /\ UNCHANGED <<active, expired, delayed, due, completed, failed, dlq>>

AddDelayedScript(j) ==
    /\ ~Present(vault, j)
    /\ vault' = [vault EXCEPT ![j] = NewRec]
    /\ delayed' = delayed \cup {j} /\ due' = due \ {j}
    /\ UNCHANGED <<waiting, prioritized, active, expired,
                   completed, failed, dlq>>

(***************************************************************************)
(* dequeue.lua: the lowest score of the prioritized ZSET, or the head of   *)
(* the waiting list when that set is empty, becomes active with a fresh    *)
(* lease.  An attempt is counted on the first pickup only.  An id without  *)
(* a vault entry is taken off the queue and forgotten.                     *)
(***************************************************************************)
\* Mutant: LINDEX in place of LPOP.
PopKeepsHead(j) ==
    \/ /\ j \in prioritized
       /\ prioritized' = prioritized \ {j}
       /\ UNCHANGED waiting
    \/ /\ prioritized = {} /\ waiting # <<>> /\ j = Head(waiting)
       /\ UNCHANGED <<waiting, prioritized>>

Pop(j) ==
    \/ /\ j \in prioritized
       /\ \A k \in prioritized : Score[j] <= Score[k]
       /\ prioritized' = prioritized \ {j}
       /\ UNCHANGED waiting
    \/ /\ prioritized = {}
       /\ waiting # <<>> /\ j = Head(waiting)
       /\ waiting' = Tail(waiting)
       /\ UNCHANGED prioritized

PickedUp(r) == [status   |-> "active",
                attempts |-> IF r.picked THEN r.attempts ELSE r.attempts + 1,
                picked   |-> TRUE]

\* The lease of j, taken from the store as it is after v, act and lapsed.
Lease(j, v, act, exp) ==
    IF Present(v, j)
    THEN /\ vault' = [v EXCEPT ![j] = PickedUp(v[j])]
         /\ active' = act \cup {j}
         /\ expired' = exp \ {j}
    ELSE vault' = v /\ active' = act /\ expired' = exp

DequeueScript(j) ==
    /\ Pop(j)
    /\ Lease(j, vault, active, expired)
    /\ UNCHANGED <<delayed, due, completed, failed, dlq>>

(***************************************************************************)
(* finalizeJob.lua.  The vault entry is rewritten if it is still there,    *)
(* the index entry is made in any case, and the oldest entries above the   *)
(* cap are evicted.  Finish times are the workers' clocks, so "oldest" may *)
(* be any of them.                                                         *)
(***************************************************************************)
Finished(v, j, outcome) ==
    IF Present(v, j) THEN [v EXCEPT ![j].status = outcome] ELSE v

Evictions(index, cap) ==
    {E \in SUBSET index :
        Cardinality(E) = IF cap > 0 /\ Cardinality(index) > cap
                         THEN Cardinality(index) - cap ELSE 0}

WithoutEntries(v, E) == [j \in Jobs |-> IF j \in E THEN Absent ELSE v[j]]

FinalVault(j, outcome, E) == WithoutEntries(Finished(vault, j, outcome), E)

FinalizeIndexes(j, outcome, E) ==
    IF outcome = "completed"
    THEN /\ E \in Evictions(completed \cup {j}, RemoveOnComplete)
         /\ completed' = (completed \cup {j}) \ E
         /\ UNCHANGED <<failed, dlq>>
    ELSE /\ E \in Evictions(failed \cup {j}, RemoveOnFail)
         /\ failed' = (failed \cup {j}) \ E
         /\ dlq' = dlq \ E
         /\ UNCHANGED completed

\* Mutant: the lease is not removed.
FinalizeKeepsLease(j, outcome, E) ==
    /\ FinalizeIndexes(j, outcome, E)
    /\ vault' = FinalVault(j, outcome, E)
    /\ UNCHANGED <<active, expired, waiting, prioritized, delayed, due>>

\* fetchNext = '0', or nothing to fetch.
FinalizeScript(j, outcome, E) ==
    /\ FinalizeIndexes(j, outcome, E)
    /\ vault' = FinalVault(j, outcome, E)
    /\ active' = active \ {j} /\ expired' = expired \ {j}
    /\ UNCHANGED <<waiting, prioritized, delayed, due>>

\* Mutant: the fetching form forgets the lease of the finished job.
FetchKeepsLease(j, outcome, E, k) ==
    /\ FinalizeIndexes(j, outcome, E)
    /\ Pop(k)
    /\ Lease(k, FinalVault(j, outcome, E), active, expired)
    /\ UNCHANGED <<delayed, due>>

\* fetchNext = '1': the same script dequeues k.
FinalizeFetchScript(j, outcome, E, k) ==
    /\ FinalizeIndexes(j, outcome, E)
    /\ Pop(k)
    /\ Lease(k, FinalVault(j, outcome, E), active \ {j}, expired \ {j})
    /\ UNCHANGED <<delayed, due>>

(***************************************************************************)
(* promote.lua: everything due goes back to its queue, also an id that has *)
(* lost its vault entry (its priority is then unknown and it is appended   *)
(* to the waiting list).                                                   *)
(***************************************************************************)
\* Mutant: the whole delayed set is cleared with what is due.
PromoteClearsAll ==
    LET ranked == {j \in due \cap Prioritised : Present(vault, j)} IN
    /\ due # {}
    /\ \E q \in Orders(due \ ranked) : waiting' = waiting \o q
    /\ prioritized' = prioritized \cup ranked
    /\ delayed' = {} /\ due' = {}
    /\ UNCHANGED <<vault, active, expired, completed, failed, dlq>>

PromoteScript ==
    LET ranked == {j \in due \cap Prioritised : Present(vault, j)} IN
    /\ due # {}
    /\ \E q \in Orders(due \ ranked) : waiting' = waiting \o q
    /\ prioritized' = prioritized \cup ranked
    /\ delayed' = delayed \ due /\ due' = {}
    /\ UNCHANGED <<vault, active, expired, completed, failed, dlq>>

(***************************************************************************)
(* recoverStalled.lua: every lapsed lease is removed; its job goes to the  *)
(* dead-letter queue if its attempts are used up, else back to its queue.  *)
(* An id without a vault entry just leaves the active set.                 *)
(***************************************************************************)
StalledDead == {j \in expired : /\ Present(vault, j)
                                /\ vault[j].attempts >= MaxRetries[j]}
\* Mutant: an off-by-one in the retry budget, so that a job is in neither set.
StalledBackEarly == {j \in expired : /\ Present(vault, j)
                                     /\ vault[j].attempts + 1 < MaxRetries[j]}
StalledBack == {j \in expired : /\ Present(vault, j)
                                /\ vault[j].attempts < MaxRetries[j]}

RecoverScript ==
    /\ expired # {}
    /\ vault' = [j \in Jobs |->
                    IF j \in StalledDead THEN [vault[j] EXCEPT !.status = "dead"]
                    ELSE IF j \in StalledBack
                         THEN [vault[j] EXCEPT !.status = "waiting"]
                    ELSE vault[j]]
    /\ Enqueue(StalledBack)
    /\ dlq' = dlq \cup StalledDead
    /\ failed' = failed \cup StalledDead
    /\ active' = active \ expired /\ expired' = {}
    /\ UNCHANGED <<delayed, due, completed>>

(***************************************************************************)
(* retry.lua, with the record the client made of the dead-letter entry;    *)
(* signal.lua; drain.lua.                                                  *)
(***************************************************************************)
\* Mutant: the entry of the failed index stays.
RetryKeepsFailed(j, rec) ==
    /\ dlq' = dlq \ {j}
    /\ vault' = [vault EXCEPT ![j] = rec]
    /\ IF j \in Prioritised
       THEN prioritized' = prioritized \cup {j} /\ UNCHANGED waiting
       ELSE waiting' = Append(waiting, j) /\ UNCHANGED prioritized
    /\ UNCHANGED <<active, expired, delayed, due, completed, failed>>

RetryScript(j, rec) ==
    /\ dlq' = dlq \ {j} /\ failed' = failed \ {j}
    /\ vault' = [vault EXCEPT ![j] = rec]
    /\ IF j \in Prioritised
       THEN prioritized' = prioritized \cup {j} /\ UNCHANGED waiting
       ELSE /\ \E w \in LRem(waiting, j) : waiting' = Append(w, j)
            /\ UNCHANGED prioritized
    /\ UNCHANGED <<active, expired, delayed, due, completed>>

\* Mutant: the retry time is computed but the ZADD is missing.
SignalNothing(j) == j \in Jobs /\ UNCHANGED storeVars

SignalScript(j) ==
    /\ delayed' = delayed \cup {j} /\ due' = due \ {j}
    /\ UNCHANGED <<vault, waiting, prioritized, active, expired,
                   completed, failed, dlq>>

DrainScript ==
    /\ vault' = WithoutEntries(vault, Queued \cup delayed)
    /\ waiting' = <<>> /\ prioritized' = {}
    /\ delayed' = {} /\ due' = {}
    /\ UNCHANGED <<active, expired, completed, failed, dlq>>

(***************************************************************************)
(* The clock: a lease runs out, a delayed job's time comes.                *)
(***************************************************************************)
LeaseRunsOut(j) ==
    /\ j \in active \ expired
    /\ expired' = expired \cup {j}
    /\ UNCHANGED <<vault, waiting, prioritized, active, delayed, due,
                   completed, failed, dlq>>

TimeComes(j) ==
    /\ j \in delayed \ due
    /\ due' = due \cup {j}
    /\ UNCHANGED <<vault, waiting, prioritized, active, expired, delayed,
                   completed, failed, dlq>>
=============================================================================
