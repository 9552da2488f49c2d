------------------------------ MODULE BatchRun ------------------------------
(***************************************************************************)
(* Batches: queue.addBulk stores many jobs under one batch id with a       *)
(* counter of the unfinished ones, and a worker with batchsize above one   *)
(* takes several jobs at once and settles them one after the other.        *)
(*                                                                         *)
(* A run is one asynchronous call of Worker._executeBatch.  Its renewal    *)
(* timers write the local copies, whose attempts the worker has counted    *)
(* once more; the two commands of a renewal are one step here, what comes  *)
(* between them and after them is the subject of JobExecution.             *)
(***************************************************************************)
EXTENDS JobStore, Integers

CONSTANTS
    Batches,    \* batch ids
    NoBatch,    \* the job was not created by addBulk yet
    Producers,  \* callers of addBulk
    BatchOf,    \* the batch id each of them names
    Items,      \* its jobs, a sequence
    Later,      \* the jobs given a delay
    Runs,       \* calls of _executeBatch
    BatchSize,  \* worker.options.batchsize
    MaxFaults   \* bound: crashes, lapsed leases, errors of listeners and commands

ASSUME BatchAssumption ==
    /\ BatchOf \in [Producers -> Batches] /\ Items \in [Producers -> Seq(Jobs)]
    /\ NoBatch \notin Batches
    /\ BatchSize \in Nat /\ BatchSize > 1 /\ MaxFaults \in Nat

VARIABLES
    call,    \* where each producer is in addBulk
    keyed,   \* the batch ids whose counter batch:{id}:count exists
    count,   \* its value, zero where it does not exist
    batch,   \* batchid of each job
    at,      \* where each run is
    verdict, \* the outcome it is giving its jobs
    taken,   \* its jobs, in order
    turn,    \* the index of the job being settled
    timed,   \* its jobs whose renewal timer is armed
    stray,   \* job objects renewed for ever by a run that is over
    faults

\* History: jobs that had an outcome; decremented, twice, or never to be; ids used by two bulks;
\* jobs whose lease lapsed, that a throwing listener sent to the dead, or
\* that were removed and stored anew.
VARIABLES closed, counted, twice, uncounted, shared, lapsed, relisted, again

runVars == <<at, verdict, taken, turn, timed, stray>>
history == <<closed, counted, twice, uncounted, shared, lapsed, relisted, again>>
vars == <<storeVars, call, keyed, count, batch, runVars, faults, history>>

Copy == [job : Jobs, rec : JobRec, batch : Batches]
Ats == {"idle", "handling", "script", "dlq", "count", "zero"}

TypeOK ==
    /\ StoreTypeOK
    /\ call \in [Producers -> {"idle", "checked", "empty", "refused", "done"}]
    /\ keyed \subseteq Batches /\ count \in [Batches -> Int]
    /\ \A b \in Batches \ keyed : count[b] = 0
    /\ batch \in [Jobs -> Batches \cup {NoBatch}]
    /\ at \in [Runs -> Ats]
    /\ verdict \in [Runs -> {"completed", "dead"}]
    /\ taken \in [Runs -> Seq(Copy)]
    /\ turn \in [Runs -> Nat]
    /\ timed \in [Runs -> SUBSET Jobs]
    /\ stray \subseteq Copy
    /\ faults \in 0..MaxFaults
    /\ shared \subseteq Batches
    /\ \A H \in {closed, counted, twice, uncounted, lapsed, relisted, again} : H \subseteq Jobs
    /\ \A r \in Runs : at[r] \notin {"idle", "handling"} => turn[r] \in DOMAIN taken[r]

Init ==
    /\ StoreInit
    /\ call = [p \in Producers |-> "idle"]
    /\ keyed = {} /\ count = [b \in Batches |-> 0]
    /\ batch = [j \in Jobs |-> NoBatch]
    /\ at = [r \in Runs |-> "idle"]
    /\ verdict = [r \in Runs |-> "completed"]
    /\ taken = [r \in Runs |-> <<>>]
    /\ turn = [r \in Runs |-> 0]
    /\ timed = [r \in Runs |-> {}] /\ stray = {}
    /\ faults = 0
    /\ closed = {} /\ counted = {} /\ twice = {} /\ uncounted = {} /\ shared = {}
    /\ lapsed = {} /\ relisted = {} /\ again = {}
----------------------------------------------------------------------------
(***************************************************************************)
(* addBulk: the id is looked up, the script stores what is new and sets    *)
(* the counter to the number of items, duplicates included, and a bulk     *)
(* that created nothing deletes it again.                                  *)
(***************************************************************************)
BulkCheck(p) ==
    /\ call[p] = "idle"
    /\ call' = [call EXCEPT ![p] = IF BatchOf[p] \in keyed THEN "refused"
                                   ELSE "checked"]
    /\ UNCHANGED <<storeVars, keyed, count, batch, runVars, faults, history>>

Created(p) == {j \in ToSet(Items[p]) : ~Present(vault, j)}

AddBulkScript(p) ==
    LET new == Created(p)
        now == new \ Later
        first(i) == \A k \in 1..(i - 1) : Items[p][k] # Items[p][i]
        places == {i \in DOMAIN Items[p] : Items[p][i] \in now \ Prioritised /\ first(i)}
    IN  /\ vault' = [j \in Jobs |-> IF j \in new THEN NewRec ELSE vault[j]]
        /\ \E w \in PartAt(Items[p], places) : waiting' = waiting \o w
        /\ prioritized' = prioritized \cup (now \cap Prioritised)
        /\ delayed' = delayed \cup (new \cap Later) /\ due' = due \ new
        /\ UNCHANGED <<active, expired, completed, failed, dlq>>

BulkScript(p) ==
    LET b == BatchOf[p] IN
    /\ call[p] = "checked"
    /\ AddBulkScript(p)
    /\ keyed' = keyed \cup {b} /\ count' = [count EXCEPT ![b] = Len(Items[p])]
    /\ batch' = [j \in Jobs |-> IF j \in Created(p) THEN b ELSE batch[j]]
    /\ call' = [call EXCEPT ![p] = IF Created(p) = {} THEN "empty" ELSE "done"]
    /\ shared' = IF \E o \in Producers \ {p} : BatchOf[o] = b /\ call[o] \in {"empty", "done"}
                 THEN shared \cup {b} ELSE shared
    /\ again' = again \cup (Created(p) \cap closed)
    /\ UNCHANGED <<runVars, faults, closed, counted, twice, uncounted, lapsed,
                   relisted>>

\* Mutant: the counter is reset, not deleted.
Zeroed(b) == UNCHANGED keyed /\ count' = [count EXCEPT ![b] = 0]
Deleted(b) == keyed' = keyed \ {b} /\ count' = [count EXCEPT ![b] = 0]

BulkEmpty(p) ==
    /\ call[p] = "empty"
    /\ Deleted(BatchOf[p])
    /\ call' = [call EXCEPT ![p] = "done"]
    /\ UNCHANGED <<storeVars, batch, runVars, faults, history>>
----------------------------------------------------------------------------
(***************************************************************************)
(* batchdequeue.lua: members of the prioritized ZSET are popped until      *)
(* enough of them have a record, then the head of the waiting list is      *)
(* looked at, no further than the jobs still wanted.  There an id without  *)
(* a record is passed over and stays.                                      *)
(***************************************************************************)
Popped(P) ==
    LET found == {j \in P : Present(vault, j)} IN
    /\ \A j \in P, k \in prioritized \ P : Score[j] <= Score[k]
    /\ Cardinality(found) <= BatchSize
    /\ \/ P = prioritized
       \/ /\ Cardinality(found) = BatchSize
          /\ \E j \in found : \A k \in P : Score[k] <= Score[j]

\* Mutant: the range ends one short.
HeadShort(P) ==
    LET wanted == BatchSize - Cardinality({j \in P : Present(vault, j)}) - 1
    IN  IF wanted < Len(waiting) THEN wanted ELSE Len(waiting)
HeadLength(P) ==
    LET wanted == BatchSize - Cardinality({j \in P : Present(vault, j)})
    IN  IF wanted < Len(waiting) THEN wanted ELSE Len(waiting)
HeadIds(P) == SubSeq(waiting, 1, HeadLength(P))
WithRecord(s) == PartAt(s, {i \in DOMAIN s : Present(vault, s[i])})
Ghosts(s) == PartAt(s, {i \in DOMAIN s : ~Present(vault, s[i])})

\* Mutant: the ids taken are not removed from the list.
NothingRemoved(P) == {waiting}
LeftWaiting(P) ==
    {g \o SubSeq(waiting, HeadLength(P) + 1, Len(waiting)) : g \in Ghosts(HeadIds(P))}

\* What it returns: the members with a record by score, then those of the list.
Batch(P) ==
    {q \o h : q \in {o \in Orders({j \in P : Present(vault, j)}) :
                        \A a, b \in DOMAIN o : a < b => Score[o[a]] <= Score[o[b]]},
              h \in WithRecord(HeadIds(P))}

BatchDequeueScript(P, ids) ==
    /\ Popped(P)
    /\ ids \in Batch(P)
    /\ prioritized' = prioritized \ P
    /\ waiting' \in LeftWaiting(P)
    /\ vault' = [j \in Jobs |-> IF j \in ToSet(ids) THEN PickedUp(vault[j]) ELSE vault[j]]
    /\ active' = active \cup ToSet(ids) /\ expired' = expired \ ToSet(ids)
    /\ UNCHANGED <<delayed, due, completed, failed, dlq>>

\* The worker counts an attempt of its own on each copy (worker.js:229).
Counted(rec) == [rec EXCEPT !.attempts = @ + 1]

BatchFetch(r) ==
    /\ at[r] = "idle"
    /\ \E P \in SUBSET prioritized : \E ids \in Batch(P) :
        /\ BatchDequeueScript(P, ids)
        /\ IF ids = <<>> THEN UNCHANGED runVars
           ELSE /\ at' = [at EXCEPT ![r] = "handling"]
                /\ taken' = [taken EXCEPT ![r] =
                       [i \in DOMAIN ids |->
                           [job |-> ids[i], rec |-> Counted(vault'[ids[i]]), batch |-> batch[ids[i]]]]]
                /\ timed' = [timed EXCEPT ![r] = ToSet(ids)]
                /\ UNCHANGED <<verdict, turn, stray>>
    /\ UNCHANGED <<call, keyed, count, batch, faults, history>>

Armed(r) == {taken[r][i] : i \in {n \in DOMAIN taken[r] : taken[r][n].job \in timed[r]}}
Renewed == stray \cup UNION {Armed(r) : r \in Runs}
Renew ==
    \E h \in Renewed :
        /\ vault' = [vault EXCEPT ![h.job] = h.rec]
        /\ batch' = [batch EXCEPT ![h.job] = h.batch]
        /\ active' = active \cup {h.job} /\ expired' = expired \ {h.job}
        /\ UNCHANGED <<waiting, prioritized, delayed, due, completed, failed, dlq>>
        /\ UNCHANGED <<call, keyed, count, runVars, faults, history>>

\* The worker of a run that is over stops, or dies (worker.js:235).
StrayEnds ==
    /\ \E h \in stray : stray' = stray \ {h}
    /\ UNCHANGED <<storeVars, call, keyed, count, batch, at, verdict, taken, turn, timed,
                   faults, history>>
----------------------------------------------------------------------------
(***************************************************************************)
(* The handler is over.  The jobs are settled in turn: their timer is      *)
(* cleared, the finalize script runs, a dead one is written to the DLQ,    *)
(* the batch counter is decremented, and deleted if it is zero.            *)
(***************************************************************************)
Mine(r) == taken[r][turn[r]].job
Batchid(r) == taken[r][turn[r]].batch
Has(r) == {taken[r][i].job : i \in DOMAIN taken[r]}

\* Mutant: the loop starts one too low.
SettleFromZero(r, outcome) ==
    /\ verdict' = [verdict EXCEPT ![r] = outcome]
    /\ turn' = [turn EXCEPT ![r] = 0]
    /\ at' = [at EXCEPT ![r] = "script"]
    /\ UNCHANGED <<taken, timed, stray>>

Settle(r, outcome) ==
    /\ verdict' = [verdict EXCEPT ![r] = outcome]
    /\ turn' = [turn EXCEPT ![r] = 1]
    /\ at' = [at EXCEPT ![r] = "script"]
    /\ timed' = [timed EXCEPT ![r] = @ \ {taken[r][1].job}]
    /\ UNCHANGED <<taken, stray>>

HandlerEnds(r) ==
    /\ at[r] = "handling"
    /\ \E outcome \in {"completed", "dead"} : Settle(r, outcome)
    /\ UNCHANGED <<storeVars, call, keyed, count, batch, faults, history>>

FinalizeBatchJob(r) ==
    /\ at[r] = "script"
    /\ \E E \in SUBSET Jobs : FinalizeScript(Mine(r), verdict[r], E)
    /\ at' = [at EXCEPT ![r] = IF verdict[r] = "dead" THEN "dlq" ELSE "count"]
    /\ closed' = closed \cup {Mine(r)}
    /\ UNCHANGED <<call, keyed, count, batch, verdict, taken, turn, timed, stray, faults,
                   counted, twice, uncounted, shared, lapsed, relisted, again>>

WriteDlq(r) ==
    /\ at[r] = "dlq"
    /\ dlq' = dlq \cup {Mine(r)}
    /\ at' = [at EXCEPT ![r] = "count"]
    /\ UNCHANGED <<vault, waiting, prioritized, active, expired, delayed, due,
                   completed, failed>>
    /\ UNCHANGED <<call, keyed, count, batch, verdict, taken, turn, timed, stray, faults, history>>

Over(r) ==
    /\ at' = [at EXCEPT ![r] = "idle"]
    /\ turn' = [turn EXCEPT ![r] = 0]
    /\ timed' = [timed EXCEPT ![r] = {}]
    /\ taken' = [taken EXCEPT ![r] = <<>>]
    /\ verdict' = [verdict EXCEPT ![r] = "completed"]

Emitted(r) ==
    IF turn[r] < Len(taken[r])
    THEN /\ turn' = [turn EXCEPT ![r] = @ + 1]
         /\ at' = [at EXCEPT ![r] = "script"]
         /\ timed' = [timed EXCEPT ![r] = @ \ {taken[r][turn[r] + 1].job}]
         /\ UNCHANGED <<verdict, taken, stray>>
    ELSE Over(r) /\ UNCHANGED stray

\* An exception out of the loop over the completed jobs sends every job of
\* the batch to the dead ones; out of that second loop it leaves what timers
\* are armed to renew jobs that nobody will settle.
Thrown(r) ==
    IF verdict[r] = "completed"
    THEN /\ Settle(r, "dead")
         /\ relisted' = relisted \cup Has(r)
    ELSE /\ Over(r)
         /\ stray' = stray \cup Armed(r)
         /\ UNCHANGED relisted

Fault == faults < MaxFaults /\ faults' = faults + 1

\* The job's event is emitted, and its listener may throw.
Emit(r) ==
    \/ Emitted(r) /\ UNCHANGED <<faults, relisted>>
    \/ Fault /\ Thrown(r)

\* Mutant: the number of jobs in the batch is taken off for each of them.
RemainingAll(r, b) == count[b] - Len(taken[r])
Remaining(r, b) == count[b] - 1

Decrement(r) ==
    LET j == Mine(r) b == Batchid(r) left == Remaining(r, b) IN
    /\ at[r] = "count"
    /\ keyed' = keyed \cup {b} /\ count' = [count EXCEPT ![b] = left]
    /\ IF left = 0
       THEN /\ at' = [at EXCEPT ![r] = "zero"]
            /\ UNCHANGED <<verdict, taken, turn, timed, stray, faults, relisted>>
       ELSE Emit(r)
    /\ twice' = IF j \in counted THEN twice \cup {j} ELSE twice
    /\ counted' = counted \cup {j}
    /\ UNCHANGED <<storeVars, call, batch, closed, uncounted, shared, lapsed, again>>

DeleteCounter(r) ==
    /\ at[r] = "zero"
    /\ Deleted(Batchid(r))
    /\ Emit(r)
    /\ UNCHANGED <<storeVars, call, batch, closed, counted, twice, uncounted, shared,
                   lapsed, again>>

\* finalizejob catches what its commands throw and emits 'error', which
\* throws in turn if nobody listens.
CommandFails(r) ==
    /\ at[r] # "idle" /\ at[r] # "handling" /\ Fault
    /\ \/ Emitted(r) /\ UNCHANGED <<relisted>>
       \/ Thrown(r)
    /\ uncounted' = uncounted \cup {Mine(r)}
    /\ UNCHANGED <<storeVars, call, keyed, count, batch, closed, counted, twice, shared,
                   lapsed, again>>

Crash(r) ==
    /\ Fault /\ at[r] # "idle"
    /\ Over(r) /\ UNCHANGED stray
    /\ uncounted' = uncounted \cup Has(r)
    /\ UNCHANGED <<storeVars, call, keyed, count, batch, closed, counted, twice, shared,
                   lapsed, relisted, again>>
----------------------------------------------------------------------------
(***************************************************************************)
(* The scheduler and the clock, as in JobExecution.  A recovery that finds *)
(* the attempts used up does not touch the counter.                        *)
(***************************************************************************)
Orphans == {h.job : h \in stray}
InHand(j) == j \in Orphans \/ \E r \in Runs : j \in Has(r)

RecoverStalled ==
    /\ RecoverScript
    /\ uncounted' = uncounted \cup StalledDead
    /\ closed' = closed \cup StalledDead
    /\ UNCHANGED <<call, keyed, count, batch, runVars, faults, counted, twice, shared,
                   lapsed, relisted, again>>

Promote ==
    /\ PromoteScript
    /\ UNCHANGED <<call, keyed, count, batch, runVars, faults, history>>

Due(j) ==
    /\ TimeComes(j)
    /\ UNCHANGED <<call, keyed, count, batch, runVars, faults, history>>

\* Of a worker that is gone, or of one whose event loop is stuck.
LeaseExpires(j) ==
    /\ ~InHand(j) /\ LeaseRunsOut(j)
    /\ UNCHANGED <<call, keyed, count, batch, runVars, faults, history>>

Stuck(r) ==
    LET mine == Has(r) \cap active IN
    /\ Fault /\ mine \ expired # {}
    /\ expired' = expired \cup mine
    /\ lapsed' = lapsed \cup mine
    /\ UNCHANGED <<vault, waiting, prioritized, active, delayed, due,
                   completed, failed, dlq>>
    /\ UNCHANGED <<call, keyed, count, batch, runVars, closed, counted, twice, uncounted,
                   shared, relisted, again>>

Next ==
    \/ \E p \in Producers : BulkCheck(p) \/ BulkScript(p) \/ BulkEmpty(p)
    \/ \E r \in Runs :
        \/ BatchFetch(r) \/ HandlerEnds(r)
        \/ FinalizeBatchJob(r) \/ WriteDlq(r) \/ Decrement(r) \/ DeleteCounter(r)
        \/ CommandFails(r) \/ Crash(r) \/ Stuck(r)
    \/ Renew \/ StrayEnds \/ RecoverStalled \/ Promote
    \/ \E j \in Jobs : Due(j) \/ LeaseExpires(j)

Spec == Init /\ [][Next]_vars
----------------------------------------------------------------------------
Of(b) == {j \in Jobs : batch[j] = b}

\* What was sent under the id, whatever became of it since.
Sent(b) == UNION {ToSet(Items[p]) : p \in {o \in Producers :
                                              BatchOf[o] = b /\ call[o] \in {"empty", "done"}}}

(***************************************************************************)
(* addBulk refuses an id while its counter exists (queue.js:137), so the   *)
(* counter must last until the batch is settled.  It does, unless the      *)
(* check of one bulk let another one in, or a job sent under the id was    *)
(* decremented twice or stored anew: then it may be gone early, and comes  *)
(* back below zero and for good.                                           *)
(***************************************************************************)
CounterOutlivesJobs ==
    \A b \in Batches \ shared :
        /\ count[b] <= 0 /\ Sent(b) \cap (twice \cup again) = {}
        => Of(b) \subseteq closed

(***************************************************************************)
(* And a settled batch gives its id back, unless an item was a duplicate   *)
(* (counted by addBulk.lua, decremented by nobody), a decrement was lost   *)
(* with its worker or made by none (recoverStalled.lua), or made twice.    *)
(***************************************************************************)
Exact(p) == Cardinality(Of(BatchOf[p])) = Len(Items[p])
IdComesBack ==
    \A p \in Producers :
        LET b == BatchOf[p] IN
        /\ call[p] = "done" /\ b \notin shared /\ Exact(p)
        /\ Of(b) \subseteq closed /\ \A j \in Of(b) : ~InHand(j)
        /\ Of(b) \cap (twice \cup uncounted \cup again) = {}
        => b \notin keyed

(***************************************************************************)
(* A job of a batch has one outcome, unless its lease lapsed under a run,  *)
(* it was removed and stored anew, or an exception sent the whole batch,   *)
(* the completed jobs included, to the dead ones (worker.js:299).          *)
(***************************************************************************)
OneVerdict ==
    completed \cap (failed \cup dlq) \subseteq lapsed \cup relisted \cup again

(***************************************************************************)
(* No job is in the hands of two runs, or twice in those of one, unless    *)
(* its lease lapsed while a run had it (it is then queued again, and the   *)
(* head of the list may hold its id twice), or it was removed, and stored  *)
(* anew while a run had it.                                                *)
(***************************************************************************)
TakenOnce ==
    \A r, s \in Runs : \A i \in DOMAIN taken[r], k \in DOMAIN taken[s] :
        taken[r][i].job = taken[s][k].job /\ <<r, i>> # <<s, k>>
            => taken[r][i].job \in lapsed \cup again

(***************************************************************************)
(* The batch dequeue returns less than a batch only if it returns every    *)
(* queued job that has a record, or looked at an id without one: such ids  *)
(* are never removed, and enough of them at the head hide the rest of the  *)
(* list for good (batchdequeue.lua:42).                                    *)
(***************************************************************************)
Takeable == {j \in Queued : Present(vault, j)}
DequeueFillsBatch ==
    \A P \in SUBSET prioritized :
        LET found == {j \in P \cup ToSet(HeadIds(P)) : Present(vault, j)} IN
        /\ Popped(P) /\ \A j \in ToSet(HeadIds(P)) : Present(vault, j)
        => found = Takeable
           \/ Cardinality({j \in P : Present(vault, j)}) + HeadLength(P) >= BatchSize

\* No job of a batch is run by two at once or has two outcomes, but for the
\* lapses, crashes and exceptions that TakenOnce and OneVerdict name.
JobsOfBatchSound == TypeOK /\ TakenOnce /\ OneVerdict

\* The counter of a batch is there as long as its id must be refused, and no
\* longer, but for what CounterOutlivesJobs and IdComesBack name (queue.js:137,
\* worker.js:571).
CounterSound == CounterOutlivesJobs /\ IdComesBack
=============================================================================
