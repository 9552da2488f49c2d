---------------------------- MODULE JobExecution ----------------------------
(***************************************************************************)
(* The life of the jobs of one queue: producers add them, executions of    *)
(* Worker._executeJob hold them under a renewed lease, the scheduler       *)
(* promotes delayed jobs and recovers stalled ones, operators retry and    *)
(* drain, worker processes crash.                                          *)
(*                                                                         *)
(* A slot is one asynchronous run of _executeJob, of any worker process.   *)
(* Its Redis commands leave on one connection in the order it issues them, *)
(* but every await lets other clients in between, and its lease-renewal    *)
(* timer runs beside it, even after it, with the same job object.          *)
(***************************************************************************)
EXTENDS JobStore

CONSTANTS
    Slots,       \* runs of _executeJob
    Clients,     \* callers of queue.retry
    None,        \* no job object
    MaxCalls,    \* bound: calls of add, retry and drain
    MaxWaiting,  \* bound: length of the waiting list
    MaxFaults    \* bound: crashes plus lapsed leases

ASSUME BoundsAssumption ==
    MaxCalls \in Nat /\ MaxWaiting \in Nat /\ MaxFaults \in Nat

VARIABLES
    pc,       \* where each slot is
    held,     \* its job object (the local `job'), or None
    next,     \* the job object fetched by the finalize script, or None
    renew,    \* its renewal timer
    reading,  \* the retry each client has read from the DLQ, or None
    calls,    \* how many calls producers and operators have made
    faults    \* how many faults happened

\* History: what the properties compare the state with.
VARIABLES
    closed,     \* jobs that have an outcome, or were never added
    gapLost,    \* jobs whose worker died between zrem and signal
    dlqLost,    \* dead jobs whose worker died before the DLQ write
    lapsed,     \* jobs whose lease ran out while a slot was executing them
    disturbed   \* jobs whose record was changed by a run that is over, or
                \* that were retried without being dead

execVars == <<pc, held, next, renew>>
history == <<closed, gapLost, dlqLost, lapsed, disturbed>>
vars == <<storeVars, execVars, reading, calls, faults, history>>

Handle == [job : Jobs, rec : JobRec]
ASSUME NoneAssumption == None \notin Handle /\ None \notin Jobs

(***************************************************************************)
(* running    the handler runs, or its outcome is not yet written          *)
(* finalized  the finalize script has run, _executeJob goes on             *)
(* parked     handleFailure has written the vault (worker.js:631)          *)
(* gap        ... and removed the lease, signal is next (632, 633)         *)
(* dead       the finalize script recorded death, the DLQ write is next    *)
(*                                                                         *)
(* A renewal is armed, has written the vault (hset), or waits for its      *)
(* replies (reply).  A slot that is idle with a renewal is a timer that    *)
(* outlived its execution.                                                 *)
(***************************************************************************)
Pcs == {"idle", "running", "finalized", "parked", "gap", "dead"}
Renewals == {"off", "armed", "hset", "reply"}

TypeOK ==
    /\ StoreTypeOK
    /\ pc \in [Slots -> Pcs]
    /\ held \in [Slots -> Handle \cup {None}]
    /\ next \in [Slots -> Handle \cup {None}]
    /\ renew \in [Slots -> Renewals]
    /\ reading \in [Clients -> Jobs \cup {None}]
    /\ calls \in Nat /\ faults \in Nat
    /\ closed \subseteq Jobs /\ gapLost \subseteq Jobs /\ dlqLost \subseteq Jobs
    /\ lapsed \subseteq Jobs /\ disturbed \subseteq Jobs
    /\ \A s \in Slots : pc[s] # "idle" => held[s] # None
    /\ \A s \in Slots : renew[s] # "off" => held[s] # None
    /\ \A s \in Slots : next[s] # None => pc[s] = "finalized"

Init ==
    /\ StoreInit
    /\ pc = [s \in Slots |-> "idle"]
    /\ held = [s \in Slots |-> None]
    /\ next = [s \in Slots |-> None]
    /\ renew = [s \in Slots |-> "off"]
    /\ reading = [c \in Clients |-> None]
    /\ calls = 0 /\ faults = 0
    /\ closed = Jobs
    /\ gapLost = {} /\ dlqLost = {} /\ lapsed = {} /\ disturbed = {}

Free(s) == pc[s] = "idle" /\ renew[s] = "off"
Runs(s, j) == pc[s] = "running" /\ held[s].job = j
InHand(j) == \E s \in Slots : \/ (pc[s] # "idle" /\ held[s].job = j)
                             \/ (next[s] # None /\ next[s].job = j)

\* Commands of a slot follow a renewal's two commands on the connection.
InOrder(s) == renew[s] # "hset"

\* `finally': clearTimeout stops a timer that is armed, not one that fired.
TimerCleared(s) == IF renew[s] = "armed" THEN "off" ELSE renew[s]

\* Mutant: the job fetched with the finalization is not let go of.
EndsKeepingNext(s, r) ==
    /\ pc' = [pc EXCEPT ![s] = "idle"]
    /\ renew' = [renew EXCEPT ![s] = r]
    /\ held' = IF r = "off" THEN [held EXCEPT ![s] = None] ELSE held
    /\ UNCHANGED next

\* The slot's run is over; only an outliving timer still has the object.
Ends(s, r) ==
    /\ pc' = [pc EXCEPT ![s] = "idle"]
    /\ renew' = [renew EXCEPT ![s] = r]
    /\ held' = IF r = "off" THEN [held EXCEPT ![s] = None] ELSE held
    /\ next' = [next EXCEPT ![s] = None]
----------------------------------------------------------------------------
(***************************************************************************)
(* Producers: queue.add.                                                   *)
(***************************************************************************)
Add(j) ==
    /\ AddJobScript(j)
    /\ Len(waiting) < MaxWaiting
    /\ calls < MaxCalls /\ calls' = calls + 1
    /\ closed' = closed \ {j}
    /\ UNCHANGED <<execVars, reading, faults, gapLost, dlqLost, lapsed, disturbed>>

AddLater(j) ==
    /\ AddDelayedScript(j)
    /\ calls < MaxCalls /\ calls' = calls + 1
    /\ closed' = closed \ {j}
    /\ UNCHANGED <<execVars, reading, faults, gapLost, dlqLost, lapsed, disturbed>>

Drain ==
    /\ Queued \cup delayed # {}
    /\ DrainScript
    /\ calls < MaxCalls /\ calls' = calls + 1
    /\ closed' = closed \cup Queued \cup delayed
    /\ UNCHANGED <<execVars, reading, faults, gapLost, dlqLost, lapsed, disturbed>>

(***************************************************************************)
(* queue.retry: the entry is read, then the script runs.  The record keeps *)
(* processedOn and starts again from zero attempts.                        *)
(***************************************************************************)
RetryRead(c, j) ==
    /\ reading[c] = None
    /\ j \in dlq
    /\ calls < MaxCalls /\ calls' = calls + 1
    /\ reading' = [reading EXCEPT ![c] = j]
    /\ UNCHANGED <<storeVars, execVars, faults, history>>

Retry(c) ==
    LET j == reading[c] IN
    /\ j # None
    /\ Len(waiting) < MaxWaiting
    /\ RetryScript(j, [status |-> "waiting", attempts |-> 0, picked |-> TRUE])
    /\ reading' = [reading EXCEPT ![c] = None]
    /\ closed' = closed \ {j}
    /\ disturbed' = IF j \in closed \cap failed THEN disturbed
                    ELSE disturbed \cup {j}
    /\ UNCHANGED <<execVars, calls, faults, gapLost, dlqLost, lapsed>>
----------------------------------------------------------------------------
(***************************************************************************)
(* The fetcher: dequeue, and hand the job to a free run.                   *)
(***************************************************************************)
Fetch(s, j) ==
    /\ Free(s)
    /\ DequeueScript(j)
    /\ IF Present(vault, j)
       THEN /\ pc' = [pc EXCEPT ![s] = "running"]
            /\ held' = [held EXCEPT ![s] = [job |-> j, rec |-> vault'[j]]]
            /\ renew' = [renew EXCEPT ![s] = "armed"]
       ELSE UNCHANGED <<pc, held, renew>>
    /\ UNCHANGED <<next, reading, calls, faults, history>>

(***************************************************************************)
(* The renewal timer: hset of the whole local object, zadd of the lease,   *)
(* and when both are answered the next timer, whatever became of the run.  *)
(***************************************************************************)
RenewHset(s) ==
    /\ renew[s] = "armed"
    /\ vault' = [vault EXCEPT ![held[s].job] = held[s].rec]
    /\ renew' = [renew EXCEPT ![s] = "hset"]
    /\ disturbed' = IF pc[s] = "running" THEN disturbed
                    ELSE disturbed \cup {held[s].job}
    /\ UNCHANGED <<waiting, prioritized, active, expired, delayed, due,
                   completed, failed, dlq>>
    /\ UNCHANGED <<pc, held, next, reading, calls, faults>>
    /\ UNCHANGED <<closed, gapLost, dlqLost, lapsed>>

RenewZadd(s) ==
    LET j == held[s].job IN
    /\ renew[s] = "hset"
    /\ active' = active \cup {j} /\ expired' = expired \ {j}
    /\ renew' = [renew EXCEPT ![s] = "reply"]
    /\ UNCHANGED <<vault, waiting, prioritized, delayed, due,
                   completed, failed, dlq>>
    /\ UNCHANGED <<pc, held, next, reading, calls, faults, history>>

RenewReply(s) ==
    /\ renew[s] = "reply"
    /\ renew' = [renew EXCEPT ![s] = "armed"]
    /\ UNCHANGED <<storeVars, pc, held, next, reading, calls, faults, history>>

\* job.updateProgress writes the same object back while the handler runs.
UpdateProgress(s) ==
    /\ pc[s] = "running" /\ InOrder(s)
    /\ vault' = [vault EXCEPT ![held[s].job] = held[s].rec]
    /\ UNCHANGED <<waiting, prioritized, active, expired, delayed, due,
                   completed, failed, dlq>>
    /\ UNCHANGED <<execVars, reading, calls, faults, history>>
----------------------------------------------------------------------------
(***************************************************************************)
(* The handler returned: finalizeAndFetch runs the script, with the        *)
(* piggybacked dequeue unless the worker is paused, limited or stopping.   *)
(* The run goes on when the reply is in.                                   *)
(***************************************************************************)
Finalized(s, E, n) ==
    /\ pc' = [pc EXCEPT ![s] = "finalized"]
    /\ held' = [held EXCEPT ![s].rec.status = "completed"]
    /\ next' = [next EXCEPT ![s] = n]
    /\ closed' = closed \cup {held[s].job} \cup E
    /\ UNCHANGED <<renew, reading, calls, faults, gapLost, dlqLost, lapsed, disturbed>>

Finalize(s) ==
    /\ pc[s] = "running" /\ InOrder(s)
    /\ \E E \in SUBSET Jobs :
        /\ FinalizeScript(held[s].job, "completed", E)
        /\ Finalized(s, E, None)

FinalizeAndFetch(s) ==
    /\ pc[s] = "running" /\ InOrder(s)
    /\ \E E \in SUBSET Jobs, k \in Jobs :
        /\ FinalizeFetchScript(held[s].job, "completed", E, k)
        /\ Finalized(s, E,
                     IF Present(FinalVault(held[s].job, "completed", E), k)
                     THEN [job |-> k, rec |-> vault'[k]] ELSE None)

\* 'completed' is emitted, the fetched job gets a run of its own.
Completed(s) ==
    /\ pc[s] = "finalized"
    /\ \/ /\ next[s] = None
          /\ Ends(s, TimerCleared(s))
       \/ /\ next[s] # None
          /\ TimerCleared(s) = "off"
          /\ pc' = [pc EXCEPT ![s] = "running"]
          /\ held' = [held EXCEPT ![s] = next[s]]
          /\ renew' = [renew EXCEPT ![s] = "armed"]
          /\ next' = [next EXCEPT ![s] = None]
       \/ /\ next[s] # None
          /\ \E t \in Slots \ {s} :
                /\ Free(t)
                /\ pc' = [pc EXCEPT ![s] = "idle", ![t] = "running"]
                /\ renew' = [renew EXCEPT ![s] = TimerCleared(s), ![t] = "armed"]
                /\ held' = [held EXCEPT ![t] = next[s],
                               ![s] = IF TimerCleared(s) = "off" THEN None ELSE @]
                /\ next' = [next EXCEPT ![s] = None]
    /\ UNCHANGED <<storeVars, reading, calls, faults, history>>

(***************************************************************************)
(* The handler threw; or the run is past the script and a listener of      *)
(* 'completed' threw.  The same catch and handleFailure serve both, and    *)
(* the second drops the fetched job.                                       *)
(***************************************************************************)
Caught(s) == pc[s] \in {"running", "finalized"} /\ InOrder(s)

FailRetry(s) ==
    LET j == held[s].job IN
    /\ Caught(s)
    /\ held[s].rec.attempts < MaxRetries[j]
    /\ vault' = [vault EXCEPT ![j] = [held[s].rec EXCEPT !.status = "retrying"]]
    /\ pc' = [pc EXCEPT ![s] = "parked"]
    /\ renew' = [renew EXCEPT ![s] = TimerCleared(s)]
    /\ next' = [next EXCEPT ![s] = None]
    /\ disturbed' = IF pc[s] = "running" THEN disturbed ELSE disturbed \cup {j}
    /\ UNCHANGED <<waiting, prioritized, active, expired, delayed, due,
                   completed, failed, dlq>>
    /\ UNCHANGED <<held, reading, calls, faults, closed, gapLost, dlqLost, lapsed>>

RetryZrem(s) ==
    LET j == held[s].job IN
    /\ pc[s] = "parked" /\ InOrder(s)
    /\ active' = active \ {j} /\ expired' = expired \ {j}
    /\ pc' = [pc EXCEPT ![s] = "gap"]
    /\ UNCHANGED <<vault, waiting, prioritized, delayed, due,
                   completed, failed, dlq>>
    /\ UNCHANGED <<held, next, renew, reading, calls, faults, history>>

RetrySignal(s) ==
    /\ pc[s] = "gap" /\ InOrder(s)
    /\ SignalScript(held[s].job)
    /\ Ends(s, renew[s])
    /\ UNCHANGED <<reading, calls, faults, history>>

\* Unrecoverable errors come here with attempts left.
FailDead(s) ==
    /\ Caught(s)
    /\ \E E \in SUBSET Jobs :
        /\ FinalizeScript(held[s].job, "dead", E)
        /\ closed' = closed \cup {held[s].job} \cup E
    /\ pc' = [pc EXCEPT ![s] = "dead"]
    /\ held' = [held EXCEPT ![s].rec.status = "dead"]
    /\ renew' = [renew EXCEPT ![s] = TimerCleared(s)]
    /\ next' = [next EXCEPT ![s] = None]
    /\ disturbed' = IF pc[s] = "running" THEN disturbed
                    ELSE disturbed \cup {held[s].job}
    /\ UNCHANGED <<reading, calls, faults, gapLost, dlqLost, lapsed>>

WriteDlq(s) ==
    /\ pc[s] = "dead" /\ InOrder(s)
    /\ dlq' = dlq \cup {held[s].job}
    /\ Ends(s, renew[s])
    /\ UNCHANGED <<vault, waiting, prioritized, active, expired, delayed, due,
                   completed, failed>>
    /\ UNCHANGED <<reading, calls, faults, history>>
----------------------------------------------------------------------------
(***************************************************************************)
(* The scheduler's two loops, the clock, and the death of a process.       *)
(***************************************************************************)
Promote ==
    /\ PromoteScript
    /\ Len(waiting') <= MaxWaiting
    /\ UNCHANGED <<execVars, reading, calls, faults, history>>

RecoverStalled ==
    /\ RecoverScript
    /\ Len(waiting') <= MaxWaiting
    /\ closed' = closed \cup StalledDead
    /\ UNCHANGED <<execVars, reading, calls, faults, gapLost, dlqLost, lapsed, disturbed>>

Due(j) ==
    /\ TimeComes(j)
    /\ UNCHANGED <<execVars, reading, calls, faults, history>>

LeaseExpires(j) ==
    /\ InHand(j) => faults < MaxFaults
    /\ LeaseRunsOut(j)
    /\ faults' = IF InHand(j) THEN faults + 1 ELSE faults
    /\ lapsed' = IF InHand(j) THEN lapsed \cup {j} ELSE lapsed
    /\ UNCHANGED <<execVars, reading, calls, closed, gapLost, dlqLost, disturbed>>

Crash(s) ==
    /\ faults < MaxFaults
    /\ ~Free(s)
    /\ faults' = faults + 1
    /\ Ends(s, "off")
    /\ gapLost' = IF pc[s] = "gap" THEN gapLost \cup {held[s].job} ELSE gapLost
    /\ dlqLost' = IF pc[s] = "dead" THEN dlqLost \cup {held[s].job} ELSE dlqLost
    /\ UNCHANGED <<storeVars, reading, calls, closed, lapsed, disturbed>>

Next ==
    \/ \E j \in Jobs : Add(j) \/ AddLater(j) \/ Due(j) \/ LeaseExpires(j)
    \/ Drain \/ Promote \/ RecoverStalled
    \/ \E c \in Clients : Retry(c) \/ \E j \in Jobs : RetryRead(c, j)
    \/ \E s \in Slots :
        \/ \E j \in Jobs : Fetch(s, j)
        \/ RenewHset(s) \/ RenewZadd(s) \/ RenewReply(s) \/ UpdateProgress(s)
        \/ Finalize(s) \/ FinalizeAndFetch(s) \/ Completed(s)
        \/ FailRetry(s) \/ RetryZrem(s) \/ RetrySignal(s)
        \/ FailDead(s) \/ WriteDlq(s) \/ Crash(s)

Spec == Init /\ [][Next]_vars

(***************************************************************************)
(* Fairness.  The event loop and Redis answer, timers fire, the            *)
(* scheduler's loops run, time passes, and a job that is run again and     *)
(* again succeeds at last.  The commands of a run are queued behind its    *)
(* renewal's on the connection, not overtaken for ever: strong fairness.   *)
(* Nothing is assumed of producers, operators or faults.                   *)
(***************************************************************************)
Succeeds(s, j) == Runs(s, j) /\ (Finalize(s) \/ FinalizeAndFetch(s))
Continues(s) == Completed(s) \/ RetryZrem(s) \/ RetrySignal(s) \/ WriteDlq(s)
Renews(s) == RenewHset(s) \/ RenewZadd(s) \/ RenewReply(s)
Forgotten(j) == ~InHand(j) /\ LeaseExpires(j)

Fairness ==
    /\ \A s \in Slots : /\ WF_vars(\E j \in Jobs : Fetch(s, j))
                        /\ WF_vars(Renews(s))
                        /\ SF_vars(Continues(s))
    /\ \A j \in Jobs : /\ SF_vars(\E s \in Slots : Succeeds(s, j))
                       /\ WF_vars(Due(j))
                       /\ WF_vars(Forgotten(j))
    /\ WF_vars(Promote) /\ WF_vars(RecoverStalled)

FairSpec == Spec /\ Fairness
----------------------------------------------------------------------------
(***************************************************************************)
(* No job is lost.  A job that was added and has no outcome yet is on one  *)
(* of the queue's structures, or a live slot holds it between zrem and     *)
(* signal, or the process that held it there has died (worker.js:632-633:  *)
(* the one place where a job is in none of the structures).  A job that    *)
(* has lost its vault entry had an outcome: dequeue and recovery, which    *)
(* drop such an id in silence, drop no open job.                           *)
(***************************************************************************)
Placed(j) == j \in Queued \cup active \cup delayed
Bridged(j) == \E s \in Slots : pc[s] = "gap" /\ held[s].job = j

Accounted ==
    /\ \A j \in Jobs \ closed : j \in gapLost \/ Placed(j) \/ Bridged(j)
    /\ \A j \in Jobs \ closed : Present(vault, j)

(***************************************************************************)
(* Two runs execute one job only if its lease ran out under a run that     *)
(* still had it in hand, or a run that was over changed the job once more, *)
(* or it was retried without being dead: nothing else in the interleaving  *)
(* of dequeue, piggyback, recovery, promotion and crash duplicates work.   *)
(***************************************************************************)
ExclusiveExecution ==
    \A s, t \in Slots, j \in Jobs :
        s # t /\ Runs(s, j) /\ Runs(t, j) => j \in lapsed \cup disturbed

(***************************************************************************)
(* With the same exceptions an indexed outcome is the only one, agrees     *)
(* with the vault, and the job is neither queued, leased nor being run.    *)
(***************************************************************************)
OneOutcome ==
    \A j \in Jobs \ (lapsed \cup disturbed) :
        /\ j \in completed => vault[j].status = "completed"
        /\ j \in failed => vault[j].status = "dead"
        /\ j \in completed \cup failed =>
               (~Placed(j) /\ \A s \in Slots : ~Runs(s, j))

(***************************************************************************)
(* Every job of the failed index can be found and retried in the dead      *)
(* letter hash, unless its worker is about to write it there or died       *)
(* before it did (worker.js:540 runs after the script).                    *)
(***************************************************************************)
DeadIsRetryable ==
    \A j \in failed :
        j \in dlq \cup dlqLost \cup {held[s].job : s \in {t \in Slots : pc[t] = "dead"}}

(***************************************************************************)
(* Recovery, promotion and the retry path always get an open job to an     *)
(* outcome, crashes notwithstanding, unless it fell into the retry gap or  *)
(* a timer that outlived its run has touched it.                           *)
(***************************************************************************)
Settles ==
    \A j \in Jobs : j \notin closed ~> j \in closed \cup gapLost \cup disturbed

----------------------------------------------------------------------------
(***************************************************************************)
(* The queue as its users see it.  Whatever is done to the ten structures  *)
(* of the store, in whatever order, a job runs only between add and one    *)
(* outcome, a completed job never runs again, a dead one only after a      *)
(* retry, and what is being run is not drained; until its lease ran out in *)
(* a worker's hands or it was touched by a run that was over               *)
(* (worker.js:317, :372).                                                  *)
(***************************************************************************)
Phase(j) ==
    IF \E s \in Slots : Runs(s, j) THEN "running"
    ELSE IF j \in completed THEN "completed"
    ELSE IF j \in failed THEN "dead"
    ELSE IF Present(vault, j) THEN "open" ELSE "absent"

Life == INSTANCE JobLifecycle
            WITH phase <- [j \in Jobs |-> Phase(j)], adrift <- lapsed \cup disturbed

LivesAsPromised == Life!LifeSpec
=============================================================================
