------------------------------- MODULE Gauges -------------------------------
(***************************************************************************)
(* The observability hooks: Queue.add, addBulk and retry, Worker.start and *)
(* redis.promote are wrapped to tell a bus what happened, and              *)
(* MetricsCollector keeps counters of what it is told.  The wrappers run   *)
(* before or after the scripts that move the jobs, in processes of their   *)
(* own, and write job records beside them.                                 *)
(*                                                                         *)
(* What the scripts do to one job, and what several workers may do with    *)
(* it, is the subject of JobExecution; here a job is in one place.         *)
(***************************************************************************)
EXTENDS Integers, FiniteSets

CONSTANTS
    Jobs,
    Delayed,     \* jobs with a delay
    Children,    \* jobs that wait for a parent
    Bulk,        \* the jobs of one call of addBulk
    MaxRetries,  \* job.maxretries
    Workers,
    Batching,    \* workers with a batch size
    Handler,     \* the handler each worker was constructed with
    MaxStarts,   \* bound: calls of start
    MaxCalls,    \* bound: calls of add, retry and drain
    MaxMishaps    \* bound: failing handlers, crashes, switches of the flag

ASSUME GaugesAssumption ==
    /\ Delayed \cup Children \cup Bulk \subseteq Jobs
    /\ Delayed \cap Children = {} /\ Bulk \cap (Delayed \cup Children) = {}
    /\ MaxRetries \in [Jobs -> Nat] /\ Batching \subseteq Workers
    /\ IsFiniteSet(Jobs) /\ IsFiniteSet(Workers)
    /\ MaxStarts \in Nat /\ MaxCalls \in Nat /\ MaxMishaps \in Nat

VARIABLES
    place,    \* where each job is
    status,   \* the status of its record in the vault
    budget,   \* its maxretries, where it will be read next
    run,      \* what each worker runs
    layers,   \* how many wrappers its handler has
    up,       \* workers that have been started
    marked,   \* handlers with __tmqPatched
    pending,  \* what happened and is not told yet
    bulk,     \* where the call of addBulk is
    snapshot, \* the records its hook has read and will write
    gauge,    \* tmq:obs:metrics:q:counters
    flag,     \* tmq:obs:paused-retries:q
    starts, calls, mishaps

\* History: gauges that went wrong, and runs that died in the handler, since
\* the counters were last deleted; jobs whose record was written over by an
\* older one; jobs deleted under a worker, while it or a second worker has them;
\* jobs some handler was given and jobs a wrapped worker took with others.
VARIABLES skewed, lost, rolled, orphans, handled, mates

jobVars == <<place, status, budget>>
hooks == <<up, layers, marked>>
bounds == <<starts, calls, mishaps>>
gaugeHistory == <<lost, rolled, orphans, handled, mates>>
gaugesVars == <<jobVars, run, hooks, pending, bulk, snapshot, gauge, flag, bounds,
          skewed, gaugeHistory>>

Gauge == {"waiting", "active", "delayed", "failed"}
NoRun == [at |-> "idle", jobs |-> {}, job |-> {}, again |-> FALSE]
Nothing == [j \in {} |-> <<"none", 0>>]

GaugesTypeOK ==
    /\ place \in [Jobs -> {"none", "waiting", "blocked", "delayed", "active",
                           "completed", "dead"}]
    /\ status \in [Jobs -> {"none", "waiting", "delayed", "active", "failed",
                            "retrying", "completed", "dead"}]
    /\ \A j \in Jobs : budget[j] \in {0, MaxRetries[j]}
    /\ \A w \in Workers : /\ run[w].at \in {"idle", "taken", "running", "failed", "dead", "done"}
                          /\ run[w].jobs \subseteq Jobs
                          /\ run[w].job \subseteq run[w].jobs
    /\ up \subseteq Workers /\ layers \in [Workers -> 0..MaxStarts]
    /\ bulk \in {"todo", "added", "read", "done"} /\ (bulk # "read" => snapshot = Nothing)
    /\ pending \subseteq {"add", "again", "retry", "promote"} \X Jobs
    /\ gauge \in [Gauge -> Nat] /\ flag \in BOOLEAN
    /\ skewed \subseteq Gauge /\ lost \in Nat
    /\ rolled \cup orphans \cup handled \cup mates \subseteq Jobs

GaugesInit ==
    /\ place = [j \in Jobs |-> "none"] /\ status = [j \in Jobs |-> "none"]
    /\ budget = MaxRetries /\ run = [w \in Workers |-> NoRun]
    /\ up = {} /\ layers = [w \in Workers |-> 0] /\ marked = {}
    /\ pending = {} /\ bulk = "todo" /\ snapshot = Nothing
    /\ gauge = [f \in Gauge |-> 0] /\ flag = FALSE
    /\ starts = 0 /\ calls = 0 /\ mishaps = 0
    /\ skewed = {} /\ lost = 0 /\ rolled = {} /\ orphans = {}
    /\ handled = {} /\ mates = {}

Call == calls < MaxCalls /\ calls' = calls + 1 /\ UNCHANGED <<starts, mishaps>>
Mishap == mishaps < MaxMishaps /\ mishaps' = mishaps + 1 /\ UNCHANGED <<starts, calls>>
Moves(S, to, st) ==
    /\ place' = [j \in Jobs |-> IF j \in S THEN to ELSE place[j]]
    /\ status' = [j \in Jobs |-> IF j \in S THEN st ELSE status[j]]
At(p) == {j \in Jobs : place[j] = p}
----------------------------------------------------------------------------
(***************************************************************************)
(* MetricsCollector: n events of one kind take n from one counter, but not *)
(* below zero, and add n to another.                                       *)
(***************************************************************************)
\* Mutant: HINCRBY -1 without a look at the value.
FloorNone(n) == n
Floor(n) == IF n < 0 THEN 0 ELSE n

Shift(from, to, n, bad) ==
    /\ gauge' = [f \in Gauge |->
                    (IF f \in from THEN Floor(gauge[f] - n) ELSE gauge[f])
                    + (IF f \in to THEN n ELSE 0)]
    /\ skewed' = skewed \cup bad \cup {f \in from : gauge[f] < n}

Silent(bad) == gauge' = gauge /\ skewed' = skewed \cup bad

(***************************************************************************)
(* The calls of producers.  Their events are emitted when the call of the  *)
(* original has returned, whatever it returned; addBulk has none.          *)
(***************************************************************************)
Arrives(j) == IF j \in Delayed THEN "delayed" ELSE IF j \in Children THEN "blocked"
              ELSE "waiting"
\* Mutant: an event for every job that comes, also for those that must wait.
CountedAll(j) == IF j \in Delayed THEN {"delayed"} ELSE {"waiting"}
Counted(j) == {Arrives(j)} \ {"blocked"}

Add(j) ==
    /\ j \notin Bulk /\ Call
    /\ LET e == <<IF status[j] = "none" THEN "add" ELSE "again", j>> IN
        e \notin pending /\ pending' = pending \cup {e}
    /\ IF status[j] = "none"
       THEN /\ Moves({j}, Arrives(j), IF j \in Delayed THEN "delayed" ELSE "waiting")
            /\ budget' = [budget EXCEPT ![j] = MaxRetries[j]]
       ELSE UNCHANGED jobVars
    /\ UNCHANGED <<run, hooks, bulk, snapshot, gauge, flag, skewed, gaugeHistory>>

Retry(j) ==
    /\ place[j] = "dead" /\ <<"retry", j>> \notin pending /\ Call
    /\ Moves({j}, "waiting", "waiting")
    /\ pending' = pending \cup {<<"retry", j>>}
    /\ UNCHANGED <<budget, run, hooks, bulk, snapshot, gauge, flag, skewed, gaugeHistory>>

Emit(e) ==
    /\ e \in pending /\ pending' = pending \ {e}
    /\ CASE e[1] = "add"     -> Shift({}, Counted(e[2]), 1, {})
         [] e[1] = "again"   -> Shift({}, Counted(e[2]), 1, Counted(e[2]))
         [] e[1] = "retry"   -> Shift({"failed"}, {"waiting"}, 1, {})
         [] e[1] = "promote" -> Shift({"delayed"}, {"waiting"}, 1, {})
    /\ UNCHANGED <<jobVars, run, hooks, bulk, snapshot, flag, bounds, gaugeHistory>>

(***************************************************************************)
(* addBulk's hook reads every record of the queue, and writes back those   *)
(* with this batch id as they were.                                        *)
(***************************************************************************)
AddBulk ==
    /\ bulk = "todo" /\ Bulk # {} /\ bulk' = "added" /\ Call
    /\ Moves(Bulk, "waiting", "waiting") /\ Silent({"waiting"})
    /\ UNCHANGED <<budget, run, hooks, pending, snapshot, flag, gaugeHistory>>

\* Mutant: the batch id of the records is not looked at.
OfBatchAll(j) == status[j] # "none"
OfBatch(j) == j \in Bulk /\ status[j] # "none"

ReadBulk ==
    /\ bulk = "added" /\ bulk' = "read"
    /\ snapshot' = [j \in {i \in Jobs : OfBatch(i)} |-> <<status[j], budget[j]>>]
    /\ UNCHANGED <<jobVars, run, hooks, pending, gauge, flag, bounds>>
    /\ UNCHANGED <<skewed, gaugeHistory>>

WriteBulk ==
    LET S == DOMAIN snapshot IN
    /\ bulk = "read" /\ bulk' = "done" /\ snapshot' = Nothing
    /\ status' = [j \in Jobs |-> IF j \in S THEN snapshot[j][1] ELSE status[j]]
    /\ budget' = [j \in Jobs |-> IF j \in S /\ place[j] \in {"waiting", "delayed"}
                                 THEN snapshot[j][2] ELSE budget[j]]
    /\ rolled' = rolled \cup Bulk
    /\ UNCHANGED <<place, run, hooks, pending, gauge, flag, bounds>>
    /\ UNCHANGED <<skewed, lost, orphans, handled, mates>>
----------------------------------------------------------------------------
(***************************************************************************)
(* What no hook sees: a parent releases a job, the watchdog takes a job    *)
(* back from a dead worker, a scheduler with a connection of its own       *)
(* promotes a job, the queue is drained.  The scheduler on the shared      *)
(* client tells of the jobs it promoted after the script.                  *)
(***************************************************************************)
Release(j) ==
    /\ place[j] = "blocked" /\ Moves({j}, "waiting", "waiting") /\ Silent({"waiting"})
    /\ UNCHANGED <<budget, run, hooks, pending, bulk, snapshot, flag, bounds>>
    /\ UNCHANGED <<gaugeHistory>>

Promote(j, shared) ==
    /\ place[j] = "delayed" /\ Moves({j}, "waiting", "waiting")
    /\ IF shared
       THEN /\ <<"promote", j>> \notin pending
            /\ pending' = pending \cup {<<"promote", j>>} /\ Silent({})
       ELSE pending' = pending /\ Silent({"waiting", "delayed"})
    /\ UNCHANGED <<budget, run, hooks, bulk, snapshot, flag, bounds, gaugeHistory>>

\* job.attempts < job.maxretries: attempts are counted at the first pickup only.
Spent(j) == budget[j] <= 1

Recover(j) ==
    /\ place[j] = "active" /\ \A w \in Workers : j \notin run[w].jobs
    /\ IF Spent(j) THEN Moves({j}, "dead", "dead") /\ Silent({"failed"})
                   ELSE Moves({j}, "waiting", "waiting") /\ Silent({"waiting"})
    /\ UNCHANGED <<budget, run, hooks, pending, bulk, snapshot, flag, bounds>>
    /\ UNCHANGED <<gaugeHistory>>

Drain ==
    /\ At("waiting") \cup At("delayed") # {} /\ Call
    /\ Moves(At("waiting") \cup At("delayed"), "none", "none")
    /\ Silent({p \in {"waiting", "delayed"} : At(p) # {}})
    /\ UNCHANGED <<budget, run, hooks, pending, bulk, snapshot, flag, gaugeHistory>>

\* obliterate deletes the counters and the flag with the queue.
Obliterate ==
    /\ Call /\ Moves(Jobs, "none", "none")
    /\ gauge' = [f \in Gauge |-> 0] /\ flag' = FALSE
    /\ skewed' = IF pending = {} /\ \A w \in Workers : run[w] = NoRun THEN {} ELSE Gauge
    /\ lost' = 0 /\ orphans' = orphans \cup UNION {run[w].jobs : w \in Workers}
    /\ UNCHANGED <<budget, run, hooks, pending, bulk, snapshot, rolled, handled, mates>>

Toggle ==
    /\ Mishap /\ flag' = ~flag
    /\ UNCHANGED <<jobVars, run, hooks, pending, bulk, snapshot, gauge>>
    /\ UNCHANGED <<skewed, gaugeHistory>>
----------------------------------------------------------------------------
(***************************************************************************)
(* Workers.  start wraps the handler unless the handler it finds is        *)
(* marked; the mark is on what was wrapped, not on the wrapper, so that a  *)
(* second start wraps again, and a second worker with the same function is *)
(* not wrapped at all.                                                     *)
(***************************************************************************)
StartWorker(w) ==
    /\ starts < MaxStarts /\ starts' = starts + 1 /\ run[w] = NoRun
    /\ up' = up \cup {w}
    /\ IF layers[w] = 0 /\ Handler[w] \in marked
       THEN UNCHANGED <<layers, marked>>
       ELSE /\ layers' = [layers EXCEPT ![w] = @ + 1]
            /\ marked' = marked \cup {Handler[w]}
    /\ UNCHANGED <<jobVars, run, pending, bulk, snapshot, gauge, flag, calls, mishaps>>
    /\ UNCHANGED <<skewed, gaugeHistory>>

Runs(w, r) == run' = [run EXCEPT ![w] = r]

Take(w, S) ==
    /\ w \in up /\ run[w] = NoRun /\ S \subseteq At("waiting") /\ S # {}
    /\ w \in Batching \/ Cardinality(S) = 1
    /\ Runs(w, [at |-> "taken", jobs |-> S, job |-> {}, again |-> FALSE])
    /\ place' = [j \in Jobs |-> IF j \in S THEN "active" ELSE place[j]]
    /\ mates' = IF Cardinality(S) > 1 /\ layers[w] > 0 THEN mates \cup S ELSE mates
    /\ UNCHANGED <<status, budget, hooks, pending, bulk, snapshot, gauge, flag, bounds>>
    /\ UNCHANGED <<skewed, lost, rolled, orphans, handled>>

\* Mutant: a handler that is wrapped already is not called.
GivenOnce(w, j) == IF layers[w] = 0 THEN run[w].jobs ELSE IF layers[w] = 1 THEN {j} ELSE {}

Given(w, j) == IF layers[w] > 0 THEN {j} ELSE run[w].jobs

\* The wrapper goes through the jobs of a batch, and returns after the first.
Begin(w, j) ==
    LET wrapped == layers[w] > 0
    IN  /\ run[w].at = "taken" /\ j \in run[w].jobs
        /\ Runs(w, [run[w] EXCEPT !.at = "running", !.job = Given(w, j)])
        /\ status' = [status EXCEPT ![j] = IF wrapped THEN "active" ELSE @]
        /\ Shift({"waiting"}, {"active"}, layers[w],
                 IF layers[w] = 1 /\ run[w].jobs = {j} THEN {} ELSE {"waiting"})
        /\ handled' = handled \cup Given(w, j)
        /\ UNCHANGED <<place, budget, hooks, pending, bulk, snapshot, flag, bounds>>
        /\ UNCHANGED <<lost, rolled, orphans, mates>>

Writes(w, st) == status' = [j \in Jobs |-> IF j \in run[w].job /\ layers[w] > 0
                                           THEN st ELSE status[j]]

Ok(w) ==
    /\ run[w].at = "running" /\ Runs(w, [run[w] EXCEPT !.at = "done"])
    /\ Writes(w, "completed") /\ Shift({"active"}, {}, layers[w], {})
    /\ UNCHANGED <<place, budget, hooks, pending, bulk, snapshot, flag, bounds>>
    /\ UNCHANGED <<gaugeHistory>>

\* While retries are paused the job is given no budget, for good.
\* Mutant: only the event says that there is no retry.
MutedNot(j) == budget[j]
Muted(j) == 0

Fails(w, recoverable) ==
    LET again == /\ recoverable /\ ~flag
                 /\ \A j \in run[w].job : ~Spent(j)
        to == IF again THEN "delayed" ELSE "failed"
    IN  /\ run[w].at = "running" /\ Mishap
        /\ Runs(w, [run[w] EXCEPT !.at = IF recoverable THEN "failed" ELSE "dead",
                                  !.again = again])
        /\ Writes(w, "failed")
        /\ budget' = [j \in Jobs |-> IF j \in run[w].job /\ flag /\ layers[w] > 0
                                     THEN Muted(j) ELSE budget[j]]
        /\ Shift({"active"}, {to}, layers[w],
                 IF layers[w] = 1 /\ run[w].jobs = run[w].job /\ (again => w \notin Batching)
                 THEN {} ELSE {"delayed", "failed"})
        /\ UNCHANGED <<place, hooks, pending, bulk, snapshot, flag, gaugeHistory>>

\* The worker's own part: handleFailure looks at the budget of the job again.
\* A job deleted meanwhile is put in the index and has no record.
Back(w) == run[w].at = "failed" /\ w \notin Batching /\ \A j \in run[w].jobs : ~Spent(j)

Settle(w) ==
    LET S == {j \in run[w].jobs : place[j] \in {"active", "none"}}
        to == IF run[w].at = "done" THEN "completed" ELSE IF Back(w) THEN "delayed" ELSE "dead"
    IN  /\ run[w].at \in {"done", "failed", "dead"}
        /\ place' = [j \in Jobs |-> IF j \in S THEN to ELSE place[j]]
        /\ status' = [j \in Jobs |-> IF j \in S /\ Back(w) THEN "retrying"
                                     ELSE IF j \in S /\ status[j] # "none" THEN to
                                     ELSE status[j]]
        /\ rolled' = rolled \ {j \in S : status[j] # "none"}
        /\ orphans' = orphans \ {j \in S : /\ status[j] # "none"
                                           /\ \A x \in Workers \ {w} : j \notin run[x].jobs}
        /\ Runs(w, NoRun)
        /\ UNCHANGED <<budget, hooks, pending, bulk, snapshot, gauge, flag, bounds>>
        /\ UNCHANGED <<skewed, lost, handled, mates>>

\* The gauge of what was taken or running is left as it is.
Crash(w) ==
    /\ run[w] # NoRun /\ Mishap
    /\ lost' = IF run[w].at = "running" THEN lost + layers[w] ELSE lost
    /\ skewed' = skewed \cup (CASE run[w].at = "taken" -> {"waiting"}
                                [] run[w].at \in {"failed", "dead"} -> {"delayed", "failed"}
                                [] OTHER -> {})
    /\ Runs(w, NoRun)
    /\ UNCHANGED <<jobVars, hooks, pending, bulk, snapshot, gauge, flag, rolled, orphans, handled, mates>>

GaugesNext ==
    \/ \E j \in Jobs : Add(j) \/ Retry(j) \/ Release(j) \/ Recover(j)
                       \/ \E shared \in BOOLEAN : Promote(j, shared)
    \/ \E e \in pending : Emit(e)
    \/ AddBulk \/ ReadBulk \/ WriteBulk \/ Drain \/ Obliterate \/ Toggle
    \/ \E w \in Workers :
        \/ StartWorker(w) \/ Ok(w) \/ Settle(w) \/ Crash(w)
        \/ \E S \in SUBSET At("waiting") : Take(w, S)
        \/ \E j \in run[w].jobs : Begin(w, j)
        \/ \E recoverable \in BOOLEAN : Fails(w, recoverable)

GaugesSpec == GaugesInit /\ [][GaugesNext]_gaugesVars
----------------------------------------------------------------------------
Told(e, S) == Cardinality({j \in Jobs : <<e, j>> \in pending /\ j \in S})
InRun(at) == {w \in Workers : run[w].at \in at}
Layers(W) == Cardinality({e \in W \X (1..MaxStarts) : e[2] <= layers[e[1]]})

(***************************************************************************)
(* However the hooks of several processes interleave with the scripts, a   *)
(* gauge differs from what it counts by what is not told yet, until one of *)
(* these happens: an event finds the counter at zero, because it overtook  *)
(* another; a job comes by a way that has no hook, comes twice, or is      *)
(* taken with others; a handler has no wrapper or two; a worker dies with  *)
(* a job it has not begun, or has failed.  The counter of active jobs goes *)
(* wrong only by the runs that died in their handler.                      *)
(***************************************************************************)
GaugesAgree ==
    /\ "active" \notin skewed => gauge["active"] = Layers(InRun({"running"})) + lost
    /\ "waiting" \notin skewed =>
        gauge["waiting"] = Cardinality(At("waiting"))
            + Cardinality(UNION {run[w].jobs : w \in InRun({"taken"})})
            - Told("add", Jobs \ (Delayed \cup Children)) - Told("retry", Jobs)
            - Told("promote", Jobs)
    /\ "delayed" \notin skewed =>
        gauge["delayed"] = Cardinality(At("delayed"))
            + Cardinality({w \in InRun({"failed"}) : run[w].again})
            - Told("add", Delayed) + Told("promote", Jobs)
    /\ "failed" \notin skewed =>
        gauge["failed"] = Cardinality(At("dead")) + Told("retry", Jobs)
            + Cardinality({w \in InRun({"failed", "dead"}) : ~run[w].again})

(***************************************************************************)
(* The record of a finished job says so, although the hooks write records  *)
(* beside the scripts: not so where the hook of addBulk wrote the record   *)
(* back as it had read it before, or the queue was deleted under a worker  *)
(* (a job added again may be taken by a second one then).                  *)
(***************************************************************************)
FinishedReadsFinished ==
    \A j \in Jobs \ (rolled \cup orphans) : place[j] \in {"completed", "dead"} => status[j] = place[j]

(***************************************************************************)
(* What a failure tells of a retry is what the worker does a moment later, *)
(* also when the retries were paused or resumed in between: not so for a   *)
(* job that was deleted meanwhile and that two workers may have.           *)
(***************************************************************************)
ToldTruly ==
    [][\A w \in Workers \ Batching :
        Settle(w) /\ run[w].at \in {"failed", "dead"} /\ layers[w] > 0 =>
            \A j \in run[w].jobs \ orphans : place[j] = "active" =>
                (run[w].again <=> place'[j] = "delayed")]_gaugesVars

(***************************************************************************)
(* With the hooks in place a job is completed only after a handler was     *)
(* given it, however often the handler is wrapped, shared or its worker    *)
(* dies; not so the jobs a wrapped worker took with others: the wrapper    *)
(* returns after the first, and all are completed (patchWorker.js:194).    *)
(***************************************************************************)
CompletedWasHandled == At("completed") \subseteq handled \cup mates

\* The gauges agree with the queue: GaugesAgree says when and up to what
\* (MetricsCollector.js:66).
GaugesSound == GaugesTypeOK /\ GaugesAgree

\* The hooks neither lose nor invent an outcome: a finished job's record says
\* that it is, and a completed job was handled (patchQueue.js:76,
\* patchWorker.js:194).
OutcomesSound == FinishedReadsFinished /\ CompletedWasHandled
=============================================================================
