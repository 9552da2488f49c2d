----------------------------- MODULE QueueAdmin -----------------------------
(***************************************************************************)
(* A queue in the hands of its operators: clean, changeDelay, the removal  *)
(* of a repeatable job, the zombie watchdog, the buttons of the dashboard. *)
(* Each reads in one command and acts in another, while a worker runs jobs *)
(* and renews their leases and a repeatable job schedules its next run.    *)
(* And the readers: getJob, getJobs, getJobCounts, the dashboard's lists.  *)
(*                                                                         *)
(* The steps of a run are in JobExecution; here a run is taken, renewed,   *)
(* and ends in one step, except that the next run of a repeatable job is   *)
(* scheduled before the present one is finalized.                          *)
(***************************************************************************)
EXTENDS JobStore

CONSTANTS
    Repeating,  \* the jobs with a cron expression
    Runners, Admins, NoJob,
    MaxCalls,   \* bound: calls of producers and operators
    MaxFaults   \* bound: crashes, lapsed leases and callers that give up

ASSUME AdminAssumption ==
    /\ Repeating \subseteq Jobs /\ NoJob \notin Jobs
    /\ MaxCalls \in Nat /\ MaxFaults \in Nat

VARIABLES
    repeatable, \* the SET of repeatable jobs
    run,        \* the run each worker is at
    check,      \* what _checkDrained of each worker reads next
    op,         \* the operation each operator is at
    paused,     \* taurusmq:paused:{queue}
    muted,      \* tmq:obs:paused-retries:{queue}
    calls, faults

\* History: jobs an operation acted upon although they were no longer where, or
\* what, it had read, or that lost a lease their worker still relied on;
\* repeatable jobs whose record was swept away with the results of the run
\* before; those removed or obliterated during a run or between the two steps
\* of an addition, until added when no other adds them; whether two toggles ever
\* overlapped; whether 'drained' was told since the last pickup; whether the
\* queue emptied since without a check.
VARIABLES disturbed, swept, underRun, clashed, told, unchecked

checkVars == <<check, told>>
adminVars == <<repeatable, run, op, paused, muted, checkVars>>
history == <<disturbed, swept, underRun, clashed, unchecked>>
queueVars == <<storeVars, adminVars, calls, faults, history>>

NoRun == [at |-> "idle", job |-> NoJob, rec |-> Absent]
Doing(kind, at, S, rec) == [kind |-> kind, at |-> at, jobs |-> S, rec |-> rec, flag |-> FALSE]
Resting == Doing("none", "idle", {}, Absent)

Call == calls < MaxCalls /\ calls' = calls + 1 /\ UNCHANGED faults
Fault == faults < MaxFaults /\ faults' = faults + 1 /\ UNCHANGED calls
Runs(j) == \E w \in Runners : run[w].job = j
Adding(j) == \E a \in Admins : op[a].kind = "repeat" /\ j \in op[a].jobs
\* Mutant: the delayed set is counted for the prioritized one.
CountsDelayed == <<active = {}, waiting = <<>>, delayed = {}>>

Zeroes == <<active = {}, waiting = <<>>, prioritized = {}>>
Empty == \A i \in 1..3 : Zeroes[i]

\* The queue empties by other means than the end of a run that checks.
Unseen == unchecked' = (unchecked \/ (~Empty /\ Empty'))
----------------------------------------------------------------------------
(***************************************************************************)
(* Producers and workers                                                   *)
(***************************************************************************)
\* A dead-letter entry that outlived its record does not stop a new job.
Add(j) ==
    /\ Call /\ j \notin Repeating
    /\ AddJobScript(j) \/ AddDelayedScript(j)
    /\ disturbed' = disturbed \cup (dlq \cap {j})
    /\ UNCHANGED <<adminVars, swept, underRun, clashed, unchecked>>

\* queue.retry: the record of the dead-letter entry, its attempts reset.
Retry(j) ==
    /\ Call /\ j \in dlq
    /\ RetryScript(j, NewRec)
    /\ underRun' = underRun \cup (({j} \cap Repeating) \ repeatable)
    /\ UNCHANGED <<adminVars, disturbed, swept, clashed, unchecked>>

\* Mutant: the index of the repeatable jobs is forgotten.
AddRepeatUnlisted(a, j) ==
    /\ Call /\ j \in Repeating /\ op[a] = Resting
    /\ AddDelayedScript(j)
    /\ UNCHANGED <<adminVars, history>>

\* Two steps of queue.add with a cron expression: the script, the index.
AddRepeat(a, j) ==
    /\ Call /\ j \in Repeating /\ op[a] = Resting
    /\ AddDelayedScript(j)
    /\ op' = [op EXCEPT ![a] = Doing("repeat", "sadd", {j}, Absent)]
    /\ swept' = swept \ {j} /\ underRun' = IF Adding(j) THEN underRun ELSE underRun \ {j}
    /\ disturbed' = disturbed \cup (dlq \cap {j})
    /\ UNCHANGED <<repeatable, run, paused, muted, checkVars, clashed, unchecked>>

IndexRepeat(a, j) ==
    /\ op[a].kind = "repeat" /\ j \in op[a].jobs
    /\ repeatable' = repeatable \cup {j}
    /\ op' = [op EXCEPT ![a] = Resting]
    /\ UNCHANGED <<storeVars, run, paused, muted, checkVars, calls, faults, history>>

Take(w, j) ==
    /\ run[w] = NoRun
    /\ DequeueScript(j)
    /\ IF Present(vault, j)
       THEN /\ run' = [run EXCEPT ![w] = [at |-> "running", job |-> j, rec |-> vault'[j]]]
            /\ told' = FALSE /\ unchecked' = FALSE
       ELSE UNCHANGED <<run, told>> /\ Unseen
    /\ disturbed' = IF Runs(j) THEN disturbed \cup {j} ELSE disturbed
    /\ UNCHANGED <<repeatable, op, paused, muted, check, calls, faults,
                   swept, underRun, clashed>>

\* The end of a run: _checkDrained, unless the last one began less than 500 ms
\* ago or still waits for its answers.
Reading == [on |-> TRUE, seen |-> <<>>]
NoCheck == [on |-> FALSE, seen |-> <<>>]

RunEnds(w) ==
    /\ run' = [run EXCEPT ![w] = NoRun]
    /\ \/ check' = check /\ Unseen
       \/ /\ ~check[w].on
          /\ check' = [check EXCEPT ![w] = Reading] /\ UNCHANGED unchecked
    /\ UNCHANGED told

\* The timer is cleared when the run has ended.
Renew(w) ==
    LET j == run[w].job IN
    /\ run[w] # NoRun
    /\ vault' = [vault EXCEPT ![j] = run[w].rec]
    /\ active' = active \cup {j} /\ expired' = expired \ {j}
    /\ disturbed' = IF j \in active THEN disturbed ELSE disturbed \cup {j}
    /\ UNCHANGED <<waiting, prioritized, delayed, due, completed, failed, dlq,
                   adminVars, calls, faults, swept, underRun, clashed, unchecked>>

\* Mutant: every job is scheduled again.
ScheduleAnyRecord(w) ==
    LET j == run[w].job IN
    /\ run[w].at = "running"
    /\ vault' = [vault EXCEPT ![j] = NewRec]
    /\ run' = [run EXCEPT ![w].at = "stored"]
    /\ UNCHANGED <<waiting, prioritized, active, expired, delayed, due, completed,
                   failed, dlq, repeatable, op, paused, muted, checkVars, calls, faults, history>>

\* scheduleNextRun: the record of the next run, then its time.
ScheduleRecord(w) ==
    LET j == run[w].job IN
    /\ run[w].at = "running" /\ j \in Repeating
    /\ vault' = [vault EXCEPT ![j] = NewRec]
    /\ run' = [run EXCEPT ![w].at = "stored"]
    /\ UNCHANGED <<waiting, prioritized, active, expired, delayed, due, completed,
                   failed, dlq, repeatable, op, paused, muted, checkVars, calls, faults, history>>

\* Mutant: the entry of the delayed set is not made.
ScheduleNoTime(w) ==
    /\ run[w].at = "stored"
    /\ run' = [run EXCEPT ![w].at = "scheduled"]
    /\ UNCHANGED <<storeVars, repeatable, op, paused, muted, checkVars, calls, faults, history>>

ScheduleTime(w) ==
    /\ run[w].at = "stored"
    /\ SignalScript(run[w].job)
    /\ run' = [run EXCEPT ![w].at = "scheduled"]
    /\ UNCHANGED <<repeatable, op, paused, muted, checkVars, calls, faults, history>>

Completes(w, E) ==
    LET j == run[w].job IN
    /\ \/ run[w].at = "running" /\ j \notin Repeating
       \/ run[w].at = "scheduled"
    /\ FinalizeScript(j, "completed", E)
    /\ swept' = swept \cup (E \cap Repeating)
    /\ UNCHANGED <<repeatable, op, paused, muted, calls, faults, disturbed,
                   underRun, clashed>>
    /\ RunEnds(w)

\* The handler fails for good: the script, then the dead-letter entry.
Dies(w, E) ==
    LET j == run[w].job IN
    /\ run[w].at = "running"
    /\ E \in Evictions(failed \cup {j}, RemoveOnFail)
    /\ failed' = (failed \cup {j}) \ E
    /\ dlq' = (dlq \ E) \cup {j}
    /\ vault' = FinalVault(j, "dead", E)
    /\ active' = active \ {j} /\ expired' = expired \ {j}
    /\ swept' = swept \cup (E \cap Repeating)
    /\ disturbed' = disturbed \cup (E \cap {j})
    /\ UNCHANGED <<waiting, prioritized, delayed, due, completed, repeatable, op,
                   paused, muted, calls, faults, underRun, clashed>>
    /\ RunEnds(w)

Crash(w) ==
    LET j == run[w].job IN
    /\ Fault /\ run[w] # NoRun
    /\ run' = [run EXCEPT ![w] = NoRun]
    /\ check' = [check EXCEPT ![w] = NoCheck]
    /\ unchecked' = TRUE
    /\ disturbed' = IF run[w].at = "running" THEN disturbed ELSE disturbed \cup {j}
    /\ UNCHANGED <<storeVars, repeatable, op, paused, muted, told, swept, underRun,
                   clashed>>

Lapse(j) ==
    /\ IF Runs(j) THEN Fault ELSE UNCHANGED <<calls, faults>>
    /\ LeaseRunsOut(j)
    /\ UNCHANGED <<adminVars, history>>

Due(j) == TimeComes(j) /\ UNCHANGED <<adminVars, calls, faults, history>>

Promote == PromoteScript /\ UNCHANGED <<adminVars, calls, faults, history>>

Recover ==
    /\ RecoverScript
    /\ disturbed' = disturbed \cup {j \in expired : Runs(j)}
    /\ UNCHANGED <<adminVars, calls, faults, swept, underRun, clashed>>
    /\ Unseen
----------------------------------------------------------------------------
(***************************************************************************)
(* job.changeDelay, on a job object read before: is it delayed, is it      *)
(* waiting, then the move, then its record as it was read.                 *)
(***************************************************************************)
DelayStarts(a, j) ==
    /\ Call /\ op[a] = Resting /\ Present(vault, j) /\ j \notin Repeating
    /\ op' = [op EXCEPT ![a] = Doing("delay", "zscore", {j}, vault[j])]
    /\ UNCHANGED <<storeVars, repeatable, run, paused, muted, checkVars, history>>

DelayLooks(a, j) ==
    /\ op[a].kind = "delay" /\ j \in op[a].jobs
    /\ \/ /\ op[a].at = "zscore"
          /\ op' = [op EXCEPT ![a] = [Doing("delay", "lpos", {j}, op[a].rec)
                                      EXCEPT !.flag = j \in delayed]]
       \/ /\ op[a].at = "lpos"
          /\ op' = [op EXCEPT ![a] =
                       IF op[a].flag THEN [op[a] EXCEPT !.at = "zadd"]
                       ELSE IF j \in ToSet(waiting) THEN [op[a] EXCEPT !.at = "lrem"]
                       ELSE Resting]
    /\ UNCHANGED <<storeVars, repeatable, run, paused, muted, checkVars, calls, faults, history>>

DelayRemoves(a, j) ==
    /\ op[a].kind = "delay" /\ op[a].at = "lrem" /\ j \in op[a].jobs
    /\ waiting' \in LRem(waiting, j)
    /\ op' = [op EXCEPT ![a].at = "zadd"]
    /\ disturbed' = IF j \in ToSet(waiting) THEN disturbed ELSE disturbed \cup {j}
    /\ UNCHANGED <<vault, prioritized, active, expired, delayed, due, completed,
                   failed, dlq, repeatable, run, paused, muted, checkVars, calls, faults,
                   swept, underRun, clashed>>
    /\ Unseen

DelayMoves(a, j) ==
    /\ op[a].kind = "delay" /\ op[a].at = "zadd" /\ j \in op[a].jobs
    /\ delayed' = delayed \cup {j} /\ due' = due \ {j}
    /\ op' = [op EXCEPT ![a].at = "hset"]
    /\ disturbed' = IF op[a].flag /\ j \notin delayed THEN disturbed \cup {j} ELSE disturbed
    /\ UNCHANGED <<vault, waiting, prioritized, active, expired, completed, failed,
                   dlq, repeatable, run, paused, muted, checkVars, calls, faults,
                   swept, underRun, clashed, unchecked>>

DelayWrites(a, j) ==
    /\ op[a].kind = "delay" /\ op[a].at = "hset" /\ j \in op[a].jobs
    /\ vault' = [vault EXCEPT ![j] = op[a].rec]
    /\ op' = [op EXCEPT ![a] = Resting]
    /\ disturbed' = IF vault[j] = op[a].rec THEN disturbed ELSE disturbed \cup {j}
    /\ UNCHANGED <<waiting, prioritized, active, expired, delayed, due, completed,
                   failed, dlq, repeatable, run, paused, muted, checkVars, calls, faults,
                   swept, underRun, clashed, unchecked>>

\* The caller dies between two commands.
GiveUp(a) ==
    /\ Fault /\ op[a].kind \in {"delay", "clean", "repeat"}
    /\ op' = [op EXCEPT ![a] = Resting]
    /\ disturbed' = IF op[a].kind = "delay" /\ op[a].at = "zadd" /\ ~op[a].flag
                    THEN disturbed \cup op[a].jobs ELSE disturbed
    /\ underRun' = IF op[a].kind = "repeat" THEN underRun \cup op[a].jobs ELSE underRun
    /\ UNCHANGED <<storeVars, repeatable, run, paused, muted, checkVars, swept, clashed, unchecked>>
----------------------------------------------------------------------------
(***************************************************************************)
(* queue.clean: the ids of an index, then one pipeline that deletes them.  *)
(* The zombie watchdog: the lapsed leases, the record, then one pipeline.  *)
(***************************************************************************)
Index(type) == IF type = "completed" THEN completed ELSE failed

CleanReads(a, type, S) ==
    /\ Call /\ op[a] = Resting
    /\ S # {} /\ S \subseteq Index(type)
    /\ op' = [op EXCEPT ![a] = Doing("clean", type, S, Absent)]
    /\ UNCHANGED <<storeVars, repeatable, run, paused, muted, checkVars, history>>

CleanDeletes(a) ==
    LET S == op[a].jobs IN
    /\ op[a].kind = "clean"
    /\ vault' = WithoutEntries(vault, S)
    /\ completed' = IF op[a].at = "completed" THEN completed \ S ELSE completed
    /\ failed' = IF op[a].at = "failed" THEN failed \ S ELSE failed
    /\ op' = [op EXCEPT ![a] = Resting]
    /\ swept' = swept \cup (S \cap Repeating)
    /\ disturbed' = disturbed \cup {j \in S : j \notin Index(op[a].at)}
    /\ UNCHANGED <<waiting, prioritized, active, expired, delayed, due, dlq, repeatable,
                   run, paused, muted, checkVars, calls, faults, underRun, clashed, unchecked>>

ZombieScans(a, j) ==
    /\ op[a] = Resting /\ j \in expired
    /\ op' = [op EXCEPT ![a] = Doing("zombie", "hget", {j}, Absent)]
    /\ Call
    /\ UNCHANGED <<storeVars, repeatable, run, paused, muted, checkVars, history>>

ZombieReads(a, j) ==
    /\ op[a].kind = "zombie" /\ op[a].at = "hget" /\ j \in op[a].jobs
    /\ op' = [op EXCEPT ![a] = Doing("zombie", IF Present(vault, j) THEN "bury" ELSE "ghost",
                                     {j}, vault[j])]
    /\ UNCHANGED <<storeVars, repeatable, run, paused, muted, checkVars, calls, faults, history>>

ZombieActs(a, j) ==
    /\ op[a].kind = "zombie" /\ op[a].at \in {"bury", "ghost"} /\ j \in op[a].jobs
    /\ IF op[a].at = "bury"
       THEN /\ vault' = [vault EXCEPT ![j] = [op[a].rec EXCEPT !.status = "dead"]]
            /\ dlq' = dlq \cup {j} /\ failed' = failed \cup {j}
       ELSE UNCHANGED <<vault, dlq, failed>>
    /\ active' = active \ {j} /\ expired' = expired \ {j}
    /\ op' = [op EXCEPT ![a] = Resting]
    /\ disturbed' = IF j \in expired /\ ~Runs(j) /\ vault[j] = op[a].rec THEN disturbed
                    ELSE disturbed \cup {j}
    /\ UNCHANGED <<waiting, prioritized, delayed, due, completed, repeatable, run,
                   paused, muted, checkVars, calls, faults, swept, underRun, clashed>>
    /\ Unseen
----------------------------------------------------------------------------
(***************************************************************************)
(* removeRepeatable; the dashboard's clean, which obliterates the queue;   *)
(* its retry, whose call gives the script five keys where six are declared *)
(* so that the script finds no job id; its toggle of a pause.              *)
(***************************************************************************)
RemoveRepeatable(j) ==
    /\ Call /\ j \in repeatable
    /\ vault' = WithoutEntries(vault, {j})
    /\ delayed' = delayed \ {j} /\ due' = due \ {j}
    /\ active' = active \ {j} /\ expired' = expired \ {j}
    /\ waiting' \in LRem(waiting, j)
    /\ repeatable' = repeatable \ {j}
    /\ underRun' = IF Runs(j) \/ Adding(j) THEN underRun \cup {j} ELSE underRun
    /\ UNCHANGED <<prioritized, completed, failed, dlq, run, op, paused, muted, checkVars,
                   disturbed, swept, clashed>>
    /\ Unseen

BusyWith(k) == UNION {op[a].jobs : a \in {a \in Admins : op[a].kind \in k}}

Obliterate ==
    /\ Call
    /\ vault' = [j \in Jobs |-> Absent] /\ waiting' = <<>> /\ prioritized' = {}
    /\ active' = {} /\ expired' = {} /\ delayed' = {} /\ due' = {}
    /\ completed' = {} /\ failed' = {} /\ dlq' = {}
    /\ repeatable' = {} /\ paused' = FALSE /\ muted' = FALSE
    /\ disturbed' = disturbed \cup {j \in Jobs : Runs(j)} \cup BusyWith({"delay", "zombie"})
    /\ underRun' = underRun \cup {j \in Repeating : Runs(j)} \cup BusyWith({"repeat"})
    /\ Unseen
    /\ clashed' = (clashed \/ \E a \in Admins : op[a].kind = "toggle")
    /\ UNCHANGED <<run, op, checkVars, swept>>

\* redis.retry is given five keys and the script is registered with six: it finds
\* no id among its arguments, does nothing, and the route answers ok.
DashboardRetry(j) ==
    /\ Call /\ j \in dlq
    /\ UNCHANGED <<storeVars, adminVars, disturbed, swept, underRun, clashed, unchecked>>

ToggleReads(a) ==
    /\ Call /\ op[a] = Resting
    /\ op' = [op EXCEPT ![a] = [Doing("toggle", "queue", {}, Absent) EXCEPT !.flag = ~paused]]
    /\ clashed' = (clashed \/ \E b \in Admins : op[b].kind = "toggle")
    /\ UNCHANGED <<storeVars, repeatable, run, paused, muted, checkVars, disturbed, swept,
                   underRun, unchecked>>

\* Mutant: the dashboard's flag is written when it pauses only.
ToggleForgetsFlag(a) ==
    /\ op[a].kind = "toggle" /\ op[a].at = "queue"
    /\ paused' = op[a].flag /\ muted' = (muted \/ op[a].flag)
    /\ op' = [op EXCEPT ![a] = Resting]
    /\ UNCHANGED <<storeVars, repeatable, run, checkVars, calls, faults, history>>

ToggleWrites(a) ==
    /\ op[a].kind = "toggle"
    /\ \/ /\ op[a].at = "queue"
          /\ paused' = op[a].flag /\ UNCHANGED muted
          /\ op' = [op EXCEPT ![a].at = "flag"]
       \/ /\ op[a].at = "flag"
          /\ muted' = op[a].flag /\ UNCHANGED paused
          /\ op' = [op EXCEPT ![a] = Resting]
    /\ UNCHANGED <<storeVars, repeatable, run, checkVars, calls, faults, history>>
----------------------------------------------------------------------------
(***************************************************************************)
(* Worker._checkDrained: three counts, read one after the other, and then  *)
(* the event, if all were zero.                                            *)
(***************************************************************************)
ReadsCount(w) ==
    LET seen == Append(check[w].seen, Zeroes[Len(check[w].seen) + 1]) IN
    /\ check[w].on
    /\ IF Len(seen) < 3
       THEN check' = [check EXCEPT ![w].seen = seen] /\ UNCHANGED told
       ELSE /\ check' = [check EXCEPT ![w] = NoCheck]
            /\ told' = (told \/ (Empty /\ \A i \in 1..3 : seen[i]))
    /\ UNCHANGED <<storeVars, repeatable, run, op, paused, muted, calls, faults, history>>
----------------------------------------------------------------------------
AdminInit ==
    /\ StoreInit
    /\ repeatable = {} /\ paused = FALSE /\ muted = FALSE
    /\ run = [w \in Runners |-> NoRun] /\ op = [a \in Admins |-> Resting]
    /\ calls = 0 /\ faults = 0
    /\ disturbed = {} /\ swept = {} /\ underRun = {}
    /\ clashed = FALSE
    /\ check = [w \in Runners |-> NoCheck]
    /\ told = TRUE /\ unchecked = FALSE

JobStep(j) ==
    \/ Add(j) \/ Retry(j) \/ Lapse(j) \/ Due(j)
    \/ RemoveRepeatable(j) \/ DashboardRetry(j)

WorkerStep(w) ==
    \/ \E j \in Jobs : Take(w, j)
    \/ Renew(w) \/ ScheduleRecord(w) \/ ScheduleTime(w) \/ Crash(w)
    \/ ReadsCount(w)
    \/ \E E \in SUBSET Jobs : Completes(w, E) \/ Dies(w, E)

AdminStep(a) ==
    \/ \E j \in Jobs :
          \/ AddRepeat(a, j) \/ IndexRepeat(a, j)
          \/ DelayStarts(a, j) \/ DelayLooks(a, j) \/ DelayRemoves(a, j)
          \/ DelayMoves(a, j) \/ DelayWrites(a, j)
          \/ ZombieScans(a, j) \/ ZombieReads(a, j) \/ ZombieActs(a, j)
    \/ \E type \in {"completed", "failed"}, S \in SUBSET Jobs : CleanReads(a, type, S)
    \/ CleanDeletes(a) \/ GiveUp(a)
    \/ ToggleReads(a) \/ ToggleWrites(a)

AdminNext ==
    \/ \E j \in Jobs : JobStep(j)
    \/ \E w \in Runners : WorkerStep(w)
    \/ \E a \in Admins : AdminStep(a)
    \/ Promote \/ Recover \/ Obliterate

AdminSpec == AdminInit /\ [][AdminNext]_queueVars
----------------------------------------------------------------------------
(***************************************************************************)
(* The readers.  A range of a ZSET is in score order, of a HASH in any:    *)
(* one order for each set will do.                                         *)
(***************************************************************************)
\* Mutant: the dead-letter hash is asked for jobs without a record only.
GetJobByRecord(j) ==
    IF ~Present(vault, j) THEN IF j \in dlq THEN "dead" ELSE "none"
    ELSE IF j \in active THEN "active"
    ELSE IF j \in delayed THEN "delayed"
    ELSE IF j \in completed THEN "completed"
    ELSE IF j \in failed THEN "failed"
    ELSE "waiting"

GetJob(j) ==
    IF j \in dlq THEN "dead"
    ELSE IF ~Present(vault, j) THEN "none"
    ELSE IF j \in active THEN "active"
    ELSE IF j \in delayed THEN "delayed"
    ELSE IF j \in completed THEN "completed"
    ELSE IF j \in failed THEN "failed"
    ELSE "waiting"

Types == {"waiting", "active", "delayed", "completed", "failed", "dead"}

Members(type) ==
    CASE type = "waiting"   -> SetToSeq(prioritized) \o waiting
      [] type = "active"    -> SetToSeq(active)
      [] type = "delayed"   -> SetToSeq(delayed)
      [] type = "completed" -> SetToSeq(completed)
      [] type = "failed"    -> SetToSeq(failed)
      [] type = "dead"      -> SetToSeq(dlq)

\* ZRANGE, LRANGE: from 0, -1 is the end.
Ranged(s, from, to) ==
    SubSeq(s, from + 1, IF to = -1 THEN Len(s) ELSE IF to + 1 < Len(s) THEN to + 1 ELSE Len(s))

\* Mutant: the list is read from the page's start as if it stood alone.
WaitingRangeAlone(from, to) ==
    LET p == SetToSeq(prioritized)
        n == Len(p)
        head == IF from < n
                THEN Ranged(p, from, IF to = -1 THEN -1 ELSE IF to < n - 1 THEN to ELSE n - 1)
                ELSE <<>>
        tail == IF to = -1 \/ to >= n THEN Ranged(waiting, from, IF to = -1 THEN -1 ELSE to - n)
                ELSE <<>>
    IN  head \o tail

\* The prioritized jobs come before the list, each with a range of its own.
WaitingRange(from, to) ==
    LET p == SetToSeq(prioritized)
        n == Len(p)
        head == IF from < n
                THEN Ranged(p, from, IF to = -1 THEN -1 ELSE IF to < n - 1 THEN to ELSE n - 1)
                ELSE <<>>
        tail == IF to = -1 \/ to >= n
                THEN Ranged(waiting, IF from > n THEN from - n ELSE 0, IF to = -1 THEN -1 ELSE to - n)
                ELSE <<>>
    IN  head \o tail

\* One type of the list: its range of the page, when the page is not over and
\* reaches it.
PageStep(start, end, acc, type) ==
    LET count == Len(Members(type))
        at == acc.index
        over == end # -1 /\ at > end
        from == IF start > at THEN start - at ELSE 0
        to == IF end = -1 THEN -1 ELSE end - at
        ids == IF over \/ at + count <= start THEN <<>>
               ELSE IF type = "waiting" THEN WaitingRange(from, to)
               ELSE Ranged(Members(type), from, to)
    IN  IF over THEN acc ELSE [index |-> at + count, ids |-> acc.ids \o ids]

GetJobIds(types, start, end) ==
    FoldLeft(LAMBDA acc, type : PageStep(start, end, acc, type),
             [index |-> 0, ids |-> <<>>], types).ids

\* The records of the page: an id without one is left out.
GetJobs(types, start, end) ==
    {j \in ToSet(GetJobIds(types, start, end)) :
        Present(vault, j) \/ (j \in dlq /\ types # <<"completed">> /\ types # <<"failed">>)}

GetJobCounts(type) ==
    IF type = "waiting" THEN Len(waiting) + Cardinality(prioritized)
    ELSE Cardinality(CASE type = "active" -> active [] type = "delayed" -> delayed
                       [] type = "completed" -> completed [] type = "failed" -> failed)

\* getRepeatableJobs: an indexed job without a record is left out.
Listed == {j \in repeatable : Present(vault, j)}

\* The dashboard: the record's own status, unless the dead-letter hash has it.
DashboardState(j) ==
    IF j \in dlq \/ vault[j].status = "dead" THEN "failed" ELSE vault[j].status
----------------------------------------------------------------------------
(***************************************************************************)
(* Properties                                                              *)
(***************************************************************************)
AdminTypeOK ==
    /\ StoreTypeOK
    /\ repeatable \subseteq Repeating
    /\ paused \in BOOLEAN /\ muted \in BOOLEAN /\ clashed \in BOOLEAN
    /\ calls \in 0..MaxCalls /\ faults \in 0..MaxFaults
    /\ \A w \in Runners :
           /\ run[w].at \in {"idle", "running", "stored", "scheduled"}
           /\ run[w].at \in {"stored", "scheduled"} => run[w].job \in Repeating
           /\ run[w] # NoRun => run[w].job \in Jobs /\ run[w].rec \in JobRec
    /\ \A a \in Admins :
           /\ op[a].jobs \subseteq Jobs
           /\ op[a].kind \in {"none", "repeat", "delay", "clean", "zombie", "toggle"}
    /\ check \in [Runners -> [on : BOOLEAN, seen : Seq(BOOLEAN)]]
    /\ told \in BOOLEAN /\ unchecked \in BOOLEAN
    /\ disturbed \cup swept \cup underRun \subseteq Jobs

\* A job that no operation caught on the move is in one place, and all readers
\* say the same of it: getJob names the one list of getJobs it is in, or the
\* two of a dead job, the counts count its record once, and the dashboard shows what
\* getJob says (queue.js:325, :367, :503, server.js:700).
Steady(j) ==
    /\ j \notin disturbed \cup Repeating
    /\ \A a \in Admins : op[a].kind = "delay" /\ op[a].at = "zadd" => j \notin op[a].jobs

ReadersAgree ==
    \A j \in {j \in Jobs : Steady(j)} :
        LET says == GetJob(j)
            lists == {t \in Types : j \in GetJobs(<<t>>, 0, -1)}
        IN  /\ lists = IF says = "none" THEN {}
                       ELSE IF says = "dead" THEN {"dead"} \cup ({"failed"} \cap lists)
                       ELSE {says}
            /\ says = "dead" /\ Present(vault, j) => "failed" \in lists
            /\ says \in {"waiting", "active", "delayed", "completed"} =>
                   /\ Cardinality({i \in DOMAIN waiting : waiting[i] = j}) <= 1
                   /\ \A t \in {"active", "completed"} : says = t <=> DashboardState(j) = t
            /\ says = "dead" <=> DashboardState(j) = "failed"
            /\ (\A k \in Jobs \ {j} : \A t \in Types : k \notin ToSet(Members(t))) =>
                   GetJobCounts("waiting") + GetJobCounts("active") + GetJobCounts("delayed")
                       + GetJobCounts("completed") + GetJobCounts("failed")
                   = (IF Present(vault, j) THEN 1 ELSE 0)

\* A page of getJobs is that part of the types' lists put one after the other:
\* consecutive pages show every entry, and none twice (queue.js:367).
Shown == <<"waiting", "active", "delayed", "completed", "failed", "dead">>

PagesAreSlices ==
    (\A a \in Admins : op[a] = Resting) /\ (\A w \in Runners : ~check[w].on) =>
        LET all == FlattenSeq([i \in DOMAIN Shown |-> Members(Shown[i])])
        IN  \A start, end \in 0..2 :
                /\ start <= end => GetJobIds(Shown, start, end) = Ranged(all, start, end)
                /\ GetJobIds(Shown, start, -1) = Ranged(all, start, -1)

\* A listed repeatable job is in one of the places of its next run, of the
\* present one or of the dead.  What breaks the chain: its record is deleted
\* with the results of the run before, since both have one id; or an operation
\* catches it on the move (worker.js:651, README.md:42 "rescheduled after each
\* run").
ChainGoesOn ==
    \A j \in repeatable \ (disturbed \cup swept \cup underRun) :
        /\ j \in Listed
        /\ j \in Queued \cup delayed \cup active \cup dlq \cup failed

\* Whatever is kept of a repeatable job is listed, so that it can be removed,
\* or is about to be; a job removed while it runs schedules itself once more
\* and is then listed nowhere (queue.js:555).
WhatRepeatsIsListed ==
    \A j \in Repeating \ (underRun \cup disturbed) :
        Present(vault, j) => j \in Listed \/ Adding(j)

\* The two flags of the dashboard's toggle agree when no toggle is under way,
\* unless two of them overlapped (server.js:682).
TogglesAgree ==
    ~clashed /\ (\A a \in Admins : op[a].kind # "toggle") => paused = muted

\* 'drained' is told when the queue has emptied, although several workers end
\* their runs and each looks at three counts that the others change.  What
\* keeps it untold: another than a run's end empties the queue, or the last
\* check of that worker is too near (worker.js:470, README.md:229 "emitted when
\* a queue transitions to empty").
DrainedIsTold ==
    Empty /\ ~unchecked /\ (\A w \in Runners : ~check[w].on) => told

\* What the readers of a queue say of a job agrees, a page is a slice of the
\* list, and so do the flags of the toggle, but for the jobs and moments that
\* the parts name (queue.js:325, :367, server.js:682).
ReadersSound == AdminTypeOK /\ ReadersAgree /\ PagesAreSlices /\ TogglesAgree

\* A repeatable job goes on as long as it is listed, and no longer, but for
\* what ChainGoesOn and WhatRepeatsIsListed name (worker.js:651, queue.js:555).
RepeatSound == ChainGoesOn /\ WhatRepeatsIsListed
=============================================================================
