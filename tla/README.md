# TLA+ models of TaurusMQ

TaurusMQ is a job queue on Redis: JavaScript clients (`src/core`) over Lua
scripts (`src/lua`) that Redis runs one at a time, hooks and engines that watch
them (`packages`), and a dashboard (`packages/dashboard-api`, `dashboard`). These
modules model what can happen between the scripts, between the `await`s of the
clients, and between what is read and what is done or shown.

- [The system](#the-system) is the inventory: components, state, interactions, what is hard.
- [The modules](#the-modules) says which module models which part and how.
- [The runs](#the-runs), [the bounds](#the-bounds), [the fairness](#fairness).
- [The proofs](#the-proofs), and what is [model-checked only](#model-checked-only).
- [Where the code and its documentation part](#where-the-code-and-its-documentation-part).
- [Not modelled](#not-modelled) and [the plan](#plan).

`worker.js`, `queue.js`, ... without a directory are files of `src/core`, `addJob.lua`,
... of `src/lua`, `server.js` and `AuthMiddleware.js` of `packages/dashboard-api`.

## The system

| Component | State | Operations | What makes it correct |
| --- | --- | --- | --- |
| Queue (`queue.js`) | none of its own; keys in Redis | add (immediate, delayed, repeating, dependent), addBulk, retry, pause, resume, drain, clean, removeRepeatable, readers | an added job is run or can be retried; ids are unique; a pause reaches every worker; readers agree |
| Worker (`worker.js`) | `active`, `paused`, `_poolRunning`, lease timers, one fetcher, runs of `_executeJob` or `_executeBatch` | start, fetch, burst, dequeue, renew, finalize (with fetch-next), retry, die, release dependents, repeat, drained, stop | pool bound; one run per job; one outcome per job; a repeating job goes on |
| Scheduler (`scheduler.js`) | two loops, a blocking client | promote what is due, sleep, recover what stalled, stop | somebody looks again in time; stop reaches both loops |
| Lua scripts | vault, waiting, prioritized, active, delayed, completed, failed, dead letters, blocked, signal list, relationship sets, counts | `addJob`, `addDelayed`, `addBulk`, `dequeue`, `batchdequeue`, `finalizeJob`, `promote`, `recoverStalled`, `retry`, `signal`, `drain`, `unblock`, `promoteIfUnblocked`, `rateLimit` | a job is where its status says; counts equal unfinished parents; no more admissions than the limit |
| FlowProducer (`flowProducer.js`) | ids created so far | add a tree, compensate | a failed flow leaves nothing |
| Maintenance (`maintenance.js`) | two loops | delete a job with all that waits for it; move zombies to the dead letters | nothing is left waiting for a deleted job |
| QueueEvents (`queue-events.js`), lifecycle (`lifecycle.js`) | a subscription, a reconnect count; what an application has open | subscribe, reconnect, close; closeAll | comes back, does not come back once closed, nothing stays open |
| Hooks (`observability-core`) | wrappers around add, addBulk, retry, start, promote | tell what happened, rewrite records, pause retries | what is told is what happens; the outcome is the job's |
| Metrics, incidents, forecasts (`metrics-engine`, ...) | gauges, hourly buckets, heatmap, worker records, alerts, incidents | fed by the hooks and by a timer | gauges agree with the queue; alerts agree with the rules |
| Dashboard API (`server.js`, `AuthMiddleware.js`) | limiter, sessions, sockets | login, rules, flow views, operators' buttons | who may, may; what is shown is so |
| Dashboard pages (`dashboard/src/app`) | what was chosen, what was last read | load, click, page through | answers that come late do not win |

**How they interact.** Clients share nothing but Redis. A script is atomic; the code
between two scripts is not: an operation of two commands can be interleaved with any
client, and its process can die in between. Within a process the runs of `_executeJob`, the
lease timers, the fetcher and the pub/sub handler interleave at every `await`. Queue and
worker are coupled by wake-up tokens (the signal list) and by messages (pause), worker and
scheduler by leases (the scores of the active sorted set), schedulers by the tokens of the
delayed list, the hooks and the dashboard by the job records and by keys of their own.

**What is hard.** (1) A retry is three commands with the job in no structure in between
(`worker.js:631-633`). (2) A renewal is two commands of a timer that may run after
the outcome was written. (3) A run goes on after its lease was lost. (4) Tokens are
deleted while producers push them, and taken by whoever waited longest. (5) Finishing a job and
releasing its dependents are two scripts. (6) Registering a dependent looks at a moment's
state of the jobs it waits for. (7) Callers read, then act: retry, clean, changeDelay, the
watchdog, the deletion of a flow, the ticks that judge alerts, the pages. (8) Everything the
collector keeps expires. `PROJECT.json` lists each such place with the properties that watch it.

## The modules

| Module | Models | Builds on |
| --- | --- | --- |
| `JobLifecycle` | abstract: the life of a job as the user sees it | |
| `JobStore` | the Redis state of one queue, every single-job script as an operator on it | |
| `JobExecution` | producers, runs of `_executeJob`, renewal timers, scheduler, callers of retry, crashes | `JobStore`; implements `JobLifecycle` |
| `RetryBudget` | `JobExecution` with a count of retries | `JobExecution` |
| `WakeTokens` | the fetch loop: signal list, burst, fetch-next, pool, pause, stop, limiter | |
| `JobDag` | dependencies: counts, release, the cascade of a death | |
| `BatchRun` | addBulk, the batch dequeue, `_executeBatch`, the counter of a batch | `JobStore` |
| `FlowUpkeep` | a flow added node by node, its compensation, the deletion of a job with its dependents, the flow views | |
| `QueueAdmin` | clean, changeDelay, repeatable jobs, the zombie watchdog, the toggles; readers; drained | `JobStore` |
| `Schedulers`, `EventLink`, `Lifecycle` | the loops of the schedulers; the subscription of QueueEvents; closeAll over both | `Lifecycle` composes the other two |
| `Gauges` | the hooks of queue, worker and scheduler and the counters they feed | |
| `Alerts` | alert rules, the ticks that judge them, incidents | |
| `Clock`, `Access`, `Rollups`, `FlowPage`, `QueuePage`, `Dashboard` | login and sessions; hourly buckets, heatmap, worker records, forecast; two pages | `Dashboard` composes the others over one clock |
| `MC...` | instances for TLC: the values of constants that a configuration cannot write | |
| `...Proofs` | theorems and proofs | the module they are about |

### JobLifecycle, JobStore and JobExecution

`JobStore` has one variable per Redis key of a queue and one operator per Lua script
(`AddJobScript`, `DequeueScript`, `FinalizeScript`, ...). A stored job keeps what
the scripts branch on: status, attempts, whether `processedOn` is set. Time is two
sets, the active entries whose lease has run out and the delayed entries that are due.

`JobExecution` builds its actions of these operators. A *slot* is one asynchronous run
of `_executeJob`; its `pc` names the await it is at, `held` is the job object it
works on (which it writes back whole, stale or not), `next` the job that the finalize
script fetched for it. `renew` is the lease timer: *armed*, or fired and past
its HSET (*hset*), or past both commands and about to re-arm itself (*reply*). A
timer that fired before `clearTimeout` outlives its run, and then writes the old
job object and lease whatever has become of the job: `worker.js:320` checks only
that the worker is active. A slot's commands keep their order on its connection (`InOrder`).
`RetryZrem` and `RetrySignal` are the two commands of `worker.js:632-633`, with any
other client between them; `Completed` and `Caught` are what follows the finalize
script, where a listener that throws turns a success into a failure.

History variables record what the properties except by name, and nothing else:
`gapLost` (the worker died between ZREM and the delayed ZADD), `lapsed` (the lease
ran out under a live run), `disturbed` (a run that was over, or a retry of a job that was not
dead, changed the record). The exceptions are the known ways in which the
promise fails; the properties say there are no others.

`JobLifecycle` is the promise to the user: five phases, nine kinds of move, and when an
outcome may be forgotten. `JobExecution` maps the ten structures, the runs and their
objects to a phase (`Phase`), and the two kinds of job that left the promise, `lapsed` and
`disturbed`, to `adrift`.

### WakeTokens

Job ids are not told apart; a queue entry is a job or a *ghost*, an id whose record was
deleted. Each worker has one fetcher whose place is the await it is at. `Add` pushes a token
with its job, `AddBulk` before `BulkSignal` (two calls in the code, and the producer may die
in between); `PopToken` serves the token to any blocked fetcher; `Ask`, `Del` and `AskAgain`
are `_drainBurst`; `FetchNext` is a finalize script that brings the next job. A
pause sets the key and sends a message that arrives later (`Hear`); `Start` reads the key and
`Subscribe` subscribes, in two steps. The limiter's answer is a choice.

### JobDag

The state behind the option `parent`: the relation "j waits for d" (`links`), the
counts, the blocked hash, beside the vault and the outcome indexes. A run that has
finalized a job is at *completed* until `Unblock`, and may die there; a death
is followed by seven commands for each entry of `job.parent` (`Cascade`). `AddDependent`
counts the unfinished parents it can see (`Done`) and stores every link. History:
`skipped` (parents found finished at the add), `twice` (jobs to which a
skipped parent was credited all the same), `lost` (jobs to which a counted parent's
completion will not be credited), `forced` (retried by an operator, or the cascade's victim).

Waiting list and prioritized set are one set here, and each id is added once: their order,
leases and deduplication are `JobExecution`'s subject. Failed jobs are not evicted
(`removeOnFail: 0`).

### BatchRun

A producer's `addBulk` checks that the batch id is free and then runs the script, in two
steps. A run takes up to `BatchSize` jobs, handles them, and settles them one
by one: script, dead-letter write, counter, deletion at zero are steps of their own. An
exception on the way makes the rest dead (`worker.js:299`), and one out of that second loop leaves the timers that are
still armed (`timed`) with their copies of the jobs: these are `stray`, and are written back until the worker stops or dies
(`StrayEnds`).
The two commands of a renewal are one step here: what comes between is `JobExecution`'s.
The batch dequeue is a predicate over the store as well (`HeadIds`, `WithRecord`), for the
property that asks when it may return less than a batch.

### FlowUpkeep

Each node of a tree has the `pc` of `processNode`; the additions are one `queue.add` each, workers
take jobs in between, a failure starts the compensation, which deletes keys before it reads them
(`flowProducer.js:157`, `:175`). The deletion of a job is a walk (two reads per job) and one
pipeline (`Purge`). `WaitersShown`, `NeedsShown`, `FlowList` and `QueueArrows` are the answers
of the dashboard's routes, computed from the same keys.

### QueueAdmin

`op[a]` is the operation an operator is at and what it has read; a worker's run of a
repeating job is *stored* after it wrote the next run's record and *scheduled* after the ZADD. `check` is what
`_checkDrained` has read of its three counts. The readers (`getJob`, `getJobs`, `getJobCounts`,
the dashboard's lists) are operators on the state.

### Schedulers, EventLink, Lifecycle

Half a second is the unit of time, as one second is where the code changes from a timer to BLPOP. `blocked`
is Redis's queue of blocked clients: a token goes to the one that has waited longest. `Move` is what both
changeDelay and addBulk do: the entry is written, and the token pushed in a step of its own, before which the caller may die.
`EventLink` has the client's own reconnection (external) beside the timers of `_reconnect`. `Lifecycle` composes
both with closeAll's three stages, each of which waits for all its calls, failed or not.

### Gauges and Alerts

`Gauges` has a variable for what has happened and is not told yet (`pending`), so that the wrappers
tell before or after the scripts move the jobs as the code does; `layers` counts how often a handler
was wrapped. A job deleted under its worker may be added again and taken by a second one: `orphans`
notes those, until nobody else has them in hand. In `Alerts` several ticks are under way at a time, each with the levels, rules and alerts as it
read them; rules are edited between their commands.

### Dashboard

`Access` is the limiter of logins (the same Lua script as the workers', with its stamps from the
caller and its expiry from Redis), the JWT sessions and the sockets. `Rollups` is what expires: buckets,
heatmap, worker records, and the forecast that counts them. `FlowPage` and `QueuePage` are the state of
the two pages that go on with what they had when the user acted. A process that restarts takes
sessions and workers with it, hence one composition over one `Clock`; a browser has one page open.

## The runs

| Run | Instance | Shows |
| --- | --- | --- |
| `execution` | 1 job (maxretries 2), 2 runs, 1 crash or lapse, with fairness | `Accounted`: an open job is in a structure, or in the retry gap of a live run, or was lost in that gap; `ExclusiveExecution`; `Settles`: an open job gets an outcome; `LivesAsPromised`: the refinement |
| `execution_two_jobs` | 2 jobs of which one has priority, 2 runs, 2 callers of retry, cap 1 on outcomes, fetch-next, delayed adds, drain | `OneOutcome` (an indexed outcome is the only one and agrees with the record), `DeadIsRetryable`, `LivesAsPromised` under eviction and piggybacked dequeues |
| `tokens` | 2 workers, one rate-limited, 3 adds, 1 fault (or a pause, and resumes), with fairness | `PoolBound`; `PauseHonoured`: after a pause or stop a worker takes at most *concurrency* more jobs; `JobsGetTaken`: tokens may get lost, jobs are taken all the same |
| `dag` | c waits for a and b, b for a; any order of adds; cap 1 on completed; 2 runs; deaths; 1 crash or retry; with fairness | `CountsCredits`: a blocked job's count is exact and positive; `WaitsForParents`; `Released`: a blocked job whose parents completed leaves the blocked hash |
| `batch` | a bulk of three jobs (one delayed, with priority) and one of one job for the same id, 2 runs, batch size 2, 1 fault | `JobsOfBatchSound`, `CounterSound`, `DequeueFillsBatch` |
| `flows` | a root over a fan-out node with a child and a ranked leaf that waits for a job outside; another job waits for that leaf from a second queue; 2 failures, 1 removal | `FlowSound`, `PurgedTogether`, `ViewsAgree` |
| `admin` | 2 jobs, one repeating with priority, 1 worker, 2 operators, 3 calls, 1 fault | `ReadersSound`, `RepeatSound`, `DrainedIsTold` |
| `lifecycle` | 2 schedulers on one token list, or 1 beside a subscription; delays of zero and of one and a half seconds, 3 faults | `LoopsSound`, `SomeoneMinds`, `AllClosed` |
| `gauges` | a job with a retry, one delayed, one that waits, a bulk; a single and a batch worker given the same handler; 2 faults | `GaugesSound`, `OutcomesSound`, `ToldTruly` |
| `alerts` | 2 ticks, 1 rule moved between 2 queues and an unknown metric, 2 edits, 1 change of level, 1 fault, with fairness | `AlertsSound`, `TellsAlternate`, `AlertsSettle` |
| `dashboard` | 2 browsers behind one address, 1 worker, 4 ticks, 4 events; a diamond of jobs with two looks under way; two answers and two loads under way | `LimiterSound`, `SessionsHonoured`, `HoursSound`, `ForecastsSound`, `FlowShown`, `QueueShown` |
| `retries_bounded` | 1 job with maxretries 2 | a documented promise that the code does not keep, see below |

The type invariant of a module is a conjunct of its first property. A property that is a
conjunction of named parts (`LimiterSound == TypeOK /\ LoginsLimited /\ RetryAfterSuffices`) has its parts
stated and commented one by one in the module; the exceptions each part
makes are history variables, named where they are declared.

## The bounds

`MaxCalls`, `MaxWaiting`, `MaxAdds`, `MaxFaults`, `MaxFailures`, `MaxCounted`, `MaxTasks`, `MaxEdits`, `MaxMoves`, `MaxStarts`,
`MaxDelays`, `MaxTime` and `MaxEvents` are the only bounds, each in the guard of the actions it
bounds (crashes, lapsed leases, pauses, calls of users and operators, the clock), never of a
step of the code that is already under way. Two configurations also cut: `execution_two_jobs` gives its third
call only to a state in which the second job is not there (`MCFocus`: two callers of retry and eviction are then
about one job), and `dashboard` looks at a page or at the server from one start, which share nothing (`MCFocus`, `MCInit`).

Two runs are enough for one to be stale while the other works, for a fetch-next to meet a
dequeue, and for one to finalize while the other releases. One job is enough where runs compete
for it; the second is there for eviction, fetch-next and the two indexes. Three jobs give a chain and a
fan-in, and one job that waits for two others is the smallest in which a count goes wrong without
reaching zero. Concurrency 1 in `tokens` makes the pool full after one job; the bound itself is
proved for every concurrency. Three adds allow two jobs between the empty dequeue and the DEL. A
batch of two over three jobs gives a first settled, a last, and one that stays behind. Two ticks are the fewest that overlap.
Limit 1 and a window of 2 ticks put a stamp at, before and after the edge of the window. Two
looks or loads under way are the fewest that can be answered in the wrong order.

`CHECK_DEADLOCK FALSE` is where the system really may stop: a queue that has nothing to do, a page
nobody touches, a time that has come to its bound. `alerts` never
stops, and is checked for deadlock.

## Fairness

`JobExecution`: an idle slot fetches, a fired timer goes on, the scheduler's loops run,
time passes, and a run's commands are not overtaken for ever by its own renewal's (strong,
because the connection sends them in order). A job that is run again and again succeeds at
last (strong): handlers are the user's, and without it a job would be retried for ever. Nothing is
assumed of producers, operators, crashes, or handlers that fail.

`WakeTokens`: fetchers move, scripts are answered, the watchdog sweeps; Redis serves a
blocked client that is there again and again, and the limiter's window moves on (both strong:
another worker may take the token, or the slot, in between).

`JobDag`: runs go on, idle runs fetch queued jobs, the watchdog sweeps. No fairness is
assumed of adds, nor of the choice between success and death.

`Alerts`: the timer starts a tick again and again and its commands are answered. Edits, changes and faults are
bounded and not fair.

## The proofs

All theorems hold for every value of the constants under the modules' named assumptions
(finite sets of jobs, of workers and of groups of failures, natural numbers for caps, budgets and times, a `None` that is not a
job, a time or a record, a positive concurrency); `JobDagProofs` needs neither acyclic nor duplicate-free dependencies.

- **`TypeCorrect`, `NothingLost`** (`JobExecutionProofs`): `TypeOK` and `Accounted`. The
  inductive invariant is their conjunction. `JobStoreProofs` holds what each
  script keeps: types, and "if the job was in a structure it still is, or has just got an outcome"; each
  action of `JobExecution` then follows from one script's lemma. The argument about eviction
  is the subtle one: an open job's record is never evicted, since `Accounted` and the
  script together put only jobs with an outcome into the index that is trimmed.
- **`DeadLettersKept`**: every failed job has its dead-letter entry, or its run is about to
  write it, or died before it could.
- **`Exclusive`, `OneOutcomeEach`** (`JobExecutionProofs`): `ExclusiveExecution` and `OneOutcome`. Neither
  is inductive: that two runs do not have one job follows from where the job is when the second takes it. The
  invariant `CleanInv` says, of every job that is not adrift, that it is in one place (`Apart`: queued once, or
  delayed, or leased, or it has one outcome, or is absent; the list holds it once) and that at most one run owns
  it (`Owned`: a run owns its job from dequeue to the outcome or through the retry gap, also when it only
  has it in `next`; an owned job is in no queue and its lease has not run out), and that a renewal between its two commands belongs to a run
  that goes on (`LateTimers`). Eleven lemmas on lists and scripts, then one per action.
- **`LivesOn`** (`JobExecutionProofs`): `JobExecution` implements `JobLifecycle`. With `CleanInv` a phase says where
  the job is (`CleanPhase`); every step that finalizes nothing makes a plain move (`Plain`); a step that finalizes
  settles one job and replaces others (`Settled`, `Replaced`), where a counting argument on the trimmed
  index (`EvictionLeaves`) gives the other outcome that `Evicted` asks for.
- **`PoolBounded`, `PausesHonoured`** (`WakeTokensProofs`): `PoolBound` is not inductive:
  a dequeue in flight counts against the pool although no run has begun, and the finalizes on their way are
  part of the running. The invariant `WorkerInv` adds both, and relates
  `taken` to them, from which the bound after a pause follows.
- **`DagTyped`, `CountsExact`, `ParentsFirst`** (`JobDagProofs`): `CountsCredits` for every dependency
  relation needs two more facts: links, blocked and dead-lettered jobs were added (`Known`), and a cascade
  deletes a count only after it took the job out of the blocked hash (`CascadeOrder`: the order
  of `worker.js:559-561` matters). `WaitsForParents` follows from the exact count: a count that reaches zero
  has been credited for each parent it was parked with.
- **`OneRunOneVerdict`, `CounterExact`, `BatchesFilled`** (`BatchRunProofs`): the three properties of `batch`. The invariant
  has five parts. A stored job keeps its batch id, also through copies that are written back late (`Stored`); a job
  that never lapsed and was not stored anew is in one place and in the hands of at most one run, once (`CleanInv`, for
  whole batches as `JobExecution`'s is for single jobs); no run has a turn to come for a job that has an
  outcome (`VerdictInv`); every outcome is counted, lost, or about to be counted (`Tally`); and the counter of a batch
  that has its id to itself is the number of its items minus the jobs counted (`CountInv`). The counter then comes to one only for
  the last job, since the jobs counted are no more than the items (`AtCounter`), and who finds zero deletes it. `BatchesFilled` is about
  one call of the script, and needs no more than the types.
- **`DelayedAreMinded`, `LoopsKept`, `NothingOpen`** (`UpkeepProofs`): `SomeoneMinds`, `LoopsSound` and `AllClosed`.
  `SomeoneMinds` is inductive with three facts: the loop of a live scheduler is not over (`Running`), a timer is
  set for a second at most and not beyond the earliest job by more than that (`TimersShort`), and Redis's list has every
  blocked scheduler once (`Listed`). A look that finds the earliest job is where the least number of a set is needed
  (`LeastNumber`). The loops stop because `stop()` ends the timers and then the blocking pop, in this order; `Closing` says which
  stage of closeAll may rely on which.
- **`AlertsKept`, `TellsInTurn`** (`ObservabilityProofs`): `AlertsSound` with what a tick under way may still write; and the action
  property `TellsAlternate`. Nothing in the store says what was told, so the alert has to say it: of a rule that has one tick at
  most (`OneHolder`) the alert is there exactly if "fired" was told last, but while a tick is about to tell (`AlertTells`), and
  what that tick has read of the alerts is still so (`ReadsAreSo`).
- **`GaugesStaySound`, `OutcomesStaySound`, `FailuresToldTruly`** (`ObservabilityProofs`): the three properties of `gauges`, for any number of jobs,
  workers, wrappers and events under way. That a gauge counts what it says needs to know where each job is that a worker has told
  something about: a job in a worker's hands is in the active structure and nobody else's (`Held`), what a failure told is
  what the worker is about to do (`KeepsWord`), a worker is where what it has in hand says (`RunFits`), and what addBulk has
  read still fits the record (`BulkFits`). All of them end when a queue is deleted under a run, which is why `Sure` asks for a
  job that was not or for a gauge that can still be right. The rest is counting: what one step adds to a
  set of jobs, workers or events, and what it takes out of it (`RelocatedOne`, `BackingGoes` and the like).
- **`FlowsStaySound`, `ViewsStayAgreed`, `DeletedTogether`** (`UpkeepProofs`): the three properties of `flows`, for every tree of nodes and
  any other jobs that wait for them; that children are no ancestors (`TreeAssumption`) and that the jobs are finitely many is
  assumed, a flow being a tree of objects in memory. A count is right because it is the jobs still owed, whatever else happens to them
  (`CountFits`), and what is owed is written at both ends or the exception is made (`Edges`, `Parked`). A deletion is complete because
  its walk has seen everything that waits for what it saw (`WalkFits`). A flow that failed is gone because a node at work has a
  parent that waits for it, so that the root cannot be done before (`InTurn`; the tree is needed here).
- **`LoginsAreLimited`, `SessionsAreHonoured`, `HoursAreTrue`, `ForecastsAreTrue`, `FlowIsOnePiece`, `QueueIsShown`** (`DashboardProofs`): the
  six properties of `dashboard`, for every window, limit, hour, zone, range that is kept, flow and number of answers under way. The
  invariant `DashboardInv` has four parts that share only the clock:
  - `AccessInv`: the entries of the limiter are those that were let through and are not too old to matter (`Counting`), which is what
    a stamp that comes late is judged against, and a refusal that tells when to come back has fewer than the limit behind it by
    then (`WaitedOut`); a browser's session has ended exactly when its cookie is too old or of another secret (`SessionInv`).
  - `RollupsInv`: a bucket that counts anything lives as long as a range can show it, a day of the heatmap as long as any of its hours
    (`Bucketed`, `Heated`; hours in another zone need division by the length of a day, `CellIsThatHour`); a record that says
    online ends within a time-to-live of the last heartbeat, or its worker was cut off in between (`WorkerSound`).
    `ForecastSound` is about the arithmetic alone and does not need the state.
  - `FlowInv`: not only what is drawn is one piece of the flow, but also the graph of every click under way (`LooksSound`), since
    its answer brings that graph back. That a layer of neighbours joins what is drawn (`InOnePiece`) and takes places nobody
    has is proved of `Layout` once.
  - `QueueInv`: of the loads under way, those for the range that was chosen come after those that would undo them, or the exception `missed`
    is made (`LoadsSound`); and the page of a table is one of its pages, or the list became shorter (`TableSound`).
- **`ReadersAreSound`, `PagesAreExact`, `RepeatsAreSound`, `EmptyIsTold`** (`DashboardProofs`, second part): the three properties of `admin`, for any
  jobs, workers and operators, and `getJobs` for every page at every moment. The invariant `AdminInv` has a part for each kind of
  job: one that nothing caught on the move has structures, record and run that agree, and one changeDelay at most has it in hand
  (`Settled`); a repeating one is listed, or about to be, as long as there is a record or a run of it, has a place while it is, and is
  queued or delayed once its next run is scheduled (`Chained`). With them: the flag that a toggle has still to write is
  the one that differs (`TogglesFit`), an empty queue was told of or one worker has read only zeros of it (`ChecksFit`), and what each worker
  and operator has read (`RunFits`, `OpFits`). An action is split into the job it is about and the others, which it leaves as they were
  (`SettledSame`, `ChainedSame`). A page is a slice because two ranges join when the second starts where the first was cut
  (`RangedConcat`), and a step of the loop keeps that (`PageGrows`). The loop is a fold; that it is six such steps is shown
  by giving the function it computes, one type at a time (`FoldGrows`), which needs no induction because the types are six.

Some properties were first stated too strongly or with too wide an exception, and the attempt to prove them showed it.
That a counter is gone once its jobs are closed was said of all jobs with its id, which is false as soon as three producers
share ids: it is said of what the one owner sent. `TakenOnce` and `OneVerdict` exempted jobs they need not. That a
timer ends within less than a second after a job is due is false for a delay of zero, which changeDelay admits: it is a second at most.
`ToldTruly` and `FinishedReadsFinished` are false of a job that was
deleted under its worker, added again and taken by a second one, of which the first then finishes.
`Releasable` took a ranked job for one that is still to complete although the compensation had deleted its record, which a worker finds out
only when it takes the id (`Gone`): the job that comes to wait for it is bereft from the start. The history variable of `RangeShown` forgot too early that a load had been lost, which takes three loads under way to see.
Two of `QueueAdmin` did too, which takes more operators than the run has: the index is still to be written by one who adds a repeatable job while
it is removed and added again by another, so that what was removed under way stays in `underRun`; and a watchdog that read the record of one life of a job
acts on the next, so that `disturbed` compares the record with the one it read. `ChainGoesOn`, `WhatRepeatsIsListed`
and `DrainedIsTold` had exceptions they need not have (a run without a place, an outcome without a listing, a run under way), which are gone.

Liveness under fairness, and what recursive definitions compute for every input, are out of this prover's reach.

### Model-checked only

The liveness properties (`Settles`, `JobsGetTaken`, `Released`, `AlertsSettle`). Every invariant and every action property
of the passing runs is proved.

## Where the code and its documentation part

`retries_bounded` exhibits one: the reliability test "max retries → DLQ + failed ZSET, not lost"
(`tests/vitest/qa/qa-reliability.test.js:29`) tries maxretries 1; attempts are counted at the first pickup
only (`dequeue.lua:28`), and with maxretries 2 a failing job is retried for ever.

The others are the exceptions that the properties make by name. Without its exception
each property is false, and the state at which it fails is this:

| Exception | What is said | What happens |
| --- | --- | --- |
| `gapLost` in `Accounted` | README.md:30, "Every job must be successfully completed or safely moved to a Dead Letter Queue" | a worker that dies between ZREM and the delayed ZADD of a retry (`worker.js:632`) leaves the job in no structure |
| `disturbed` in `ExclusiveExecution`, `OneOutcome`, `Settles` | README.md:20, leases prevent "double-processing" | a renewal in flight puts a finished job back under a lease (`worker.js:326`); the watchdog queues it again; the timer keeps the lease of a job alive whose later run has crashed |
| the watchdog in `JobsGetTaken` | worker.js:203, "no job can strand tokenless" | of two jobs added before the DEL (`worker.js:208`) one waits beside an idle worker until the watchdog's sweep |
| "has heard" in `PauseHonoured` | README.md:61, pause stops "workers from pulling new jobs" | a pause between GET and SUBSCRIBE (`worker.js:68`) is never heard |
| `twice` in `WaitsForParents` | README.md:48, "A parent job will **not** be processed until all its declared child jobs complete" | a child between its finalize and its unblock is skipped in the count and credited later (`addJob.lua:58`); the parent runs before its other child completes, and the count of a job released early becomes -1 |
| `lost` in `Released` | the note at `addJob.lua:55` | a job that waits for one of another queue that finished before is blocked for ever |
| `Cascade` in `JobDag` | the reliability test "dead child fails parent (not unblocks)" (`qa-reliability.test.js:65`) | the cascade (`worker.js:552`) marks the jobs the dead one waited for; those that wait for it stay blocked |
| single jobs in `ToldTruly` | the hook's `willRetry` | jobs of a failed batch are told as to be retried, and die |

Met while reading, and not in a run: the dashboard's retry (`server.js:910`) passes five keys to a
script of six (`redis.js:82`), while `openapi.json:117` says it requeues; POST clean obliterates the queue (`openapi.json:106`); POST settings resets
the fields it is not given (`server.js:283`); replay decrements a batch counter once more (`server.js:797`); a first
tick after a restart divides by a second where minutes passed (`MetricsAggregator.js:93`); two ticks in one bucket of
ten seconds double the throughput (`server.js:401`); a scheduler that is started again after stop() does nothing; an error in
promotion that persists makes its loop spin (`scheduler.js:111`); close() of QueueEvents waits for a
connection that may never come (`queue-events.js:84`); two workers of one queue in one process share an id.

## Not modelled

- Redis client (`redis.js`): script registration, connection options; no state that outlives a call.
- Statistics: rates, percentiles, trends and health scores are floating-point arithmetic; what they are computed from (`Gauges`, `Rollups`) is modelled.
- The writer of the event stream, which appends and trims; logging, the CLI and formatting.
- Routes that only format what they read; replay; the settings form; the pages for
  jobs, workers, analytics and the stream, which are one read and one render.
- Decoding of messages in QueueEvents; a message that is lost is a connection that drops.
- obliterate and removeJob's last command are one deletion of every key, in `QueueAdmin`, `Gauges` and `FlowUpkeep`.

## Plan

Done, in this order: the store and the scripts; execution, retries and leases; wake-up tokens, pool and pause;
dependencies; the abstract life of a job and the refinement; batches; flows and their upkeep; operators and
repeating jobs; schedulers, subscription and closeAll; hooks and gauges; alerts; the dashboard's server and two pages; the proofs above.

Next: replay and the settings form as actions of `QueueAdmin`;
the limiter's window in `WakeTokens` in place of a choice.
