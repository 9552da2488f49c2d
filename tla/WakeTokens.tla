----------------------------- MODULE WakeTokens -----------------------------
(***************************************************************************)
(* How a queued job finds a worker.  Producers leave a wake-up token on    *)
(* the signal list for every job; the one fetcher of a worker blocks on    *)
(* that list, and a token starts a burst of dequeues that ends by deleting *)
(* the list.  Tokens and jobs therefore do not match one to one, and the   *)
(* watchdog's script restores tokens that were lost.                       *)
(*                                                                         *)
(* Job ids are not told apart: the waiting list and the prioritized ZSET   *)
(* are one sequence of entries, of which a "ghost" has lost its record.    *)
(* What happens to a job after it was taken is the subject of              *)
(* JobExecution; a job that fails here may come back as another Add.       *)
(***************************************************************************)
EXTENDS Naturals, Sequences

CONSTANTS
    Workers,      \* worker processes
    Limited,      \* those with a rate limiter (worker.js:188, singleShot)
    Concurrency,  \* size of every executor pool
    MaxAdds,      \* bound: jobs added
    MaxFaults     \* bound: pauses, stops, crashes, drains, lost records

ASSUME WorkersAssumption == Limited \subseteq Workers
ASSUME PoolAssumption == Concurrency \in Nat \ {0}

VARIABLES
    queue,      \* waiting LIST and prioritized ZSET, next entry first
    signal,     \* signal LIST, left end first
    owed,       \* tokens of a bulk add that are not pushed yet
    stalled,    \* jobs leased to runs that are gone
    pausedKey,  \* the paused key
    at,         \* where each fetcher is
    alive,      \* the worker's `active'
    paused,     \* the worker's `paused'
    unheard,    \* a pub/sub message is on its way to the worker
    running,    \* _poolRunning
    fetching,   \* runs whose finalize script, with fetch-next, is on its way
    taken,      \* jobs taken since the worker was last told to stop taking
    adds, faults

serverVars == <<queue, signal, owed, stalled, pausedKey>>
workerVars == <<at, alive, paused, unheard, running, fetching, taken>>
vars == <<serverVars, workerVars, adds, faults>>

(***************************************************************************)
(* off      no process             read    paused key read, not subscribed *)
(* loop     head of the loop       paused  awaits resume                   *)
(* blpop    blocked on the list    putback pushes its token back           *)
(* limit    asks rateLimit.lua     ask     dequeue issued                  *)
(* del      dequeue came back empty, DEL issued                            *)
(* again    the dequeue after DEL  stopped left the loop                   *)
(***************************************************************************)
Places == {"off", "read", "loop", "paused", "blpop", "putback", "limit",
           "ask", "del", "again", "stopped"}

\* One more than PauseHonoured allows is all that taken has to count.
TakenCap == Concurrency + 1

TypeOK ==
    /\ queue \in Seq({"job", "ghost"})
    /\ signal \in Seq({"wake", "shutdown"})
    /\ owed \in Nat /\ stalled \in Nat /\ adds \in Nat /\ faults \in Nat
    /\ pausedKey \in BOOLEAN
    /\ at \in [Workers -> Places]
    /\ alive \in [Workers -> BOOLEAN]
    /\ paused \in [Workers -> BOOLEAN]
    /\ unheard \in [Workers -> BOOLEAN]
    /\ running \in [Workers -> Nat] /\ fetching \in [Workers -> Nat]
    /\ taken \in [Workers -> 0..TakenCap]

Init ==
    /\ queue = <<>> /\ signal = <<>> /\ owed = 0 /\ stalled = 0
    /\ pausedKey = FALSE
    /\ at = [w \in Workers |-> "off"]
    /\ alive = [w \in Workers |-> FALSE]
    /\ paused = [w \in Workers |-> FALSE]
    /\ unheard = [w \in Workers |-> FALSE]
    /\ running = [w \in Workers |-> 0]
    /\ fetching = [w \in Workers |-> 0]
    /\ taken = [w \in Workers |-> 0]
    /\ adds = 0 /\ faults = 0

Copies(x, n) == [i \in 1..n |-> x]
Pushed(n) == Copies("wake", n) \o signal
Fault == faults < MaxFaults /\ faults' = faults + 1
----------------------------------------------------------------------------
(***************************************************************************)
(* Producers.  addJob.lua queues and signals in one script (as retry,      *)
(* promote and unblock do); addBulk signals after its script, so that a    *)
(* producer may die in between.                                            *)
(***************************************************************************)
Add ==
    /\ adds < MaxAdds /\ adds' = adds + 1
    /\ queue' = Append(queue, "job")
    /\ signal' = Pushed(1)
    /\ UNCHANGED <<owed, stalled, pausedKey, workerVars, faults>>

AddBulk ==
    /\ owed = 0
    /\ adds + 2 <= MaxAdds /\ adds' = adds + 2
    /\ queue' = queue \o Copies("job", 2)
    /\ owed' = 2
    /\ UNCHANGED <<signal, stalled, pausedKey, workerVars, faults>>

BulkSignal ==
    /\ owed > 0
    /\ signal' = Pushed(owed)
    /\ owed' = 0
    /\ UNCHANGED <<queue, stalled, pausedKey, workerVars, adds, faults>>

ProducerDies ==
    /\ owed > 0 /\ Fault
    /\ owed' = 0
    /\ UNCHANGED <<queue, signal, stalled, pausedKey, workerVars, adds>>

\* drain.lua.
Drain ==
    /\ queue # <<>> /\ Fault
    /\ queue' = <<>> /\ signal' = <<>>
    /\ UNCHANGED <<owed, stalled, pausedKey, workerVars, adds>>

\* Maintenance deletes the record of a prioritized job and leaves its entry.
DeleteRecord(i) ==
    /\ queue[i] = "job" /\ Fault
    /\ queue' = [queue EXCEPT ![i] = "ghost"]
    /\ UNCHANGED <<signal, owed, stalled, pausedKey, workerVars, adds>>

(***************************************************************************)
(* queue.pause and queue.resume set the key and tell the subscribed        *)
(* workers.  A worker hears the last of several messages after the others. *)
(***************************************************************************)
Subscribed(w) == at[w] \notin {"off", "read"}

SetPaused(b) ==
    /\ pausedKey # b /\ pausedKey' = b
    /\ IF b THEN Fault ELSE UNCHANGED faults
    /\ unheard' = [w \in Workers |-> Subscribed(w)]
    /\ UNCHANGED <<queue, signal, owed, stalled, at, alive, paused, running,
                   fetching, taken, adds>>

Hear(w) ==
    /\ unheard[w]
    /\ unheard' = [unheard EXCEPT ![w] = FALSE]
    /\ paused' = [paused EXCEPT ![w] = pausedKey]
    /\ taken' = IF paused[w] # pausedKey /\ alive[w]
                THEN [taken EXCEPT ![w] = 0] ELSE taken
    /\ UNCHANGED <<serverVars, at, alive, running, fetching, adds, faults>>
----------------------------------------------------------------------------
(***************************************************************************)
(* Worker.start: read the key, then subscribe, then fetch.                 *)
(***************************************************************************)
Start(w) ==
    /\ at[w] = "off"
    /\ at' = [at EXCEPT ![w] = "read"]
    /\ alive' = [alive EXCEPT ![w] = TRUE]
    /\ paused' = [paused EXCEPT ![w] = pausedKey]
    /\ taken' = [taken EXCEPT ![w] = 0]
    /\ UNCHANGED <<serverVars, unheard, running, fetching, adds, faults>>

Goes(w, place) == at' = [at EXCEPT ![w] = place]
Moves(w, place) ==
    /\ Goes(w, place)
    /\ UNCHANGED <<alive, paused, unheard, running, fetching, taken, adds, faults>>

Subscribe(w) ==
    /\ at[w] = "read"
    /\ Moves(w, "loop")
    /\ UNCHANGED serverVars

(***************************************************************************)
(* The fetcher's loop.                                                     *)
(***************************************************************************)
LoopHead(w) ==
    /\ at[w] = "loop"
    /\ \/ ~alive[w] /\ Moves(w, "stopped")
       \/ alive[w] /\ paused[w] /\ Moves(w, "paused")
       \/ /\ alive[w] /\ ~paused[w] /\ running[w] < Concurrency
          /\ Moves(w, "blpop")
    /\ UNCHANGED serverVars

Resumed(w) ==
    /\ at[w] = "paused" /\ (~paused[w] \/ ~alive[w])
    /\ Moves(w, "loop")
    /\ UNCHANGED serverVars

\* Mutant: the burst does not look at the pool again.
BurstsOn(w, n) == alive[w] /\ ~paused[w] /\ n \in Nat

\* May the burst take another job when n runs are in the pool?
Continues(w, n) == alive[w] /\ ~paused[w] /\ n < Concurrency
Next1(w, n, place) == IF Continues(w, n) THEN place ELSE "loop"

\* What a fetcher does with the token it got; any of them is popped.
TokenFor(w) ==
    IF ~alive[w] THEN "stopped"
    ELSE IF Head(signal) = "shutdown" THEN "loop"
    ELSE IF paused[w] THEN "putback"
    ELSE IF w \in Limited THEN "limit"
    ELSE Next1(w, running[w], "ask")

PopToken(w) ==
    /\ at[w] = "blpop" /\ signal # <<>>
    /\ Moves(w, TokenFor(w))
    /\ signal' = Tail(signal)
    /\ UNCHANGED <<queue, owed, stalled, pausedKey>>

\* BLPOP returns nil after 60 seconds.
TimesOut(w) ==
    /\ at[w] = "blpop" /\ signal = <<>>
    /\ Moves(w, "loop")
    /\ UNCHANGED serverVars

PutBack(w) ==
    /\ at[w] = "putback"
    /\ Moves(w, "loop")
    /\ signal' = Pushed(1)
    /\ UNCHANGED <<queue, owed, stalled, pausedKey>>

Admitted(w) ==
    /\ at[w] = "limit"
    /\ Moves(w, Next1(w, running[w], "ask"))
    /\ UNCHANGED serverVars

Denied(w) ==
    /\ at[w] = "limit"
    /\ Moves(w, "putback")
    /\ UNCHANGED serverVars

(***************************************************************************)
(* _drainBurst.  The dequeue script runs some time after the checks that   *)
(* let it be issued.  A ghost is taken off the queue and looks like an     *)
(* empty queue to the worker.                                              *)
(***************************************************************************)
JobAtHead == queue # <<>> /\ Head(queue) = "job"
Popped == IF queue = <<>> THEN queue ELSE Tail(queue)

Counted(w) == IF taken[w] < TakenCap THEN taken[w] + 1 ELSE taken[w]

Dequeue(w, empty) ==
    /\ queue' = Popped
    /\ \/ /\ JobAtHead
          /\ running' = [running EXCEPT ![w] = @ + 1]
          /\ taken' = [taken EXCEPT ![w] = Counted(w)]
          /\ Goes(w, IF w \in Limited THEN "loop"
                     ELSE Next1(w, running[w] + 1, "ask"))
          /\ UNCHANGED <<alive, paused, unheard, fetching>>
       \/ /\ ~JobAtHead
          /\ Goes(w, empty)
          /\ UNCHANGED <<alive, paused, unheard, running, fetching, taken>>

Ask(w) ==
    /\ at[w] = "ask"
    /\ Dequeue(w, "del")
    /\ UNCHANGED <<signal, owed, stalled, pausedKey, adds, faults>>

Del(w) ==
    /\ at[w] = "del"
    /\ Moves(w, Next1(w, running[w], "again"))
    /\ signal' = <<>>
    /\ UNCHANGED <<queue, owed, stalled, pausedKey>>

AskAgain(w) ==
    /\ at[w] = "again"
    /\ Dequeue(w, "loop")
    /\ UNCHANGED <<signal, owed, stalled, pausedKey, adds, faults>>
----------------------------------------------------------------------------
(***************************************************************************)
(* The pool.  A run that succeeds in a worker that takes jobs issues the   *)
(* finalize script with fetch-next; any other end just frees its place.    *)
(* A fetched job gets the place of the run that fetched it.                *)
(***************************************************************************)
\* Mutant: canPiggyback forgets the pause.
SucceedsPaused(w) ==
    /\ fetching[w] < running[w]
    /\ alive[w] /\ w \notin Limited
    /\ fetching' = [fetching EXCEPT ![w] = @ + 1]
    /\ UNCHANGED <<serverVars, at, alive, paused, unheard, running, taken,
                   adds, faults>>

Succeeds(w) ==
    /\ fetching[w] < running[w]
    /\ alive[w] /\ ~paused[w] /\ w \notin Limited
    /\ fetching' = [fetching EXCEPT ![w] = @ + 1]
    /\ UNCHANGED <<serverVars, at, alive, paused, unheard, running, taken,
                   adds, faults>>

\* Mutant: the place is freed a second time.
EndsTwice(w) ==
    /\ fetching[w] <= running[w]
    /\ running' = [running EXCEPT ![w] = @ - 1]
    /\ UNCHANGED <<serverVars, at, alive, paused, unheard, fetching, taken,
                   adds, faults>>

Ends(w) ==
    /\ fetching[w] < running[w]
    /\ running' = [running EXCEPT ![w] = @ - 1]
    /\ UNCHANGED <<serverVars, at, alive, paused, unheard, fetching, taken,
                   adds, faults>>

FetchNext(w) ==
    /\ fetching[w] > 0
    /\ fetching' = [fetching EXCEPT ![w] = @ - 1]
    /\ queue' = Popped
    /\ running' = IF JobAtHead THEN running ELSE [running EXCEPT ![w] = @ - 1]
    /\ taken' = IF JobAtHead THEN [taken EXCEPT ![w] = Counted(w)] ELSE taken
    /\ UNCHANGED <<signal, owed, stalled, pausedKey, at, alive, paused,
                   unheard, adds, faults>>

(***************************************************************************)
(* Worker.stop pushes one shutdown token and then cuts the fetcher off;    *)
(* when it closes the connection, runs in progress lose their lease.       *)
(***************************************************************************)
Stop(w) ==
    /\ alive[w] /\ Fault
    /\ alive' = [alive EXCEPT ![w] = FALSE]
    /\ taken' = IF paused[w] THEN taken ELSE [taken EXCEPT ![w] = 0]
    /\ signal' = <<"shutdown">> \o signal
    /\ UNCHANGED <<queue, owed, stalled, pausedKey, at, paused, unheard,
                   running, fetching, adds>>

Disconnect(w) ==
    /\ ~alive[w] /\ at[w] = "blpop"
    /\ Moves(w, "stopped")
    /\ UNCHANGED serverVars

RunsLost(w) ==
    /\ stalled' = stalled + running[w]
    /\ running' = [running EXCEPT ![w] = 0]
    /\ fetching' = [fetching EXCEPT ![w] = 0]

StopEnds(w) ==
    /\ at[w] = "stopped" /\ running[w] > 0
    /\ RunsLost(w)
    /\ UNCHANGED <<queue, signal, owed, pausedKey, at, alive, paused, unheard,
                   taken, adds, faults>>

Crash(w) ==
    /\ at[w] \notin {"off", "stopped"} /\ Fault
    /\ RunsLost(w)
    /\ Goes(w, "off")
    /\ alive' = [alive EXCEPT ![w] = FALSE]
    /\ unheard' = [unheard EXCEPT ![w] = FALSE]
    /\ taken' = [taken EXCEPT ![w] = 0]
    /\ UNCHANGED <<queue, signal, owed, pausedKey, paused, adds>>

(***************************************************************************)
(* recoverStalled.lua: the stalled jobs come back with their tokens, then  *)
(* the signal list is topped up to one token for each queued entry.        *)
(***************************************************************************)
\* Mutant: the script restores no tokens.
NothingMissing == 0

Missing == IF Len(signal) < Len(queue) THEN Len(queue) - Len(signal) ELSE 0

Watchdog ==
    /\ stalled + Missing > 0
    /\ queue' = queue \o Copies("job", stalled)
    /\ signal' = Pushed(stalled + Missing)
    /\ stalled' = 0
    /\ UNCHANGED <<owed, pausedKey, workerVars, adds, faults>>

Fetcher(w) ==
    \/ Subscribe(w) \/ LoopHead(w) \/ Resumed(w) \/ TimesOut(w)
    \/ PutBack(w) \/ Denied(w) \/ Ask(w) \/ Del(w) \/ AskAgain(w)

Next ==
    \/ Add \/ AddBulk \/ BulkSignal \/ ProducerDies \/ Drain \/ Watchdog
    \/ \E i \in DOMAIN queue : DeleteRecord(i)
    \/ \E b \in BOOLEAN : SetPaused(b)
    \/ \E w \in Workers :
        \/ Start(w) \/ Fetcher(w) \/ PopToken(w) \/ Admitted(w) \/ Hear(w)
        \/ Succeeds(w) \/ Ends(w) \/ FetchNext(w)
        \/ Stop(w) \/ Disconnect(w) \/ StopEnds(w) \/ Crash(w)

Spec == Init /\ [][Next]_vars

(***************************************************************************)
(* Fairness.  Redis answers every command, Redis serves a blocked client   *)
(* when it has a token again and again, the limiter's window moves on,     *)
(* messages arrive, handlers end and the watchdog sweeps.  Nothing is      *)
(* assumed of producers, operators or faults.                              *)
(***************************************************************************)
Fairness ==
    /\ WF_vars(BulkSignal) /\ WF_vars(Watchdog)
    /\ \A w \in Workers :
        /\ WF_vars(Fetcher(w)) /\ SF_vars(PopToken(w)) /\ SF_vars(Admitted(w))
        /\ WF_vars(Hear(w)) /\ WF_vars(FetchNext(w)) /\ WF_vars(Ends(w))

FairSpec == Spec /\ Fairness
----------------------------------------------------------------------------
(***************************************************************************)
(* Backpressure: with the burst, the fetch-next of finished runs and the   *)
(* dequeue in flight, a worker never holds more jobs than its concurrency  *)
(* (worker.js:133, 191 and 208 are three checks of one bound).             *)
(***************************************************************************)
PoolBound == \A w \in Workers : running[w] <= Concurrency

(***************************************************************************)
(* Once a worker has heard a pause, or was told to stop, it takes no more  *)
(* jobs than its concurrency: those whose dequeue, or whose finalize with  *)
(* fetch-next, was already on its way.                                     *)
(***************************************************************************)
PauseHonoured ==
    \A w \in Workers : paused[w] \/ ~alive[w] => taken[w] <= Concurrency

(***************************************************************************)
(* A queued job is taken, whatever tokens were deleted, put on the wrong   *)
(* worker, spent on ghosts or never pushed: unless the queue is paused, or *)
(* no worker is left that is alive and knows that it is not.               *)
(***************************************************************************)
HasJob == \E i \in DOMAIN queue : queue[i] = "job"
Serves(w) == alive[w] /\ (paused[w] => unheard[w])

JobsGetTaken == HasJob ~> (~HasJob \/ pausedKey \/ \A w \in Workers : ~Serves(w))
=============================================================================
