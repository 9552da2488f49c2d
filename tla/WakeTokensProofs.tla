-------------------------- MODULE WakeTokensProofs --------------------------
(***************************************************************************)
(* The bound on a worker's pool, and what it means for a pause, for any    *)
(* number of workers, any concurrency and any queue.                       *)
(***************************************************************************)
EXTENDS WakeTokens, SequenceTheorems, TLAPS

\* The types the argument needs.
PoolType ==
    /\ at \in [Workers -> Places]
    /\ alive \in [Workers -> BOOLEAN]
    /\ paused \in [Workers -> BOOLEAN]
    /\ running \in [Workers -> Nat] /\ fetching \in [Workers -> Nat]
    /\ taken \in [Workers -> Nat]
    /\ pausedKey \in BOOLEAN

\* A dequeue is in flight: the pool had room when it was issued, and only the
\* fetcher itself fills the pool.
InFlight(w) == at[w] \in {"ask", "again"}

Pending(w) == IF InFlight(w) THEN 1 ELSE 0

(***************************************************************************)
(* What one worker keeps.  The jobs it may still take after a pause are    *)
(* those of the dequeue in flight and of the runs that issued a finalize   *)
(* with fetch-next: together no more than its pool holds.                  *)
(***************************************************************************)
WorkerInv(w) ==
    /\ fetching[w] <= running[w]
    /\ running[w] + Pending(w) <= Concurrency
    /\ paused[w] \/ ~alive[w] => taken[w] + fetching[w] + Pending(w) <= Concurrency

PoolInv == PoolType /\ \A w \in Workers : WorkerInv(w)

LEMMA PoolInit == Init => PoolInv
<1> SUFFICES ASSUME Init PROVE PoolInv
    OBVIOUS
<1>1. PoolType
    BY DEF Init, PoolType, Places
<1>2. ASSUME NEW w \in Workers PROVE WorkerInv(w)
    <2>1. Pending(w) = 0
        BY DEF Init, Pending, InFlight
    <2>2. fetching[w] = 0 /\ running[w] = 0 /\ taken[w] = 0
        BY DEF Init
    <2> QED
        BY <2>1, <2>2, PoolAssumption DEF WorkerInv
<1> QED
    BY <1>1, <1>2 DEF PoolInv

\* A step that leaves a worker's own state alone keeps what it keeps.
LEMMA OthersKeep ==
    ASSUME PoolInv, NEW w \in Workers,
           \A v \in Workers \ {w} :
               /\ at'[v] = at[v] /\ alive'[v] = alive[v] /\ paused'[v] = paused[v]
               /\ running'[v] = running[v] /\ fetching'[v] = fetching[v]
               /\ taken'[v] = taken[v],
           PoolType', WorkerInv(w)'
    PROVE  PoolInv'
BY DEF PoolInv, WorkerInv, Pending, InFlight

LEMMA ServerSteps ==
    ASSUME PoolInv,
           \/ Add \/ AddBulk \/ BulkSignal \/ ProducerDies \/ Drain \/ Watchdog
           \/ \E i \in DOMAIN queue : DeleteRecord(i)
           \/ \E b \in BOOLEAN : SetPaused(b)
           \/ UNCHANGED vars
    PROVE  PoolInv'
<1>1. UNCHANGED <<at, alive, paused, running, fetching, taken>>
    BY DEF Add, AddBulk, BulkSignal, ProducerDies, Drain, Watchdog, DeleteRecord,
           SetPaused, vars, workerVars
<1>2. pausedKey' \in BOOLEAN
    BY DEF Add, AddBulk, BulkSignal, ProducerDies, Drain, Watchdog, DeleteRecord,
           SetPaused, vars, serverVars, PoolInv, PoolType
<1> QED
    BY <1>1, <1>2 DEF PoolInv, PoolType, WorkerInv, Pending, InFlight

\* The fetcher moves without taking a job.  It comes to the dequeue only with
\* room in the pool, and only when it is neither paused nor stopped.
LEMMA MoveSteps ==
    ASSUME PoolInv, NEW w \in Workers, NEW place \in Places, Moves(w, place), UNCHANGED pausedKey,
           place \in {"ask", "again"} =>
               running[w] < Concurrency /\ alive[w] /\ ~paused[w]
    PROVE  PoolInv'
<1>1. /\ at' = [at EXCEPT ![w] = place]
      /\ UNCHANGED <<alive, paused, running, fetching, taken>>
    BY DEF Moves, Goes
<1>2. PoolType'
    BY <1>1 DEF PoolInv, PoolType
<1>3. WorkerInv(w)'
    BY <1>1, PoolAssumption DEF PoolInv, PoolType, WorkerInv, Pending, InFlight
<1> QED
    BY <1>1, <1>2, <1>3, OthersKeep DEF PoolInv, PoolType

LEMMA FetcherMoves ==
    ASSUME PoolInv, NEW w \in Workers,
           \/ Subscribe(w) \/ LoopHead(w) \/ Resumed(w) \/ TimesOut(w)
           \/ PutBack(w) \/ Denied(w) \/ Del(w) \/ PopToken(w) \/ Admitted(w)
           \/ Disconnect(w)
    PROVE  PoolInv'
<1>1. PICK place : /\ Moves(w, place)
                   /\ \/ place \in Places \ {"ask", "again"}
                      \/ place \in {Next1(w, running[w], "ask"),
                                    Next1(w, running[w], "again")}
  <2>1. CASE PopToken(w)
    BY <2>1 DEF PopToken, TokenFor, Places
  <2>2. CASE ~PopToken(w)
    BY <2>2 DEF Subscribe, LoopHead, Resumed, TimesOut, PutBack, Denied, Del,
                Admitted, Disconnect, Places
  <2> QED
    BY <2>1, <2>2
<1>2. /\ place \in Places
      /\ place \in {"ask", "again"} =>
             running[w] < Concurrency /\ alive[w] /\ ~paused[w]
    BY <1>1 DEF Next1, Continues, Places
<1>3. UNCHANGED pausedKey
    BY DEF Subscribe, LoopHead, Resumed, TimesOut, PutBack, Denied, Del, PopToken,
           Admitted, Disconnect, serverVars
<1> QED
    BY <1>1, <1>2, <1>3, MoveSteps

\* The dequeue that was in flight has run.
LEMMA DequeueSteps ==
    ASSUME PoolInv, NEW w \in Workers, Ask(w) \/ AskAgain(w)
    PROVE  PoolInv'
<1>1. PICK empty \in {"del", "loop"} : InFlight(w) /\ Dequeue(w, empty)
                                       /\ UNCHANGED pausedKey
    BY DEF Ask, AskAgain, InFlight
<1>2. CASE JobAtHead
  <2>1. PICK place \in {"loop", "ask"} :
            /\ at' = [at EXCEPT ![w] = place]
            /\ place = "ask" => running[w] + 1 < Concurrency /\ alive[w] /\ ~paused[w]
    BY <1>1, <1>2 DEF Dequeue, Goes, Next1, Continues
  <2>2. /\ running' = [running EXCEPT ![w] = running[w] + 1]
        /\ taken' = [taken EXCEPT ![w] = Counted(w)]
        /\ UNCHANGED <<alive, paused, fetching>>
    BY <1>1, <1>2 DEF Dequeue
  <2>3. Counted(w) \in Nat /\ Counted(w) <= taken[w] + 1
    BY DEF Counted, PoolInv, PoolType
  <2>4. PoolType'
    BY <1>1, <2>1, <2>2, <2>3 DEF PoolInv, PoolType, Places
  <2>5. WorkerInv(w)'
    BY <1>1, <2>1, <2>2, <2>3, PoolAssumption
       DEF PoolInv, PoolType, WorkerInv, Pending, InFlight
  <2> QED
    BY <2>1, <2>2, <2>4, <2>5, OthersKeep DEF PoolInv, PoolType
<1>3. CASE ~JobAtHead
  <2>1. /\ at' = [at EXCEPT ![w] = empty]
        /\ UNCHANGED <<alive, paused, running, fetching, taken>>
    BY <1>1, <1>3 DEF Dequeue, Goes
  <2>2. PoolType'
    BY <1>1, <2>1 DEF PoolInv, PoolType, Places
  <2>3. WorkerInv(w)'
    BY <1>1, <2>1, PoolAssumption DEF PoolInv, PoolType, WorkerInv, Pending, InFlight
  <2> QED
    BY <2>1, <2>2, <2>3, OthersKeep DEF PoolInv, PoolType
<1> QED
    BY <1>2, <1>3

LEMMA RunSteps ==
    ASSUME PoolInv, NEW w \in Workers, Succeeds(w) \/ Ends(w) \/ FetchNext(w)
    PROVE  PoolInv'
<1>1. UNCHANGED <<at, alive, paused, pausedKey>>
    BY DEF Succeeds, Ends, FetchNext, serverVars
<1>2. Counted(w) \in Nat /\ Counted(w) <= taken[w] + 1
    BY DEF Counted, PoolInv, PoolType
<1>3. CASE Succeeds(w)
  <2>1. PoolType' /\ WorkerInv(w)'
    BY <1>1, <1>3, PoolAssumption DEF Succeeds, PoolInv, PoolType, WorkerInv, Pending, InFlight
  <2> QED
    BY <1>1, <1>3, <2>1, OthersKeep DEF Succeeds, PoolInv, PoolType
<1>4. CASE Ends(w)
  <2>1. PoolType' /\ WorkerInv(w)'
    BY <1>1, <1>4, PoolAssumption DEF Ends, PoolInv, PoolType, WorkerInv, Pending, InFlight
  <2> QED
    BY <1>1, <1>4, <2>1, OthersKeep DEF Ends, PoolInv, PoolType
<1>5. CASE FetchNext(w)
  <2>1. /\ fetching[w] > 0 /\ fetching' = [fetching EXCEPT ![w] = fetching[w] - 1]
        /\ \/ /\ running' = running
              /\ taken' = [taken EXCEPT ![w] = Counted(w)]
           \/ /\ running' = [running EXCEPT ![w] = running[w] - 1]
              /\ taken' = taken
    BY <1>5 DEF FetchNext
  <2>2. PoolType' /\ WorkerInv(w)'
    BY <1>1, <1>2, <2>1, PoolAssumption DEF PoolInv, PoolType, WorkerInv, Pending, InFlight
  <2> QED
    BY <1>1, <2>1, <2>2, OthersKeep DEF PoolInv, PoolType
<1> QED
    BY <1>3, <1>4, <1>5

\* Starting, hearing a message, stopping and dying.
LEMMA LifeSteps ==
    ASSUME PoolInv, NEW w \in Workers,
           Start(w) \/ Hear(w) \/ Stop(w) \/ StopEnds(w) \/ Crash(w)
    PROVE  PoolInv'
<1>1. /\ fetching[w] \in Nat /\ running[w] \in Nat /\ taken[w] \in Nat
      /\ fetching[w] <= running[w] /\ running[w] + Pending(w) <= Concurrency
      /\ Pending(w) \in {0, 1}
    BY DEF PoolInv, PoolType, WorkerInv, Pending
<1>2. CASE Start(w)
  <2>1. /\ at' = [at EXCEPT ![w] = "read"] /\ alive' = [alive EXCEPT ![w] = TRUE]
        /\ paused' = [paused EXCEPT ![w] = pausedKey]
        /\ taken' = [taken EXCEPT ![w] = 0]
        /\ UNCHANGED <<running, fetching, pausedKey>>
    BY <1>2 DEF Start, serverVars
  <2>2. PoolType'
    BY <2>1 DEF PoolInv, PoolType, Places
  <2>3. WorkerInv(w)'
    BY <1>1, <2>1, PoolAssumption DEF PoolInv, PoolType, WorkerInv, Pending, InFlight
  <2> QED
    BY <2>1, <2>2, <2>3, OthersKeep DEF PoolInv, PoolType
<1>3. CASE Hear(w)
  <2>1. /\ paused' = [paused EXCEPT ![w] = pausedKey]
        /\ taken' = IF paused[w] # pausedKey /\ alive[w]
                    THEN [taken EXCEPT ![w] = 0] ELSE taken
        /\ UNCHANGED <<at, alive, running, fetching, pausedKey>>
    BY <1>3 DEF Hear, serverVars
  <2>2. PoolType'
    BY <2>1 DEF PoolInv, PoolType
  <2>3. WorkerInv(w)'
    BY <1>1, <2>1, PoolAssumption DEF PoolInv, PoolType, WorkerInv, Pending, InFlight
  <2> QED
    BY <2>1, <2>2, <2>3, OthersKeep DEF PoolInv, PoolType
<1>4. CASE Stop(w)
  <2>1. /\ alive' = [alive EXCEPT ![w] = FALSE]
        /\ taken' = IF paused[w] THEN taken ELSE [taken EXCEPT ![w] = 0]
        /\ UNCHANGED <<at, paused, running, fetching, pausedKey>>
    BY <1>4 DEF Stop
  <2>2. PoolType'
    BY <2>1 DEF PoolInv, PoolType
  <2>3. WorkerInv(w)'
    BY <1>1, <2>1, PoolAssumption DEF PoolInv, PoolType, WorkerInv, Pending, InFlight
  <2> QED
    BY <2>1, <2>2, <2>3, OthersKeep DEF PoolInv, PoolType
<1>5. CASE StopEnds(w)
  <2>1. /\ at[w] = "stopped"
        /\ running' = [running EXCEPT ![w] = 0] /\ fetching' = [fetching EXCEPT ![w] = 0]
        /\ UNCHANGED <<at, alive, paused, taken, pausedKey>>
    BY <1>5 DEF StopEnds, RunsLost
  <2>2. PoolType'
    BY <2>1 DEF PoolInv, PoolType
  <2>3. WorkerInv(w)'
    BY <1>1, <2>1, PoolAssumption DEF PoolInv, PoolType, WorkerInv, Pending, InFlight
  <2> QED
    BY <2>1, <2>2, <2>3, OthersKeep DEF PoolInv, PoolType
<1>6. CASE Crash(w)
  <2>1. /\ at' = [at EXCEPT ![w] = "off"] /\ alive' = [alive EXCEPT ![w] = FALSE]
        /\ running' = [running EXCEPT ![w] = 0] /\ fetching' = [fetching EXCEPT ![w] = 0]
        /\ taken' = [taken EXCEPT ![w] = 0]
        /\ UNCHANGED <<paused, pausedKey>>
    BY <1>6 DEF Crash, RunsLost, Goes
  <2>2. PoolType'
    BY <2>1 DEF PoolInv, PoolType, Places
  <2>3. WorkerInv(w)'
    BY <1>1, <2>1, PoolAssumption DEF PoolInv, PoolType, WorkerInv, Pending, InFlight
  <2> QED
    BY <2>1, <2>2, <2>3, OthersKeep DEF PoolInv, PoolType
<1> QED
    BY <1>2, <1>3, <1>4, <1>5, <1>6

LEMMA PoolStep == PoolInv /\ [Next]_vars => PoolInv'
<1> SUFFICES ASSUME PoolInv, [Next]_vars PROVE PoolInv'
    OBVIOUS
<1>1. CASE \/ Add \/ AddBulk \/ BulkSignal \/ ProducerDies \/ Drain \/ Watchdog
           \/ \E i \in DOMAIN queue : DeleteRecord(i)
           \/ \E b \in BOOLEAN : SetPaused(b)
           \/ UNCHANGED vars
    BY <1>1, ServerSteps
<1>2. ASSUME NEW w \in Workers, Fetcher(w) \/ PopToken(w) \/ Admitted(w) \/ Disconnect(w)
      PROVE  PoolInv'
    BY <1>2, FetcherMoves, DequeueSteps DEF Fetcher
<1>3. ASSUME NEW w \in Workers, Succeeds(w) \/ Ends(w) \/ FetchNext(w)
      PROVE  PoolInv'
    BY <1>3, RunSteps
<1>4. ASSUME NEW w \in Workers, Start(w) \/ Hear(w) \/ Stop(w) \/ StopEnds(w) \/ Crash(w)
      PROVE  PoolInv'
    BY <1>4, LifeSteps
<1> QED
    BY <1>1, <1>2, <1>3, <1>4 DEF Next

\* A worker never holds more jobs than its concurrency, although burst,
\* fetch-next and backpressure check three different moments
\* (worker.js:133, 191, 208).
THEOREM PoolBounded == Spec => []PoolBound
<1>1. PoolInv => PoolBound
    <2> SUFFICES ASSUME PoolInv, NEW w \in Workers PROVE running[w] <= Concurrency
        BY DEF PoolBound
    <2>1. Pending(w) \in {0, 1} /\ running[w] \in Nat
        BY DEF Pending, PoolInv, PoolType
    <2>2. running[w] + Pending(w) <= Concurrency
        BY DEF PoolInv, WorkerInv
    <2> QED
        BY <2>1, <2>2, PoolAssumption
<1> QED
    BY <1>1, PoolInit, PoolStep, PTL DEF Spec

\* After a pause or a stop reached it, a worker takes at most as many jobs as
\* its concurrency, whatever was in flight (worker.js:190, 207, 585).
THEOREM PausesHonoured == Spec => []PauseHonoured
<1>1. PoolInv => PauseHonoured
    BY PoolAssumption DEF PoolInv, PoolType, WorkerInv, PauseHonoured, Pending
<1> QED
    BY <1>1, PoolInit, PoolStep, PTL DEF Spec
-----------------------------------------------------------------------------
(* The types of what the workers share, and of the counters. *)
SharedType ==
    /\ queue \in Seq({"job", "ghost"})
    /\ signal \in Seq({"wake", "shutdown"})
    /\ owed \in Nat /\ stalled \in Nat /\ adds \in Nat /\ faults \in Nat
    /\ unheard \in [Workers -> BOOLEAN]
    /\ taken \in [Workers -> 0..TakenCap]

LEMMA CopiesType == ASSUME NEW n \in Nat, NEW S, NEW x \in S PROVE Copies(x, n) \in Seq(S)
BY DEF Copies

LEMMA PushedType ==
    ASSUME SharedType, NEW n \in Nat PROVE Pushed(n) \in Seq({"wake", "shutdown"})
BY CopiesType DEF SharedType, Pushed

LEMMA PoppedType == SharedType => Popped \in Seq({"job", "ghost"})
BY DEF SharedType, Popped

LEMMA CountedType ==
    ASSUME SharedType, NEW w \in Workers PROVE Counted(w) \in 0..TakenCap
BY PoolAssumption DEF SharedType, Counted, TakenCap

LEMMA FaultType == SharedType /\ Fault => faults' \in Nat
BY DEF SharedType, Fault

LEMMA SharedServerSteps ==
    ASSUME SharedType,
           \/ Add \/ AddBulk \/ BulkSignal \/ ProducerDies \/ Drain \/ Watchdog
           \/ \E i \in DOMAIN queue : DeleteRecord(i)
           \/ \E b \in BOOLEAN : SetPaused(b)
           \/ UNCHANGED vars
    PROVE  SharedType'
<1>1. Copies("job", 2) \in Seq({"job", "ghost"}) /\ Copies("job", stalled) \in Seq({"job", "ghost"})
    BY CopiesType DEF SharedType
<1>2. Pushed(1) \in Seq({"wake", "shutdown"}) /\ Pushed(owed) \in Seq({"wake", "shutdown"})
    BY PushedType DEF SharedType
<1>3. Missing \in Nat /\ stalled + Missing \in Nat
    BY DEF Missing, SharedType
<1>4. Pushed(stalled + Missing) \in Seq({"wake", "shutdown"})
    BY <1>3, PushedType
<1>5. CASE Add \/ AddBulk \/ BulkSignal \/ ProducerDies \/ Drain
  <2>1. CASE Add
    BY <1>2, <2>1 DEF Add, workerVars, SharedType
  <2>2. CASE AddBulk
    <3>1. queue \o Copies("job", 2) \in Seq({"job", "ghost"})
      BY <1>1, ConcatProperties DEF SharedType
    <3> QED
      BY <2>2, <3>1 DEF AddBulk, workerVars, SharedType
  <2>3. CASE BulkSignal
    BY <1>2, <2>3 DEF BulkSignal, workerVars, SharedType
  <2>4. CASE ProducerDies
    BY <2>4, FaultType DEF ProducerDies, workerVars, SharedType
  <2>5. CASE Drain
    BY <2>5, FaultType, EmptySeq DEF Drain, workerVars, SharedType
  <2> QED
    BY <1>5, <2>1, <2>2, <2>3, <2>4, <2>5
<1>6. CASE Watchdog
  <2>1. queue \o Copies("job", stalled) \in Seq({"job", "ghost"})
    BY <1>1, ConcatProperties DEF SharedType
  <2> QED
    BY <1>4, <1>6, <2>1 DEF Watchdog, workerVars, SharedType
<1>7. ASSUME NEW i \in DOMAIN queue, DeleteRecord(i) PROVE SharedType'
  <2>1. [queue EXCEPT ![i] = "ghost"] \in Seq({"job", "ghost"})
    BY LenProperties, ExceptSeq DEF SharedType
  <2> QED
    BY <1>7, <2>1 DEF DeleteRecord, Fault, workerVars, SharedType
<1>8. ASSUME NEW b \in BOOLEAN, SetPaused(b) PROVE SharedType'
  <2>1. faults' \in Nat
    BY <1>8, FaultType DEF SetPaused, SharedType
  <2>2. unheard' \in [Workers -> BOOLEAN]
    BY <1>8 DEF SetPaused, Subscribed
  <2> QED
    BY <1>8, <2>1, <2>2 DEF SetPaused, SharedType
<1>9. CASE UNCHANGED vars
    BY <1>9 DEF vars, serverVars, workerVars, SharedType
<1> QED
    BY <1>5, <1>6, <1>7, <1>8, <1>9

LEMMA SharedFetcherSteps ==
    ASSUME SharedType, NEW w \in Workers,
           Fetcher(w) \/ PopToken(w) \/ Admitted(w) \/ Disconnect(w)
    PROVE  SharedType'
<1>1. CASE \/ Subscribe(w) \/ LoopHead(w) \/ Resumed(w) \/ TimesOut(w) \/ PutBack(w)
           \/ Denied(w) \/ Del(w) \/ PopToken(w) \/ Admitted(w) \/ Disconnect(w)
  <2>1. UNCHANGED <<queue, owed, stalled, unheard, taken, adds, faults>>
    BY <1>1 DEF Subscribe, LoopHead, Resumed, TimesOut, PutBack, Denied, Del, PopToken,
                Admitted, Disconnect, Moves, serverVars
  <2>2. \/ signal' \in {signal, Pushed(1), <<>>}
        \/ signal # <<>> /\ signal' = Tail(signal)
    BY <1>1 DEF Subscribe, LoopHead, Resumed, TimesOut, PutBack, Denied, Del, PopToken,
                Admitted, Disconnect, serverVars
  <2>3. signal' \in Seq({"wake", "shutdown"})
    BY <2>2, PushedType, HeadTailProperties, EmptySeq DEF SharedType
  <2> QED
    BY <2>1, <2>3 DEF SharedType
<1>2. CASE Ask(w) \/ AskAgain(w)
  <2>1. /\ queue' = Popped /\ (taken' = taken \/ taken' = [taken EXCEPT ![w] = Counted(w)])
        /\ UNCHANGED <<signal, owed, stalled, unheard, adds, faults>>
    BY <1>2 DEF Ask, AskAgain, Dequeue
  <2> QED
    BY <2>1, PoppedType, CountedType DEF SharedType
<1> QED
    BY <1>1, <1>2 DEF Fetcher

LEMMA SharedRunSteps ==
    ASSUME SharedType, PoolInv, NEW w \in Workers,
           \/ Succeeds(w) \/ Ends(w) \/ FetchNext(w)
           \/ Start(w) \/ Hear(w) \/ Stop(w) \/ StopEnds(w) \/ Crash(w)
    PROVE  SharedType'
<1>1. 0 \in 0..TakenCap /\ Counted(w) \in 0..TakenCap /\ Popped \in Seq({"job", "ghost"})
    BY CountedType, PoppedType, PoolAssumption DEF TakenCap
<1>2. stalled + running[w] \in Nat
    BY DEF SharedType, PoolInv, PoolType
<1>3. CASE Succeeds(w) \/ Ends(w) \/ FetchNext(w)
    BY <1>1, <1>3 DEF Succeeds, Ends, FetchNext, serverVars, SharedType
<1>4. CASE Start(w) \/ Hear(w)
    BY <1>1, <1>4 DEF Start, Hear, serverVars, SharedType
<1>5. CASE Stop(w)
  <2>1. <<"shutdown">> \o signal \in Seq({"wake", "shutdown"})
    BY DEF SharedType
  <2> QED
    BY <1>1, <1>5, <2>1 DEF Stop, Fault, SharedType
<1>6. CASE StopEnds(w)
    BY <1>2, <1>6 DEF StopEnds, RunsLost, SharedType
<1>7. CASE Crash(w)
  <2>1. [taken EXCEPT ![w] = 0] \in [Workers -> 0..TakenCap]
    BY <1>1 DEF SharedType
  <2> QED
    BY <1>2, <1>7, <2>1 DEF Crash, RunsLost, Fault, SharedType
<1> QED
    BY <1>3, <1>4, <1>5, <1>6, <1>7

\* Every variable keeps its type, for any number of workers and any bounds.
THEOREM TokensTyped == Spec => []TypeOK
<1>1. Init => SharedType
    BY PoolAssumption DEF Init, SharedType, TakenCap
<1>2. PoolInv /\ SharedType /\ [Next]_vars => SharedType'
    <2> SUFFICES ASSUME PoolInv, SharedType, [Next]_vars PROVE SharedType'
        OBVIOUS
    <2> QED
        BY SharedServerSteps, SharedFetcherSteps, SharedRunSteps DEF Next
<1>3. PoolInv /\ SharedType => TypeOK
    BY DEF PoolInv, PoolType, SharedType, TypeOK
<1> QED
    BY <1>1, <1>2, <1>3, PoolInit, PoolStep, PTL DEF Spec
=============================================================================
