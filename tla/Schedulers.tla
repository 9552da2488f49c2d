----------------------------- MODULE Schedulers -----------------------------
(***************************************************************************)
(* The schedulers of one queue.  Each has a loop that promotes what is due *)
(* and then sleeps until the earliest delayed job: a timer for a second or *)
(* less, else a blocking pop of a list on which whoever delays a job       *)
(* leaves a token.  Redis gives a token to the client that has waited      *)
(* longest, so the schedulers share the tokens.  A second loop, the        *)
(* watchdog, sweeps at an interval.  stop() must reach both loops wherever *)
(* they are.                                                               *)
(*                                                                         *)
(* The unit of time is half a second: two units are the second that        *)
(* divides timers from blocking pops.  Commands and the 50 and 100 ms      *)
(* pauses take no time on that scale; what they interleave with counts.    *)
(***************************************************************************)
EXTENDS Naturals, Sequences, FiniteSets, SequencesExt

CONSTANTS
    Scheds, Jobs, None,
    Delays,      \* the delays asked for
    Default,     \* 30 s: the sleep when nothing is delayed
    MaxTime,     \* bound of the clock
    MaxDelays    \* bound: entries written

ASSUME SchedulersAssumption ==
    /\ Delays \subseteq Nat /\ Default \in Nat /\ Default > 2
    /\ MaxTime \in Nat /\ MaxDelays \in Nat /\ None \notin Nat \cup Jobs

VARIABLES
    now,
    due,      \* the score of each delayed job
    tokens,   \* length of signal:delayed:{queue}
    blocked,  \* the clients in a blocking pop, the longest waiting first
    loop,     \* delayedjobs(): where it is, and when its sleep ends
    guard,    \* start(): where the watchdog is
    live,     \* this.active
    stop,     \* how far stop() is
    moving,   \* a job whose entry changeDelay or addBulk wrote, its token still to come
    asked     \* entries written so far

\* History: jobs whose scheduler or whose caller died, or whose wake-up token
\* went to a scheduler that was being stopped.
VARIABLE stranded

schedVars == <<now, due, tokens, blocked, loop, guard, live, stop, moving, asked, stranded>>

Delayed == {j \in Jobs : due[j] # None}
Round(s) == [at |-> IF live[s] THEN "promote" ELSE "ended", wake |-> 0]
Without(s) ==
    IF s \in ToSet(blocked)
    THEN RemoveAt(blocked, CHOOSE i \in DOMAIN blocked : blocked[i] = s)
    ELSE blocked

----------------------------------------------------------------------------
(***************************************************************************)
(* LPUSH: the longest waiting client takes the token, or it stays.  A      *)
(* scheduler on its way to a blocking pop with what it read before is not  *)
(* woken by a token that a stopping one takes.                             *)
(***************************************************************************)
Push(told) ==
    IF blocked = <<>>
    THEN tokens' = tokens + 1 /\ UNCHANGED <<blocked, loop, stranded>>
    ELSE LET s == Head(blocked) IN
         /\ blocked' = Tail(blocked) /\ loop' = [loop EXCEPT ![s] = Round(s)]
         /\ stranded' = IF live[s] THEN stranded ELSE stranded \cup told
         /\ UNCHANGED tokens

DelayNoToken(j, d) ==
    /\ asked < MaxDelays /\ j \notin Delayed
    /\ due' = [due EXCEPT ![j] = now + d] /\ asked' = asked + 1
    /\ UNCHANGED <<now, tokens, blocked, loop, guard, live, stop, moving, stranded>>

\* addDelayed.lua, signal.lua: the entry and its token in one script.
Delay(j, d) ==
    /\ asked < MaxDelays /\ j \notin Delayed
    /\ due' = [due EXCEPT ![j] = now + d]
    /\ Push({j})
    /\ asked' = asked + 1
    /\ UNCHANGED <<now, guard, live, stop, moving>>

\* changeDelay of a delayed or a waiting job, a job of addBulk: the entry,
\* then the token.
Move(j, d) ==
    /\ asked < MaxDelays /\ moving = None
    /\ due' = [due EXCEPT ![j] = now + d] /\ moving' = j
    /\ asked' = asked + 1
    /\ UNCHANGED <<now, tokens, blocked, loop, guard, live, stop, stranded>>

MoveTold ==
    /\ moving # None /\ moving' = None
    /\ Push({moving} \cap Delayed)
    /\ UNCHANGED <<now, due, guard, live, stop, asked>>

MoverDies ==
    /\ moving # None /\ moving' = None
    /\ stranded' = stranded \cup ({moving} \cap Delayed)
    /\ UNCHANGED <<now, due, tokens, blocked, loop, guard, live, stop, asked>>
----------------------------------------------------------------------------
(***************************************************************************)
(* delayedjobs()                                                           *)
(***************************************************************************)
Start(s) ==
    /\ loop[s].at = "off"
    /\ loop' = [loop EXCEPT ![s] = Round(s)]
    /\ guard' = [guard EXCEPT ![s] = IF live[s] THEN "sweep" ELSE "ended"]
    /\ UNCHANGED <<now, due, tokens, blocked, live, stop, moving, asked, stranded>>

Promote(s) ==
    /\ loop[s].at = "promote"
    /\ due' = [j \in Jobs |-> IF j \in Delayed /\ due[j] <= now THEN None ELSE due[j]]
    /\ stranded' = {j \in stranded : due[j] > now}
    /\ loop' = [loop EXCEPT ![s].at = "zrange"]
    /\ UNCHANGED <<now, tokens, blocked, guard, live, stop, moving, asked>>

WaitFor == IF Delayed = {} THEN Default
           ELSE LET j == CHOOSE j \in Delayed : \A k \in Delayed : due[j] <= due[k]
                IN  IF due[j] > now THEN due[j] - now ELSE 0

LookNoTimer(s) ==
    /\ loop[s].at = "zrange"
    /\ loop' = [loop EXCEPT ![s] = IF WaitFor = 0 THEN [at |-> "yield", wake |-> now]
                   ELSE [at |-> "blpop", wake |-> now + 2 * (WaitFor \div 2)]]
    /\ UNCHANGED <<now, due, tokens, blocked, guard, live, stop, moving, asked, stranded>>

\* The blocking pop takes whole seconds, and 0 would be for ever.
Look(s) ==
    LET w == WaitFor IN
    /\ loop[s].at = "zrange"
    /\ loop' = [loop EXCEPT ![s] =
                   IF w = 0 THEN [at |-> "yield", wake |-> now]
                   ELSE IF w <= 2
                   THEN IF live[s] THEN [at |-> "timer", wake |-> now + w] ELSE Round(s)
                   ELSE [at |-> "blpop", wake |-> now + 2 * (w \div 2)]]
    /\ UNCHANGED <<now, due, tokens, blocked, guard, live, stop, moving, asked, stranded>>

\* The pop reaches Redis; on a connection that stop() has closed it fails.
Block(s) ==
    /\ loop[s].at = "blpop"
    /\ IF stop[s] = "done" \/ tokens > 0
       THEN /\ loop' = [loop EXCEPT ![s] = Round(s)]
            /\ tokens' = IF stop[s] = "done" THEN tokens ELSE tokens - 1
            /\ stranded' = IF live[s] THEN stranded ELSE stranded \cup Delayed
            /\ UNCHANGED blocked
       ELSE /\ loop' = [loop EXCEPT ![s].at = "blocked"]
            /\ blocked' = Append(blocked, s)
            /\ UNCHANGED <<tokens, stranded>>
    /\ UNCHANGED <<now, due, guard, live, stop, moving, asked>>

WakeStaysBlocked(s) ==
    /\ \/ loop[s].at = "yield"
       \/ loop[s].at \in {"timer", "blocked"} /\ now >= loop[s].wake
    /\ loop' = [loop EXCEPT ![s] = Round(s)]
    /\ UNCHANGED <<now, due, tokens, blocked, guard, live, stop, moving, asked, stranded>>

Wake(s) ==
    /\ \/ loop[s].at = "yield"
       \/ loop[s].at \in {"timer", "blocked"} /\ now >= loop[s].wake
    /\ loop' = [loop EXCEPT ![s] = Round(s)]
    /\ blocked' = Without(s)
    /\ UNCHANGED <<now, due, tokens, guard, live, stop, moving, asked, stranded>>

\* The watchdog's round: the sweep is recoverStalled.lua, in JobStore, and the
\* interval between two may end at any time.
Watch(s) ==
    /\ guard[s] \in {"sweep", "asleep"}
    /\ guard' = [guard EXCEPT ![s] = IF ~live[s] THEN "ended"
                                     ELSE IF @ = "sweep" THEN "asleep" ELSE "sweep"]
    /\ UNCHANGED <<now, due, tokens, blocked, loop, live, stop, moving, asked, stranded>>
----------------------------------------------------------------------------
(***************************************************************************)
(* stop(): the flag and a token; then the timers; then, after 100 ms, the  *)
(* connection the loop blocks on.                                          *)
(***************************************************************************)
StopBegins(S) ==
    /\ live' = [s \in Scheds |-> live[s] /\ s \notin S]
    /\ stop' = [s \in Scheds |-> IF s \in S THEN "push" ELSE stop[s]]
    /\ UNCHANGED <<now, due, tokens, blocked, loop, guard, moving, asked, stranded>>

StopPushes(s) ==
    /\ stop[s] = "push"
    /\ Push(Delayed)
    /\ stop' = [stop EXCEPT ![s] = "clear"]
    /\ UNCHANGED <<now, due, guard, live, moving, asked>>

StopClearsOnly(s) ==
    /\ stop[s] = "clear"
    /\ stop' = [stop EXCEPT ![s] = "pause"]
    /\ UNCHANGED <<now, due, tokens, blocked, loop, guard, live, moving, asked, stranded>>

StopClears(s) ==
    /\ stop[s] = "clear"
    /\ stop' = [stop EXCEPT ![s] = "pause"]
    /\ loop' = IF loop[s].at = "timer" THEN [loop EXCEPT ![s] = Round(s)] ELSE loop
    /\ guard' = IF guard[s] = "asleep" THEN [guard EXCEPT ![s] = "ended"] ELSE guard
    /\ UNCHANGED <<now, due, tokens, blocked, live, moving, asked, stranded>>

StopDisconnects(s) ==
    /\ stop[s] = "pause"
    /\ stop' = [stop EXCEPT ![s] = "done"]
    /\ loop' = IF loop[s].at = "blocked" THEN [loop EXCEPT ![s] = Round(s)] ELSE loop
    /\ blocked' = Without(s)
    /\ UNCHANGED <<now, due, tokens, guard, live, moving, asked, stranded>>

Dies(s) ==
    /\ loop[s].at \notin {"off", "dead"}
    /\ loop' = [loop EXCEPT ![s] = [at |-> "dead", wake |-> 0]]
    /\ guard' = [guard EXCEPT ![s] = "dead"]
    /\ live' = [live EXCEPT ![s] = FALSE] /\ stop' = [stop EXCEPT ![s] = "done"]
    /\ blocked' = Without(s)
    /\ stranded' = stranded \cup Delayed
    /\ UNCHANGED <<now, due, tokens, moving, asked>>

\* Nothing that is awake, and no timer that has run out, waits for the clock.
Tick ==
    /\ now < MaxTime /\ moving = None
    /\ \A s \in Scheds :
           /\ \/ loop[s].at \in {"off", "ended", "dead"}
              \/ loop[s].at \in {"timer", "blocked"} /\ now < loop[s].wake
           /\ stop[s] \in {"no", "done"}
    /\ now' = now + 1
    /\ UNCHANGED <<due, tokens, blocked, loop, guard, live, stop, moving, asked, stranded>>
----------------------------------------------------------------------------
SchedInit ==
    /\ now = 0 /\ due = [j \in Jobs |-> None] /\ tokens = 0 /\ blocked = <<>>
    /\ loop = [s \in Scheds |-> [at |-> "off", wake |-> 0]]
    /\ guard = [s \in Scheds |-> "off"]
    /\ live = [s \in Scheds |-> TRUE] /\ stop = [s \in Scheds |-> "no"]
    /\ moving = None /\ asked = 0 /\ stranded = {}

SchedStep(s) ==
    \/ Start(s) \/ Promote(s) \/ Look(s) \/ Block(s) \/ Wake(s) \/ Watch(s)
    \/ StopPushes(s) \/ StopClears(s) \/ StopDisconnects(s)

CallerStep == \/ \E j \in Jobs, d \in Delays : Delay(j, d) \/ Move(j, d)
              \/ MoveTold \/ MoverDies

SchedTypeOK ==
    /\ now \in 0..MaxTime /\ tokens \in Nat /\ asked \in 0..MaxDelays
    /\ due \in [Jobs -> Nat \cup {None}]
    /\ ToSet(blocked) \subseteq Scheds /\ IsInjective(blocked)
    /\ \A s \in Scheds :
           /\ loop[s].at \in {"off", "promote", "zrange", "yield", "timer", "blpop",
                              "blocked", "ended", "dead"}
           /\ loop[s].at = "blocked" <=> s \in ToSet(blocked)
           /\ guard[s] \in {"off", "sweep", "asleep", "ended", "dead"}
           /\ live[s] \in BOOLEAN /\ stop[s] \in {"no", "push", "clear", "pause", "done"}
    /\ moving \in Jobs \cup {None} /\ stranded \subseteq Jobs

\* Some running scheduler looks again before a delayed job's time is past, or
\* a second later when it sleeps on a timer, whichever of them took the token
\* that came with the job.  Not so for the stranded: delayed when a scheduler or
\* a caller died, or when a scheduler that is being stopped took a token that
\* another needed (scheduler.js:107, :116).
Minds(s, j) ==
    /\ live[s]
    /\ \/ loop[s].at \in {"promote", "zrange", "yield"}
       \/ loop[s].at = "blpop" /\ tokens > 0
       \/ loop[s].at \in {"blpop", "blocked"} /\ (loop[s].wake <= due[j] \/ loop[s].wake <= now)
       \/ loop[s].at = "timer" /\ loop[s].wake <= due[j] + 2

SomeoneMinds ==
    \A j \in Delayed \ (stranded \cup {moving}) :
        (\E s \in Scheds : live[s] /\ loop[s].at # "off") =>
            \/ \E s \in Scheds : Minds(s, j)
            \/ \E s \in Scheds : stop[s] = "push"

\* A blocking pop has an end: its timeout is never 0 (scheduler.js:107).
PopsEnd == \A s \in Scheds : loop[s].at = "blpop" => loop[s].wake > now

\* When stop() has returned neither loop is asleep: both have ended or are on
\* their way out (scheduler.js:115).
StoppedIsAwake ==
    \A s \in Scheds : stop[s] = "done" => loop[s].at \notin {"timer", "blocked"} /\ guard[s] # "asleep"
=============================================================================
