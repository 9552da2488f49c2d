----------------------------- MODULE Lifecycle -----------------------------
(***************************************************************************)
(* closeAll() over the schedulers and the QueueEvents of an application,   *)
(* wherever their loops, timers and connections are.  A scheduler may also *)
(* be stopped alone, and processes, connections and calls may fail.        *)
(***************************************************************************)
EXTENDS Schedulers, EventLink

CONSTANTS
    Apps,       \* what the application holds and does: [scheds, events, delays]
    MaxFaults   \* bound: processes that die, connections and calls that fail

ASSUME LifecycleAssumption ==
    /\ MaxFaults \in Nat
    /\ \A a \in Apps : a.scheds \subseteq Scheds /\ a.events \in BOOLEAN

VARIABLES app, phase, faults

vars == <<schedVars, linkVars, app, phase, faults>>

Stopped(s) == stop[s] = "done"

\* Promise.allSettled: a step ends when each of its calls has, failed or not.
CloseBegun ==
    /\ phase = "no" /\ phase' = "workers"
    /\ UNCHANGED <<schedVars, linkVars, app, faults>>

CloseSchedulers ==
    /\ phase = "workers" /\ phase' = "schedulers"
    /\ StopBegins({s \in app.scheds : stop[s] = "no"})
    /\ UNCHANGED <<linkVars, app, faults>>

CloseEventsAtOnce ==
    /\ phase = "schedulers" /\ phase' = "events"
    /\ IF app.events THEN CloseBegins ELSE UNCHANGED linkVars
    /\ UNCHANGED <<schedVars, app, faults>>

CloseEvents ==
    /\ phase = "schedulers" /\ phase' = "events"
    /\ \A s \in app.scheds : Stopped(s)
    /\ IF app.events THEN CloseBegins ELSE UNCHANGED linkVars
    /\ UNCHANGED <<schedVars, app, faults>>

CloseEnds ==
    /\ phase = "events" /\ phase' = "done"
    /\ app.events => closing = "done"
    /\ UNCHANGED <<schedVars, linkVars, app, faults>>

Faulty == faults < MaxFaults /\ faults' = faults + 1 /\ UNCHANGED <<app, phase>>
----------------------------------------------------------------------------
Init ==
    /\ app \in Apps /\ phase = "no" /\ faults = 0
    /\ SchedInit /\ LinkInit(app.events)

Next ==
    \/ CloseBegun \/ CloseSchedulers \/ CloseEvents \/ CloseEnds
    \/ \E s \in app.scheds : SchedStep(s) /\ UNCHANGED <<linkVars, app, phase, faults>>
    \/ \E s \in app.scheds : stop[s] = "no" /\ StopBegins({s}) /\ UNCHANGED <<linkVars, app, phase, faults>>
    \/ app.delays /\ CallerStep /\ UNCHANGED <<linkVars, app, phase, faults>>
    \/ Tick /\ UNCHANGED <<linkVars, app, phase, faults>>
    \/ LinkStep /\ UNCHANGED <<schedVars, app, phase, faults>>
    \/ LinkFault /\ Faulty /\ UNCHANGED schedVars
    \/ \E s \in app.scheds : Dies(s) /\ Faulty /\ UNCHANGED linkVars

Spec == Init /\ [][Next]_vars

TypeOK ==
    /\ SchedTypeOK /\ LinkTypeOK
    /\ app \in Apps /\ faults \in 0..MaxFaults
    /\ phase \in {"no", "workers", "schedulers", "events", "done"}

\* When closeAll() has returned, no loop of a scheduler sleeps or waits in
\* Redis, and the subscription is gone, wherever each was when it was called
\* (lifecycle.js:20, :23).
AllClosed ==
    phase = "done" =>
        /\ \A s \in app.scheds :
               /\ ~live[s] /\ Stopped(s)
               /\ loop[s].at \notin {"timer", "blocked"} /\ guard[s] # "asleep"
        /\ app.events => ~subscribed /\ link = "ended"

\* The loops and the subscription stop when they are stopped and come back when
\* they were not: see PopsEnd, StoppedIsAwake, ComesBack and ClosedIsSilent
\* (scheduler.js:107, queue-events.js:42).
LoopsSound == TypeOK /\ PopsEnd /\ StoppedIsAwake /\ ComesBack /\ ClosedIsSilent
=============================================================================
