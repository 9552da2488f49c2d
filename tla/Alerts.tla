------------------------------- MODULE Alerts -------------------------------
(***************************************************************************)
(* The alert rules of the dashboard: the routes that keep them, the ticks  *)
(* of MetricsAggregator that judge them, the two hashes of incidents.      *)
(*                                                                         *)
(* A tick is started by a timer, whether or not the one before has come to *)
(* its end, and each process that runs the observability stack has ticks   *)
(* of its own: several are under way at a time.  A queue is judged by what *)
(* the tick read before it read the rules, and a rule by what the tick     *)
(* read before it looked at the first of them.                             *)
(***************************************************************************)
EXTENDS Integers, FiniteSets

CONSTANTS
    Queues, Rules,
    Options,    \* the contents a rule may be given: queue, metric, threshold
    Ticks,      \* ticks that may be under way at a time
    None,
    Start,      \* how much waits in each queue at first
    Top,        \* bound: the levels of a queue are 0..Top
    MaxEdits,   \* bound: rules saved and deleted
    MaxMoves,   \* bound: changes of level
    MaxFaults   \* bound: restarts and commands that fail

ASSUME AlertsAssumption ==
    /\ Top \in Nat /\ Start \in [Queues -> 0..Top]
    /\ Options \subseteq [queue : Queues, metric : {"waiting", "health", "other"},
                          threshold : 0..Top]
ASSUME NoneAssumption == None \notin Rules \cup Options
ASSUME BoundsAssumption == MaxEdits \in Nat /\ MaxMoves \in Nat /\ MaxFaults \in Nat

VARIABLES
    level,      \* how much waits in each queue
    known,      \* queueNames of the aggregator
    rules,      \* taurusmq:obs:alert_rules
    alerts,     \* tmq:obs:alerts
    incidents,  \* tmq:obs:incidents: id -> state
    tick,       \* what each tick holds
    deleting,   \* rules whose DELETE is between its two commands
    edits, moves, faults

\* History: what was last told about each rule; rules that were deleted, and
\* those deleted under a tick or by half; rules two ticks had in hand at one
\* time; rules whose message was lost.
VARIABLES told, deleted, outlived, overlapped, silenced

store == <<rules, alerts, incidents>>
history == <<told, deleted, outlived, overlapped, silenced>>
vars == <<level, known, store, tick, deleting, edits, moves, faults, history>>

Idle == [at |-> "idle", done |-> {}, queue |-> None, level |-> 0,
         rules |-> [r \in Rules |-> None], firing |-> {},
         todo |-> {}, rule |-> None]

TypeOK ==
    /\ level \in [Queues -> 0..Top] /\ known \subseteq Queues
    /\ rules \in [Rules -> Options \cup {None}] /\ alerts \subseteq Rules
    /\ incidents \in [Rules -> {"none", "firing", "resolved"}]
    /\ \A e \in Ticks : /\ tick[e].at \in {"idle", "rules", "alerts", "judge",
                                           "fired", "resolved"}
                        /\ tick[e].todo \subseteq {r \in Rules : tick[e].rules[r] # None}
                        /\ tick[e].at = "idle" => tick[e].rules = Idle.rules
                        /\ tick[e].at \in {"fired", "resolved"} <=> tick[e].rule # None
    /\ deleting \subseteq Rules
    /\ edits \in 0..MaxEdits /\ moves \in 0..MaxMoves /\ faults \in 0..MaxFaults

Init ==
    /\ level = Start /\ known = {}
    /\ rules = [r \in Rules |-> None] /\ alerts = {}
    /\ incidents = [r \in Rules |-> "none"]
    /\ tick = [e \in Ticks |-> Idle] /\ deleting = {}
    /\ edits = 0 /\ moves = 0 /\ faults = 0
    /\ told = [r \in Rules |-> "resolved"]
    /\ deleted = {} /\ outlived = {} /\ overlapped = {} /\ silenced = {}

Fault == faults < MaxFaults /\ faults' = faults + 1
----------------------------------------------------------------------------
(***************************************************************************)
(* The environment, and the first event that names a queue.                *)
(***************************************************************************)
Move(q, n) ==
    /\ moves < MaxMoves /\ moves' = moves + 1
    /\ n # level[q] /\ level' = [level EXCEPT ![q] = n]
    /\ UNCHANGED <<known, store, tick, deleting, edits, faults, history>>

AddQueue(q) ==
    /\ q \notin known /\ known' = known \cup {q}
    /\ UNCHANGED <<level, store, tick, deleting, edits, moves, faults, history>>

(***************************************************************************)
(* POST and DELETE /api/alerts/rules.  A rule saved under an id in use     *)
(* replaces it, and leaves its alert to be judged by the new contents.  A  *)
(* rule is deleted before its alert; its incident is kept.                 *)
(***************************************************************************)
Holding(r) == {e \in Ticks : tick[e].rules[r] # None}

Save(r, o) ==
    /\ edits < MaxEdits /\ edits' = edits + 1
    /\ rules[r] # o /\ rules' = [rules EXCEPT ![r] = o]
    /\ UNCHANGED <<level, known, alerts, incidents, tick, deleting, moves, faults, history>>

Delete(r) ==
    /\ edits < MaxEdits /\ edits' = edits + 1
    /\ rules[r] # None /\ rules' = [rules EXCEPT ![r] = None]
    /\ deleting' = deleting \cup {r} /\ deleted' = deleted \cup {r}
    /\ outlived' = IF Holding(r) = {} THEN outlived ELSE outlived \cup {r}
    /\ UNCHANGED <<level, known, alerts, incidents, tick, moves, faults>>
    /\ UNCHANGED <<told, overlapped, silenced>>

\* Mutant: the alert of a deleted rule is left where it is.
AlertStays(r) == alerts
AlertGone(r) == alerts \ {r}

DeleteAlert(r) ==
    /\ r \in deleting /\ deleting' = deleting \ {r}
    /\ alerts' = AlertGone(r)
    /\ UNCHANGED <<level, known, rules, incidents, tick, edits, moves, faults, history>>
----------------------------------------------------------------------------
(***************************************************************************)
(* _tick and _aggregateQueue.                                              *)
(***************************************************************************)
Sets(e, t) == tick' = [tick EXCEPT ![e] = t]
\* Mutant: what was read for one queue is kept for the next.
RestKeeps(e) == [tick[e] EXCEPT !.at = "idle"]
Rest(e) == [Idle EXCEPT !.done = tick[e].done]

\* On to the next rule, or to the next queue after the last.
Onward(e, left) == IF left = {} THEN Rest(e)
                   ELSE [tick[e] EXCEPT !.at = "judge", !.todo = left, !.rule = None]

Counters(e, q) ==
    /\ tick[e].at = "idle" /\ q \in known \ tick[e].done
    /\ Sets(e, [Idle EXCEPT !.at = "rules", !.done = tick[e].done \cup {q},
                            !.queue = q, !.level = level[q]])
    /\ UNCHANGED <<level, known, store, deleting, edits, moves, faults, history>>

TickEnds(e) ==
    /\ tick[e].at = "idle" /\ tick[e].done # {} /\ known \subseteq tick[e].done
    /\ Sets(e, Idle)
    /\ UNCHANGED <<level, known, store, deleting, edits, moves, faults, history>>

\* Rules of another queue, or with a metric the switch does not know, are passed.
\* Mutant: the rule's queue is not compared.
JudgedAll(r, q) == q \in Queues /\ rules[r] # None /\ rules[r].metric # "other"
Judged(r, q) == rules[r] # None /\ rules[r].queue = q /\ rules[r].metric # "other"

ReadRules(e) ==
    LET mine == {r \in Rules : Judged(r, tick[e].queue)} IN
    /\ tick[e].at = "rules"
    /\ Sets(e, [tick[e] EXCEPT !.at = "alerts", !.todo = mine,
                               !.rules = [r \in Rules |-> IF r \in mine THEN rules[r] ELSE None]])
    /\ overlapped' = overlapped \cup {r \in mine : Holding(r) \ {e} # {}}
    /\ UNCHANGED <<level, known, store, deleting, edits, moves, faults>>
    /\ UNCHANGED <<told, deleted, outlived, silenced>>

ReadAlerts(e) ==
    /\ tick[e].at = "alerts"
    /\ Sets(e, IF tick[e].todo = {} THEN Rest(e)
               ELSE [tick[e] EXCEPT !.at = "judge", !.firing = alerts])
    /\ UNCHANGED <<level, known, store, deleting, edits, moves, faults, history>>

\* The health score falls with the level.
Violated(o, n) == IF o.metric = "health" THEN Top - n < o.threshold ELSE n > o.threshold

\* Mutant: the incident is not written when the alert goes.
OnlyAlert(r) == incidents
Resolved(r) == [incidents EXCEPT ![r] = "resolved"]

\* Mutant: whether it was firing is not asked.
NeverWas(e, r) == FALSE
WasFiring(e, r) == r \in tick[e].firing

Judge(e, r) ==
    LET was == WasFiring(e, r)
        tell(at) == Sets(e, [tick[e] EXCEPT !.at = at, !.rule = r, !.todo = @ \ {r}])
        goOn == Sets(e, Onward(e, tick[e].todo \ {r}))
    IN  /\ tick[e].at = "judge" /\ r \in tick[e].todo
        /\ IF Violated(tick[e].rules[r], tick[e].level)
           THEN /\ alerts' = alerts \cup {r}
                /\ incidents' = [incidents EXCEPT ![r] = "firing"]
                /\ IF was THEN goOn ELSE tell("fired")
           ELSE IF was
           THEN alerts' = alerts \ {r} /\ incidents' = Resolved(r) /\ tell("resolved")
           ELSE goOn /\ UNCHANGED <<alerts, incidents>>
        /\ UNCHANGED <<level, known, rules, deleting, edits, moves, faults, history>>

\* The webhook: the tick waits for it; what it returns is ignored.
Tell(e) ==
    /\ tick[e].at \in {"fired", "resolved"}
    /\ told' = [told EXCEPT ![tick[e].rule] = tick[e].at]
    /\ Sets(e, Onward(e, tick[e].todo))
    /\ UNCHANGED <<level, known, store, deleting, edits, moves, faults>>
    /\ UNCHANGED <<deleted, outlived, overlapped, silenced>>

\* What the two routes of incidents show.
FiringIncidents == alerts
IncidentHistory(state) == {r \in Rules : incidents[r] = state}

(***************************************************************************)
(* A command fails: the rules left of this queue wait for the next tick.   *)
(* The process dies and starts again, with no queue known.                 *)
(***************************************************************************)
CommandFails(e) ==
    /\ tick[e].at \in {"rules", "alerts", "judge"} /\ Fault
    /\ Sets(e, Rest(e))
    /\ UNCHANGED <<level, known, store, deleting, edits, moves, history>>

Restart ==
    /\ Fault
    /\ tick' = [e \in Ticks |-> Idle] /\ known' = {} /\ deleting' = {}
    /\ outlived' = outlived \cup deleting
    /\ silenced' = silenced \cup {r \in Rules : \E e \in Ticks : tick[e].rule = r}
    /\ UNCHANGED <<level, store, edits, moves, told, deleted, overlapped>>

TickStep(e) ==
    \/ TickEnds(e) \/ ReadRules(e) \/ ReadAlerts(e) \/ Tell(e)
    \/ \E q \in Queues : Counters(e, q)
    \/ \E r \in Rules : Judge(e, r)

Next ==
    \/ \E q \in Queues : AddQueue(q) \/ \E n \in 0..Top : Move(q, n)
    \/ \E r \in Rules : Delete(r) \/ DeleteAlert(r) \/ \E o \in Options : Save(r, o)
    \/ \E e \in Ticks : TickStep(e) \/ CommandFails(e)
    \/ Restart

\* Timers fire, commands and webhooks are answered, queues have events.
Spec ==
    /\ Init /\ [][Next]_vars
    /\ \A e \in Ticks : WF_vars(TickStep(e))
    /\ \A r \in Rules : WF_vars(DeleteAlert(r))
    /\ \A q \in Queues : WF_vars(AddQueue(q))
----------------------------------------------------------------------------
(***************************************************************************)
(* An alert has its rule, unless a tick had read the rule before it was    *)
(* deleted, or the process died between the two commands of the DELETE: no *)
(* later tick takes that alert away, since only rules are judged.          *)
(***************************************************************************)
AlertHasRule ==
    \A r \in alerts : rules[r] = None => r \in deleting \cup outlived

(***************************************************************************)
(* An incident is shown as firing as long as its alert is there.  Deleting *)
(* a rule leaves its incident in the history as it is, firing for ever.    *)
(***************************************************************************)
HistoryMatches == IncidentHistory("firing") \ deleted = FiringIncidents \ deleted

(***************************************************************************)
(* What is told of a rule alternates, though nothing records that it was   *)
(* told: not where two ticks judged the rule at one time, where it was     *)
(* deleted, or where the process died between an alert and its message.    *)
(***************************************************************************)
TellsAlternate ==
    [][\A r \in Rules \ (overlapped \cup deleted \cup silenced) :
           \A e \in Ticks : Tell(e) /\ tick[e].rule = r => told'[r] # told[r]]_vars

(***************************************************************************)
(* In the end the alerts are those of the rules that are violated, however *)
(* the ticks overlapped.  A rule whose metric the switch does not know is  *)
(* never judged, and keeps the alert it had.                               *)
(***************************************************************************)
AlertsSettle ==
    \A r \in Rules :
        <>[](rules[r] # None /\ rules[r].metric # "other" =>
                (r \in alerts <=> Violated(rules[r], level[rules[r].queue])))

\* However ticks, edits and crashes interleave, every alert has a rule and the
\* history fires with the alerts, but for what the two parts name
\* (MetricsAggregator.js:219).
AlertsSound == TypeOK /\ AlertHasRule /\ HistoryMatches
=============================================================================
