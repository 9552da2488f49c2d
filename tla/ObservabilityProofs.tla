------------------------ MODULE ObservabilityProofs ------------------------
(***************************************************************************)
(* Two parts of the observability core, each for any constants: the alerts *)
(* of Alerts.tla, then the gauges and outcomes of Gauges.tla.              *)
(***************************************************************************)
EXTENDS Alerts, Gauges, TLAPS, FiniteSetTheorems

-----------------------------------------------------------------------------
(***************************************************************************)
(* Alerts keep their rules, the history fires with the alerts, and what is *)
(* told alternates, for any queues, rules and number of overlapping ticks. *)
(*                                                                         *)
(* Neither part of AlertsSound is inductive: a tick may still judge a rule *)
(* that is gone, and a DELETE takes an alert without its incident.  What   *)
(* must be added is that a rule a tick holds and that is gone has been     *)
(* noted as outlived, and that what a DELETE is about to take away was     *)
(* noted as deleted.                                                       *)
(***************************************************************************)
TickRec ==
    [at : {"idle", "rules", "alerts", "judge", "fired", "resolved"},
     done : SUBSET Queues, queue : Queues \cup {None}, level : 0..Top,
     rules : [Rules -> Options \cup {None}], firing : SUBSET Rules,
     todo : SUBSET Rules, rule : Rules \cup {None}]

\* What a tick holds is consistent with where it is.
TickFits(t) ==
    /\ t.todo \subseteq {r \in Rules : t.rules[r] # None}
    /\ t.at = "idle" => t.rules = [r \in Rules |-> None]
    /\ t.at \in {"fired", "resolved"} <=> t.rule # None

Types ==
    /\ level \in [Queues -> 0..Top] /\ known \subseteq Queues
    /\ rules \in [Rules -> Options \cup {None}] /\ alerts \subseteq Rules
    /\ incidents \in [Rules -> {"none", "firing", "resolved"}]
    /\ tick \in [Ticks -> TickRec]
    /\ \A e \in Ticks : TickFits(tick[e])
    /\ deleting \subseteq Rules
    /\ edits \in 0..MaxEdits /\ moves \in 0..MaxMoves /\ faults \in 0..MaxFaults

HeldIsNoted ==
    \A e \in Ticks : \A r \in Rules :
        tick[e].rules[r] # None /\ rules[r] = None => r \in outlived

Matches == \A r \in Rules \ deleted : incidents[r] = "firing" <=> r \in alerts

Inv == Types /\ HeldIsNoted /\ AlertHasRule /\ Matches /\ deleting \subseteq deleted

-----------------------------------------------------------------------------
LEMMA IdleTick == Idle \in TickRec /\ TickFits(Idle)
BY AlertsAssumption DEF Idle, TickRec, TickFits

LEMMA RestTick ==
    ASSUME Types, NEW e \in Ticks
    PROVE  Rest(e) \in TickRec /\ TickFits(Rest(e)) /\ Rest(e).rules = [r \in Rules |-> None]
BY IdleTick DEF Types, Rest, Idle, TickRec, TickFits

LEMMA OnwardTick ==
    ASSUME Types, NEW e \in Ticks, tick[e].at # "idle", NEW left \in SUBSET tick[e].todo
    PROVE  /\ Onward(e, left) \in TickRec /\ TickFits(Onward(e, left))
           /\ \A r \in Rules : Onward(e, left).rules[r] # None => tick[e].rules[r] # None
<1>1. tick[e] \in TickRec /\ TickFits(tick[e])
  BY DEF Types
<1>2. CASE left = {}
  BY <1>2, RestTick DEF Onward
<1>3. CASE left # {}
  <2>1. Onward(e, left) = [tick[e] EXCEPT !.at = "judge", !.todo = left, !.rule = None]
    BY <1>3 DEF Onward
  <2> QED BY <2>1, <1>1, NoneAssumption DEF TickRec, TickFits
<1> QED BY <1>2, <1>3

(* What a step of one tick keeps, if what the tick holds becomes fits. *)
LEMMA TickChanges ==
    ASSUME Types, HeldIsNoted, NEW e \in Ticks, NEW t \in TickRec, TickFits(t), Sets(e, t),
           rules' = rules, outlived' = outlived,
           \A r \in Rules : t.rules[r] # None => tick[e].rules[r] # None \/ rules[r] # None
    PROVE  /\ tick' \in [Ticks -> TickRec] /\ \A d \in Ticks : TickFits(tick'[d])
           /\ HeldIsNoted'
<1>1. tick' = [tick EXCEPT ![e] = t] /\ tick \in [Ticks -> TickRec]
  BY DEF Sets, Types
<1>2. \A d \in Ticks : tick'[d] = IF d = e THEN t ELSE tick[d]
  BY <1>1
<1>3. tick' \in [Ticks -> TickRec]
  BY <1>1
<1>4. \A d \in Ticks : TickFits(tick'[d])
  BY <1>2 DEF Types
<1>5. HeldIsNoted'
  BY <1>2 DEF HeldIsNoted
<1> QED BY <1>3, <1>4, <1>5

LEMMA InvInit == Init => Inv
<1> SUFFICES ASSUME Init PROVE Inv
    OBVIOUS
<1>1. Types
    BY IdleTick, AlertsAssumption, BoundsAssumption DEF Init, Types
<1>2. HeldIsNoted /\ AlertHasRule /\ Matches
    BY DEF Init, HeldIsNoted, AlertHasRule, Matches, Idle
<1> QED
    BY <1>1, <1>2 DEF Inv, Init

-----------------------------------------------------------------------------
(* The environment and the routes. *)
LEMMA MoveKeeps == ASSUME Inv, NEW q \in Queues, NEW n \in 0..Top, Move(q, n) PROVE Inv'
<1>1. Types'
    BY BoundsAssumption DEF Inv, Types, Move, store, history
<1> QED
    BY <1>1 DEF Inv, Move, store, history, HeldIsNoted, AlertHasRule, Matches

LEMMA AddQueueKeeps == ASSUME Inv, NEW q \in Queues, AddQueue(q) PROVE Inv'
<1>1. Types'
    BY DEF Inv, Types, AddQueue, store, history
<1> QED
    BY <1>1 DEF Inv, AddQueue, store, history, HeldIsNoted, AlertHasRule, Matches

\* A rule that is saved is there: what was said of it holds the more.
LEMMA SaveKeeps == ASSUME Inv, NEW r \in Rules, NEW o \in Options, Save(r, o) PROVE Inv'
<1>1. Types'
    BY BoundsAssumption DEF Inv, Types, Save, history
<1>2. \A x \in Rules : rules'[x] = None => rules[x] = None
    BY NoneAssumption DEF Inv, Types, Save
<1> QED
    BY <1>1, <1>2 DEF Inv, Types, Save, history, HeldIsNoted, AlertHasRule, Matches

LEMMA DeleteKeeps == ASSUME Inv, NEW r \in Rules, Delete(r) PROVE Inv'
<1>1. Types'
    BY BoundsAssumption DEF Inv, Types, Delete
<1>2. \A x \in Rules : rules'[x] = None => rules[x] = None \/ x = r
    BY DEF Inv, Types, Delete
<1>3. HeldIsNoted'
    <2>1. ASSUME NEW e \in Ticks, tick[e].rules[r] # None PROVE r \in outlived'
        BY <2>1 DEF Delete, Holding
    <2> QED
        BY <1>2, <2>1 DEF Inv, HeldIsNoted, Delete
<1>4. AlertHasRule'
    BY <1>2 DEF Inv, Types, AlertHasRule, Delete
<1>5. Matches' /\ deleting' \subseteq deleted'
    BY DEF Inv, Matches, Delete
<1> QED
    BY <1>1, <1>3, <1>4, <1>5 DEF Inv

LEMMA DeleteAlertKeeps == ASSUME Inv, NEW r \in Rules, DeleteAlert(r) PROVE Inv'
<1>1. Types'
    BY DEF Inv, Types, DeleteAlert, AlertGone, history
<1> QED
    BY <1>1 DEF Inv, DeleteAlert, AlertGone, history, HeldIsNoted, AlertHasRule, Matches

-----------------------------------------------------------------------------
(* The ticks.  None but Judge touches an alert. *)
LEMMA CountersKeep == ASSUME Inv, NEW e \in Ticks, NEW q \in Queues, Counters(e, q) PROVE Inv'
<1> DEFINE t == [Idle EXCEPT !.at = "rules", !.done = tick[e].done \cup {q},
                             !.queue = q, !.level = level[q]]
<1>1. t \in TickRec /\ TickFits(t) /\ t.rules = [r \in Rules |-> None]
    BY IdleTick DEF Inv, Types, Idle, TickRec, TickFits
<1>2. Sets(e, t)
    BY DEF Counters
<1>3. rules' = rules /\ outlived' = outlived
    BY DEF Counters, store, history
<1> HIDE DEF t
<1>4. /\ tick' \in [Ticks -> TickRec] /\ \A d \in Ticks : TickFits(tick'[d])
      /\ HeldIsNoted'
    BY <1>1, <1>2, <1>3, TickChanges DEF Inv
<1> QED
    BY <1>4 DEF Inv, Types, Counters, store, history, AlertHasRule, Matches

LEMMA TickEndsKeeps == ASSUME Inv, NEW e \in Ticks, TickEnds(e) PROVE Inv'
<1>1. \A r \in Rules : Idle.rules[r] = None
    BY DEF Idle
<1>2. rules' = rules /\ outlived' = outlived /\ Sets(e, Idle)
    BY DEF TickEnds, store, history
<1>3. /\ tick' \in [Ticks -> TickRec] /\ \A d \in Ticks : TickFits(tick'[d])
      /\ HeldIsNoted'
    BY <1>1, <1>2, IdleTick, TickChanges DEF Inv
<1> QED
    BY <1>3 DEF Inv, Types, TickEnds, store, history, AlertHasRule, Matches

LEMMA ReadRulesKeeps == ASSUME Inv, NEW e \in Ticks, ReadRules(e) PROVE Inv'
<1> DEFINE mine == {r \in Rules : Judged(r, tick[e].queue)}
           t == [tick[e] EXCEPT !.at = "alerts", !.todo = mine,
                                !.rules = [r \in Rules |-> IF r \in mine THEN rules[r] ELSE None]]
<1>1. tick[e] \in TickRec /\ TickFits(tick[e]) /\ tick[e].at = "rules"
    BY DEF Inv, Types, ReadRules
<1>2. \A r \in mine : rules[r] # None
    BY DEF Judged
<1>3. t \in TickRec /\ TickFits(t)
    BY <1>1, <1>2 DEF Inv, Types, TickRec, TickFits
<1>4. \A r \in Rules : t.rules[r] # None => rules[r] # None
    BY <1>1, <1>2 DEF TickRec
<1>5. Sets(e, t) /\ rules' = rules /\ outlived' = outlived
    BY DEF ReadRules, store
<1> HIDE DEF t
<1>6. /\ tick' \in [Ticks -> TickRec] /\ \A d \in Ticks : TickFits(tick'[d])
      /\ HeldIsNoted'
    BY <1>3, <1>4, <1>5, TickChanges DEF Inv
<1> QED
    BY <1>6 DEF Inv, Types, ReadRules, store, AlertHasRule, Matches

LEMMA ReadAlertsKeeps == ASSUME Inv, NEW e \in Ticks, ReadAlerts(e) PROVE Inv'
<1> DEFINE t == IF tick[e].todo = {} THEN Rest(e)
                ELSE [tick[e] EXCEPT !.at = "judge", !.firing = alerts]
<1>1. tick[e] \in TickRec /\ TickFits(tick[e]) /\ tick[e].at = "alerts"
    BY DEF Inv, Types, ReadAlerts
<1>2. /\ t \in TickRec /\ TickFits(t)
      /\ \A r \in Rules : t.rules[r] # None => tick[e].rules[r] # None
    <2>1. CASE tick[e].todo = {}
        BY <2>1, RestTick DEF Inv
    <2>2. CASE tick[e].todo # {}
        BY <2>2, <1>1 DEF Inv, Types, TickRec, TickFits
    <2> QED
        BY <2>1, <2>2
<1>3. Sets(e, t) /\ rules' = rules /\ outlived' = outlived
    BY DEF ReadAlerts, store, history
<1> HIDE DEF t
<1>4. /\ tick' \in [Ticks -> TickRec] /\ \A d \in Ticks : TickFits(tick'[d])
      /\ HeldIsNoted'
    BY <1>2, <1>3, TickChanges DEF Inv
<1> QED
    BY <1>4 DEF Inv, Types, ReadAlerts, store, history, AlertHasRule, Matches

\* The rule that is judged is held: if it is gone, that was noted.
LEMMA JudgeKeeps == ASSUME Inv, NEW e \in Ticks, NEW r \in Rules, Judge(e, r) PROVE Inv'
<1> DEFINE told_(at) == [tick[e] EXCEPT !.at = at, !.rule = r, !.todo = @ \ {r}]
           left == tick[e].todo \ {r}
<1>1. tick[e] \in TickRec /\ TickFits(tick[e]) /\ tick[e].at = "judge" /\ r \in tick[e].todo
    BY DEF Inv, Types, Judge
<1>2. r # None /\ tick[e].rules[r] # None
    BY <1>1, NoneAssumption DEF TickFits
<1>3. rules' = rules /\ outlived' = outlived /\ deleting' = deleting /\ deleted' = deleted
    BY DEF Judge, history
<1>4. \E t : /\ Sets(e, t) /\ t \in TickRec /\ TickFits(t)
             /\ \A x \in Rules : t.rules[x] # None => tick[e].rules[x] # None
    <2>1. Sets(e, told_("fired")) \/ Sets(e, told_("resolved")) \/ Sets(e, Onward(e, left))
        BY DEF Judge
    <2>2. ASSUME NEW at \in {"fired", "resolved"}
          PROVE  /\ told_(at) \in TickRec /\ TickFits(told_(at))
                 /\ told_(at).rules = tick[e].rules
        BY <1>1, <1>2 DEF TickRec, TickFits
    <2>3. /\ Onward(e, left) \in TickRec /\ TickFits(Onward(e, left))
          /\ \A x \in Rules : Onward(e, left).rules[x] # None => tick[e].rules[x] # None
        BY <1>1, OnwardTick DEF Inv
    <2> QED
        BY <2>1, <2>2, <2>3
<1>5. /\ tick' \in [Ticks -> TickRec] /\ \A d \in Ticks : TickFits(tick'[d])
      /\ HeldIsNoted'
    BY <1>3, <1>4, TickChanges DEF Inv
<1>6. \/ /\ alerts' = alerts \cup {r}
         /\ incidents' = [incidents EXCEPT ![r] = "firing"]
      \/ /\ alerts' = alerts \ {r}
         /\ incidents' = [incidents EXCEPT ![r] = "resolved"]
      \/ alerts' = alerts /\ incidents' = incidents
    BY DEF Judge, Resolved
<1>7. Types'
    BY <1>5, <1>6 DEF Inv, Types, Judge, history
<1>8. AlertHasRule'
    BY <1>2, <1>3, <1>6 DEF Inv, AlertHasRule, HeldIsNoted
<1>9. Matches'
    BY <1>3, <1>6 DEF Inv, Types, Matches
<1> QED
    BY <1>3, <1>5, <1>7, <1>8, <1>9 DEF Inv

LEMMA TellKeeps == ASSUME Inv, NEW e \in Ticks, Tell(e) PROVE Inv'
<1> DEFINE t == Onward(e, tick[e].todo)
<1>1. /\ t \in TickRec /\ TickFits(t)
      /\ \A r \in Rules : t.rules[r] # None => tick[e].rules[r] # None
    BY OnwardTick DEF Inv, Tell
<1>2. Sets(e, t) /\ rules' = rules /\ outlived' = outlived
    BY DEF Tell, store
<1> HIDE DEF t
<1>3. /\ tick' \in [Ticks -> TickRec] /\ \A d \in Ticks : TickFits(tick'[d])
      /\ HeldIsNoted'
    BY <1>1, <1>2, TickChanges DEF Inv
<1> QED
    BY <1>3 DEF Inv, Types, Tell, store, AlertHasRule, Matches

LEMMA CommandFailsKeeps == ASSUME Inv, NEW e \in Ticks, CommandFails(e) PROVE Inv'
<1>1. Sets(e, Rest(e)) /\ rules' = rules /\ outlived' = outlived
    BY DEF CommandFails, store, history
<1>2. /\ Rest(e) \in TickRec /\ TickFits(Rest(e))
      /\ \A r \in Rules : Rest(e).rules[r] = None
    BY RestTick DEF Inv
<1>3. /\ tick' \in [Ticks -> TickRec] /\ \A d \in Ticks : TickFits(tick'[d])
      /\ HeldIsNoted'
    BY <1>1, <1>2, TickChanges DEF Inv
<1> QED
    BY <1>3, BoundsAssumption
    DEF Inv, Types, CommandFails, Fault, store, history, AlertHasRule, Matches

\* A DELETE cut in half by the restart leaves an alert that was noted.
LEMMA RestartKeeps == ASSUME Inv, Restart PROVE Inv'
<1>1. Types'
    BY IdleTick, BoundsAssumption DEF Inv, Types, Restart, Fault, store
<1>2. HeldIsNoted'
    BY DEF HeldIsNoted, Restart, Idle
<1> QED
    BY <1>1, <1>2 DEF Inv, Restart, store, AlertHasRule, Matches

-----------------------------------------------------------------------------
LEMMA InvStep == Inv /\ [Next]_vars => Inv'
<1> SUFFICES ASSUME Inv, [Next]_vars PROVE Inv'
    OBVIOUS
<1>1. CASE UNCHANGED vars
    BY <1>1 DEF vars, store, history, Inv, Types, HeldIsNoted, AlertHasRule, Matches
<1>2. ASSUME NEW e \in Ticks, TickStep(e) \/ CommandFails(e) PROVE Inv'
    BY <1>2, CountersKeep, TickEndsKeeps, ReadRulesKeeps, ReadAlertsKeeps, JudgeKeeps,
       TellKeeps, CommandFailsKeeps DEF TickStep
<1> QED
    BY <1>1, <1>2, MoveKeeps, AddQueueKeeps, SaveKeeps, DeleteKeeps, DeleteAlertKeeps,
       RestartKeeps DEF Next

LEMMA InvSuffices == Inv => AlertsSound
<1> SUFFICES ASSUME Inv PROVE AlertsSound
    OBVIOUS
<1>1. TypeOK
    BY DEF Inv, Types, TypeOK, TickFits, TickRec, Idle
<1>2. HistoryMatches
    BY DEF Inv, Types, Matches, HistoryMatches, IncidentHistory, FiringIncidents
<1> QED
    BY <1>1, <1>2 DEF Inv, AlertsSound

(***************************************************************************)
(* For any number of rules, queues and overlapping ticks, and wherever a   *)
(* process dies: every alert has its rule unless the rule was deleted      *)
(* under a tick or by half, and the history fires with the alerts          *)
(* (MetricsAggregator.js:219, server.js:248).                              *)
(***************************************************************************)
THEOREM AlertsKept == Spec => []AlertsSound
<1>1. Init /\ [][Next]_vars => []Inv
    BY InvInit, InvStep, PTL
<1> QED
    BY <1>1, InvSuffices, PTL DEF Spec
-----------------------------------------------------------------------------
(* What is told alternates.  Nothing in the store says what was told, so   *)
(* the alert has to say it: of a rule that has one tick at most, the alert *)
(* is there exactly if "fired" was told last, but while a tick is about to *)
(* tell; and what that tick has read of the alerts is still so.            *)

Regular == Rules \ (overlapped \cup deleted \cup silenced)

HandFits(t) == t.rule # None => t.rules[t.rule] # None /\ t.rule \notin t.todo

OneHolder(r) ==
    \A d, e \in Ticks : tick[d].rules[r] # None /\ tick[e].rules[r] # None => d = e

AlertTells(r) ==
    /\ \A e \in Ticks : tick[e].rule = r =>
           told[r] # tick[e].at /\ (r \in alerts <=> tick[e].at = "fired")
    /\ (\A e \in Ticks : tick[e].rule # r) => (r \in alerts <=> told[r] = "fired")

ReadIsSo(t, r) ==
    r \in t.todo /\ t.at # "alerts" => (r \in t.firing <=> r \in alerts)

ReadsAreSo(r) == \A e \in Ticks : ReadIsSo(tick[e], r)

RuleTold(r) == OneHolder(r) /\ AlertTells(r) /\ ReadsAreSo(r)

TellInv ==
    /\ Inv /\ told \in [Rules -> {"fired", "resolved"}]
    /\ \A e \in Ticks : HandFits(tick[e])
    /\ \A r \in Regular : RuleTold(r)

LEMMA TellInit == Init => TellInv
<1> SUFFICES ASSUME Init PROVE TellInv
    OBVIOUS
<1>1. \A e \in Ticks : /\ HandFits(tick[e]) /\ tick[e].rule = None /\ tick[e].todo = {}
                       /\ \A r \in Rules : tick[e].rules[r] = None
    BY DEF Init, Idle, HandFits
<1>2. \A r \in Rules : r # None /\ told[r] = "resolved" /\ r \notin alerts
    BY NoneAssumption DEF Init
<1>3. \A r \in Regular : RuleTold(r)
    BY <1>1, <1>2 DEF Regular, RuleTold, OneHolder, AlertTells, ReadsAreSo, ReadIsSo
<1> QED
    BY <1>1, <1>3, InvInit DEF TellInv, Init

LEMMA RestHand ==
    ASSUME NEW e \in Ticks
    PROVE  /\ HandFits(Rest(e)) /\ Rest(e).rule = None /\ Rest(e).todo = {}
           /\ \A r \in Rules : Rest(e).rules[r] = None
BY DEF Rest, Idle, HandFits

(* A step that leaves the ticks alone. *)
LEMMA TicksStay ==
    ASSUME TellInv, Inv', tick' = tick, told' = told,
           \A r \in Regular' : r \in Regular /\ (r \in alerts' <=> r \in alerts)
    PROVE  TellInv'
<1>1. ASSUME NEW r \in Regular' PROVE RuleTold(r)'
    <2>1. RuleTold(r) /\ (r \in alerts' <=> r \in alerts)
        BY DEF TellInv
    <2> QED
        BY <2>1 DEF RuleTold, OneHolder, AlertTells, ReadsAreSo, ReadIsSo
<1> QED
    BY <1>1 DEF TellInv

(* A step of tick e, seen from a rule r that it neither judges nor tells. *)
LEMMA TickPasses ==
    ASSUME TellInv, NEW e \in Ticks, NEW t, Sets(e, t), NEW r \in Regular,
           told'[r] = told[r], r \in alerts' <=> r \in alerts,
           t.rules[r] # None =>
               tick[e].rules[r] # None \/ \A d \in Ticks \ {e} : tick[d].rules[r] = None,
           t.rule = r <=> tick[e].rule = r, t.rule = r => t.at = tick[e].at,
           ReadIsSo(t, r)
    PROVE  RuleTold(r)'
<1>1. \A d \in Ticks : tick'[d] = IF d = e THEN t ELSE tick[d]
    BY DEF Sets, TellInv, Inv, Types
<1>2. RuleTold(r)
    BY DEF TellInv
<1>3. OneHolder(r)'
    BY <1>1, <1>2 DEF RuleTold, OneHolder
<1>4. AlertTells(r)'
    <2>1. \A d \in Ticks : /\ tick'[d].rule = r <=> tick[d].rule = r
                           /\ tick'[d].rule = r => tick'[d].at = tick[d].at
        BY <1>1
    <2> QED
        BY <1>2, <2>1 DEF RuleTold, AlertTells
<1>5. ReadsAreSo(r)'
    BY <1>1, <1>2 DEF RuleTold, ReadsAreSo, ReadIsSo
<1> QED
    BY <1>3, <1>4, <1>5 DEF RuleTold

(* Tick e has put t in hand, and every rule is as it should be. *)
LEMMA TickLeaves ==
    ASSUME TellInv, Inv', NEW e \in Ticks, NEW t, Sets(e, t), HandFits(t),
           told' \in [Rules -> {"fired", "resolved"}],
           \A r \in Regular' : RuleTold(r)'
    PROVE  TellInv'
<1>1. \A d \in Ticks : tick'[d] = IF d = e THEN t ELSE tick[d]
    BY DEF Sets, TellInv, Inv, Types
<1>2. \A d \in Ticks : HandFits(tick'[d])
    BY <1>1 DEF TellInv
<1> QED
    BY <1>2 DEF TellInv

(* A tick between two rules or two queues. *)
LEMMA QuietTick ==
    ASSUME TellInv, Inv', NEW e \in Ticks, NEW t, Sets(e, t), HandFits(t),
           told' = told, alerts' = alerts, Regular' \subseteq Regular,
           t.rule = None, tick[e].rule = None,
           \A r \in Regular' : t.rules[r] # None =>
               tick[e].rules[r] # None \/ \A d \in Ticks \ {e} : tick[d].rules[r] = None,
           \A r \in Regular' : ReadIsSo(t, r)
    PROVE  TellInv'
<1>1. ASSUME NEW r \in Regular' PROVE RuleTold(r)'
    <2>1. r \in Regular /\ r # None
        BY NoneAssumption DEF Regular
    <2> QED
        BY <2>1, TickPasses
<1> QED
    BY <1>1, TickLeaves DEF TellInv

LEMMA CountersTell ==
    ASSUME TellInv, Inv', NEW e \in Ticks, NEW q \in Queues, Counters(e, q)
    PROVE  TellInv'
<1> DEFINE t == [Idle EXCEPT !.at = "rules", !.done = tick[e].done \cup {q},
                             !.queue = q, !.level = level[q]]
<1>1. /\ HandFits(t) /\ t.rule = None /\ t.todo = {}
      /\ \A r \in Rules : t.rules[r] = None
    BY DEF Idle, HandFits
<1>2. /\ Sets(e, t) /\ told' = told /\ alerts' = alerts /\ Regular' = Regular
      /\ tick[e].at = "idle"
    BY DEF Counters, store, history, Regular
<1>3. tick[e].rule = None
    BY <1>2 DEF TellInv, Inv, Types, TickFits
<1> HIDE DEF t
<1>4. \A r \in Regular' : t.rules[r] = None /\ ReadIsSo(t, r)
    BY <1>1, <1>2 DEF ReadIsSo, Regular
<1> QED
    BY <1>1, <1>2, <1>3, <1>4, QuietTick

\* A tick comes to rest that was about to tell nothing.
LEMMA RestTells ==
    ASSUME TellInv, Inv', NEW e \in Ticks, NEW t, Sets(e, t),
           t.rule = None, t.todo = {}, \A r \in Rules : t.rules[r] = None,
           tick[e].at \notin {"fired", "resolved"},
           told' = told, alerts' = alerts, Regular' = Regular
    PROVE  TellInv'
<1>1. tick[e].rule = None
    BY DEF TellInv, Inv, Types, TickFits
<1>2. HandFits(t) /\ \A r \in Regular' : t.rules[r] = None /\ ReadIsSo(t, r)
    BY DEF HandFits, ReadIsSo, Regular
<1> QED
    BY <1>1, <1>2, QuietTick

LEMMA TickEndsTells == ASSUME TellInv, Inv', NEW e \in Ticks, TickEnds(e) PROVE TellInv'
<1>1. Idle.rule = None /\ Idle.todo = {} /\ \A r \in Rules : Idle.rules[r] = None
    BY DEF Idle
<1>2. /\ Sets(e, Idle) /\ told' = told /\ alerts' = alerts /\ Regular' = Regular
      /\ tick[e].at = "idle"
    BY DEF TickEnds, store, history, Regular
<1> QED
    BY <1>1, <1>2, RestTells

LEMMA CommandFailsTells == ASSUME TellInv, Inv', NEW e \in Ticks, CommandFails(e) PROVE TellInv'
<1>1. /\ Sets(e, Rest(e)) /\ told' = told /\ alerts' = alerts /\ Regular' = Regular
      /\ tick[e].at \notin {"fired", "resolved"}
    BY DEF CommandFails, store, history, Regular
<1> QED
    BY <1>1, RestHand, RestTells

\* A rule that another tick holds is noted as overlapped.
LEMMA ReadRulesTells == ASSUME TellInv, Inv', NEW e \in Ticks, ReadRules(e) PROVE TellInv'
<1> DEFINE mine == {r \in Rules : Judged(r, tick[e].queue)}
           t == [tick[e] EXCEPT !.at = "alerts", !.todo = mine,
                                !.rules = [r \in Rules |-> IF r \in mine THEN rules[r] ELSE None]]
<1>1. tick[e] \in TickRec /\ TickFits(tick[e]) /\ tick[e].at = "rules"
    BY DEF TellInv, Inv, Types, ReadRules
<1>2. tick[e].rule = None
    BY <1>1 DEF TickFits
<1>3. t.at = "alerts" /\ t.rule = None /\ \A r \in Rules : t.rules[r] # None => r \in mine
    BY <1>1, <1>2 DEF TickRec
<1>4. HandFits(t) /\ \A r \in Regular' : ReadIsSo(t, r)
    BY <1>3 DEF HandFits, ReadIsSo
<1>5. /\ Sets(e, t) /\ told' = told /\ alerts' = alerts /\ Regular' \subseteq Regular
      /\ \A r \in Regular' : r \in mine => Holding(r) \ {e} = {}
    BY DEF ReadRules, store, Regular
<1> HIDE DEF t, mine
<1>6. \A r \in Regular' : t.rules[r] # None => \A d \in Ticks \ {e} : tick[d].rules[r] = None
    BY <1>3, <1>5 DEF Holding, Regular
<1> QED
    BY <1>2, <1>3, <1>4, <1>5, <1>6, QuietTick

LEMMA ReadAlertsTells == ASSUME TellInv, Inv', NEW e \in Ticks, ReadAlerts(e) PROVE TellInv'
<1>1. /\ tick[e] \in TickRec /\ TickFits(tick[e]) /\ tick[e].at = "alerts"
      /\ told' = told /\ alerts' = alerts /\ Regular' = Regular
    BY DEF TellInv, Inv, Types, ReadAlerts, store, history, Regular
<1>2. CASE tick[e].todo = {}
    <2>1. Sets(e, Rest(e)) /\ tick[e].at \notin {"fired", "resolved"}
        BY <1>1, <1>2 DEF ReadAlerts
    <2> QED
        BY <1>1, <2>1, RestHand, RestTells
<1>3. CASE tick[e].todo # {}
    <2> DEFINE t == [tick[e] EXCEPT !.at = "judge", !.firing = alerts]
    <2>1. tick[e].rule = None
        BY <1>1 DEF TickFits
    <2>2. t.rule = None /\ t.rules = tick[e].rules /\ t.at = "judge" /\ t.firing = alerts
        BY <1>1, <2>1 DEF TickRec
    <2>3. Sets(e, t)
        BY <1>3 DEF ReadAlerts
    <2> HIDE DEF t
    <2>4. HandFits(t) /\ \A r \in Regular' : ReadIsSo(t, r)
        BY <2>2 DEF HandFits, ReadIsSo
    <2> QED
        BY <1>1, <2>1, <2>2, <2>3, <2>4, QuietTick
<1> QED
    BY <1>2, <1>3

\* What a tick is left with when it goes on to the next rule.
LEMMA OnwardHand ==
    ASSUME TellInv, NEW e \in Ticks, tick[e].at \in {"judge", "fired", "resolved"},
           NEW left \in SUBSET tick[e].todo
    PROVE  LET t == Onward(e, left) IN
           /\ HandFits(t) /\ t.rule = None
           /\ \A r \in Rules : t.rules[r] # None => tick[e].rules[r] # None
           /\ t.todo = left
           /\ left # {} => t.firing = tick[e].firing /\ t.at = "judge"
<1>1. tick[e] \in TickRec
    BY DEF TellInv, Inv, Types
<1>2. CASE left = {}
    BY <1>2, RestHand DEF Onward
<1>3. CASE left # {}
    <2>1. Onward(e, left) = [tick[e] EXCEPT !.at = "judge", !.todo = left, !.rule = None]
        BY <1>3 DEF Onward
    <2> QED
        BY <1>1, <1>3, <2>1 DEF TickRec, HandFits
<1> QED
    BY <1>2, <1>3

\* The alert changes where the tick is to tell so, and not where it was so
\* before; the rules that are left were read as they are.
LEMMA JudgeTells ==
    ASSUME TellInv, Inv', NEW e \in Ticks, NEW r \in Rules, Judge(e, r)
    PROVE  TellInv'
<1> DEFINE teller(at) == [tick[e] EXCEPT !.at = at, !.rule = r, !.todo = @ \ {r}]
           left == tick[e].todo \ {r}
<1>1. /\ tick[e] \in TickRec /\ TickFits(tick[e]) /\ HandFits(tick[e])
      /\ tick[e].at = "judge" /\ r \in tick[e].todo
    BY DEF TellInv, Inv, Types, Judge
<1>2. r # None /\ tick[e].rules[r] # None /\ tick[e].rule = None
    BY <1>1, NoneAssumption DEF TickFits
<1>3. told' = told /\ Regular' = Regular /\ told \in [Rules -> {"fired", "resolved"}]
    BY DEF Judge, history, Regular, TellInv
<1>4. \E t : /\ Sets(e, t) /\ HandFits(t) /\ t.rule \in {None, r}
             /\ \A x \in Rules : t.rules[x] # None => tick[e].rules[x] # None
             /\ t.todo = left
             /\ left # {} => t.firing = tick[e].firing /\ t.at # "alerts"
             /\ \/ /\ t.rule = r /\ t.at = "fired" /\ r \notin tick[e].firing
                   /\ alerts' = alerts \cup {r}
                \/ /\ t.rule = r /\ t.at = "resolved" /\ r \in tick[e].firing
                   /\ alerts' = alerts \ {r}
                \/ /\ t.rule = None
                   /\ \/ r \in tick[e].firing /\ alerts' = alerts \cup {r}
                      \/ r \notin tick[e].firing /\ alerts' = alerts
    <2>1. \/ /\ Sets(e, teller("fired")) /\ r \notin tick[e].firing
             /\ alerts' = alerts \cup {r}
          \/ /\ Sets(e, teller("resolved")) /\ r \in tick[e].firing
             /\ alerts' = alerts \ {r}
          \/ /\ Sets(e, Onward(e, left))
             /\ \/ r \in tick[e].firing /\ alerts' = alerts \cup {r}
                \/ r \notin tick[e].firing /\ alerts' = alerts
        BY DEF Judge, WasFiring
    <2>2. ASSUME NEW at \in {"fired", "resolved"}
          PROVE  /\ HandFits(teller(at)) /\ teller(at).rule = r /\ teller(at).at = at
                 /\ teller(at).rules = tick[e].rules /\ teller(at).todo = left
                 /\ teller(at).firing = tick[e].firing
        BY <1>1, <1>2 DEF TickRec, HandFits
    <2>3. /\ HandFits(Onward(e, left)) /\ Onward(e, left).rule = None
          /\ \A x \in Rules : Onward(e, left).rules[x] # None => tick[e].rules[x] # None
          /\ Onward(e, left).todo = left
          /\ left # {} => /\ Onward(e, left).firing = tick[e].firing
                          /\ Onward(e, left).at = "judge"
        BY <1>1, OnwardHand
    <2> HIDE DEF teller, left
    <2> QED
        BY <2>1, <2>2, <2>3
<1>5. PICK t : /\ Sets(e, t) /\ HandFits(t) /\ t.rule \in {None, r}
               /\ \A x \in Rules : t.rules[x] # None => tick[e].rules[x] # None
               /\ t.todo = left
               /\ left # {} => t.firing = tick[e].firing /\ t.at # "alerts"
               /\ \/ /\ t.rule = r /\ t.at = "fired" /\ r \notin tick[e].firing
                     /\ alerts' = alerts \cup {r}
                  \/ /\ t.rule = r /\ t.at = "resolved" /\ r \in tick[e].firing
                     /\ alerts' = alerts \ {r}
                  \/ /\ t.rule = None
                     /\ \/ r \in tick[e].firing /\ alerts' = alerts \cup {r}
                        \/ r \notin tick[e].firing /\ alerts' = alerts
    BY <1>4
<1>6. ASSUME NEW x \in Regular', x # r PROVE RuleTold(x)'
    <2>1. x \in Rules /\ x # None /\ x \in Regular /\ ReadIsSo(tick[e], x)
        BY <1>3, NoneAssumption DEF Regular, TellInv, RuleTold, ReadsAreSo
    <2>2. ReadIsSo(t, x)
        BY <1>1, <1>5, <2>1 DEF ReadIsSo
    <2> QED
        BY <1>2, <1>3, <1>5, <1>6, <2>1, <2>2, TickPasses
<1>7. ASSUME r \in Regular' PROVE RuleTold(r)'
    <2>1. \A d \in Ticks : tick'[d] = IF d = e THEN t ELSE tick[d]
        BY <1>5 DEF Sets, TellInv, Inv, Types
    <2>2. RuleTold(r)
        BY <1>3, <1>7 DEF TellInv
    <2>3. r \in tick[e].firing <=> r \in alerts
        BY <1>1, <2>2 DEF RuleTold, ReadsAreSo, ReadIsSo
    <2>4. \A d \in Ticks \ {e} : tick[d].rules[r] = None
        BY <1>2, <2>2 DEF RuleTold, OneHolder
    <2>5. \A d \in Ticks \ {e} : tick[d].rule # r /\ r \notin tick[d].todo
        <3>1. \A d \in Ticks : /\ HandFits(tick[d]) /\ TickFits(tick[d])
            BY DEF TellInv, Inv, Types
        <3> QED
            BY <1>2, <2>4, <3>1 DEF HandFits, TickFits
    <2>6. (r \in alerts <=> told[r] = "fired") /\ told[r] \in {"fired", "resolved"}
        BY <1>2, <1>3, <2>2, <2>5 DEF RuleTold, AlertTells
    <2>7. OneHolder(r)'
        BY <2>1, <2>4 DEF OneHolder
    <2>8. AlertTells(r)'
        <3>1. \A d \in Ticks \ {e} : tick'[d].rule # r
            BY <2>1, <2>5
        <3>2. tick'[e] = t
            BY <2>1
        <3> QED
            BY <1>2, <1>3, <1>5, <2>3, <2>6, <3>1, <3>2 DEF AlertTells
    <2>9. \A d \in Ticks : r \notin tick'[d].todo
        BY <1>5, <2>1, <2>5
    <2> QED
        BY <2>7, <2>8, <2>9 DEF RuleTold, ReadsAreSo, ReadIsSo
<1> QED
    BY <1>3, <1>5, <1>6, <1>7, TickLeaves

\* Who has told is the only one that held the rule.
LEMMA TellTells == ASSUME TellInv, Inv', NEW e \in Ticks, Tell(e) PROVE TellInv'
<1> DEFINE t == Onward(e, tick[e].todo)
<1>1. /\ tick[e] \in TickRec /\ TickFits(tick[e]) /\ HandFits(tick[e])
      /\ tick[e].at \in {"fired", "resolved"}
    BY DEF TellInv, Inv, Types, Tell
<1>2. PICK r \in Rules : /\ r = tick[e].rule /\ r # None
                         /\ tick[e].rules[r] # None /\ r \notin tick[e].todo
    BY <1>1 DEF TickFits, HandFits, TickRec
<1>3. /\ Sets(e, t) /\ told' = [told EXCEPT ![r] = tick[e].at]
      /\ alerts' = alerts /\ Regular' = Regular /\ told \in [Rules -> {"fired", "resolved"}]
    BY <1>2 DEF Tell, store, Regular, TellInv
<1>4. /\ HandFits(t) /\ t.rule = None
      /\ \A x \in Rules : t.rules[x] # None => tick[e].rules[x] # None
      /\ t.todo = tick[e].todo
      /\ t.todo # {} => t.firing = tick[e].firing /\ t.at = "judge"
    BY <1>1, OnwardHand
<1> HIDE DEF t
<1>5. told' \in [Rules -> {"fired", "resolved"}] /\ told'[r] = tick[e].at
    BY <1>1, <1>2, <1>3
<1>6. ASSUME NEW x \in Regular', x # r PROVE RuleTold(x)'
    <2>1. x \in Rules /\ x # None /\ x \in Regular /\ ReadIsSo(tick[e], x)
        BY <1>3, NoneAssumption DEF Regular, TellInv, RuleTold, ReadsAreSo
    <2>2. ReadIsSo(t, x)
        BY <1>1, <1>4, <2>1 DEF ReadIsSo
    <2>3. told'[x] = told[x] /\ tick[e].rule # x
        BY <1>2, <1>3, <1>6, <2>1
    <2> QED
        BY <1>3, <1>4, <2>1, <2>2, <2>3, TickPasses
<1>7. ASSUME r \in Regular' PROVE RuleTold(r)'
    <2>1. \A d \in Ticks : tick'[d] = IF d = e THEN t ELSE tick[d]
        BY <1>3 DEF Sets, TellInv, Inv, Types
    <2>2. RuleTold(r)
        BY <1>3, <1>7 DEF TellInv
    <2>3. \A d \in Ticks \ {e} : tick[d].rules[r] = None
        BY <1>2, <2>2 DEF RuleTold, OneHolder
    <2>4. \A d \in Ticks \ {e} : tick[d].rule # r /\ r \notin tick[d].todo
        <3>1. \A d \in Ticks : /\ HandFits(tick[d]) /\ TickFits(tick[d])
            BY DEF TellInv, Inv, Types
        <3> QED
            BY <1>2, <2>3, <3>1 DEF HandFits, TickFits
    <2>5. r \in alerts <=> tick[e].at = "fired"
        BY <1>2, <2>2 DEF RuleTold, AlertTells
    <2>6. OneHolder(r)'
        BY <2>1, <2>3 DEF OneHolder
    <2>7. \A d \in Ticks : tick'[d].rule # r /\ r \notin tick'[d].todo
        BY <1>2, <1>4, <2>1, <2>4
    <2>8. AlertTells(r)'
        BY <1>3, <1>5, <2>5, <2>7 DEF AlertTells
    <2> QED
        BY <2>6, <2>7, <2>8 DEF RuleTold, ReadsAreSo, ReadIsSo
<1> QED
    BY <1>3, <1>4, <1>5, <1>6, <1>7, TickLeaves

\* A message that is lost is noted as silenced.
LEMMA RestartTells == ASSUME TellInv, Inv', Restart PROVE TellInv'
<1>1. \A e \in Ticks : tick'[e] = Idle
    BY DEF Restart
<1>2. /\ Idle.rule = None /\ Idle.todo = {} /\ \A r \in Rules : Idle.rules[r] = None
      /\ HandFits(Idle)
    BY DEF Idle, HandFits
<1>3. ASSUME NEW r \in Regular' PROVE RuleTold(r)'
    <2>1. r \in Rules /\ r # None /\ r \in Regular /\ \A e \in Ticks : tick[e].rule # r
        BY NoneAssumption DEF Restart, Regular
    <2>2. RuleTold(r) /\ alerts' = alerts /\ told' = told
        BY <2>1 DEF TellInv, Restart, store
    <2>3. AlertTells(r)'
        BY <1>1, <1>2, <2>1, <2>2 DEF RuleTold, AlertTells
    <2>4. OneHolder(r)' /\ ReadsAreSo(r)'
        BY <1>1, <1>2, <2>1 DEF OneHolder, ReadsAreSo, ReadIsSo
    <2> QED
        BY <2>3, <2>4 DEF RuleTold
<1> QED
    BY <1>1, <1>2, <1>3 DEF TellInv, Restart

LEMMA TellStep == TellInv /\ [Next]_vars => TellInv'
<1> SUFFICES ASSUME TellInv, [Next]_vars PROVE TellInv'
    OBVIOUS
<1>1. Inv'
    BY InvStep DEF TellInv
<1>2. CASE UNCHANGED vars
    <2>1. tick' = tick /\ told' = told /\ alerts' = alerts /\ Regular' = Regular
        BY <1>2 DEF vars, store, history, Regular
    <2> QED
        BY <1>1, <2>1, TicksStay
<1>3. ASSUME NEW q \in Queues, AddQueue(q) \/ \E n \in 0..Top : Move(q, n) PROVE TellInv'
    <2>1. tick' = tick /\ told' = told /\ alerts' = alerts /\ Regular' = Regular
        BY <1>3 DEF AddQueue, Move, store, history, Regular
    <2> QED
        BY <1>1, <2>1, TicksStay
<1>4. ASSUME NEW r \in Rules, Delete(r) \/ DeleteAlert(r) \/ \E o \in Options : Save(r, o)
      PROVE  TellInv'
    <2>1. tick' = tick /\ told' = told /\ Regular' \subseteq Regular
        BY <1>4 DEF Delete, DeleteAlert, Save, store, history, Regular
    <2>2. \A x \in Regular' : x \in alerts' <=> x \in alerts
        <3>1. deleting \subseteq deleted
            BY DEF TellInv, Inv
        <3> QED
            BY <1>4, <2>1, <3>1 DEF Delete, DeleteAlert, AlertGone, Save, Regular
    <2> QED
        BY <1>1, <2>1, <2>2, TicksStay
<1>5. ASSUME NEW e \in Ticks, TickStep(e) \/ CommandFails(e) PROVE TellInv'
    BY <1>1, <1>5, CountersTell, TickEndsTells, ReadRulesTells, ReadAlertsTells, JudgeTells,
       TellTells, CommandFailsTells DEF TickStep
<1> QED
    BY <1>1, <1>2, <1>3, <1>4, <1>5, RestartTells DEF Next

\* What is told of a rule alternates, for any number of ticks and rules: not
\* where two ticks had it in hand at one time, where it was deleted, or where
\* the process died before the message (MetricsAggregator.js:219).
THEOREM TellsInTurn == Spec => TellsAlternate
<1> DEFINE A == \A r \in Rules \ (overlapped \cup deleted \cup silenced) :
                    \A e \in Ticks : Tell(e) /\ tick[e].rule = r => told'[r] # told[r]
<1>1. TellInv => A
    <2> SUFFICES ASSUME TellInv, NEW r \in Regular, NEW e \in Ticks, Tell(e), tick[e].rule = r
                 PROVE  told'[r] # told[r]
        BY DEF Regular
    <2>1. told[r] # tick[e].at /\ told \in [Rules -> {"fired", "resolved"}] /\ r \in Rules
        BY DEF TellInv, RuleTold, AlertTells, Regular
    <2> QED
        BY <2>1 DEF Tell
<1>2. TellInv /\ [Next]_vars => [A]_vars
    BY <1>1
<1>3. Init /\ [][Next]_vars => []TellInv
    BY TellInit, TellStep, PTL
<1>4. TellsAlternate <=> [][A]_vars
    BY DEF TellsAlternate
<1> HIDE DEF A
<1> QED
    BY <1>2, <1>3, <1>4, PTL DEF Spec

-----------------------------------------------------------------------------
(***************************************************************************)
(* The gauges agree with what is in the queue, the outcomes with what was  *)
(* run, and a worker told truly whether a job comes back, for any jobs,    *)
(* workers and number of wrappers.                                         *)
(*                                                                         *)
(* GaugesSound is inductive only with what links it to the workers: a job  *)
(* a worker runs is in no other hands and in the active structure, a       *)
(* worker that has told is where what it told says, and what a bulk has    *)
(* read still fits.  All of these end when a job is deleted under its run. *)
(***************************************************************************)
Places == {"none", "waiting", "blocked", "delayed", "active", "completed", "dead"}
Statuses == {"none", "waiting", "delayed", "active", "failed", "retrying", "completed", "dead"}
RunRec == [at : {"idle", "taken", "running", "failed", "dead", "done"},
           jobs : SUBSET Jobs, job : SUBSET Jobs, again : BOOLEAN]

GaugeTypes ==
    /\ place \in [Jobs -> Places] /\ status \in [Jobs -> Statuses]
    /\ budget \in [Jobs -> Nat] /\ \A j \in Jobs : budget[j] \in {0, MaxRetries[j]}
    /\ run \in [Workers -> RunRec]
    /\ up \subseteq Workers /\ starts \in 0..MaxStarts
    /\ layers \in [Workers -> 0..MaxStarts] /\ \A w \in Workers : layers[w] <= starts
    /\ pending \subseteq {"add", "again", "retry", "promote"} \X Jobs
    /\ gauge \in [Gauge -> Nat] /\ flag \in BOOLEAN
    /\ skewed \subseteq Gauge /\ lost \in Nat
    /\ rolled \subseteq Jobs /\ orphans \subseteq Jobs
    /\ handled \subseteq Jobs /\ mates \subseteq Jobs

BulkFits ==
    /\ bulk \in {"todo", "added", "read", "done"}
    /\ bulk # "read" => snapshot = Nothing
    /\ DOMAIN snapshot \subseteq Bulk
    /\ \A j \in DOMAIN snapshot : /\ snapshot[j][1] \in Statuses \ {"none"}
                                  /\ snapshot[j][2] \in {0, MaxRetries[j]}
    /\ bulk = "todo" => \A j \in Bulk : /\ place[j] = "none"
                                        /\ \A w \in Workers : j \notin run[w].jobs

\* What a worker runs is consistent with where it is.
Single(w) == \E j \in Jobs : run[w].jobs = {j}
RunFits(w) ==
    /\ run[w].at = "idle" <=> run[w] = NoRun
    /\ run[w].job \subseteq run[w].jobs
    /\ run[w].at # "idle" /\ w \notin Batching => Single(w)
    /\ run[w].at \notin {"idle", "taken"} =>
        /\ w \notin Batching => run[w].job = run[w].jobs
        /\ run[w].jobs \subseteq handled \cup mates
        /\ layers[w] > 0 => \E j \in Jobs : run[w].job = {j}
    /\ run[w].at = "taken" /\ layers[w] > 0 => Single(w) \/ run[w].jobs \subseteq mates

\* While some gauge can be right nothing was deleted under a worker.
Sure(j) == skewed # Gauge \/ j \notin orphans

Held ==
    \A w \in Workers : \A j \in run[w].jobs :
        Sure(j) => place[j] = "active" /\ \A x \in Workers \ {w} : j \notin run[x].jobs

Recorded == \A j \in Jobs : Sure(j) /\ status[j] = "none" => place[j] = "none"

KeepsWord(w) ==
    run[w].at \in {"failed", "dead"} =>
        /\ \/ {"delayed", "failed"} \subseteq skewed
           \/ Single(w) /\ run[w].job = run[w].jobs /\ (run[w].again <=> Back(w))
        /\ w \notin Batching /\ layers[w] > 0 =>
            \A j \in run[w].jobs \ orphans : run[w].again <=> Back(w)

GaugeInv ==
    /\ GaugeTypes /\ BulkFits /\ (\A w \in Workers : RunFits(w))
    /\ Held /\ Recorded /\ (\A w \in Workers : KeepsWord(w))
    /\ GaugesAgree /\ FinishedReadsFinished /\ CompletedWasHandled
-----------------------------------------------------------------------------
(* The numbers the gauges are compared with, one name each. *)
Here(p) == Cardinality(At(p))
TakenJobs == UNION {run[w].jobs : w \in InRun({"taken"})}
Taking == Cardinality(TakenJobs)
BackRuns == {w \in InRun({"failed"}) : run[w].again}
Backing == Cardinality(BackRuns)
GoneRuns == {w \in InRun({"failed", "dead"}) : ~run[w].again}
Going == Cardinality(GoneRuns)
Running == Layers(InRun({"running"}))
Fresh == Jobs \ (Delayed \cup Children)

Agree ==
    /\ "active" \notin skewed => gauge["active"] = Running + lost
    /\ "waiting" \notin skewed =>
        gauge["waiting"] = Here("waiting") + Taking - Told("add", Fresh)
                           - Told("retry", Jobs) - Told("promote", Jobs)
    /\ "delayed" \notin skewed =>
        gauge["delayed"] = Here("delayed") + Backing - Told("add", Delayed)
                           + Told("promote", Jobs)
    /\ "failed" \notin skewed =>
        gauge["failed"] = Here("dead") + Told("retry", Jobs) + Going

LEMMA AgreeIsGaugesAgree == Agree <=> GaugesAgree
BY DEF Agree, GaugesAgree, Here, TakenJobs, Taking, BackRuns, Backing, GoneRuns, Going,
       Running, Fresh

Numbers ==
    /\ \A p : Here(p) \in Nat
    /\ \A e : \A S : Told(e, S) \in Nat
    /\ Taking \in Nat /\ Backing \in Nat /\ Going \in Nat /\ Running \in Nat

LEMMA CountedAreNumbers == GaugeTypes => Numbers
<1> SUFFICES ASSUME GaugeTypes PROVE Numbers
    OBVIOUS
<1>1. \A S \in SUBSET Jobs : IsFiniteSet(S) /\ Cardinality(S) \in Nat
    BY GaugesAssumption, FS_Subset, FS_CardinalityType
<1>2. \A W \in SUBSET Workers : IsFiniteSet(W) /\ Cardinality(W) \in Nat
    BY GaugesAssumption, FS_Subset, FS_CardinalityType
<1>3. \A p : Here(p) \in Nat
    BY <1>1 DEF Here, At
<1>4. \A e : \A S : Told(e, S) \in Nat
    BY <1>1 DEF Told
<1>5. Taking \in Nat
  <2>1. TakenJobs \subseteq Jobs
    BY DEF TakenJobs, InRun, GaugeTypes, RunRec
  <2> QED BY <2>1, <1>1 DEF Taking
<1>6. Backing \in Nat /\ Going \in Nat
    BY <1>2 DEF Backing, BackRuns, Going, GoneRuns, InRun
<1>7. Running \in Nat
  <2> DEFINE W == InRun({"running"})
             L == {e \in W \X (1..MaxStarts) : e[2] <= layers[e[1]]}
  <2>1. IsFiniteSet(W)
    BY <1>2 DEF InRun
  <2>2. IsFiniteSet(1..MaxStarts)
    BY FS_Interval, GaugesAssumption
  <2>3. IsFiniteSet(W \X (1..MaxStarts))
    BY <2>1, <2>2, FS_Product
  <2>4. IsFiniteSet(L)
    BY <2>3, FS_Subset
  <2> QED BY <2>4, FS_CardinalityType DEF Running, Layers
<1> QED BY <1>3, <1>4, <1>5, <1>6, <1>7 DEF Numbers

-----------------------------------------------------------------------------
(* How the numbers change. *)
LEMMA RunsRest ==
    ASSUME run' = run, layers' = layers
    PROVE  Taking' = Taking /\ Backing' = Backing /\ Going' = Going /\ Running' = Running
BY DEF Taking, TakenJobs, Backing, BackRuns, Going, GoneRuns, Running, Layers, InRun

LEMMA PendingRests ==
    ASSUME pending' = pending
    PROVE  \A e : \A S : Told(e, S)' = Told(e, S)
BY DEF Told

LEMMA PlaceRests == ASSUME place' = place PROVE \A p : Here(p)' = Here(p)
BY DEF Here, At

LEMMA Relocated ==
    ASSUME GaugeTypes, NEW q, NEW S, S \subseteq At(q), NEW to, to # q,
           place' = [j \in Jobs |-> IF j \in S THEN to ELSE place[j]]
    PROVE  /\ Here(q)' = Here(q) - Cardinality(S)
           /\ Here(to)' = Here(to) + Cardinality(S)
           /\ \A p : p \notin {q, to} => Here(p)' = Here(p)
<1>1. \A T \in SUBSET Jobs : IsFiniteSet(T)
    BY GaugesAssumption, FS_Subset
<1>2. IsFiniteSet(S) /\ IsFiniteSet(At(q)) /\ IsFiniteSet(At(to))
    BY <1>1 DEF At
<1>3. Here(q)' = Here(q) - Cardinality(S)
  <2>1. At(q)' = At(q) \ S
    BY DEF At
  <2>2. At(q) \cap S = S
    OBVIOUS
  <2> QED BY <2>1, <2>2, <1>2, FS_Difference DEF Here
<1>4. Here(to)' = Here(to) + Cardinality(S)
  <2>1. At(to)' = At(to) \cup S
    BY DEF At
  <2>2. At(to) \cap S = {}
    BY DEF At
  <2>3. Cardinality(At(to) \cup S) = Cardinality(At(to)) + Cardinality(S) - Cardinality({})
    BY <2>2, <1>2, FS_Union
  <2>4. Cardinality(At(to)) \in Nat /\ Cardinality(S) \in Nat /\ Cardinality({}) = 0
    BY <1>2, FS_EmptySet, FS_CardinalityType
  <2> QED BY <2>1, <2>3, <2>4 DEF Here
<1>5. ASSUME NEW p, p \notin {q, to} PROVE Here(p)' = Here(p)
  <2>1. At(p)' = At(p)
    BY <1>5 DEF At
  <2> QED BY <2>1 DEF Here
<1> QED BY <1>3, <1>4, <1>5

LEMMA RelocatedOne ==
    ASSUME GaugeTypes, NEW j \in Jobs, NEW q, place[j] = q, NEW to, to # q,
           place' = [i \in Jobs |-> IF i \in {j} THEN to ELSE place[i]]
    PROVE  /\ Here(q)' = Here(q) - 1
           /\ Here(to)' = Here(to) + 1
           /\ \A p : p \notin {q, to} => Here(p)' = Here(p)
<1>1. {j} \subseteq At(q) /\ Cardinality({j}) = 1
    BY FS_Singleton DEF At
<1> QED BY <1>1, Relocated

\* An event is emitted by its process, or handled by the collector.
LEMMA Emitted ==
    ASSUME GaugeTypes, NEW e, NEW j \in Jobs, <<e, j>> \notin pending,
           pending' = pending \cup {<<e, j>>}
    PROVE  \A f : \A S : Told(f, S)' = Told(f, S) + (IF f = e /\ j \in S THEN 1 ELSE 0)
<1> SUFFICES ASSUME NEW f, NEW S
             PROVE  Told(f, S)' = Told(f, S) + (IF f = e /\ j \in S THEN 1 ELSE 0)
    OBVIOUS
<1> DEFINE T == {i \in Jobs : <<f, i>> \in pending /\ i \in S}
           U == {i \in Jobs : <<f, i>> \in pending' /\ i \in S}
<1>0. Told(f, S) = Cardinality(T) /\ Told(f, S)' = Cardinality(U)
    BY DEF Told
<1>1. IsFiniteSet(T) /\ Cardinality(T) \in Nat
    BY GaugesAssumption, FS_Subset, FS_CardinalityType
<1>2. CASE f = e /\ j \in S
  <2>1. U = T \cup {j} /\ j \notin T
    BY <1>2
  <2>2. Cardinality(U) = Cardinality(T) + 1
    BY <2>1, <1>1, FS_AddElement
  <2> HIDE DEF T, U
  <2> QED BY <2>2, <1>0, <1>1, <1>2
<1>3. CASE ~(f = e /\ j \in S)
  <2>1. U = T
    BY <1>3
  <2> HIDE DEF T, U
  <2> QED BY <2>1, <1>0, <1>1, <1>3
<1> QED BY <1>2, <1>3

LEMMA Handled ==
    ASSUME GaugeTypes, NEW e, NEW j \in Jobs, <<e, j>> \in pending,
           pending' = pending \ {<<e, j>>}
    PROVE  \A f : \A S : Told(f, S)' = Told(f, S) - (IF f = e /\ j \in S THEN 1 ELSE 0)
<1> SUFFICES ASSUME NEW f, NEW S
             PROVE  Told(f, S)' = Told(f, S) - (IF f = e /\ j \in S THEN 1 ELSE 0)
    OBVIOUS
<1> DEFINE T == {i \in Jobs : <<f, i>> \in pending /\ i \in S}
           U == {i \in Jobs : <<f, i>> \in pending' /\ i \in S}
<1>0. Told(f, S) = Cardinality(T) /\ Told(f, S)' = Cardinality(U)
    BY DEF Told
<1>1. IsFiniteSet(T) /\ Cardinality(T) \in Nat
    BY GaugesAssumption, FS_Subset, FS_CardinalityType
<1>2. CASE f = e /\ j \in S
  <2>1. U = T \ {j} /\ j \in T
    BY <1>2
  <2>2. Cardinality(U) = Cardinality(T) - 1
    BY <2>1, <1>1, FS_RemoveElement
  <2> HIDE DEF T, U
  <2> QED BY <2>2, <1>0, <1>1, <1>2
<1>3. CASE ~(f = e /\ j \in S)
  <2>1. U = T
    BY <1>3
  <2> HIDE DEF T, U
  <2> QED BY <2>1, <1>0, <1>1, <1>3
<1> QED BY <1>2, <1>3

\* One worker goes on.
LEMMA BackingGoes ==
    ASSUME GaugeTypes, NEW w \in Workers, NEW r \in RunRec, run' = [run EXCEPT ![w] = r]
    PROVE  /\ Backing' = Backing - (IF run[w].at = "failed" /\ run[w].again THEN 1 ELSE 0)
                         + (IF r.at = "failed" /\ r.again THEN 1 ELSE 0)
           /\ Going' = Going - (IF run[w].at \in {"failed", "dead"} /\ ~run[w].again THEN 1 ELSE 0)
                       + (IF r.at \in {"failed", "dead"} /\ ~r.again THEN 1 ELSE 0)
<1>1. \A W \in SUBSET Workers : IsFiniteSet(W)
    BY GaugesAssumption, FS_Subset
<1>2. ASSUME NEW W \in SUBSET Workers, NEW V \in SUBSET Workers, NEW p \in BOOLEAN,
             V \ {w} = W \ {w}, w \in V <=> p
      PROVE  Cardinality(V) = Cardinality(W) - (IF w \in W THEN 1 ELSE 0)
                              + (IF p THEN 1 ELSE 0)
  <2>1. IsFiniteSet(W \ {w}) /\ Cardinality(W \ {w}) \in Nat
    BY <1>1, FS_CardinalityType
  <2>2. Cardinality(W) = Cardinality(W \ {w}) + (IF w \in W THEN 1 ELSE 0)
    <3>1. CASE w \in W
      <4>1. W = (W \ {w}) \cup {w} /\ w \notin W \ {w}
        BY <3>1
      <4> QED BY <4>1, <2>1, <3>1, FS_AddElement
    <3>2. CASE w \notin W
      <4>1. W \ {w} = W
        BY <3>2
      <4>2. Cardinality(W \ {w}) = Cardinality(W)
        BY <4>1
      <4> QED BY <4>2, <2>1, <3>2
    <3> QED BY <3>1, <3>2
  <2>3. Cardinality(V) = Cardinality(W \ {w}) + (IF p THEN 1 ELSE 0)
    <3>1. CASE p
      <4>1. V = (W \ {w}) \cup {w} /\ w \notin W \ {w}
        BY <3>1, <1>2
      <4> QED BY <4>1, <2>1, <3>1, FS_AddElement
    <3>2. CASE ~p
      <4>1. V = W \ {w}
        BY <3>2, <1>2
      <4> QED BY <4>1, <2>1, <3>2
    <3> QED BY <3>1, <3>2
  <2> QED BY <2>1, <2>2, <2>3
<1>3. run \in [Workers -> RunRec]
    BY DEF GaugeTypes
<1>4. Backing' = Backing - (IF run[w].at = "failed" /\ run[w].again THEN 1 ELSE 0)
                         + (IF r.at = "failed" /\ r.again THEN 1 ELSE 0)
  <2> DEFINE p == r.at = "failed" /\ r.again
  <2>1. BackRuns \in SUBSET Workers /\ BackRuns' \in SUBSET Workers /\ p \in BOOLEAN
    BY DEF BackRuns, InRun
  <2>2. BackRuns' \ {w} = BackRuns \ {w} /\ (w \in BackRuns' <=> p)
    BY <1>3 DEF BackRuns, InRun
  <2>3. w \in BackRuns <=> run[w].at = "failed" /\ run[w].again
    BY DEF BackRuns, InRun
  <2>4. Cardinality(BackRuns') = Cardinality(BackRuns) - (IF w \in BackRuns THEN 1 ELSE 0)
                                 + (IF p THEN 1 ELSE 0)
    BY <1>2, <2>1, <2>2
  <2> QED BY <2>3, <2>4 DEF Backing
<1>5. Going' = Going - (IF run[w].at \in {"failed", "dead"} /\ ~run[w].again THEN 1 ELSE 0)
                       + (IF r.at \in {"failed", "dead"} /\ ~r.again THEN 1 ELSE 0)
  <2> DEFINE p == r.at \in {"failed", "dead"} /\ ~r.again
  <2>1. GoneRuns \in SUBSET Workers /\ GoneRuns' \in SUBSET Workers /\ p \in BOOLEAN
    BY DEF GoneRuns, InRun
  <2>2. GoneRuns' \ {w} = GoneRuns \ {w} /\ (w \in GoneRuns' <=> p)
    BY <1>3 DEF GoneRuns, InRun
  <2>3. w \in GoneRuns <=> run[w].at \in {"failed", "dead"} /\ ~run[w].again
    BY DEF GoneRuns, InRun
  <2>4. Cardinality(GoneRuns') = Cardinality(GoneRuns) - (IF w \in GoneRuns THEN 1 ELSE 0)
                                 + (IF p THEN 1 ELSE 0)
    BY <1>2, <2>1, <2>2
  <2> QED BY <2>3, <2>4 DEF Going
<1> QED BY <1>4, <1>5

\* One wrapper more counts once for each worker that runs.
LEMMA LayersOf ==
    ASSUME GaugeTypes, NEW W \in SUBSET Workers, NEW w \in Workers \ W
    PROVE  Layers(W \cup {w}) = Layers(W) + layers[w]
<1> DEFINE L(V) == {e \in V \X (1..MaxStarts) : e[2] <= layers[e[1]]}
           M == {w} \X (1..layers[w])
<1>1. layers[w] \in Nat /\ layers[w] <= MaxStarts /\ MaxStarts \in Nat
    BY GaugesAssumption DEF GaugeTypes
<1>2. L(W \cup {w}) = L(W) \cup M
    BY <1>1
<1>3. L(W) \cap M = {}
    OBVIOUS
<1>4. IsFiniteSet(M) /\ Cardinality(M) = layers[w]
  <2>1. IsFiniteSet(1..layers[w]) /\ Cardinality(1..layers[w]) = layers[w]
    <3>1. layers[w] \in Int /\ 1 \in Int /\ layers[w] \in Nat
      BY <1>1
    <3>2. IsFiniteSet(1..layers[w]) /\ Cardinality(1..layers[w]) = IF 1 > layers[w] THEN 0 ELSE layers[w] - 1 + 1
      BY <3>1, FS_Interval
    <3> QED BY <3>1, <3>2
  <2>2. IsFiniteSet({w}) /\ Cardinality({w}) = 1
    BY FS_Singleton
  <2>3. IsFiniteSet(M) /\ Cardinality(M) = Cardinality({w}) * Cardinality(1..layers[w])
    BY <2>1, <2>2, FS_Product
  <2>4. Cardinality({w}) * Cardinality(1..layers[w]) = layers[w]
    BY <2>1, <2>2, <1>1
  <2> QED BY <2>3, <2>4
<1>5. IsFiniteSet(L(W))
  <2>1. IsFiniteSet(W) /\ IsFiniteSet(1..MaxStarts)
    BY GaugesAssumption, FS_Subset, FS_Interval
  <2>2. IsFiniteSet(W \X (1..MaxStarts))
    BY <2>1, FS_Product
  <2> QED BY <2>2, FS_Subset
<1>6. Cardinality(L(W) \cup M) = Cardinality(L(W)) + Cardinality(M)
  <2> HIDE DEF L, M
  <2>1. Cardinality(L(W) \cup M) = Cardinality(L(W)) + Cardinality(M) - Cardinality(L(W) \cap M)
    BY <1>4, <1>5, FS_Union
  <2>2. Cardinality(L(W) \cap M) = 0
    BY <1>3, FS_EmptySet
  <2>3. Cardinality(L(W)) \in Nat /\ Cardinality(M) \in Nat
    BY <1>4, <1>5, FS_CardinalityType
  <2> QED BY <2>1, <2>2, <2>3
<1> QED BY <1>2, <1>4, <1>6 DEF Layers

LEMMA RunningGoes ==
    ASSUME GaugeTypes, NEW w \in Workers, NEW r \in RunRec, run' = [run EXCEPT ![w] = r],
           layers' = layers
    PROVE  Running' = Running - (IF run[w].at = "running" THEN layers[w] ELSE 0)
                      + (IF r.at = "running" THEN layers[w] ELSE 0)
<1> DEFINE W == InRun({"running"}) \ {w}
<1>1. run \in [Workers -> RunRec] /\ layers[w] \in Nat
    BY GaugesAssumption DEF GaugeTypes
<1>2. W \in SUBSET Workers /\ w \in Workers \ W
    BY DEF InRun
<1>3. Layers(W \cup {w}) = Layers(W) + layers[w]
    BY <1>2, LayersOf
<1>4. Layers(W) \in Nat
  <2> DEFINE L == {e \in W \X (1..MaxStarts) : e[2] <= layers[e[1]]}
  <2>1. IsFiniteSet(W) /\ IsFiniteSet(1..MaxStarts)
    <3>1. IsFiniteSet(W)
      BY <1>2, GaugesAssumption, FS_Subset
    <3> QED BY <3>1, GaugesAssumption, FS_Interval
  <2>2. IsFiniteSet(W \X (1..MaxStarts))
    BY <2>1, FS_Product
  <2>3. IsFiniteSet(L)
    BY <2>2, FS_Subset
  <2> QED BY <2>3, FS_CardinalityType DEF Layers
<1>5. Running = Layers(W) + (IF run[w].at = "running" THEN layers[w] ELSE 0)
  <2>1. CASE run[w].at = "running"
    <3>1. InRun({"running"}) = W \cup {w}
      BY <2>1 DEF InRun
    <3> QED BY <3>1, <1>3, <2>1 DEF Running
  <2>2. CASE run[w].at # "running"
    <3>1. InRun({"running"}) = W
      BY <2>2 DEF InRun
    <3> QED BY <3>1, <1>4, <2>2 DEF Running
  <2> QED BY <2>1, <2>2
<1>6. Running' = Layers(W) + (IF r.at = "running" THEN layers[w] ELSE 0)
  <2>1. \A x \in Workers : run'[x] = IF x = w THEN r ELSE run[x]
    BY <1>1
  <2>2. CASE r.at = "running"
    <3>1. InRun({"running"})' = W \cup {w}
      BY <2>1, <2>2 DEF InRun
    <3>2. Running' = Layers(W \cup {w})
      BY <3>1 DEF Running, Layers
    <3> QED BY <3>2, <1>3, <2>2
  <2>3. CASE r.at # "running"
    <3>1. InRun({"running"})' = W
      BY <2>1, <2>3 DEF InRun
    <3>2. Running' = Layers(W)
      BY <3>1 DEF Running, Layers
    <3> QED BY <3>2, <1>4, <2>3
  <2> QED BY <2>2, <2>3
<1> QED BY <1>1, <1>4, <1>5, <1>6

-----------------------------------------------------------------------------
(* A step of the collector, and what no hook sees. *)
LEMMA Shifted ==
    ASSUME GaugeTypes, NEW from \in SUBSET Gauge, NEW to \in SUBSET Gauge, NEW n \in Nat,
           NEW bad \in SUBSET Gauge, Shift(from, to, n, bad)
    PROVE  /\ gauge' \in [Gauge -> Nat] /\ skewed' \subseteq Gauge
           /\ skewed \subseteq skewed' /\ bad \subseteq skewed'
           /\ \A f \in Gauge \ skewed' :
                gauge'[f] = gauge[f] - (IF f \in from THEN n ELSE 0) + (IF f \in to THEN n ELSE 0)
<1>1. gauge \in [Gauge -> Nat]
    BY DEF GaugeTypes
<1>2. gauge' = [f \in Gauge |-> (IF f \in from THEN Floor(gauge[f] - n) ELSE gauge[f])
                                + (IF f \in to THEN n ELSE 0)]
    BY DEF Shift
<1>3. \A f \in Gauge : gauge[f] \in Nat
    BY <1>1
<1>4. \A f \in Gauge : Floor(gauge[f] - n) \in Nat
    BY <1>3 DEF Floor
<1>5. gauge' \in [Gauge -> Nat]
    BY <1>2, <1>3, <1>4
<1>6. \A f \in Gauge \ skewed' : f \in from => gauge[f] >= n
    BY <1>3 DEF Shift
<1>7. \A f \in Gauge \ skewed' : f \in from => Floor(gauge[f] - n) = gauge[f] - n
    BY <1>3, <1>6 DEF Floor
<1>8. \A f \in Gauge \ skewed' :
        gauge'[f] = gauge[f] - (IF f \in from THEN n ELSE 0) + (IF f \in to THEN n ELSE 0)
    BY <1>2, <1>3, <1>7
<1> QED BY <1>5, <1>8 DEF Shift, GaugeTypes

\* What is sure stays so, unless an orphan more is told.
LEMMA StillSure ==
    ASSUME skewed \subseteq skewed', skewed' \subseteq Gauge, orphans' = orphans, NEW j, Sure(j)'
    PROVE  Sure(j)
BY DEF Sure

\* What the workers run is left alone, and so is the budget of what they hold.
LEMMA RunsKept ==
    ASSUME GaugeInv, run' = run, layers' = layers, handled' = handled, mates' = mates,
           orphans' = orphans, skewed \subseteq skewed', skewed' \subseteq Gauge,
           \A w \in Workers : \A j \in run[w].jobs : Sure(j)' => budget'[j] = budget[j]
    PROVE  \A w \in Workers : RunFits(w)' /\ KeepsWord(w)'
<1> SUFFICES ASSUME NEW w \in Workers PROVE RunFits(w)' /\ KeepsWord(w)'
    OBVIOUS
<1>1. RunFits(w) /\ KeepsWord(w)
    BY DEF GaugeInv
<1>2. RunFits(w)'
    BY <1>1 DEF RunFits, Single
<1>3. Single(w)' <=> Single(w)
    BY DEF Single
<1>4. ASSUME run[w].at \in {"failed", "dead"}, NEW j \in Jobs, run[w].jobs = {j}, Sure(j)'
      PROVE  Back(w)' <=> Back(w)
    BY <1>4 DEF Back, Spent
<1>5. KeepsWord(w)'
  <2> SUFFICES ASSUME run[w].at \in {"failed", "dead"}
               PROVE  /\ \/ {"delayed", "failed"} \subseteq skewed'
                         \/ Single(w)' /\ run[w].job = run[w].jobs /\ (run[w].again <=> Back(w)')
                      /\ w \notin Batching /\ layers[w] > 0 =>
                          \A j \in run[w].jobs \ orphans : run[w].again <=> Back(w)'
    BY DEF KeepsWord
  <2>1. ASSUME ~({"delayed", "failed"} \subseteq skewed')
        PROVE  Single(w)' /\ run[w].job = run[w].jobs /\ (run[w].again <=> Back(w)')
    <3>1. Single(w) /\ run[w].job = run[w].jobs /\ (run[w].again <=> Back(w))
      BY <2>1, <1>1 DEF KeepsWord
    <3>2. \A j \in Jobs : Sure(j)'
      BY <2>1 DEF Sure, Gauge
    <3> QED BY <3>1, <3>2, <1>3, <1>4 DEF Single
  <2>2. ASSUME w \notin Batching, layers[w] > 0, NEW j \in run[w].jobs \ orphans
        PROVE  run[w].again <=> Back(w)'
    <3>1. Single(w) /\ (run[w].again <=> Back(w))
      BY <2>2, <1>1 DEF KeepsWord, RunFits
    <3>2. Sure(j)'
      BY <2>2 DEF Sure
    <3>3. j \in Jobs /\ run[w].jobs = {j}
      BY <3>1, <2>2 DEF Single
    <3> QED BY <3>1, <3>2, <3>3, <1>4
  <2> QED BY <2>1, <2>2
<1> QED BY <1>2, <1>5

\* A script moves jobs that nobody runs.
LEMMA JobsMoved ==
    ASSUME GaugeInv, NEW S, NEW to \in Places, NEW st \in Statuses, Moves(S, to, st),
           run' = run, bulk' = bulk, snapshot' = snapshot, rolled' = rolled,
           orphans' = orphans, handled' = handled, mates' = mates,
           skewed \subseteq skewed', skewed' \subseteq Gauge,
           \A j \in S : Sure(j) => \A w \in Workers : j \notin run[w].jobs,
           \A j \in S : to = "none" \/ j \notin Bulk \/ place[j] # "none",
           to # "completed", to = "dead" => st = "dead", st = "none" => to = "none"
    PROVE  BulkFits' /\ Held' /\ Recorded' /\ FinishedReadsFinished' /\ CompletedWasHandled'
<1>1. \A j \in Jobs : /\ place'[j] = IF j \in S THEN to ELSE place[j]
                      /\ status'[j] = IF j \in S THEN st ELSE status[j]
    BY DEF Moves
<1>2. \A j : Sure(j)' => Sure(j)
    BY StillSure
<1>3. BulkFits'
  <2> USE DEF BulkFits
  <2>1. bulk = "todo" => \A j \in Bulk : place'[j] = "none" /\ \A w \in Workers : j \notin run[w].jobs
    BY <1>1, GaugesAssumption DEF GaugeInv
  <2> QED BY <2>1 DEF GaugeInv
<1>4. \A w \in Workers : run[w].jobs \subseteq Jobs
    BY DEF GaugeInv, GaugeTypes, RunRec
<1>5. Held'
    BY <1>1, <1>2, <1>4 DEF GaugeInv, Held
<1>6. Recorded'
    BY <1>1, <1>2 DEF GaugeInv, Recorded
<1>7. FinishedReadsFinished'
    BY <1>1 DEF GaugeInv, FinishedReadsFinished
<1>8. CompletedWasHandled'
    BY <1>1 DEF GaugeInv, CompletedWasHandled, At
<1> QED BY <1>3, <1>5, <1>6, <1>7, <1>8

LEMMA MovesTypes ==
    ASSUME GaugeTypes, NEW S, NEW to \in Places, NEW st \in Statuses, Moves(S, to, st)
    PROVE  place' \in [Jobs -> Places] /\ status' \in [Jobs -> Statuses]
BY DEF GaugeTypes, Moves

\* The job is not held, if it is not active.
LEMMA NotActiveNotHeld ==
    ASSUME GaugeInv, NEW j \in Jobs, place[j] # "active", Sure(j)
    PROVE  \A w \in Workers : j \notin run[w].jobs
BY DEF GaugeInv, Held

LEMMA GaugeInvIf ==
    ASSUME GaugeTypes', BulkFits' /\ Held' /\ Recorded' /\ FinishedReadsFinished' /\ CompletedWasHandled',
           \A w \in Workers : RunFits(w)' /\ KeepsWord(w)', Agree'
    PROVE  GaugeInv'
<1>1. GaugesAgree'
    BY AgreeIsGaugesAgree, PTL
<1> QED BY <1>1 DEF GaugeInv

-----------------------------------------------------------------------------
LEMMA ReleaseKeeps == ASSUME GaugeInv, NEW j \in Jobs, Release(j) PROVE GaugeInv'
<1> USE DEF gaugeHistory, bounds, hooks
<1>1. /\ place[j] = "blocked" /\ Moves({j}, "waiting", "waiting")
      /\ gauge' = gauge /\ skewed' = skewed \cup {"waiting"}
    BY DEF Release, Silent
<1>2. GaugeTypes /\ Agree
    BY AgreeIsGaugesAgree DEF GaugeInv
<1>3. GaugeTypes'
  <2>1. place' \in [Jobs -> Places] /\ status' \in [Jobs -> Statuses]
    BY <1>1, <1>2, MovesTypes DEF Places, Statuses
  <2> QED BY <2>1, <1>1, <1>2 DEF Release, GaugeTypes, Gauge
<1>4. skewed \subseteq skewed' /\ skewed' \subseteq Gauge
    BY <1>1, <1>3 DEF GaugeTypes
<1>5. BulkFits' /\ Held' /\ Recorded' /\ FinishedReadsFinished' /\ CompletedWasHandled'
  <2>1. Sure(j) => \A w \in Workers : j \notin run[w].jobs
    BY <1>1, NotActiveNotHeld
  <2> QED BY <2>1, <1>1, <1>4, JobsMoved DEF Release, Places, Statuses
<1>6. \A w \in Workers : RunFits(w)' /\ KeepsWord(w)'
    BY <1>4, RunsKept DEF Release
<1>7. Agree'
  <2>1. \A p : p \notin {"blocked", "waiting"} => Here(p)' = Here(p)
    BY <1>1, <1>2, RelocatedOne DEF Moves
  <2>2. Here("delayed")' = Here("delayed") /\ Here("dead")' = Here("dead")
    BY <2>1
  <2>3. Taking' = Taking /\ Backing' = Backing /\ Going' = Going /\ Running' = Running
    BY RunsRest DEF Release
  <2>4. \A e : \A S : Told(e, S)' = Told(e, S)
    BY PendingRests DEF Release
  <2>5. lost' = lost
    BY DEF Release
  <2> QED BY <2>2, <2>3, <2>4, <2>5, <1>1, <1>2 DEF Agree
<1> QED BY <1>3, <1>5, <1>6, <1>7, GaugeInvIf

LEMMA RecoverKeeps == ASSUME GaugeInv, NEW j \in Jobs, Recover(j) PROVE GaugeInv'
<1> USE DEF gaugeHistory, bounds, hooks
<1> DEFINE to == IF Spent(j) THEN "dead" ELSE "waiting"
           bad == IF Spent(j) THEN {"failed"} ELSE {"waiting"}
<1>1. /\ place[j] = "active" /\ \A w \in Workers : j \notin run[w].jobs
      /\ Moves({j}, to, to) /\ gauge' = gauge /\ skewed' = skewed \cup bad
    BY DEF Recover, Silent
<1>2. GaugeTypes /\ Agree
    BY AgreeIsGaugesAgree DEF GaugeInv
<1>3. to \in Places /\ to \in Statuses /\ to \notin {"completed", "active", "none"}
    BY DEF Places, Statuses
<1>4. GaugeTypes'
  <2>1. place' \in [Jobs -> Places] /\ status' \in [Jobs -> Statuses]
    BY <1>1, <1>2, <1>3, MovesTypes
  <2> QED BY <2>1, <1>1, <1>2 DEF Recover, GaugeTypes, Gauge
<1>5. skewed \subseteq skewed' /\ skewed' \subseteq Gauge
    BY <1>1, <1>4 DEF GaugeTypes
<1>6. BulkFits' /\ Held' /\ Recorded' /\ FinishedReadsFinished' /\ CompletedWasHandled'
  <2> HIDE DEF to, bad
  <2> QED BY <1>1, <1>3, <1>5, JobsMoved DEF Recover
<1>7. \A w \in Workers : RunFits(w)' /\ KeepsWord(w)'
    BY <1>5, RunsKept DEF Recover
<1>8. Agree'
  <2>1. \A p : p \notin {"active", to} => Here(p)' = Here(p)
    BY <1>1, <1>2, <1>3, RelocatedOne DEF Moves
  <2>2. /\ Here("delayed")' = Here("delayed")
        /\ to # "dead" => Here("dead")' = Here("dead")
        /\ to # "waiting" => Here("waiting")' = Here("waiting")
    BY <2>1
  <2>3. Taking' = Taking /\ Backing' = Backing /\ Going' = Going /\ Running' = Running
    BY RunsRest DEF Recover
  <2>4. \A e : \A S : Told(e, S)' = Told(e, S)
    BY PendingRests DEF Recover
  <2>5. lost' = lost
    BY DEF Recover
  <2> QED BY <2>2, <2>3, <2>4, <2>5, <1>1, <1>2 DEF Agree
<1> QED BY <1>4, <1>6, <1>7, <1>8, GaugeInvIf

LEMMA PromoteKeeps ==
    ASSUME GaugeInv, NEW j \in Jobs, NEW shared \in BOOLEAN, Promote(j, shared)
    PROVE  GaugeInv'
<1> USE DEF gaugeHistory, bounds, hooks
<1>1. place[j] = "delayed" /\ Moves({j}, "waiting", "waiting") /\ gauge' = gauge
    BY DEF Promote, Silent
<1>2. GaugeTypes /\ Agree
    BY AgreeIsGaugesAgree DEF GaugeInv
<1>3. GaugeTypes'
  <2>1. place' \in [Jobs -> Places] /\ status' \in [Jobs -> Statuses]
    BY <1>1, <1>2, MovesTypes DEF Places, Statuses
  <2>2. skewed' \subseteq Gauge
    BY <1>2 DEF Promote, Silent, GaugeTypes, Gauge
  <2>3. pending' \subseteq {"add", "again", "retry", "promote"} \X Jobs
    BY <1>2 DEF Promote, GaugeTypes
  <2> QED BY <2>1, <2>2, <2>3, <1>1, <1>2 DEF Promote, GaugeTypes
<1>4. skewed \subseteq skewed' /\ skewed' \subseteq Gauge
    BY <1>3 DEF GaugeTypes, Promote, Silent
<1>5. BulkFits' /\ Held' /\ Recorded' /\ FinishedReadsFinished' /\ CompletedWasHandled'
  <2>1. Sure(j) => \A w \in Workers : j \notin run[w].jobs
    BY <1>1, NotActiveNotHeld
  <2> QED BY <2>1, <1>1, <1>4, JobsMoved DEF Promote, Places, Statuses
<1>6. \A w \in Workers : RunFits(w)' /\ KeepsWord(w)'
    BY <1>4, RunsKept DEF Promote
<1>7. Agree'
  <2>1. /\ Here("delayed")' = Here("delayed") - 1 /\ Here("waiting")' = Here("waiting") + 1
        /\ \A p : p \notin {"delayed", "waiting"} => Here(p)' = Here(p)
    BY <1>1, <1>2, RelocatedOne DEF Moves
  <2>2. Here("dead")' = Here("dead")
    BY <2>1
  <2>3. Taking' = Taking /\ Backing' = Backing /\ Going' = Going /\ Running' = Running
    BY RunsRest DEF Promote
  <2>4. lost' = lost
    BY DEF Promote
  <2>5. Numbers /\ gauge \in [Gauge -> Nat]
    BY <1>2, CountedAreNumbers DEF GaugeTypes
  <2>6. CASE shared
    <3>1. \A f : \A S : Told(f, S)' = Told(f, S) + (IF f = "promote" /\ j \in S THEN 1 ELSE 0)
      BY <2>6, <1>2, Emitted DEF Promote
    <3>2. /\ Told("promote", Jobs)' = Told("promote", Jobs) + 1
          /\ Told("add", Fresh)' = Told("add", Fresh) + 0
          /\ Told("add", Delayed)' = Told("add", Delayed) + 0
          /\ Told("retry", Jobs)' = Told("retry", Jobs) + 0
      BY <3>1
    <3>3. skewed' = skewed
      BY <2>6 DEF Promote, Silent
    <3> QED BY <3>2, <3>3, <2>1, <2>2, <2>3, <2>4, <2>5, <1>1, <1>2 DEF Agree, Gauge, Numbers
  <2>7. CASE ~shared
    <3>1. \A e : \A S : Told(e, S)' = Told(e, S)
      BY <2>7, PendingRests DEF Promote
    <3>2. skewed' = skewed \cup {"waiting", "delayed"}
      BY <2>7 DEF Promote, Silent
    <3> QED BY <3>1, <3>2, <2>2, <2>3, <2>4, <1>1, <1>2 DEF Agree
  <2> QED BY <2>6, <2>7
<1> QED BY <1>3, <1>5, <1>6, <1>7, GaugeInvIf

LEMMA RetryKeeps == ASSUME GaugeInv, NEW j \in Jobs, Retry(j) PROVE GaugeInv'
<1> USE DEF gaugeHistory, bounds, hooks
<1>1. /\ place[j] = "dead" /\ Moves({j}, "waiting", "waiting")
      /\ gauge' = gauge /\ skewed' = skewed /\ <<"retry", j>> \notin pending
      /\ pending' = pending \cup {<<"retry", j>>}
    BY DEF Retry
<1>2. GaugeTypes /\ Agree
    BY AgreeIsGaugesAgree DEF GaugeInv
<1>3. GaugeTypes'
  <2>1. place' \in [Jobs -> Places] /\ status' \in [Jobs -> Statuses]
    BY <1>1, <1>2, MovesTypes DEF Places, Statuses
  <2>2. pending' \subseteq {"add", "again", "retry", "promote"} \X Jobs
    BY <1>1, <1>2 DEF GaugeTypes
  <2>3. starts' = starts
    BY DEF Retry, Call
  <2> QED BY <2>1, <2>2, <2>3, <1>1, <1>2 DEF Retry, GaugeTypes
<1>4. skewed \subseteq skewed' /\ skewed' \subseteq Gauge
    BY <1>1, <1>2 DEF GaugeTypes
<1>5. BulkFits' /\ Held' /\ Recorded' /\ FinishedReadsFinished' /\ CompletedWasHandled'
  <2>1. Sure(j) => \A w \in Workers : j \notin run[w].jobs
    BY <1>1, NotActiveNotHeld
  <2> QED BY <2>1, <1>1, <1>4, JobsMoved DEF Retry, Places, Statuses
<1>6. \A w \in Workers : RunFits(w)' /\ KeepsWord(w)'
    BY <1>4, RunsKept DEF Retry
<1>7. Agree'
  <2>1. /\ Here("dead")' = Here("dead") - 1 /\ Here("waiting")' = Here("waiting") + 1
        /\ \A p : p \notin {"dead", "waiting"} => Here(p)' = Here(p)
    BY <1>1, <1>2, RelocatedOne DEF Moves
  <2>2. Here("delayed")' = Here("delayed")
    BY <2>1
  <2>3. Taking' = Taking /\ Backing' = Backing /\ Going' = Going /\ Running' = Running
    BY RunsRest DEF Retry
  <2>4. lost' = lost
    BY DEF Retry
  <2>5. Numbers /\ gauge \in [Gauge -> Nat]
    BY <1>2, CountedAreNumbers DEF GaugeTypes
  <2>6. \A f : \A S : Told(f, S)' = Told(f, S) + (IF f = "retry" /\ j \in S THEN 1 ELSE 0)
    BY <1>1, <1>2, Emitted
  <2>7. /\ Told("promote", Jobs)' = Told("promote", Jobs) + 0
        /\ Told("add", Fresh)' = Told("add", Fresh) + 0
        /\ Told("add", Delayed)' = Told("add", Delayed) + 0
        /\ Told("retry", Jobs)' = Told("retry", Jobs) + 1
    BY <2>6
  <2> QED BY <2>1, <2>2, <2>3, <2>4, <2>5, <2>7, <1>1, <1>2 DEF Agree, Gauge, Numbers
<1> QED BY <1>3, <1>5, <1>6, <1>7, GaugeInvIf

LEMMA AddKeeps == ASSUME GaugeInv, NEW j \in Jobs, Add(j) PROVE GaugeInv'
<1> USE DEF gaugeHistory, bounds, hooks
<1>1. /\ j \notin Bulk /\ gauge' = gauge /\ skewed' = skewed /\ run' = run /\ layers' = layers
      /\ starts' = starts /\ lost' = lost /\ orphans' = orphans /\ handled' = handled
      /\ mates' = mates /\ rolled' = rolled /\ bulk' = bulk /\ snapshot' = snapshot
      /\ up' = up /\ flag' = flag
    BY DEF Add, Call, jobVars
<1>2. GaugeTypes /\ Agree /\ Numbers /\ gauge \in [Gauge -> Nat]
    BY AgreeIsGaugesAgree, CountedAreNumbers DEF GaugeInv, GaugeTypes
<1>3. skewed \subseteq skewed' /\ skewed' \subseteq Gauge
    BY <1>1, <1>2 DEF GaugeTypes
<1>4. Taking' = Taking /\ Backing' = Backing /\ Going' = Going /\ Running' = Running
    BY <1>1, RunsRest
<1>5. pending' \subseteq {"add", "again", "retry", "promote"} \X Jobs
    BY <1>2 DEF Add, GaugeTypes
<1>6. CASE status[j] = "none"
  <2> DEFINE to == Arrives(j)
             st == IF j \in Delayed THEN "delayed" ELSE "waiting"
  <2>1. /\ Moves({j}, to, st) /\ budget' = [budget EXCEPT ![j] = MaxRetries[j]]
        /\ <<"add", j>> \notin pending /\ pending' = pending \cup {<<"add", j>>}
    BY <1>6 DEF Add
  <2>2. to \in {"delayed", "blocked", "waiting"} /\ st \in {"delayed", "waiting"}
    BY DEF Arrives
  <2>3. to \in Places /\ st \in Statuses
    BY <2>2 DEF Places, Statuses
  <2>4. Sure(j) => place[j] = "none" /\ \A w \in Workers : j \notin run[w].jobs
    BY <1>6, NotActiveNotHeld DEF GaugeInv, Recorded
  <2> HIDE DEF to, st
  <2>5. GaugeTypes'
    <3>1. place' \in [Jobs -> Places] /\ status' \in [Jobs -> Statuses]
      BY <2>1, <2>3, <1>2, MovesTypes
    <3>2. budget' \in [Jobs -> Nat] /\ \A i \in Jobs : budget'[i] \in {0, MaxRetries[i]}
      BY <2>1, <1>2, GaugesAssumption DEF GaugeTypes
    <3> QED BY <3>1, <3>2, <1>1, <1>2, <1>5 DEF GaugeTypes
  <2>6. BulkFits' /\ Held' /\ Recorded' /\ FinishedReadsFinished' /\ CompletedWasHandled'
    BY <2>1, <2>2, <2>3, <2>4, <1>1, <1>3, JobsMoved
  <2>7. \A w \in Workers : RunFits(w)' /\ KeepsWord(w)'
    <3>1. \A w \in Workers : \A i \in run[w].jobs : i \in Jobs
      BY <1>2 DEF GaugeTypes, RunRec
    <3>2. \A w \in Workers : \A i \in run[w].jobs : Sure(i)' => budget'[i] = budget[i]
      BY <3>1, <2>1, <2>4, <1>1, <1>2 DEF Sure, GaugeTypes
    <3> QED BY <3>2, <1>1, <1>3, RunsKept
  <2>8. Agree'
    <3>1. CASE skewed = Gauge
      BY <3>1, <1>1 DEF Agree, Gauge
    <3>2. CASE skewed # Gauge
      <4>1. place[j] = "none" /\ to # "none"
        BY <3>2, <2>2, <2>4 DEF Sure
      <4>2. Here(to)' = Here(to) + 1 /\ \A p : p \notin {"none", to} => Here(p)' = Here(p)
        BY <4>1, <2>1, <1>2, RelocatedOne DEF Moves
      <4>3. \A f : \A S : Told(f, S)' = Told(f, S) + (IF f = "add" /\ j \in S THEN 1 ELSE 0)
        BY <2>1, <1>2, Emitted
      <4>4. /\ Told("promote", Jobs)' = Told("promote", Jobs) + 0
            /\ Told("retry", Jobs)' = Told("retry", Jobs) + 0
            /\ Told("add", Fresh)' = Told("add", Fresh) + (IF to = "waiting" THEN 1 ELSE 0)
            /\ Told("add", Delayed)' = Told("add", Delayed) + (IF to = "delayed" THEN 1 ELSE 0)
        BY <4>3 DEF to, Fresh, Arrives
      <4>5. /\ Here("dead")' = Here("dead")
            /\ Here("waiting")' = Here("waiting") + (IF to = "waiting" THEN 1 ELSE 0)
            /\ Here("delayed")' = Here("delayed") + (IF to = "delayed" THEN 1 ELSE 0)
        BY <4>2, <2>2, <1>2 DEF Numbers
      <4> QED BY <4>4, <4>5, <1>1, <1>2, <1>4 DEF Agree, Gauge, Numbers
    <3> QED BY <3>1, <3>2
  <2> QED BY <2>5, <2>6, <2>7, <2>8, GaugeInvIf
<1>7. CASE status[j] # "none"
  <2>1. /\ place' = place /\ status' = status /\ budget' = budget
        /\ <<"again", j>> \notin pending /\ pending' = pending \cup {<<"again", j>>}
    BY <1>7 DEF Add, jobVars
  <2>2. GaugeTypes'
    BY <2>1, <1>1, <1>2, <1>5 DEF GaugeTypes
  <2>3. BulkFits' /\ Held' /\ Recorded' /\ FinishedReadsFinished' /\ CompletedWasHandled'
    BY <2>1, <1>1 DEF GaugeInv, BulkFits, Held, Recorded, FinishedReadsFinished,
                      CompletedWasHandled, Sure, At
  <2>4. \A w \in Workers : RunFits(w)' /\ KeepsWord(w)'
    BY <2>1, <1>1, <1>3, RunsKept
  <2>5. Agree'
    <3>1. \A p : Here(p)' = Here(p)
      BY <2>1, PlaceRests
    <3>2. \A f : \A S : Told(f, S)' = Told(f, S) + (IF f = "again" /\ j \in S THEN 1 ELSE 0)
      BY <2>1, <1>2, Emitted
    <3>3. /\ Told("promote", Jobs)' = Told("promote", Jobs) + 0
          /\ Told("retry", Jobs)' = Told("retry", Jobs) + 0
          /\ Told("add", Fresh)' = Told("add", Fresh) + 0
          /\ Told("add", Delayed)' = Told("add", Delayed) + 0
      BY <3>2
    <3> QED BY <3>1, <3>3, <1>1, <1>2, <1>4 DEF Agree, Gauge, Numbers
  <2> QED BY <2>2, <2>3, <2>4, <2>5, GaugeInvIf
<1> QED BY <1>6, <1>7

LEMMA EmitKeeps == ASSUME GaugeInv, NEW e \in pending, Emit(e) PROVE GaugeInv'
<1> USE DEF gaugeHistory, bounds, hooks, jobVars
<1>1. /\ pending' = pending \ {e} /\ place' = place /\ status' = status /\ budget' = budget
      /\ run' = run /\ layers' = layers /\ up' = up /\ bulk' = bulk /\ snapshot' = snapshot
      /\ flag' = flag /\ starts' = starts /\ lost' = lost /\ rolled' = rolled
      /\ orphans' = orphans /\ handled' = handled /\ mates' = mates
    BY DEF Emit
<1>2. GaugeTypes /\ Agree /\ Numbers /\ gauge \in [Gauge -> Nat]
    BY AgreeIsGaugesAgree, CountedAreNumbers DEF GaugeInv, GaugeTypes
<1>3. PICK k \in {"add", "again", "retry", "promote"}, j \in Jobs : e = <<k, j>>
    BY <1>2 DEF GaugeTypes
<1> DEFINE from == IF k = "retry" THEN {"failed"} ELSE IF k = "promote" THEN {"delayed"} ELSE {}
           to == IF k \in {"retry", "promote"} THEN {"waiting"} ELSE Counted(j)
           bad == IF k = "again" THEN Counted(j) ELSE {}
<1>4. Counted(j) \subseteq Gauge /\ Counted(j) \subseteq {"waiting", "delayed"}
    BY DEF Counted, Arrives, Gauge
<1>5. Shift(from, to, 1, bad)
    BY <1>3 DEF Emit
<1>6. from \subseteq Gauge /\ to \subseteq Gauge /\ bad \in SUBSET Gauge
    BY <1>4 DEF Gauge
<1>7. /\ gauge' \in [Gauge -> Nat] /\ skewed' \subseteq Gauge
      /\ skewed \subseteq skewed' /\ bad \subseteq skewed'
      /\ \A f \in Gauge \ skewed' :
            gauge'[f] = gauge[f] - (IF f \in from THEN 1 ELSE 0) + (IF f \in to THEN 1 ELSE 0)
  <2> HIDE DEF from, to, bad
  <2>1. PICK n \in Nat : n = 1
    OBVIOUS
  <2>2. Shift(from, to, n, bad)
    BY <2>1, <1>5
  <2>3. /\ gauge' \in [Gauge -> Nat] /\ skewed' \subseteq Gauge
        /\ skewed \subseteq skewed' /\ bad \subseteq skewed'
        /\ \A f \in Gauge \ skewed' :
             gauge'[f] = gauge[f] - (IF f \in from THEN n ELSE 0) + (IF f \in to THEN n ELSE 0)
    BY <2>2, <1>2, <1>6, Shifted
  <2> QED BY <2>1, <2>3
<1>8. GaugeTypes'
    BY <1>1, <1>2, <1>7 DEF GaugeTypes
<1>9. BulkFits' /\ Held' /\ Recorded' /\ FinishedReadsFinished' /\ CompletedWasHandled'
  <2>1. \A i : Sure(i)' => Sure(i)
    BY <1>1, <1>7, StillSure
  <2> QED BY <2>1, <1>1 DEF GaugeInv, BulkFits, Held, Recorded, FinishedReadsFinished,
                            CompletedWasHandled, At
<1>10. \A w \in Workers : RunFits(w)' /\ KeepsWord(w)'
    BY <1>1, <1>7, RunsKept
<1>11. Agree'
  <2>1. \A p : Here(p)' = Here(p)
    BY <1>1, PlaceRests
  <2>2. Taking' = Taking /\ Backing' = Backing /\ Going' = Going /\ Running' = Running
    BY <1>1, RunsRest
  <2>3. \A f : \A S : Told(f, S)' = Told(f, S) - (IF f = k /\ j \in S THEN 1 ELSE 0)
    BY <1>1, <1>2, <1>3, Handled
  <2>4. /\ Told("promote", Jobs)' = Told("promote", Jobs) - (IF k = "promote" THEN 1 ELSE 0)
        /\ Told("retry", Jobs)' = Told("retry", Jobs) - (IF k = "retry" THEN 1 ELSE 0)
        /\ Told("add", Fresh)' = Told("add", Fresh)
                                 - (IF k = "add" /\ "waiting" \in Counted(j) THEN 1 ELSE 0)
        /\ Told("add", Delayed)' = Told("add", Delayed)
                                 - (IF k = "add" /\ "delayed" \in Counted(j) THEN 1 ELSE 0)
    BY <2>3 DEF Fresh, Arrives, Counted
  <2>5. "active" \notin skewed' => gauge'["active"] = gauge["active"] - 0 + 0
    BY <1>4, <1>7 DEF Gauge
  <2>6. "waiting" \notin skewed' =>
            gauge'["waiting"] = gauge["waiting"]
                + (IF k \in {"retry", "promote"} \/ (k = "add" /\ "waiting" \in Counted(j))
                   THEN 1 ELSE 0)
    BY <1>2, <1>7 DEF Gauge
  <2>7. "delayed" \notin skewed' =>
            gauge'["delayed"] = gauge["delayed"] - (IF k = "promote" THEN 1 ELSE 0)
                + (IF k = "add" /\ "delayed" \in Counted(j) THEN 1 ELSE 0)
    BY <1>2, <1>7 DEF Gauge
  <2>8. "failed" \notin skewed' =>
            gauge'["failed"] = gauge["failed"] - (IF k = "retry" THEN 1 ELSE 0)
    BY <1>2, <1>4, <1>7 DEF Gauge
  <2>9. gauge["active"] \in Nat /\ gauge["waiting"] \in Nat /\ gauge["delayed"] \in Nat
        /\ gauge["failed"] \in Nat
    BY <1>2 DEF Gauge
  <2> HIDE DEF from, to, bad
  <2>10. "active" \notin skewed' => gauge'["active"] = Running' + lost'
    BY <2>2, <2>5, <2>9, <1>1, <1>2, <1>7 DEF Agree
  <2>11. "waiting" \notin skewed' =>
            gauge'["waiting"] = Here("waiting")' + Taking' - Told("add", Fresh)'
                                - Told("retry", Jobs)' - Told("promote", Jobs)'
    BY <2>1, <2>2, <2>4, <2>6, <2>9, <1>2, <1>7 DEF Agree, Numbers
  <2>12. "delayed" \notin skewed' =>
            gauge'["delayed"] = Here("delayed")' + Backing' - Told("add", Delayed)'
                                + Told("promote", Jobs)'
    BY <2>1, <2>2, <2>4, <2>7, <2>9, <1>2, <1>7 DEF Agree, Numbers
  <2>13. "failed" \notin skewed' =>
            gauge'["failed"] = Here("dead")' + Told("retry", Jobs)' + Going'
    BY <2>1, <2>2, <2>4, <2>8, <2>9, <1>2, <1>7 DEF Agree, Numbers
  <2> QED BY <2>10, <2>11, <2>12, <2>13 DEF Agree
<1> QED BY <1>8, <1>9, <1>10, <1>11, GaugeInvIf

LEMMA AddBulkKeeps == ASSUME GaugeInv, AddBulk PROVE GaugeInv'
<1> USE DEF gaugeHistory, bounds, hooks
<1>1. /\ bulk = "todo" /\ bulk' = "added" /\ Moves(Bulk, "waiting", "waiting")
      /\ gauge' = gauge /\ skewed' = skewed \cup {"waiting"} /\ snapshot' = snapshot
      /\ run' = run /\ layers' = layers /\ budget' = budget /\ pending' = pending
      /\ up' = up /\ flag' = flag /\ starts' = starts /\ lost' = lost /\ rolled' = rolled
      /\ orphans' = orphans /\ handled' = handled /\ mates' = mates
    BY DEF AddBulk, Silent, Call
<1>2. GaugeTypes /\ Agree
    BY AgreeIsGaugesAgree DEF GaugeInv
<1>3. \A j \in Bulk : place[j] = "none" /\ \A w \in Workers : j \notin run[w].jobs
    BY <1>1 DEF GaugeInv, BulkFits
<1>4. GaugeTypes'
  <2>1. place' \in [Jobs -> Places] /\ status' \in [Jobs -> Statuses]
    BY <1>1, <1>2, MovesTypes DEF Places, Statuses
  <2> QED BY <2>1, <1>1, <1>2 DEF GaugeTypes, Gauge
<1>5. skewed \subseteq skewed' /\ skewed' \subseteq Gauge
    BY <1>1, <1>4 DEF GaugeTypes
<1>6. \A j \in Jobs : /\ place'[j] = IF j \in Bulk THEN "waiting" ELSE place[j]
                      /\ status'[j] = IF j \in Bulk THEN "waiting" ELSE status[j]
    BY <1>1 DEF Moves
<1>7. \A j : Sure(j)' => Sure(j)
    BY <1>1, <1>5, StillSure
<1>8. BulkFits'
    BY <1>1 DEF GaugeInv, BulkFits, Nothing
<1>9. Held'
  <2>1. \A w \in Workers : \A j \in run[w].jobs : j \in Jobs /\ j \notin Bulk
    BY <1>2, <1>3 DEF GaugeTypes, RunRec
  <2> QED BY <2>1, <1>1, <1>6, <1>7 DEF GaugeInv, Held
<1>10. Recorded' /\ FinishedReadsFinished' /\ CompletedWasHandled'
    BY <1>1, <1>6, <1>7 DEF GaugeInv, Recorded, FinishedReadsFinished, CompletedWasHandled, At
<1>11. \A w \in Workers : RunFits(w)' /\ KeepsWord(w)'
    BY <1>1, <1>5, RunsKept
<1>12. Agree'
  <2>1. At("delayed")' = At("delayed") /\ At("dead")' = At("dead")
    BY <1>3, <1>6 DEF At
  <2>3. Here("delayed")' = Here("delayed") /\ Here("dead")' = Here("dead")
    BY <2>1 DEF Here
  <2>4. Taking' = Taking /\ Backing' = Backing /\ Going' = Going /\ Running' = Running
    BY <1>1, RunsRest
  <2>5. \A e : \A S : Told(e, S)' = Told(e, S)
    BY <1>1, PendingRests
  <2> QED BY <2>3, <2>4, <2>5, <1>1, <1>2 DEF Agree
<1> QED BY <1>4, <1>8, <1>9, <1>10, <1>11, <1>12, GaugeInvIf

\* What a step keeps that leaves the jobs, the runs and the gauges alone.
LEMMA GaugesRest ==
    ASSUME GaugeInv, place' = place, run' = run, layers' = layers, pending' = pending,
           gauge' = gauge, skewed' = skewed, lost' = lost, orphans' = orphans,
           handled' = handled, mates' = mates,
           \A w \in Workers : \A j \in run[w].jobs : Sure(j) => budget'[j] = budget[j]
    PROVE  /\ Held' /\ CompletedWasHandled' /\ Agree'
           /\ \A w \in Workers : RunFits(w)' /\ KeepsWord(w)'
<1>1. \A j : Sure(j)' <=> Sure(j)
    BY DEF Sure
<1>2. Held' /\ CompletedWasHandled'
    BY <1>1 DEF GaugeInv, Held, CompletedWasHandled, At
<1>3. \A w \in Workers : RunFits(w)' /\ KeepsWord(w)'
    BY <1>1, RunsKept DEF GaugeInv, GaugeTypes
<1>4. Agree'
  <2>1. Agree
    BY AgreeIsGaugesAgree DEF GaugeInv
  <2>2. \A p : Here(p)' = Here(p)
    BY PlaceRests
  <2>3. Taking' = Taking /\ Backing' = Backing /\ Going' = Going /\ Running' = Running
    BY RunsRest
  <2>4. \A e : \A S : Told(e, S)' = Told(e, S)
    BY PendingRests
  <2> QED BY <2>1, <2>2, <2>3, <2>4 DEF Agree
<1> QED BY <1>2, <1>3, <1>4

LEMMA ReadBulkKeeps == ASSUME GaugeInv, ReadBulk PROVE GaugeInv'
<1> USE DEF gaugeHistory, bounds, hooks, jobVars
<1>1. /\ bulk' = "read" /\ place' = place /\ status' = status /\ budget' = budget /\ run' = run
      /\ layers' = layers /\ up' = up /\ starts' = starts /\ pending' = pending
      /\ gauge' = gauge /\ flag' = flag /\ skewed' = skewed /\ lost' = lost
      /\ rolled' = rolled /\ orphans' = orphans /\ handled' = handled /\ mates' = mates
      /\ snapshot' = [j \in {i \in Jobs : OfBatch(i)} |-> <<status[j], budget[j]>>]
    BY DEF ReadBulk
<1>2. GaugeTypes'
    BY <1>1 DEF GaugeInv, GaugeTypes
<1>3. BulkFits'
  <2>1. \A j \in DOMAIN snapshot' : /\ j \in Bulk /\ j \in Jobs /\ status[j] # "none"
                                    /\ snapshot'[j] = <<status[j], budget[j]>>
    BY <1>1 DEF OfBatch
  <2>2. \A j \in DOMAIN snapshot' : /\ snapshot'[j][1] \in Statuses \ {"none"}
                                    /\ snapshot'[j][2] \in {0, MaxRetries[j]}
    BY <2>1 DEF GaugeInv, GaugeTypes
  <2> QED BY <2>1, <2>2, <1>1 DEF BulkFits
<1>4. Recorded' /\ FinishedReadsFinished'
    BY <1>1 DEF GaugeInv, Recorded, FinishedReadsFinished, Sure
<1> QED BY <1>1, <1>2, <1>3, <1>4, GaugesRest, GaugeInvIf

LEMMA WriteBulkKeeps == ASSUME GaugeInv, WriteBulk PROVE GaugeInv'
<1> USE DEF gaugeHistory, bounds, hooks, jobVars
<1>1. /\ bulk' = "done" /\ place' = place /\ run' = run /\ snapshot' = Nothing
      /\ layers' = layers /\ up' = up /\ starts' = starts /\ pending' = pending
      /\ gauge' = gauge /\ flag' = flag /\ skewed' = skewed /\ lost' = lost
      /\ rolled' = rolled \cup Bulk /\ orphans' = orphans /\ handled' = handled /\ mates' = mates
      /\ status' = [j \in Jobs |-> IF j \in DOMAIN snapshot THEN snapshot[j][1] ELSE status[j]]
      /\ budget' = [j \in Jobs |-> IF j \in DOMAIN snapshot /\ place[j] \in {"waiting", "delayed"}
                                   THEN snapshot[j][2] ELSE budget[j]]
    BY DEF WriteBulk
<1>2. GaugeTypes /\ BulkFits
    BY DEF GaugeInv
<1>3. \A j \in DOMAIN snapshot :
        snapshot[j][1] \in Statuses \ {"none"} /\ snapshot[j][2] \in {0, MaxRetries[j]} /\ j \in Bulk
    BY <1>2 DEF BulkFits
<1>4. GaugeTypes'
  <2>1. status' \in [Jobs -> Statuses]
    BY <1>1, <1>2, <1>3 DEF GaugeTypes
  <2>2. budget' \in [Jobs -> Nat] /\ \A j \in Jobs : budget'[j] \in {0, MaxRetries[j]}
    BY <1>1, <1>2, <1>3, GaugesAssumption DEF GaugeTypes
  <2>3. rolled' \subseteq Jobs
    BY <1>1, <1>2, GaugesAssumption DEF GaugeTypes
  <2> QED BY <2>1, <2>2, <2>3, <1>1, <1>2 DEF GaugeTypes
<1>5. BulkFits'
    BY <1>1 DEF BulkFits, Nothing
<1>6. Recorded' /\ FinishedReadsFinished'
    BY <1>1, <1>3 DEF GaugeInv, Recorded, FinishedReadsFinished, Sure
<1>7. \A w \in Workers : \A j \in run[w].jobs : Sure(j) => budget'[j] = budget[j]
  <2>1. \A w \in Workers : \A j \in run[w].jobs : j \in Jobs /\ (Sure(j) => place[j] = "active")
    BY <1>2 DEF GaugeTypes, RunRec, GaugeInv, Held
  <2> QED BY <2>1, <1>1
<1> QED BY <1>1, <1>4, <1>5, <1>6, <1>7, GaugesRest, GaugeInvIf

LEMMA ToggleKeeps == ASSUME GaugeInv, Toggle PROVE GaugeInv'
<1> USE DEF gaugeHistory, bounds, hooks, jobVars
<1>1. /\ place' = place /\ status' = status /\ budget' = budget /\ run' = run /\ bulk' = bulk
      /\ snapshot' = snapshot /\ layers' = layers /\ up' = up /\ starts' = starts
      /\ pending' = pending /\ gauge' = gauge /\ flag' = ~flag /\ skewed' = skewed
      /\ lost' = lost /\ rolled' = rolled /\ orphans' = orphans /\ handled' = handled
      /\ mates' = mates
    BY DEF Toggle, Mishap
<1>2. GaugeTypes'
    BY <1>1 DEF GaugeInv, GaugeTypes
<1>3. BulkFits' /\ Recorded' /\ FinishedReadsFinished'
    BY <1>1 DEF GaugeInv, BulkFits, Recorded, FinishedReadsFinished, Sure
<1> QED BY <1>1, <1>2, <1>3, GaugesRest, GaugeInvIf

LEMMA DrainKeeps == ASSUME GaugeInv, Drain PROVE GaugeInv'
<1> USE DEF gaugeHistory, bounds, hooks
<1> DEFINE S == At("waiting") \cup At("delayed")
           bad == {p \in {"waiting", "delayed"} : At(p) # {}}
<1>1. /\ Moves(S, "none", "none") /\ bulk' = bulk
      /\ gauge' = gauge /\ skewed' = skewed \cup bad /\ snapshot' = snapshot
      /\ run' = run /\ layers' = layers /\ budget' = budget /\ pending' = pending
      /\ up' = up /\ flag' = flag /\ starts' = starts /\ lost' = lost /\ rolled' = rolled
      /\ orphans' = orphans /\ handled' = handled /\ mates' = mates
    BY DEF Drain, Silent, Call
<1>2. GaugeTypes /\ Agree
    BY AgreeIsGaugesAgree DEF GaugeInv
<1>3. \A j \in S : j \in Jobs /\ place[j] \in {"waiting", "delayed"}
    BY DEF At
<1>4. GaugeTypes'
  <2>1. place' \in [Jobs -> Places] /\ status' \in [Jobs -> Statuses]
    BY <1>1, <1>2, MovesTypes DEF Places, Statuses
  <2> QED BY <2>1, <1>1, <1>2 DEF GaugeTypes, Gauge
<1>5. skewed \subseteq skewed' /\ skewed' \subseteq Gauge
    BY <1>1, <1>4 DEF GaugeTypes
<1>6. BulkFits' /\ Held' /\ Recorded' /\ FinishedReadsFinished' /\ CompletedWasHandled'
  <2>1. \A j \in S : Sure(j) => \A w \in Workers : j \notin run[w].jobs
    BY <1>3, NotActiveNotHeld
  <2> HIDE DEF S, bad
  <2> QED BY <2>1, <1>1, <1>5, JobsMoved DEF Places, Statuses
<1>7. \A w \in Workers : RunFits(w)' /\ KeepsWord(w)'
    BY <1>1, <1>5, RunsKept
<1>8. Agree'
  <2>1. \A p \in {"waiting", "delayed", "dead"} :
            At(p)' = IF p = "dead" THEN At(p) ELSE {}
    BY <1>1 DEF Moves, At
  <2>2. Here("dead")' = Here("dead")
    BY <2>1 DEF Here
  <2>3. \A p \in {"waiting", "delayed"} : p \notin skewed' => At(p) = {}
    BY <1>1
  <2>4. "waiting" \notin skewed' => Here("waiting")' = Here("waiting")
    BY <2>1, <2>3 DEF Here
  <2>5. "delayed" \notin skewed' => Here("delayed")' = Here("delayed")
    BY <2>1, <2>3 DEF Here
  <2>6. Taking' = Taking /\ Backing' = Backing /\ Going' = Going /\ Running' = Running
    BY <1>1, RunsRest
  <2>7. \A e : \A T : Told(e, T)' = Told(e, T)
    BY <1>1, PendingRests
  <2> HIDE DEF S, bad
  <2> QED BY <2>2, <2>4, <2>5, <2>6, <2>7, <1>1, <1>2 DEF Agree
<1> QED BY <1>4, <1>6, <1>7, <1>8, GaugeInvIf

LEMMA ObliterateKeeps == ASSUME GaugeInv, Obliterate PROVE GaugeInv'
<1> USE DEF gaugeHistory, bounds, hooks
<1> DEFINE quiet == pending = {} /\ \A w \in Workers : run[w] = NoRun
<1>1. /\ Moves(Jobs, "none", "none") /\ gauge' = [f \in Gauge |-> 0] /\ flag' = FALSE
      /\ skewed' = (IF quiet THEN {} ELSE Gauge) /\ lost' = 0 /\ rolled' = rolled
      /\ orphans' = orphans \cup UNION {run[w].jobs : w \in Workers}
      /\ bulk' = bulk /\ snapshot' = snapshot /\ run' = run /\ layers' = layers
      /\ budget' = budget /\ pending' = pending /\ up' = up /\ starts' = starts
      /\ handled' = handled /\ mates' = mates
    BY DEF Obliterate, Call
<1>2. GaugeTypes /\ GaugeTypes'
  <2>1. GaugeTypes
    BY DEF GaugeInv
  <2>2. place' \in [Jobs -> Places] /\ status' \in [Jobs -> Statuses]
    BY <1>1, <2>1, MovesTypes DEF Places, Statuses
  <2>3. orphans' \subseteq Jobs
    BY <1>1, <2>1 DEF GaugeTypes, RunRec
  <2> QED BY <2>1, <2>2, <2>3, <1>1 DEF GaugeTypes
<1>3. \A j \in Jobs : place'[j] = "none" /\ status'[j] = "none"
    BY <1>1 DEF Moves
<1>4. quiet => \A w \in Workers : run[w].jobs = {} /\ run[w].at = "idle"
    BY DEF NoRun
<1>5. \A w \in Workers : \A j \in run[w].jobs : j \in orphans' /\ ~quiet
    BY <1>1, <1>4
<1>6. BulkFits'
    BY <1>1, <1>3, GaugesAssumption DEF GaugeInv, BulkFits
<1>7. Held' /\ Recorded' /\ FinishedReadsFinished' /\ CompletedWasHandled'
  <2>1. Held'
    BY <1>1, <1>5 DEF Held, Sure
  <2> QED BY <2>1, <1>3 DEF Recorded, FinishedReadsFinished, CompletedWasHandled, At
<1>8. \A w \in Workers : RunFits(w)'
    BY <1>1 DEF GaugeInv, RunFits, Single
<1>9. \A w \in Workers : KeepsWord(w)'
  <2>1. CASE quiet
    BY <2>1, <1>1, <1>4 DEF KeepsWord
  <2>2. CASE ~quiet
    BY <2>2, <1>1, <1>5 DEF KeepsWord, Gauge
  <2> QED BY <2>1, <2>2
<1>10. Agree'
  <2>1. CASE ~quiet
    BY <2>1, <1>1 DEF Agree, Gauge
  <2>2. CASE quiet
    <3>1. \A p : p # "none" => Here(p)' = 0
      <4>1. \A p : p # "none" => At(p)' = {}
        BY <1>3 DEF At
      <4> QED BY <4>1, FS_EmptySet DEF Here
    <3>2. Here("waiting")' = 0 /\ Here("delayed")' = 0 /\ Here("dead")' = 0
      BY <3>1
    <3>3. \A e : \A S : Told(e, S)' = 0
      <4>1. \A e : \A S : {j \in Jobs : <<e, j>> \in pending' /\ j \in S} = {}
        BY <2>2, <1>1
      <4> QED BY <4>1, FS_EmptySet DEF Told
    <3>4. Taking' = 0 /\ Backing' = 0 /\ Going' = 0
      <4>1. TakenJobs' = {} /\ BackRuns' = {} /\ GoneRuns' = {}
        BY <2>2, <1>1, <1>4 DEF TakenJobs, BackRuns, GoneRuns, InRun
      <4> QED BY <4>1, FS_EmptySet DEF Taking, Backing, Going
    <3>5. Running' = 0
      <4>1. InRun({"running"})' = {}
        BY <2>2, <1>1, <1>4 DEF InRun
      <4>2. {e \in {} \X (1..MaxStarts) : e[2] <= layers'[e[1]]} = {}
        OBVIOUS
      <4> QED BY <4>1, <4>2, FS_EmptySet DEF Running, Layers
    <3>6. \A f \in Gauge : gauge'[f] = 0
      BY <1>1
    <3> QED BY <3>2, <3>3, <3>4, <3>5, <3>6, <1>1 DEF Agree, Gauge
  <2> QED BY <2>1, <2>2
<1> QED BY <1>2, <1>6, <1>7, <1>8, <1>9, <1>10, GaugeInvIf

LEMMA GaugeInvInit == GaugesInit => GaugeInv
<1> SUFFICES ASSUME GaugesInit PROVE GaugeInv
    OBVIOUS
<1>1. /\ \A w \in Workers : run[w] = NoRun /\ run[w].jobs = {} /\ run[w].at = "idle"
      /\ \A j \in Jobs : place[j] = "none" /\ status[j] = "none"
    BY DEF GaugesInit, NoRun
<1>2. GaugeTypes
  <2>1. NoRun \in RunRec
    BY DEF NoRun, RunRec
  <2>2. run \in [Workers -> RunRec]
    BY <2>1 DEF GaugesInit
  <2>3. gauge \in [Gauge -> Nat] /\ layers \in [Workers -> 0..MaxStarts]
    BY GaugesAssumption DEF GaugesInit
  <2>4. \A j \in Jobs : budget[j] \in {0, MaxRetries[j]}
    BY DEF GaugesInit
  <2>5. starts \in 0..MaxStarts /\ \A w \in Workers : layers[w] <= starts
    BY GaugesAssumption DEF GaugesInit
  <2> QED BY <2>2, <2>3, <2>4, <2>5, GaugesAssumption DEF GaugesInit, GaugeTypes, Places, Statuses
<1>3. BulkFits
    BY <1>1, GaugesAssumption DEF GaugesInit, BulkFits, Nothing
<1>4. \A w \in Workers : RunFits(w) /\ KeepsWord(w)
    BY <1>1 DEF RunFits, KeepsWord, NoRun
<1>5. Held /\ Recorded /\ FinishedReadsFinished /\ CompletedWasHandled
    BY <1>1 DEF Held, Recorded, FinishedReadsFinished, CompletedWasHandled, At
<1>6. Agree
  <2>1. \A p : p # "none" => Here(p) = 0
    <3>1. \A p : p # "none" => At(p) = {}
      BY <1>1 DEF At
    <3> QED BY <3>1, FS_EmptySet DEF Here
  <2>2. Here("waiting") = 0 /\ Here("delayed") = 0 /\ Here("dead") = 0
    BY <2>1
  <2>3. \A e : \A S : Told(e, S) = 0
    <3>1. \A e : \A S : {j \in Jobs : <<e, j>> \in pending /\ j \in S} = {}
      BY DEF GaugesInit
    <3> QED BY <3>1, FS_EmptySet DEF Told
  <2>4. Taking = 0 /\ Backing = 0 /\ Going = 0
    <3>1. TakenJobs = {} /\ BackRuns = {} /\ GoneRuns = {}
      BY <1>1 DEF TakenJobs, BackRuns, GoneRuns, InRun
    <3> QED BY <3>1, FS_EmptySet DEF Taking, Backing, Going
  <2>5. Running = 0
    <3>1. InRun({"running"}) = {}
      BY <1>1 DEF InRun
    <3>2. {e \in {} \X (1..MaxStarts) : e[2] <= layers[e[1]]} = {}
      OBVIOUS
    <3> QED BY <3>1, <3>2, FS_EmptySet DEF Running, Layers
  <2> QED BY <2>2, <2>3, <2>4, <2>5 DEF Agree, GaugesInit, Gauge
<1> QED BY <1>2, <1>3, <1>4, <1>5, <1>6, AgreeIsGaugesAgree DEF GaugeInv

-----------------------------------------------------------------------------
(* The steps of a worker. *)
LEMMA OthersKept ==
    ASSUME GaugeInv, NEW w \in Workers, NEW r \in RunRec, run' = [run EXCEPT ![w] = r],
           layers' = layers, handled \subseteq handled', mates \subseteq mates',
           skewed \subseteq skewed', skewed' \subseteq Gauge,
           \A x \in Workers \ {w} : \A j \in run[x].jobs :
                (j \in orphans' <=> j \in orphans) /\ (Sure(j)' => budget'[j] = budget[j])
    PROVE  \A x \in Workers \ {w} : RunFits(x)' /\ KeepsWord(x)'
<1> SUFFICES ASSUME NEW x \in Workers \ {w} PROVE RunFits(x)' /\ KeepsWord(x)'
    OBVIOUS
<1>0. run'[x] = run[x]
    BY DEF GaugeInv, GaugeTypes
<1>1. RunFits(x) /\ KeepsWord(x)
    BY DEF GaugeInv
<1>2. RunFits(x)'
    BY <1>0, <1>1 DEF RunFits, Single
<1>3. Single(x)' <=> Single(x)
    BY <1>0 DEF Single
<1>4. ASSUME run[x].at \in {"failed", "dead"}, NEW j \in Jobs, run[x].jobs = {j}, Sure(j)'
      PROVE  Back(x)' <=> Back(x)
    BY <1>0, <1>4 DEF Back, Spent
<1>5. KeepsWord(x)'
  <2> SUFFICES ASSUME run[x].at \in {"failed", "dead"}
               PROVE  /\ \/ {"delayed", "failed"} \subseteq skewed'
                         \/ Single(x)' /\ run[x].job = run[x].jobs /\ (run[x].again <=> Back(x)')
                      /\ x \notin Batching /\ layers[x] > 0 =>
                          \A j \in run[x].jobs \ orphans' : run[x].again <=> Back(x)'
    BY <1>0 DEF KeepsWord
  <2>1. ASSUME ~({"delayed", "failed"} \subseteq skewed')
        PROVE  Single(x)' /\ run[x].job = run[x].jobs /\ (run[x].again <=> Back(x)')
    <3>1. Single(x) /\ run[x].job = run[x].jobs /\ (run[x].again <=> Back(x))
      BY <2>1, <1>1 DEF KeepsWord
    <3>2. \A j \in Jobs : Sure(j)'
      BY <2>1 DEF Sure, Gauge
    <3> QED BY <3>1, <3>2, <1>3, <1>4 DEF Single
  <2>2. ASSUME x \notin Batching, layers[x] > 0, NEW j \in run[x].jobs \ orphans'
        PROVE  run[x].again <=> Back(x)'
    <3>1. Single(x) /\ (run[x].again <=> Back(x))
      BY <2>2, <1>1 DEF KeepsWord, RunFits
    <3>2. Sure(j)'
      BY <2>2 DEF Sure
    <3>3. j \in Jobs /\ run[x].jobs = {j}
      BY <3>1, <2>2 DEF Single
    <3> QED BY <3>1, <3>2, <3>3, <1>4
  <2> QED BY <2>1, <2>2
<1> QED BY <1>2, <1>5

LEMMA HeldFewer ==
    ASSUME GaugeInv, NEW w \in Workers, NEW r \in RunRec, run' = [run EXCEPT ![w] = r],
           r.jobs \subseteq run[w].jobs,
           \A x \in Workers : \A j \in run'[x].jobs :
                Sure(j)' => Sure(j) /\ place'[j] = place[j]
    PROVE  Held'
<1>1. \A x \in Workers : run'[x] = IF x = w THEN r ELSE run[x]
    BY DEF GaugeInv, GaugeTypes
<1>2. \A x \in Workers : run'[x].jobs \subseteq run[x].jobs
    BY <1>1
<1> QED BY <1>2 DEF GaugeInv, Held

LEMMA TakingRests ==
    ASSUME GaugeTypes, NEW w \in Workers, NEW r \in RunRec, run' = [run EXCEPT ![w] = r],
           run[w].at # "taken", r.at # "taken"
    PROVE  Taking' = Taking
<1>1. \A x \in Workers : run'[x] = IF x = w THEN r ELSE run[x]
    BY DEF GaugeTypes
<1>2. TakenJobs' = TakenJobs
    BY <1>1 DEF TakenJobs, InRun
<1> QED BY <1>2 DEF Taking

LEMMA StartWorkerKeeps == ASSUME GaugeInv, NEW w \in Workers, StartWorker(w) PROVE GaugeInv'
<1> USE DEF gaugeHistory, bounds, hooks, jobVars
<1>1. /\ place' = place /\ status' = status /\ budget' = budget /\ run' = run /\ bulk' = bulk
      /\ snapshot' = snapshot /\ up' = up \cup {w} /\ starts' = starts + 1
      /\ starts < MaxStarts
      /\ pending' = pending /\ gauge' = gauge /\ flag' = flag /\ skewed' = skewed
      /\ lost' = lost /\ rolled' = rolled /\ orphans' = orphans /\ handled' = handled
      /\ mates' = mates /\ run[w] = NoRun
    BY DEF StartWorker
<1>2. layers' = layers \/ layers' = [layers EXCEPT ![w] = @ + 1]
    BY DEF StartWorker
<1>3. GaugeTypes /\ Agree
    BY AgreeIsGaugesAgree DEF GaugeInv
<1>4. GaugeTypes'
  <2>1. starts' \in 0..MaxStarts /\ starts \in Nat
    BY <1>1, <1>3, GaugesAssumption DEF GaugeTypes
  <2>2. \A x \in Workers : layers[x] \in Nat /\ layers[x] <= starts
    BY <1>3, GaugesAssumption DEF GaugeTypes
  <2>3. \A x \in Workers : layers'[x] \in Nat /\ layers'[x] <= starts'
    BY <1>1, <1>2, <1>3, <2>1, <2>2 DEF GaugeTypes
  <2>4. layers' \in [Workers -> 0..MaxStarts]
    <3>1. \A x \in Workers : layers'[x] \in 0..MaxStarts
      BY <2>1, <2>3, GaugesAssumption
    <3>2. DOMAIN layers' = Workers /\ layers' = [x \in Workers |-> layers'[x]]
      BY <1>2, <1>3 DEF GaugeTypes
    <3> QED BY <3>1, <3>2
  <2> QED BY <2>1, <2>3, <2>4, <1>1, <1>3 DEF GaugeTypes
<1>5. \A x \in Workers : run[x].at # "idle" => layers'[x] = layers[x]
    BY <1>1, <1>2, <1>3 DEF GaugeTypes, NoRun
<1>6. BulkFits' /\ Held' /\ Recorded' /\ FinishedReadsFinished' /\ CompletedWasHandled'
    BY <1>1 DEF GaugeInv, BulkFits, Held, Recorded, FinishedReadsFinished,
                CompletedWasHandled, Sure, At
<1>7. \A x \in Workers : RunFits(x)' /\ KeepsWord(x)'
  <2> SUFFICES ASSUME NEW x \in Workers PROVE RunFits(x)' /\ KeepsWord(x)'
    OBVIOUS
  <2>1. RunFits(x) /\ KeepsWord(x)
    BY DEF GaugeInv
  <2>2. RunFits(x)'
    BY <2>1, <1>1, <1>5 DEF RunFits, Single
  <2>3. KeepsWord(x)'
    BY <2>1, <1>1, <1>5 DEF KeepsWord, Single, Back, Spent
  <2> QED BY <2>2, <2>3
<1>8. Agree'
  <2>1. \A p : Here(p)' = Here(p)
    BY <1>1, PlaceRests
  <2>2. \A e : \A S : Told(e, S)' = Told(e, S)
    BY <1>1, PendingRests
  <2>3. Taking' = Taking /\ Backing' = Backing /\ Going' = Going
    BY <1>1 DEF Taking, TakenJobs, Backing, BackRuns, Going, GoneRuns, InRun
  <2>4. Running' = Running
    <3> DEFINE W == InRun({"running"})
    <3>1. W' = W /\ \A x \in W : layers'[x] = layers[x]
      BY <1>1, <1>5 DEF InRun
    <3>2. {e \in W \X (1..MaxStarts) : e[2] <= layers'[e[1]]}
            = {e \in W \X (1..MaxStarts) : e[2] <= layers[e[1]]}
      BY <3>1
    <3> QED BY <3>1, <3>2 DEF Running, Layers
  <2> QED BY <2>1, <2>2, <2>3, <2>4, <1>1, <1>3 DEF Agree
<1> QED BY <1>4, <1>6, <1>7, <1>8, GaugeInvIf

LEMMA TakeKeeps ==
    ASSUME GaugeInv, NEW w \in Workers, NEW S \in SUBSET At("waiting"), Take(w, S)
    PROVE  GaugeInv'
<1> USE DEF gaugeHistory, bounds, hooks
<1> DEFINE r == [at |-> "taken", jobs |-> S, job |-> {}, again |-> FALSE]
<1>1. /\ w \in up /\ run[w] = NoRun /\ S # {} /\ (w \in Batching \/ Cardinality(S) = 1)
      /\ place' = [j \in Jobs |-> IF j \in S THEN "active" ELSE place[j]]
      /\ mates' = (IF Cardinality(S) > 1 /\ layers[w] > 0 THEN mates \cup S ELSE mates)
      /\ status' = status /\ budget' = budget /\ bulk' = bulk /\ layers' = layers
      /\ snapshot' = snapshot /\ up' = up /\ starts' = starts
      /\ pending' = pending /\ gauge' = gauge /\ flag' = flag /\ skewed' = skewed
      /\ lost' = lost /\ rolled' = rolled /\ orphans' = orphans /\ handled' = handled
    BY DEF Take
<1>2. run' = [run EXCEPT ![w] = r]
    BY DEF Take, Runs
<1>3. GaugeTypes /\ Agree /\ Numbers
    BY AgreeIsGaugesAgree, CountedAreNumbers DEF GaugeInv
<1>4. S \subseteq Jobs /\ (\A j \in S : place[j] = "waiting") /\ r \in RunRec
    BY DEF At, RunRec
<1>5. \A x \in Workers : run'[x] = IF x = w THEN r ELSE run[x]
    BY <1>2, <1>3 DEF GaugeTypes
<1>6. Cardinality(S) \in Nat /\ Cardinality(S) # 0 /\ IsFiniteSet(S)
  <2>1. IsFiniteSet(S)
    BY <1>4, GaugesAssumption, FS_Subset
  <2> QED BY <2>1, <1>1, FS_EmptySet, FS_CardinalityType
<1>7. Cardinality(S) = 1 => \E j \in Jobs : S = {j}
    BY <1>4, <1>6, FS_Singleton
<1>8. \A j \in S : Sure(j) => \A x \in Workers : j \notin run[x].jobs
    BY <1>4, NotActiveNotHeld
<1>9. \A j : Sure(j)' <=> Sure(j)
    BY <1>1 DEF Sure
<1>10. GaugeTypes'
  <2>1. place' \in [Jobs -> Places]
    BY <1>1, <1>3 DEF GaugeTypes, Places
  <2>2. run' \in [Workers -> RunRec]
    BY <1>2, <1>3, <1>4 DEF GaugeTypes
  <2>3. mates' \subseteq Jobs
    BY <1>1, <1>3, <1>4 DEF GaugeTypes
  <2> QED BY <2>1, <2>2, <2>3, <1>1, <1>3 DEF GaugeTypes
<1>11. BulkFits'
  <2>1. \A j \in S : bulk = "todo" => j \notin Bulk
    BY <1>4 DEF GaugeInv, BulkFits
  <2>2. bulk = "todo" => \A j \in Bulk : place'[j] = "none" /\ \A x \in Workers : j \notin run'[x].jobs
    BY <2>1, <1>1, <1>5, GaugesAssumption DEF GaugeInv, BulkFits
  <2> QED BY <2>2, <1>1 DEF GaugeInv, BulkFits
<1>12. Held'
  <2> SUFFICES ASSUME NEW x \in Workers, NEW j \in run'[x].jobs, Sure(j)
               PROVE  place'[j] = "active" /\ \A y \in Workers \ {x} : j \notin run'[y].jobs
    BY <1>9 DEF Held
  <2>1. j \in Jobs
    BY <1>10 DEF GaugeTypes, RunRec
  <2>2. CASE x = w
    BY <2>2, <1>1, <1>4, <1>5, <1>8
  <2>3. CASE x # w
    <3>1. j \in run[x].jobs /\ place[j] = "active" /\ \A y \in Workers \ {x} : j \notin run[y].jobs
      BY <2>3, <1>5 DEF GaugeInv, Held
    <3>2. j \notin S
      BY <3>1, <1>4
    <3> QED BY <3>1, <3>2, <2>1, <1>1, <1>5
  <2> QED BY <2>2, <2>3
<1>13. Recorded' /\ FinishedReadsFinished' /\ CompletedWasHandled'
  <2>1. Recorded'
    BY <1>1, <1>4, <1>9 DEF GaugeInv, Recorded
  <2>2. FinishedReadsFinished'
    BY <1>1, <1>4 DEF GaugeInv, FinishedReadsFinished
  <2>3. CompletedWasHandled'
    BY <1>1 DEF GaugeInv, CompletedWasHandled, At
  <2> QED BY <2>1, <2>2, <2>3
<1>14. \A x \in Workers : RunFits(x)' /\ KeepsWord(x)'
  <2>1. \A x \in Workers \ {w} : RunFits(x)' /\ KeepsWord(x)'
    <3>1. mates \subseteq mates' /\ skewed' \subseteq Gauge
      BY <1>1, <1>10 DEF GaugeTypes
    <3> HIDE DEF r
    <3> QED BY <3>1, <1>1, <1>2, <1>4, OthersKept
  <2>2. run'[w] = r
    BY <1>5
  <2>3. Single(w)' <=> \E j \in Jobs : S = {j}
    BY <2>2 DEF Single
  <2>4. RunFits(w)'
    <3>1. w \notin Batching => Single(w)'
      BY <2>3, <1>1, <1>7
    <3>2. layers'[w] > 0 => Single(w)' \/ S \subseteq mates'
      <4>1. CASE Cardinality(S) = 1
        BY <4>1, <2>3, <1>7
      <4>2. CASE Cardinality(S) # 1
        BY <4>2, <1>1, <1>6
      <4> QED BY <4>1, <4>2
    <3> QED BY <3>1, <3>2, <2>2 DEF RunFits, NoRun
  <2>5. KeepsWord(w)'
    BY <2>2 DEF KeepsWord
  <2> QED BY <2>1, <2>4, <2>5
<1>15. Agree'
  <2>1. /\ Here("waiting")' = Here("waiting") - Cardinality(S)
        /\ \A p : p \notin {"waiting", "active"} => Here(p)' = Here(p)
    BY <1>1, <1>3, Relocated
  <2>2. Here("delayed")' = Here("delayed") /\ Here("dead")' = Here("dead")
    BY <2>1
  <2>3. Backing' = Backing /\ Going' = Going
    <3>1. run[w].at = "idle" /\ r.at = "taken"
      BY <1>1 DEF NoRun
    <3>2. BackRuns' = BackRuns /\ GoneRuns' = GoneRuns
      BY <3>1, <1>5 DEF BackRuns, GoneRuns, InRun
    <3> QED BY <3>2 DEF Backing, Going
  <2>4. Running' = Running
    <3>1. InRun({"running"})' = InRun({"running"})
      BY <1>1, <1>5 DEF InRun, NoRun
    <3> QED BY <3>1, <1>1 DEF Running, Layers
  <2>5. \A e : \A T : Told(e, T)' = Told(e, T)
    BY <1>1, PendingRests
  <2>6. skewed # Gauge => Taking' = Taking + Cardinality(S)
    <3> SUFFICES ASSUME skewed # Gauge PROVE Taking' = Taking + Cardinality(S)
      OBVIOUS
    <3>1. TakenJobs' = TakenJobs \cup S
      BY <1>1, <1>5 DEF TakenJobs, InRun, NoRun
    <3>2. TakenJobs \cap S = {}
      BY <1>8 DEF TakenJobs, InRun, Sure
    <3>3. TakenJobs \subseteq Jobs
      BY <1>3 DEF TakenJobs, InRun, GaugeTypes, RunRec
    <3>4. IsFiniteSet(TakenJobs)
      BY <3>3, GaugesAssumption, FS_Subset
    <3>5. Cardinality(TakenJobs \cup S) = Cardinality(TakenJobs) + Cardinality(S)
                                          - Cardinality(TakenJobs \cap S)
      BY <3>4, <1>6, FS_Union
    <3>6. Cardinality(TakenJobs \cap S) = 0 /\ Cardinality(TakenJobs) \in Nat
      BY <3>2, <3>4, FS_EmptySet, FS_CardinalityType
    <3> QED BY <3>1, <3>5, <3>6, <1>6 DEF Taking
  <2>7. "waiting" \notin skewed => skewed # Gauge
    BY DEF Gauge
  <2> QED BY <2>1, <2>2, <2>3, <2>4, <2>5, <2>6, <2>7, <1>1, <1>3, <1>6 DEF Agree, Numbers
<1> QED BY <1>10, <1>11, <1>12, <1>13, <1>14, <1>15, GaugeInvIf

LEMMA BeginKeeps ==
    ASSUME GaugeInv, NEW w \in Workers, NEW j \in run[w].jobs, Begin(w, j)
    PROVE  GaugeInv'
<1> USE DEF gaugeHistory, bounds, hooks
<1> DEFINE n == layers[w]
           bad == IF n = 1 /\ run[w].jobs = {j} THEN {} ELSE {"waiting"}
           r == [run[w] EXCEPT !.at = "running", !.job = Given(w, j)]
           from == {"waiting"}
           to == {"active"}
<1>1. /\ run[w].at = "taken" /\ run' = [run EXCEPT ![w] = r]
      /\ status' = [status EXCEPT ![j] = IF n > 0 THEN "active" ELSE @]
      /\ Shift(from, to, n, bad)
      /\ handled' = handled \cup Given(w, j)
      /\ place' = place /\ mates' = mates /\ budget' = budget /\ bulk' = bulk
      /\ layers' = layers /\ snapshot' = snapshot /\ up' = up /\ starts' = starts
      /\ pending' = pending /\ flag' = flag /\ lost' = lost /\ rolled' = rolled
      /\ orphans' = orphans
    BY DEF Begin, Runs
<1>2. GaugeTypes /\ Agree /\ Numbers /\ RunFits(w)
    BY AgreeIsGaugesAgree, CountedAreNumbers DEF GaugeInv
<1>3. /\ j \in Jobs /\ n \in Nat /\ run[w] \in RunRec /\ run[w].jobs \subseteq Jobs
      /\ gauge \in [Gauge -> Nat]
    BY <1>2, GaugesAssumption DEF GaugeTypes, RunRec
<1>4. Given(w, j) = (IF n > 0 THEN {j} ELSE run[w].jobs) /\ Given(w, j) \subseteq run[w].jobs
    BY DEF Given
<1>5. /\ r \in RunRec /\ r.at = "running" /\ r.jobs = run[w].jobs /\ r.job = Given(w, j)
    BY <1>3, <1>4 DEF RunRec
<1>6. \A x \in Workers : run'[x] = IF x = w THEN r ELSE run[x]
    BY <1>1, <1>2 DEF GaugeTypes
<1>7. /\ gauge' \in [Gauge -> Nat] /\ skewed' \subseteq Gauge
      /\ skewed \subseteq skewed' /\ bad \subseteq skewed'
      /\ \A f \in Gauge \ skewed' :
           gauge'[f] = gauge[f] - (IF f \in from THEN n ELSE 0) + (IF f \in to THEN n ELSE 0)
  <2>1. bad \in SUBSET Gauge /\ from \in SUBSET Gauge /\ to \in SUBSET Gauge
    BY DEF Gauge
  <2> HIDE DEF n, bad, from, to
  <2> QED BY <2>1, <1>1, <1>2, <1>3, Shifted
<1>8. \A i : Sure(i)' => Sure(i)
    BY <1>1, <1>7, StillSure
<1> HIDE DEF r
<1>9. GaugeTypes'
  <2>1. status' \in [Jobs -> Statuses]
    BY <1>1, <1>2 DEF GaugeTypes, Statuses
  <2>2. run' \in [Workers -> RunRec]
    BY <1>1, <1>2, <1>5 DEF GaugeTypes
  <2>3. handled' \subseteq Jobs
    BY <1>1, <1>2, <1>3, <1>4 DEF GaugeTypes
  <2> QED BY <2>1, <2>2, <2>3, <1>1, <1>2, <1>7 DEF GaugeTypes
<1>10. \A x \in Workers : run'[x].jobs = run[x].jobs
    BY <1>5, <1>6
<1>11. BulkFits'
    BY <1>1, <1>10 DEF GaugeInv, BulkFits
<1>12. Held'
  <2>1. r.jobs \subseteq run[w].jobs
    BY <1>5
  <2> QED BY <2>1, <1>1, <1>5, <1>8, HeldFewer
<1>13. \A i \in Jobs : status'[i] = status[i] \/ (i = j /\ status'[i] = "active")
    BY <1>1, <1>2 DEF GaugeTypes
<1>14. Recorded' /\ FinishedReadsFinished' /\ CompletedWasHandled'
  <2>1. Recorded'
    BY <1>1, <1>8, <1>13 DEF GaugeInv, Recorded
  <2>2. j \notin orphans => place[j] = "active"
    BY DEF GaugeInv, Held, Sure
  <2>3. FinishedReadsFinished'
    BY <2>2, <1>1, <1>13 DEF GaugeInv, FinishedReadsFinished
  <2>4. CompletedWasHandled'
    BY <1>1 DEF GaugeInv, CompletedWasHandled, At
  <2> QED BY <2>1, <2>3, <2>4
<1>15. \A x \in Workers : RunFits(x)' /\ KeepsWord(x)'
  <2>1. \A x \in Workers \ {w} : RunFits(x)' /\ KeepsWord(x)'
    BY <1>1, <1>5, <1>7, OthersKept
  <2>2. run'[w] = r
    BY <1>6
  <2>3. Single(w)' <=> Single(w)
    BY <1>10 DEF Single
  <2>4. RunFits(w)'
    <3>1. w \notin Batching => Single(w)' /\ r.job = r.jobs
      BY <2>3, <1>1, <1>2, <1>4, <1>5 DEF RunFits, Single
    <3>2. r.jobs \subseteq handled' \cup mates'
      <4>1. CASE n > 0
        <5>1. Single(w) \/ run[w].jobs \subseteq mates
          BY <4>1, <1>1, <1>2 DEF RunFits
        <5>2. Single(w) => run[w].jobs = {j}
          BY DEF Single
        <5> QED BY <5>1, <5>2, <4>1, <1>1, <1>4, <1>5
      <4>2. CASE ~(n > 0)
        BY <4>2, <1>1, <1>4, <1>5
      <4> QED BY <4>1, <4>2
    <3>3. n > 0 => r.job = {j}
      BY <1>4, <1>5
    <3>4. r.job \subseteq r.jobs /\ r.at = "running" /\ r # NoRun
      BY <1>4, <1>5 DEF NoRun
    <3> QED BY <3>1, <3>2, <3>3, <3>4, <2>2, <1>1, <1>3 DEF RunFits
  <2>5. KeepsWord(w)'
    BY <2>2, <1>5 DEF KeepsWord
  <2> QED BY <2>1, <2>4, <2>5
<1>16. Agree'
  <2>1. \A p : Here(p)' = Here(p)
    BY <1>1, PlaceRests
  <2>2. \A e : \A T : Told(e, T)' = Told(e, T)
    BY <1>1, PendingRests
  <2>3. Backing' = Backing - 0 + 0 /\ Going' = Going - 0 + 0
    BY <1>1, <1>2, <1>5, BackingGoes
  <2>4. Running' = Running - 0 + n
    BY <1>1, <1>2, <1>5, RunningGoes
  <2>5. "waiting" \notin skewed' => Taking' = Taking - 1 /\ n = 1
    <3> SUFFICES ASSUME "waiting" \notin skewed' PROVE Taking' = Taking - 1 /\ n = 1
      OBVIOUS
    <3>1. n = 1 /\ run[w].jobs = {j}
      BY <1>7
    <3>2. skewed # Gauge
      BY <1>7 DEF Gauge
    <3>3. \A x \in Workers \ {w} : j \notin run[x].jobs
      BY <3>2 DEF GaugeInv, Held, Sure
    <3>4. TakenJobs' = TakenJobs \ {j} /\ j \in TakenJobs
      BY <3>1, <3>3, <1>1, <1>5, <1>6 DEF TakenJobs, InRun
    <3>5. TakenJobs \subseteq Jobs
      BY <1>2 DEF TakenJobs, InRun, GaugeTypes, RunRec
    <3>6. IsFiniteSet(TakenJobs)
      BY <3>5, GaugesAssumption, FS_Subset
    <3>7. Cardinality(TakenJobs \ {j}) = Cardinality(TakenJobs) - 1
      BY <3>4, <3>6, FS_RemoveElement
    <3> QED BY <3>1, <3>4, <3>7 DEF Taking
  <2>6. \A f \in Gauge : gauge[f] \in Nat
    BY <1>3
  <2>7. "active" \notin skewed' => gauge'["active"] = gauge["active"] + n
    BY <2>6, <1>3, <1>7 DEF Gauge
  <2>8. "waiting" \notin skewed' => gauge'["waiting"] = gauge["waiting"] - n
    BY <2>6, <1>3, <1>7 DEF Gauge
  <2>9. /\ "delayed" \notin skewed' => gauge'["delayed"] = gauge["delayed"]
        /\ "failed" \notin skewed' => gauge'["failed"] = gauge["failed"]
    BY <2>6, <1>7 DEF Gauge
  <2> HIDE DEF n, bad
  <2>10. lost \in Nat
    BY <1>2 DEF GaugeTypes
  <2>11. "active" \notin skewed' => gauge'["active"] = Running' + lost'
    BY <2>4, <2>7, <2>10, <1>1, <1>2, <1>3, <1>7 DEF Agree, Numbers
  <2>12. "waiting" \notin skewed' =>
            gauge'["waiting"] = Here("waiting")' + Taking' - Told("add", Fresh)'
                                - Told("retry", Jobs)' - Told("promote", Jobs)'
    BY <2>1, <2>2, <2>5, <2>8, <1>2, <1>3, <1>7 DEF Agree, Numbers
  <2>13. /\ "delayed" \notin skewed' =>
            gauge'["delayed"] = Here("delayed")' + Backing' - Told("add", Delayed)'
                                + Told("promote", Jobs)'
         /\ "failed" \notin skewed' =>
            gauge'["failed"] = Here("dead")' + Told("retry", Jobs)' + Going'
    BY <2>1, <2>2, <2>3, <2>9, <1>2, <1>7 DEF Agree, Numbers
  <2> QED BY <2>11, <2>12, <2>13 DEF Agree
<1> QED BY <1>9, <1>11, <1>12, <1>14, <1>15, <1>16, GaugeInvIf

LEMMA OkKeeps == ASSUME GaugeInv, NEW w \in Workers, Ok(w) PROVE GaugeInv'
<1> USE DEF gaugeHistory, bounds, hooks
<1> DEFINE n == layers[w]
           r == [run[w] EXCEPT !.at = "done"]
           from == {"active"}
           to == {}
           bad == {}
<1>1. /\ run[w].at = "running" /\ run' = [run EXCEPT ![w] = r]
      /\ status' = [j \in Jobs |-> IF j \in run[w].job /\ n > 0 THEN "completed" ELSE status[j]]
      /\ Shift(from, to, n, bad)
      /\ place' = place /\ mates' = mates /\ handled' = handled /\ budget' = budget
      /\ bulk' = bulk /\ layers' = layers /\ snapshot' = snapshot /\ up' = up
      /\ starts' = starts /\ pending' = pending /\ flag' = flag /\ lost' = lost
      /\ rolled' = rolled /\ orphans' = orphans
    BY DEF Ok, Runs, Writes
<1>2. GaugeTypes /\ Agree /\ Numbers /\ RunFits(w)
    BY AgreeIsGaugesAgree, CountedAreNumbers DEF GaugeInv
<1>3. n \in Nat /\ run[w] \in RunRec /\ gauge \in [Gauge -> Nat] /\ lost \in Nat
    BY <1>2, GaugesAssumption DEF GaugeTypes
<1>4. /\ r \in RunRec /\ r.at = "done" /\ r.jobs = run[w].jobs /\ r.job = run[w].job
    BY <1>3 DEF RunRec
<1>5. \A x \in Workers : run'[x] = IF x = w THEN r ELSE run[x]
    BY <1>1, <1>2 DEF GaugeTypes
<1>6. /\ gauge' \in [Gauge -> Nat] /\ skewed' \subseteq Gauge /\ skewed \subseteq skewed'
      /\ \A f \in Gauge \ skewed' :
           gauge'[f] = gauge[f] - (IF f \in from THEN n ELSE 0) + (IF f \in to THEN n ELSE 0)
  <2>1. bad \in SUBSET Gauge /\ from \in SUBSET Gauge /\ to \in SUBSET Gauge
    BY DEF Gauge
  <2>2. GaugeTypes /\ n \in Nat /\ Shift(from, to, n, bad)
    BY <1>1, <1>2, <1>3
  <2> HIDE DEF n, r, bad, from, to
  <2> QED BY <2>1, <2>2, Shifted
<1>7. \A i : Sure(i)' => Sure(i)
    BY <1>1, <1>6, StillSure
<1> HIDE DEF r
<1>8. GaugeTypes'
  <2>1. status' \in [Jobs -> Statuses]
    BY <1>1, <1>2 DEF GaugeTypes, Statuses
  <2>2. run' \in [Workers -> RunRec]
    BY <1>1, <1>2, <1>4 DEF GaugeTypes
  <2> QED BY <2>1, <2>2, <1>1, <1>2, <1>6 DEF GaugeTypes
<1>9. \A x \in Workers : run'[x].jobs = run[x].jobs
    BY <1>4, <1>5
<1>10. BulkFits'
    BY <1>1, <1>9 DEF GaugeInv, BulkFits
<1>11. Held'
  <2>1. r.jobs \subseteq run[w].jobs
    BY <1>4
  <2> QED BY <2>1, <1>1, <1>4, <1>7, HeldFewer
<1>12. \A i \in Jobs : status'[i] = status[i] \/ (i \in run[w].jobs /\ status'[i] = "completed")
    BY <1>1, <1>2 DEF RunFits
<1>13. Recorded' /\ FinishedReadsFinished' /\ CompletedWasHandled'
  <2>1. Recorded'
    BY <1>1, <1>7, <1>12 DEF GaugeInv, Recorded
  <2>2. \A i \in run[w].jobs : i \notin orphans => place[i] = "active"
    BY DEF GaugeInv, Held, Sure
  <2>3. FinishedReadsFinished'
    BY <2>2, <1>1, <1>12 DEF GaugeInv, FinishedReadsFinished
  <2>4. CompletedWasHandled'
    BY <1>1 DEF GaugeInv, CompletedWasHandled, At
  <2> QED BY <2>1, <2>3, <2>4
<1>14. \A x \in Workers : RunFits(x)' /\ KeepsWord(x)'
  <2>1. \A x \in Workers \ {w} : RunFits(x)' /\ KeepsWord(x)'
    BY <1>1, <1>4, <1>6, OthersKept
  <2>2. run'[w] = r
    BY <1>5
  <2>3. Single(w)' <=> Single(w)
    BY <1>9 DEF Single
  <2>4. RunFits(w)'
    BY <2>2, <2>3, <1>1, <1>2, <1>4 DEF RunFits, NoRun
  <2>5. KeepsWord(w)'
    BY <2>2, <1>4 DEF KeepsWord
  <2> QED BY <2>1, <2>4, <2>5
<1>15. Agree'
  <2>1. \A p : Here(p)' = Here(p)
    BY <1>1, PlaceRests
  <2>2. \A e : \A T : Told(e, T)' = Told(e, T)
    BY <1>1, PendingRests
  <2>3. Backing' = Backing - 0 + 0 /\ Going' = Going - 0 + 0
    BY <1>1, <1>2, <1>4, BackingGoes
  <2>4. Running' = Running - n + 0
    BY <1>1, <1>2, <1>4, RunningGoes
  <2>5. Taking' = Taking
    BY <1>1, <1>2, <1>4, TakingRests
  <2>6. \A f \in Gauge : gauge[f] \in Nat
    BY <1>3
  <2>7. "active" \notin skewed' => gauge'["active"] = gauge["active"] - n
    BY <2>6, <1>3, <1>6 DEF Gauge
  <2>8. /\ "waiting" \notin skewed' => gauge'["waiting"] = gauge["waiting"]
        /\ "delayed" \notin skewed' => gauge'["delayed"] = gauge["delayed"]
        /\ "failed" \notin skewed' => gauge'["failed"] = gauge["failed"]
    BY <2>6, <1>6 DEF Gauge
  <2> HIDE DEF n
  <2>9. "active" \notin skewed' => gauge'["active"] = Running' + lost'
    BY <2>4, <2>7, <1>1, <1>2, <1>3, <1>6 DEF Agree, Numbers
  <2> QED BY <2>1, <2>2, <2>3, <2>5, <2>8, <2>9, <1>2, <1>6 DEF Agree, Numbers
<1> QED BY <1>8, <1>10, <1>11, <1>13, <1>14, <1>15, GaugeInvIf

LEMMA FailsKeeps ==
    ASSUME GaugeInv, NEW w \in Workers, NEW recoverable \in BOOLEAN, Fails(w, recoverable)
    PROVE  GaugeInv'
<1> USE DEF gaugeHistory, bounds, hooks
<1> DEFINE n == layers[w]
           again == recoverable /\ ~flag /\ \A j \in run[w].job : ~Spent(j)
           r == [run[w] EXCEPT !.at = IF recoverable THEN "failed" ELSE "dead",
                               !.again = again]
           from == {"active"}
           to == {IF again THEN "delayed" ELSE "failed"}
           bad == IF n = 1 /\ run[w].jobs = run[w].job /\ (again => w \notin Batching)
                  THEN {} ELSE {"delayed", "failed"}
<1>1. /\ run[w].at = "running" /\ run' = [run EXCEPT ![w] = r]
      /\ status' = [j \in Jobs |-> IF j \in run[w].job /\ n > 0 THEN "failed" ELSE status[j]]
      /\ budget' = [j \in Jobs |-> IF j \in run[w].job /\ flag /\ n > 0 THEN 0 ELSE budget[j]]
      /\ Shift(from, to, n, bad)
      /\ place' = place /\ mates' = mates /\ handled' = handled
      /\ bulk' = bulk /\ layers' = layers /\ snapshot' = snapshot /\ up' = up
      /\ starts' = starts /\ pending' = pending /\ flag' = flag /\ lost' = lost
      /\ rolled' = rolled /\ orphans' = orphans
    BY DEF Fails, Runs, Writes, Mishap, Muted
<1>2. GaugeTypes /\ Agree /\ Numbers /\ RunFits(w)
    BY AgreeIsGaugesAgree, CountedAreNumbers DEF GaugeInv
<1>3. n \in Nat /\ run[w] \in RunRec /\ gauge \in [Gauge -> Nat] /\ lost \in Nat /\ again \in BOOLEAN
    BY <1>2, GaugesAssumption DEF GaugeTypes
<1>4. /\ r \in RunRec /\ r.at = (IF recoverable THEN "failed" ELSE "dead")
      /\ r.jobs = run[w].jobs /\ r.job = run[w].job /\ r.again = again
    BY <1>3 DEF RunRec
<1>5. \A x \in Workers : run'[x] = IF x = w THEN r ELSE run[x]
    BY <1>1, <1>2 DEF GaugeTypes
<1>6. /\ gauge' \in [Gauge -> Nat] /\ skewed' \subseteq Gauge
      /\ skewed \subseteq skewed' /\ bad \subseteq skewed'
      /\ \A f \in Gauge \ skewed' :
           gauge'[f] = gauge[f] - (IF f \in from THEN n ELSE 0) + (IF f \in to THEN n ELSE 0)
  <2>1. bad \in SUBSET Gauge /\ from \in SUBSET Gauge /\ to \in SUBSET Gauge
    BY DEF Gauge
  <2>2. GaugeTypes /\ n \in Nat /\ Shift(from, to, n, bad)
    BY <1>1, <1>2, <1>3
  <2> HIDE DEF n, again, r, bad, from, to
  <2> QED BY <2>1, <2>2, Shifted
<1>7. \A i : Sure(i)' => Sure(i)
    BY <1>1, <1>6, StillSure
<1> HIDE DEF r
<1>8. GaugeTypes'
  <2>1. status' \in [Jobs -> Statuses]
    BY <1>1, <1>2 DEF GaugeTypes, Statuses
  <2>2. run' \in [Workers -> RunRec]
    BY <1>1, <1>2, <1>4 DEF GaugeTypes
  <2>3. budget' \in [Jobs -> Nat] /\ \A j \in Jobs : budget'[j] \in {0, MaxRetries[j]}
    BY <1>1, <1>2 DEF GaugeTypes
  <2> QED BY <2>1, <2>2, <2>3, <1>1, <1>2, <1>6 DEF GaugeTypes
<1>9. \A x \in Workers : run'[x].jobs = run[x].jobs
    BY <1>4, <1>5
<1>10. BulkFits'
    BY <1>1, <1>9 DEF GaugeInv, BulkFits
<1>11. Held'
  <2>1. r.jobs \subseteq run[w].jobs
    BY <1>4
  <2> QED BY <2>1, <1>1, <1>4, <1>7, HeldFewer
<1>12. \A i \in Jobs : status'[i] = status[i] \/ (i \in run[w].jobs /\ status'[i] = "failed")
    BY <1>1, <1>2 DEF RunFits
<1>13. Recorded' /\ FinishedReadsFinished' /\ CompletedWasHandled'
  <2>1. Recorded'
    BY <1>1, <1>7, <1>12 DEF GaugeInv, Recorded
  <2>2. \A i \in run[w].jobs : i \notin orphans => place[i] = "active"
    BY DEF GaugeInv, Held, Sure
  <2>3. FinishedReadsFinished'
    BY <2>2, <1>1, <1>12 DEF GaugeInv, FinishedReadsFinished
  <2>4. CompletedWasHandled'
    BY <1>1 DEF GaugeInv, CompletedWasHandled, At
  <2> QED BY <2>1, <2>3, <2>4
<1>14. ASSUME run[w].job = run[w].jobs, n > 0, again => w \notin Batching
       PROVE  Single(w)' /\ (again <=> Back(w)')
  <2>1. PICK j \in Jobs : run[w].job = {j}
    BY <1>1, <1>2, <1>14 DEF RunFits
  <2>2. run'[w].jobs = {j} /\ run'[w].at = (IF recoverable THEN "failed" ELSE "dead")
    BY <2>1, <1>4, <1>5, <1>14
  <2>3. budget'[j] = IF flag THEN 0 ELSE budget[j]
    BY <2>1, <1>1, <1>14
  <2>4. again <=> recoverable /\ ~flag /\ ~(budget[j] <= 1)
    BY <2>1 DEF Spent
  <2>5. Back(w)' <=> recoverable /\ w \notin Batching /\ ~(budget'[j] <= 1)
    BY <2>2 DEF Back, Spent
  <2> QED BY <2>2, <2>3, <2>4, <2>5, <1>14 DEF Single
<1>15. \A x \in Workers : RunFits(x)' /\ KeepsWord(x)'
  <2>1. \A x \in Workers \ {w} : RunFits(x)' /\ KeepsWord(x)'
    <3>1. \A x \in Workers \ {w} : \A j \in run[x].jobs :
            j \in Jobs /\ (Sure(j)' => j \notin run[w].jobs)
      BY <1>2, <1>7 DEF GaugeInv, Held, GaugeTypes, RunRec
    <3>2. \A x \in Workers \ {w} : \A j \in run[x].jobs : Sure(j)' => budget'[j] = budget[j]
      BY <3>1, <1>1, <1>2 DEF RunFits
    <3> QED BY <3>2, <1>1, <1>4, <1>6, OthersKept
  <2>2. run'[w] = r
    BY <1>5
  <2>3. Single(w)' <=> Single(w)
    BY <1>9 DEF Single
  <2>4. RunFits(w)'
    BY <2>2, <2>3, <1>1, <1>2, <1>4 DEF RunFits, NoRun
  <2>5. KeepsWord(w)'
    <3>1. ASSUME ~({"delayed", "failed"} \subseteq skewed')
          PROVE  Single(w)' /\ r.job = r.jobs /\ (r.again <=> Back(w)')
      <4>1. n = 1 /\ run[w].jobs = run[w].job /\ (again => w \notin Batching)
        BY <3>1, <1>6
      <4>2. Single(w)' /\ (again <=> Back(w)')
        BY <4>1, <1>14
      <4> HIDE DEF again
      <4> QED BY <4>1, <4>2, <1>4
    <3>2. ASSUME w \notin Batching, n > 0
          PROVE  r.again <=> Back(w)'
      <4>1. run[w].job = run[w].jobs
        BY <3>2, <1>1, <1>2 DEF RunFits
      <4> QED BY <4>1, <3>2, <1>4, <1>14
    <3> QED BY <3>1, <3>2, <2>2, <1>1 DEF KeepsWord
  <2> QED BY <2>1, <2>4, <2>5
<1>16. Agree'
  <2>1. \A p : Here(p)' = Here(p)
    BY <1>1, PlaceRests
  <2>2. \A e : \A T : Told(e, T)' = Told(e, T)
    BY <1>1, PendingRests
  <2>3. /\ Backing' = Backing - 0 + (IF again THEN 1 ELSE 0)
        /\ Going' = Going - 0 + (IF ~again THEN 1 ELSE 0)
    <3>1. /\ Backing' = Backing - (IF run[w].at = "failed" /\ run[w].again THEN 1 ELSE 0)
                         + (IF r.at = "failed" /\ r.again THEN 1 ELSE 0)
          /\ Going' = Going - (IF run[w].at \in {"failed", "dead"} /\ ~run[w].again THEN 1 ELSE 0)
                       + (IF r.at \in {"failed", "dead"} /\ ~r.again THEN 1 ELSE 0)
      BY <1>1, <1>2, <1>4, BackingGoes
    <3> QED BY <3>1, <1>1, <1>4
  <2>4. Running' = Running - n + 0
    BY <1>1, <1>2, <1>4, RunningGoes
  <2>5. Taking' = Taking
    BY <1>1, <1>2, <1>4, TakingRests
  <2>6. \A f \in Gauge : gauge[f] \in Nat
    BY <1>3
  <2>7. "active" \notin skewed' => gauge'["active"] = gauge["active"] - n
    BY <2>6, <1>3, <1>6 DEF Gauge
  <2>8. /\ "waiting" \notin skewed' => gauge'["waiting"] = gauge["waiting"]
    BY <2>6, <1>6 DEF Gauge
  <2>9. ~({"delayed", "failed"} \subseteq skewed') => n = 1
    BY <1>6
  <2>10. "delayed" \notin skewed' => gauge'["delayed"] = gauge["delayed"] + IF again THEN 1 ELSE 0
    <3> SUFFICES ASSUME "delayed" \notin skewed'
                 PROVE  gauge'["delayed"] = gauge["delayed"] + IF again THEN 1 ELSE 0
      OBVIOUS
    <3>1. n = 1
      BY <2>9
    <3>2. gauge'["delayed"] = gauge["delayed"] - 0 + (IF again THEN n ELSE 0)
      BY <1>6 DEF Gauge
    <3>3. gauge["delayed"] \in Nat
      BY <2>6 DEF Gauge
    <3> HIDE DEF again, n
    <3> QED BY <3>1, <3>2, <3>3
  <2>11. "failed" \notin skewed' => gauge'["failed"] = gauge["failed"] + IF again THEN 0 ELSE 1
    <3> SUFFICES ASSUME "failed" \notin skewed'
                 PROVE  gauge'["failed"] = gauge["failed"] + IF again THEN 0 ELSE 1
      OBVIOUS
    <3>1. n = 1
      BY <2>9
    <3>2. gauge'["failed"] = gauge["failed"] - 0 + (IF again THEN 0 ELSE n)
      BY <1>6 DEF Gauge
    <3>3. gauge["failed"] \in Nat
      BY <2>6 DEF Gauge
    <3> HIDE DEF again, n
    <3> QED BY <3>1, <3>2, <3>3
  <2> HIDE DEF n, again
  <2>12. "active" \notin skewed' => gauge'["active"] = Running' + lost'
    BY <2>4, <2>7, <1>1, <1>2, <1>3, <1>6 DEF Agree, Numbers
  <2>13. "waiting" \notin skewed' =>
            gauge'["waiting"] = Here("waiting")' + Taking' - Told("add", Fresh)'
                                - Told("retry", Jobs)' - Told("promote", Jobs)'
    BY <2>1, <2>2, <2>5, <2>8, <1>2, <1>6 DEF Agree, Numbers
  <2>14. "delayed" \notin skewed' =>
            gauge'["delayed"] = Here("delayed")' + Backing' - Told("add", Delayed)'
                                + Told("promote", Jobs)'
    BY <2>1, <2>2, <2>3, <2>10, <1>2, <1>6 DEF Agree, Numbers
  <2>15. "failed" \notin skewed' =>
            gauge'["failed"] = Here("dead")' + Told("retry", Jobs)' + Going'
    BY <2>1, <2>2, <2>3, <2>11, <1>2, <1>6 DEF Agree, Numbers
  <2> QED BY <2>12, <2>13, <2>14, <2>15 DEF Agree
<1> QED BY <1>8, <1>10, <1>11, <1>13, <1>15, <1>16, GaugeInvIf

LEMMA CrashKeeps == ASSUME GaugeInv, NEW w \in Workers, Crash(w) PROVE GaugeInv'
<1> USE DEF gaugeHistory, bounds, hooks, jobVars
<1> DEFINE at == run[w].at
           bad == CASE at = "taken" -> {"waiting"}
                    [] at \in {"failed", "dead"} -> {"delayed", "failed"}
                    [] OTHER -> {}
<1>1. /\ run[w] # NoRun /\ run' = [run EXCEPT ![w] = NoRun]
      /\ lost' = (IF at = "running" THEN lost + layers[w] ELSE lost)
      /\ skewed' = skewed \cup bad /\ gauge' = gauge
      /\ place' = place /\ status' = status /\ budget' = budget /\ mates' = mates
      /\ handled' = handled /\ bulk' = bulk /\ layers' = layers /\ snapshot' = snapshot
      /\ up' = up /\ starts' = starts /\ pending' = pending /\ flag' = flag
      /\ rolled' = rolled /\ orphans' = orphans
    BY DEF Crash, Runs, Mishap
<1>2. GaugeTypes /\ Agree /\ Numbers /\ RunFits(w)
    BY AgreeIsGaugesAgree, CountedAreNumbers DEF GaugeInv
<1>3. /\ layers[w] \in Nat /\ lost \in Nat /\ NoRun \in RunRec /\ NoRun.jobs = {}
      /\ NoRun.at = "idle" /\ at \in {"taken", "running", "failed", "dead", "done"}
  <2>1. at # "idle" /\ run[w] \in RunRec
    BY <1>1, <1>2 DEF RunFits, GaugeTypes
  <2> QED BY <2>1, <1>2, GaugesAssumption DEF GaugeTypes, NoRun, RunRec
<1>4. /\ at = "taken" => bad = {"waiting"}
      /\ at \in {"failed", "dead"} => bad = {"delayed", "failed"}
      /\ bad \subseteq Gauge
    BY <1>3 DEF Gauge
<1> HIDE DEF bad
<1>5. \A x \in Workers : run'[x] = IF x = w THEN NoRun ELSE run[x]
    BY <1>1, <1>2 DEF GaugeTypes
<1>6. skewed \subseteq skewed' /\ skewed' \subseteq Gauge
    BY <1>1, <1>2, <1>4 DEF GaugeTypes
<1>7. \A i : Sure(i)' => Sure(i)
    BY <1>1, <1>6, StillSure
<1>8. GaugeTypes'
  <2>1. run' \in [Workers -> RunRec]
    BY <1>1, <1>2, <1>3 DEF GaugeTypes
  <2>2. lost' \in Nat
    BY <1>1, <1>3
  <2> QED BY <2>1, <2>2, <1>1, <1>2, <1>6 DEF GaugeTypes
<1>9. \A x \in Workers : run'[x].jobs \subseteq run[x].jobs
    BY <1>3, <1>5
<1>10. BulkFits'
    BY <1>1, <1>9 DEF GaugeInv, BulkFits
<1>11. Held'
  <2>1. NoRun.jobs \subseteq run[w].jobs
    BY <1>3
  <2> QED BY <2>1, <1>1, <1>3, <1>7, HeldFewer
<1>12. Recorded' /\ FinishedReadsFinished' /\ CompletedWasHandled'
    BY <1>1, <1>7 DEF GaugeInv, Recorded, FinishedReadsFinished, CompletedWasHandled, At
<1>13. \A x \in Workers : RunFits(x)' /\ KeepsWord(x)'
  <2>1. \A x \in Workers \ {w} : RunFits(x)' /\ KeepsWord(x)'
    BY <1>1, <1>3, <1>6, OthersKept
  <2>2. run'[w] = NoRun
    BY <1>5
  <2>3. RunFits(w)' /\ KeepsWord(w)'
    BY <2>2 DEF RunFits, KeepsWord, NoRun
  <2> QED BY <2>1, <2>3
<1>14. Agree'
  <2>1. \A p : Here(p)' = Here(p)
    BY <1>1, PlaceRests
  <2>2. \A e : \A T : Told(e, T)' = Told(e, T)
    BY <1>1, PendingRests
  <2>3. at \notin {"failed", "dead"} => Backing' = Backing /\ Going' = Going
    <3> SUFFICES ASSUME at \notin {"failed", "dead"} PROVE Backing' = Backing /\ Going' = Going
      OBVIOUS
    <3>1. BackRuns' = BackRuns /\ GoneRuns' = GoneRuns
      BY <1>3, <1>5 DEF BackRuns, GoneRuns, InRun
    <3> QED BY <3>1 DEF Backing, Going
  <2>4. Running' = Running - (IF at = "running" THEN layers[w] ELSE 0) + 0
    BY <1>1, <1>2, <1>3, RunningGoes
  <2>5. at # "taken" => Taking' = Taking
    BY <1>1, <1>2, <1>3, TakingRests
  <2>6. "active" \notin skewed' => gauge'["active"] = Running' + lost'
    BY <2>4, <1>1, <1>2, <1>3, <1>6 DEF Agree, Numbers
  <2>7. "waiting" \notin skewed' =>
            gauge'["waiting"] = Here("waiting")' + Taking' - Told("add", Fresh)'
                                - Told("retry", Jobs)' - Told("promote", Jobs)'
    BY <2>1, <2>2, <2>5, <1>1, <1>2, <1>4 DEF Agree
  <2>8. /\ "delayed" \notin skewed' =>
            gauge'["delayed"] = Here("delayed")' + Backing' - Told("add", Delayed)'
                                + Told("promote", Jobs)'
        /\ "failed" \notin skewed' =>
            gauge'["failed"] = Here("dead")' + Told("retry", Jobs)' + Going'
    BY <2>1, <2>2, <2>3, <1>1, <1>2, <1>4 DEF Agree
  <2> QED BY <2>6, <2>7, <2>8 DEF Agree
<1> QED BY <1>8, <1>10, <1>11, <1>12, <1>13, <1>14, GaugeInvIf

LEMMA SettleKeeps == ASSUME GaugeInv, NEW w \in Workers, Settle(w) PROVE GaugeInv'
<1> USE DEF gaugeHistory, bounds, hooks
<1> DEFINE S == {j \in run[w].jobs : place[j] \in {"active", "none"}}
           to == IF run[w].at = "done" THEN "completed" ELSE IF Back(w) THEN "delayed" ELSE "dead"
<1>1. /\ run[w].at \in {"done", "failed", "dead"}
      /\ place' = [j \in Jobs |-> IF j \in S THEN to ELSE place[j]]
      /\ status' = [j \in Jobs |-> IF j \in S /\ Back(w) THEN "retrying"
                                   ELSE IF j \in S /\ status[j] # "none" THEN to
                                   ELSE status[j]]
      /\ rolled' = rolled \ {j \in S : status[j] # "none"}
      /\ orphans' = orphans \ {j \in S : /\ status[j] # "none"
                                         /\ \A x \in Workers \ {w} : j \notin run[x].jobs}
      /\ run' = [run EXCEPT ![w] = NoRun] /\ budget' = budget
      /\ skewed' = skewed /\ gauge' = gauge /\ lost' = lost /\ mates' = mates
      /\ handled' = handled /\ bulk' = bulk /\ layers' = layers /\ snapshot' = snapshot
      /\ up' = up /\ starts' = starts /\ pending' = pending /\ flag' = flag
    BY DEF Settle, Runs
<1>2. GaugeTypes /\ Agree /\ Numbers /\ RunFits(w) /\ KeepsWord(w)
    BY AgreeIsGaugesAgree, CountedAreNumbers DEF GaugeInv
<1>3. /\ NoRun \in RunRec /\ NoRun.jobs = {} /\ NoRun.at = "idle"
      /\ run[w].jobs \subseteq Jobs /\ S \subseteq run[w].jobs
    BY <1>2 DEF GaugeTypes, NoRun, RunRec
<1>4. to \in {"completed", "delayed", "dead"} /\ to \in Places /\ to \in Statuses
    BY DEF Places, Statuses
<1>5. Back(w) => run[w].at = "failed" /\ to = "delayed"
    BY DEF Back
<1>6. to = "delayed" => Back(w)
    OBVIOUS
<1>7. to = "completed" => run[w].at = "done"
    OBVIOUS
<1>8. \A j \in Jobs : place'[j] = IF j \in S THEN to ELSE place[j]
    BY <1>1
<1>9. \A j \in Jobs \ S : status'[j] = status[j]
    BY <1>1
<1>10. \A j \in S : j \in Jobs /\ place[j] \in {"active", "none"} /\ j \in run[w].jobs
    BY <1>3
<1>11. \A j \in S : /\ Back(w) => status'[j] = "retrying"
                    /\ ~Back(w) /\ status[j] # "none" => status'[j] = to
                    /\ status'[j] = "none" => status[j] = "none"
    BY <1>1, <1>4, <1>10
<1>12. /\ \A j : j \in rolled /\ j \notin rolled' => j \in S /\ status[j] # "none"
       /\ \A j : j \in orphans /\ j \notin orphans' =>
            /\ j \in S /\ status[j] # "none"
            /\ \A x \in Workers \ {w} : j \notin run[x].jobs
       /\ rolled' \subseteq rolled /\ orphans' \subseteq orphans
    BY <1>1
<1>13. \A x \in Workers : run'[x] = IF x = w THEN NoRun ELSE run[x]
    BY <1>1, <1>2 DEF GaugeTypes
<1>14. GaugeTypes'
  <2>1. run' \in [Workers -> RunRec]
    BY <1>1, <1>2, <1>3 DEF GaugeTypes
  <2>2. place' \in [Jobs -> Places]
    BY <1>1, <1>2, <1>4 DEF GaugeTypes
  <2>3. status' \in [Jobs -> Statuses]
    <3>1. \A j \in Jobs : status'[j] \in Statuses
      BY <1>1, <1>2, <1>4 DEF GaugeTypes, Statuses
    <3> QED BY <3>1, <1>1
  <2> HIDE DEF S, to
  <2> QED BY <2>1, <2>2, <2>3, <1>1, <1>2, <1>12 DEF GaugeTypes
<1> HIDE DEF S, to
<1>15. BulkFits'
  <2>1. bulk = "todo" => \A j \in Bulk : j \notin S
    BY <1>10 DEF GaugeInv, BulkFits
  <2>2. \A x \in Workers : run'[x].jobs \subseteq run[x].jobs
    BY <1>3, <1>13
  <2>3. bulk = "todo" => \A j \in Bulk : place'[j] = "none" /\ \A x \in Workers : j \notin run'[x].jobs
    BY <2>1, <2>2, <1>8, GaugesAssumption DEF GaugeInv, BulkFits
  <2> QED BY <2>3, <1>1 DEF GaugeInv, BulkFits
<1>16. \A j : Sure(j)' /\ ~Sure(j) => /\ j \in S /\ status[j] # "none"
                                      /\ \A x \in Workers \ {w} : j \notin run[x].jobs
    BY <1>1, <1>12 DEF Sure
<1>17. Held'
  <2> SUFFICES ASSUME NEW x \in Workers, NEW j \in run'[x].jobs, Sure(j)'
               PROVE  Sure(j) /\ place'[j] = place[j]
    BY <1>1, <1>3, HeldFewer
  <2>1. x # w /\ j \in run[x].jobs
    BY <1>3, <1>13
  <2>2. Sure(j)
    BY <2>1, <1>16
  <2>3. j \notin run[w].jobs /\ j \in Jobs
    BY <2>1, <2>2, <1>2 DEF GaugeInv, Held, GaugeTypes, RunRec
  <2> QED BY <2>2, <2>3, <1>8, <1>10
<1>18. \A j \in S : Sure(j) => place[j] = "active" /\ status[j] # "none"
    BY <1>10 DEF GaugeInv, Held, Recorded
<1>19. Recorded'
  <2> SUFFICES ASSUME NEW j \in Jobs, Sure(j)', status'[j] = "none" PROVE place'[j] = "none"
    BY DEF Recorded
  <2>1. j \notin S
    BY <1>11, <1>16, <1>18
  <2>2. Sure(j)
    BY <2>1, <1>16
  <2> QED BY <2>1, <2>2, <1>8, <1>9 DEF GaugeInv, Recorded
<1>20. FinishedReadsFinished'
  <2> SUFFICES ASSUME NEW j \in Jobs \ (rolled' \cup orphans'), place'[j] \in {"completed", "dead"}
               PROVE  status'[j] = place'[j]
    BY DEF FinishedReadsFinished
  <2>1. CASE j \in S
    <3>1. status[j] # "none"
      <4> SUFFICES ASSUME status[j] = "none" PROVE FALSE
        OBVIOUS
      <4>1. j \notin orphans
        BY <1>12
      <4>2. Sure(j)
        BY <4>1 DEF Sure
      <4> QED BY <4>2, <2>1, <1>18
    <3>2. ~Back(w) /\ place'[j] = to
      BY <2>1, <1>5, <1>8
    <3> QED BY <3>1, <3>2, <2>1, <1>11
  <2>2. CASE j \notin S
    <3>1. j \notin rolled /\ j \notin orphans
      BY <2>2, <1>12
    <3> QED BY <3>1, <2>2, <1>8, <1>9 DEF GaugeInv, FinishedReadsFinished
  <2> QED BY <2>1, <2>2
<1>21. CompletedWasHandled'
  <2>1. to = "completed" => S \subseteq handled \cup mates
    BY <1>2, <1>3, <1>7 DEF RunFits
  <2> QED BY <2>1, <1>1, <1>8 DEF GaugeInv, CompletedWasHandled, At
<1>22. \A x \in Workers : RunFits(x)' /\ KeepsWord(x)'
  <2>1. \A x \in Workers \ {w} : RunFits(x)' /\ KeepsWord(x)'
    <3>1. \A x \in Workers \ {w} : \A j \in run[x].jobs : j \in orphans' <=> j \in orphans
      BY <1>12
    <3> QED BY <3>1, <1>1, <1>3, <1>14, OthersKept DEF GaugeTypes
  <2>2. run'[w] = NoRun
    BY <1>13
  <2>3. RunFits(w)' /\ KeepsWord(w)'
    BY <2>2 DEF RunFits, KeepsWord, NoRun
  <2> QED BY <2>1, <2>3
<1>23. Agree'
  <2>1. \A e : \A T : Told(e, T)' = Told(e, T)
    BY <1>1, PendingRests
  <2>2. Running' = Running
    <3>1. Running' = Running - 0 + 0
      BY <1>1, <1>2, <1>3, RunningGoes
    <3> QED BY <3>1, <1>2 DEF Numbers
  <2>3. Taking' = Taking
    BY <1>1, <1>2, <1>3, TakingRests
  <2>4. Here("waiting")' = Here("waiting")
    <3>1. At("waiting")' = At("waiting")
      BY <1>4, <1>8, <1>10 DEF At
    <3> QED BY <3>1 DEF Here
  <2>5. ASSUME ~({"delayed", "failed"} \subseteq skewed)
        PROVE  /\ Here("delayed")' + Backing' = Here("delayed") + Backing
               /\ Here("dead")' + Going' = Here("dead") + Going
    <3>1. \A j \in run[w].jobs : place[j] = "active"
      BY <2>5 DEF GaugeInv, Held, Sure, Gauge
    <3>2. S = run[w].jobs /\ S \subseteq At("active")
      BY <3>1, <1>3 DEF S, At
    <3>3. PICK b \in 0..1, g \in 0..1 :
            /\ b = (IF run[w].at = "failed" /\ run[w].again THEN 1 ELSE 0)
            /\ g = (IF run[w].at \in {"failed", "dead"} /\ ~run[w].again THEN 1 ELSE 0)
      OBVIOUS
    <3>4. Backing' = Backing - b + 0 /\ Going' = Going - g + 0
      BY <3>3, <1>1, <1>2, <1>3, BackingGoes
    <3>5. PICK q : q = "active"
      OBVIOUS
    <3>6. CASE to = "completed"
      <4>1. \A p \in {"delayed", "dead"} : At(p)' = At(p)
        BY <3>6, <3>2, <1>8 DEF At
      <4>2. b = 0 /\ g = 0
        BY <3>3, <3>6, <1>7
      <4>3. Here("delayed")' = Here("delayed") /\ Here("dead")' = Here("dead")
        BY <4>1 DEF Here
      <4> QED BY <4>2, <4>3, <3>4, <1>2 DEF Numbers
    <3>7. CASE to # "completed"
      <4>1. run[w].at \in {"failed", "dead"} /\ Single(w) /\ (run[w].again <=> to = "delayed")
        BY <3>7, <2>5, <1>1, <1>2, <1>5, <1>6 DEF KeepsWord, to
      <4>2. PICK j \in Jobs : S = {j}
        BY <4>1, <3>2 DEF Single
      <4>3. place[j] = q /\ to # q /\ GaugeTypes
        BY <4>2, <3>1, <3>2, <3>5, <1>2, <1>4
      <4>4. place' = [i \in Jobs |-> IF i \in {j} THEN to ELSE place[i]]
        BY <4>2, <1>1
      <4>5. ASSUME NEW t, t = to
            PROVE  Here(t)' = Here(t) + 1 /\ \A p : p \notin {q, t} => Here(p)' = Here(p)
        <5>1. place' = [i \in Jobs |-> IF i \in {j} THEN t ELSE place[i]] /\ t # q
          BY <4>3, <4>4, <4>5
        <5> QED BY <5>1, <4>3, RelocatedOne
      <4>6. CASE to = "delayed"
        <5>1. Here("delayed")' = Here("delayed") + 1 /\ Here("dead")' = Here("dead")
          BY <4>5, <4>6, <3>5
        <5>2. b = 1 /\ g = 0
          BY <4>1, <4>6, <3>3, <1>5, <1>6
        <5> QED BY <5>1, <5>2, <3>4, <1>2 DEF Numbers
      <4>7. CASE to = "dead"
        <5>1. Here("dead")' = Here("dead") + 1 /\ Here("delayed")' = Here("delayed")
          BY <4>5, <4>7, <3>5
        <5>2. b = 0 /\ g = 1
          BY <4>1, <4>7, <3>3
        <5> QED BY <5>1, <5>2, <3>4, <1>2 DEF Numbers
      <4> QED BY <4>6, <4>7, <3>7, <1>4
    <3> QED BY <3>6, <3>7
  <2>6. Backing' \in Int /\ Going' \in Int /\ Here("delayed")' \in Int /\ Here("dead")' \in Int
    <3>1. Numbers'
      BY <1>14, CountedAreNumbers, PTL
    <3> QED BY <3>1 DEF Numbers
  <2>7. Told("promote", Jobs) \in Nat /\ Told("retry", Jobs) \in Nat /\ Told("add", Delayed) \in Nat
    BY <1>2 DEF Numbers
  <2>8. "delayed" \notin skewed' =>
            gauge'["delayed"] = Here("delayed")' + Backing' - Told("add", Delayed)'
                                + Told("promote", Jobs)'
    <3>1. HAVE "delayed" \notin skewed'
    <3>2. gauge'["delayed"] = Here("delayed") + Backing - Told("add", Delayed)
                              + Told("promote", Jobs)
      BY <3>1, <1>1, <1>2 DEF Agree
    <3>3. Here("delayed")' + Backing' = Here("delayed") + Backing
      BY <3>1, <2>5, <1>1
    <3> QED BY <3>2, <3>3, <2>1, <2>6, <2>7, <1>2 DEF Numbers
  <2>9. "failed" \notin skewed' =>
            gauge'["failed"] = Here("dead")' + Told("retry", Jobs)' + Going'
    <3>1. HAVE "failed" \notin skewed'
    <3>2. gauge'["failed"] = Here("dead") + Told("retry", Jobs) + Going
      BY <3>1, <1>1, <1>2 DEF Agree
    <3>3. Here("dead")' + Going' = Here("dead") + Going
      BY <3>1, <2>5, <1>1
    <3> QED BY <3>2, <3>3, <2>1, <2>6, <2>7, <1>2 DEF Numbers
  <2> QED BY <2>1, <2>2, <2>3, <2>4, <2>8, <2>9, <1>1, <1>2 DEF Agree
<1> QED BY <1>14, <1>15, <1>17, <1>19, <1>20, <1>21, <1>22, <1>23, GaugeInvIf

-----------------------------------------------------------------------------
LEMMA GaugeInvNext == GaugeInv /\ [GaugesNext]_gaugesVars => GaugeInv'
<1> SUFFICES ASSUME GaugeInv, [GaugesNext]_gaugesVars PROVE GaugeInv'
    OBVIOUS
<1>1. ASSUME NEW j \in Jobs,
             \/ Add(j) \/ Retry(j) \/ Release(j) \/ Recover(j)
             \/ \E shared \in BOOLEAN : Promote(j, shared)
      PROVE  GaugeInv'
    BY <1>1, AddKeeps, RetryKeeps, ReleaseKeeps, RecoverKeeps, PromoteKeeps
<1>2. CASE \E e \in pending : Emit(e)
    BY <1>2, EmitKeeps
<1>3. CASE AddBulk \/ ReadBulk \/ WriteBulk \/ Drain \/ Obliterate \/ Toggle
    BY <1>3, AddBulkKeeps, ReadBulkKeeps, WriteBulkKeeps, DrainKeeps, ObliterateKeeps, ToggleKeeps
<1>4. ASSUME NEW w \in Workers,
             \/ StartWorker(w) \/ Ok(w) \/ Settle(w) \/ Crash(w)
             \/ \E S \in SUBSET At("waiting") : Take(w, S)
             \/ \E j \in run[w].jobs : Begin(w, j)
             \/ \E recoverable \in BOOLEAN : Fails(w, recoverable)
      PROVE  GaugeInv'
    BY <1>4, StartWorkerKeeps, OkKeeps, SettleKeeps, CrashKeeps, TakeKeeps, BeginKeeps, FailsKeeps
<1>5. CASE UNCHANGED gaugesVars
  <2> USE <1>5 DEF gaugesVars, gaugeHistory, bounds, hooks, jobVars
  <2>1. GaugeTypes' /\ BulkFits' /\ Recorded' /\ FinishedReadsFinished'
    BY DEF GaugeInv, GaugeTypes, BulkFits, Recorded, FinishedReadsFinished, Sure
  <2> QED BY <2>1, GaugesRest, GaugeInvIf
<1> QED BY <1>1, <1>2, <1>3, <1>4, <1>5 DEF GaugesNext

(* The inductive invariant holds in every reachable state. *)
THEOREM GaugesKept == GaugesSpec => []GaugeInv
BY GaugeInvInit, GaugeInvNext, PTL DEF GaugesSpec

(* The gauges agree with the queue up to what is not told yet, until one   *)
(* of the events GaugesAgree names, for any jobs, workers, handlers and    *)
(* bounds (MetricsCollector.js:66).                                        *)
THEOREM GaugesStaySound == GaugesSpec => []GaugesSound
<1>1. GaugeInv => GaugesSound
  <2> SUFFICES ASSUME GaugeInv PROVE GaugesSound
    OBVIOUS
  <2>1. \A w \in Workers : /\ run[w].at \in {"idle", "taken", "running", "failed", "dead", "done"}
                           /\ run[w].jobs \subseteq Jobs
                           /\ run[w].job \subseteq run[w].jobs
    BY DEF GaugeInv, GaugeTypes, RunRec, RunFits
  <2> QED BY <2>1 DEF GaugeInv, GaugesSound, GaugesTypeOK, GaugeTypes, BulkFits, Places, Statuses
<1> QED BY <1>1, GaugesKept, PTL

(* The hooks neither lose nor invent an outcome, though they write records *)
(* beside the scripts (patchQueue.js:76, patchWorker.js:194).              *)
THEOREM OutcomesStaySound == GaugesSpec => []OutcomesSound
<1>1. GaugeInv => OutcomesSound
    BY DEF GaugeInv, OutcomesSound
<1> QED BY <1>1, GaugesKept, PTL

(* What a failure tells of a retry is what the worker then does            *)
(* (patchWorker.js:266, worker.js:625).                                    *)
THEOREM FailuresToldTruly == GaugesSpec => ToldTruly
<1> DEFINE A == \A w \in Workers \ Batching :
                    Settle(w) /\ run[w].at \in {"failed", "dead"} /\ layers[w] > 0 =>
                        \A j \in run[w].jobs \ orphans : place[j] = "active" =>
                            (run[w].again <=> place'[j] = "delayed")
<1>1. GaugeInv => A
  <2> SUFFICES ASSUME GaugeInv, NEW w \in Workers \ Batching, Settle(w),
                      run[w].at \in {"failed", "dead"}, layers[w] > 0,
                      NEW j \in run[w].jobs \ orphans, place[j] = "active"
               PROVE  run[w].again <=> place'[j] = "delayed"
    OBVIOUS
  <2>1. j \in Jobs
    BY DEF GaugeInv, GaugeTypes, RunRec
  <2>2. run[w].again <=> Back(w)
    BY DEF GaugeInv, KeepsWord
  <2>3. place'[j] = IF Back(w) THEN "delayed" ELSE "dead"
    BY <2>1 DEF Settle
  <2> QED BY <2>2, <2>3
<1>2. GaugeInv => [A]_gaugesVars
    BY <1>1
<1> QED BY <1>2, GaugesKept, PTL DEF ToldTruly
=============================================================================
