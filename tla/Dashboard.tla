----------------------------- MODULE Dashboard -----------------------------
(***************************************************************************)
(* The dashboard: the sessions of the server and what its collector keeps  *)
(* share a process and a clock; a browser has one of the pages open.       *)
(***************************************************************************)
EXTENDS Access, Rollups, FlowPage, QueuePage

VARIABLE page   \* the page that is open: "none", "flow" or "queue"

serverVars == <<accessVars, rollupVars>>
pageVars == <<page, flowPageVars, queuePageVars>>
vars == <<now, events, serverVars, pageVars>>

Init ==
    /\ now = 0 /\ events = 0 /\ AccessInit /\ RollupsInit
    /\ page \in {"none", "flow", "queue"} /\ FlowPageInit /\ QueuePageInit

TimePasses == Passes /\ AccessTimePasses /\ UNCHANGED <<rollupVars, pageVars>>

Restart == Event /\ ServerRestarts /\ WorkersDie /\ UNCHANGED pageVars

Next ==
    \/ \E b \in Browsers : AccessStep(b) /\ UNCHANGED <<rollupVars, pageVars>>
    \/ \E w \in Workers : RollupsStep(w) /\ UNCHANGED <<accessVars, pageVars>>
    \/ TimePasses \/ Restart
    \/ page = "flow" /\ FlowPageStep /\ UNCHANGED <<serverVars, page, queuePageVars>>
    \/ page = "queue" /\ QueuePageStep /\ UNCHANGED <<serverVars, page, flowPageVars>>

Spec == Init /\ [][Next]_vars

TypeOK ==
    /\ now \in 0..MaxTime /\ events \in 0..MaxEvents
    /\ AccessTypeOK /\ RollupsTypeOK /\ FlowPageTypeOK /\ QueuePageTypeOK

\* The limiter lets through no more than its limit and tells the truth about
\* when it will let in again (rateLimit.lua:14, AuthMiddleware.js:93).
LimiterSound == TypeOK /\ LoginsLimited /\ RetryAfterSuffices

\* What is shown of past hours is what happened in them (server.js:334, :1285).
HoursSound == BucketsAddUp /\ HeatmapAgrees

\* The forecast counts the workers that run, and advises soundly for them
\* (ForecastingEngine.js:62, :114).
ForecastsSound == CountedIsRecent /\ RunningIsCounted /\ ForecastSound

\* The flow page draws one piece of the flow and keeps open what was opened
\* (dashboard/src/app/flow/page.tsx:264).
FlowShown == GraphDrawn /\ ExpansionsStay

\* The queue page shows the range that was chosen and the rows there are
\* (dashboard/src/app/queues/[name]/page.tsx:147, :65).
QueueShown == RangeShown /\ TableShowsRows
=============================================================================
