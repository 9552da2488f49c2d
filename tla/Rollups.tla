------------------------------ MODULE Rollups ------------------------------
(***************************************************************************)
(* What the collector keeps of jobs and workers by time, and the routes    *)
(* that show it: the hourly buckets of a queue, the heatmap of a worker's  *)
(* failures, the records of the workers and the forecast that counts them. *)
(*                                                                         *)
(* Everything expires: a bucket or a heatmap so long after its last write, *)
(* a worker's record so long after its last heartbeat.  Buckets are named  *)
(* by the hour in UTC, heatmap cells by the day in UTC and the hour of the *)
(* server's own zone.                                                      *)
(***************************************************************************)
EXTENDS Clock, FiniteSets

CONSTANTS
    Workers,    \* workers of the one queue; each has a name of its own
    Hour,       \* ticks in an hour
    Day,        \* hours in a day: 24
    Week,       \* hours a bucket is kept and the longest range shown: 168
    Beat,       \* ticks a worker's record is kept: WORKER_STATE_TTL
    Offsets     \* zones: hours ahead of UTC

ASSUME RollupsAssumption ==
    /\ Hour \in Nat \ {0} /\ Day \in Nat \ {0} /\ Week \in Nat \ {0} /\ Beat \in Nat \ {0}
    /\ Offsets \subseteq 0..Day - 1 /\ IsFiniteSet(Workers)

VARIABLES
    offset,     \* the zone of the server
    buckets,    \* taurusmq:obs:metrics:{queue}:{date}:hour-{hh}
    heatmap,    \* tmq:obs:workers:heatmap:{date}
    worker,     \* the worker processes
    half,       \* workers whose 'started' is between its HSET and its EXPIRE
    record      \* tmq:obs:worker:{id}:state

\* History: jobs that ended, by hour and by hour and worker; when a worker was
\* last heard of; those whose record got no expiry, because the process died
\* or the record was gone; those whose record was gone while they ran.
VARIABLES done, failures, heard, cut, forgotten

rollupVars == <<offset, buckets, heatmap, worker, half, record,
                done, failures, heard, cut, forgotten>>

Never == MaxTime + (Week + 2 * Day) * Hour + Beat + 1
Hours == 0..MaxTime \div Hour
Days == 0..(MaxTime \div Hour) \div Day
ThisHour == now \div Hour
LocalHour(h) == (h + offset) % Day

NoBucket == [processed |-> 0, failed |-> 0, until |-> 0]
NoHeat == [counts |-> [w \in Workers |-> [f \in 0..Day - 1 |-> 0]], until |-> 0]
NoRecord == [state |-> "none", named |-> FALSE, until |-> 0]

Lives(key) == key.until > now
----------------------------------------------------------------------------
(***************************************************************************)
(* Writing: MetricsCollector and the heatmap listeners of the server.      *)
(***************************************************************************)
CountsShort(old, outcome) ==
    LET b == IF Lives(old) THEN old ELSE NoBucket IN
    [b EXCEPT ![outcome] = @ + 1, !.until = now + (Week - 1) * Hour]

Counts(old, outcome) ==
    LET b == IF Lives(old) THEN old ELSE NoBucket IN
    [b EXCEPT ![outcome] = @ + 1, !.until = now + Week * Hour]

HeatsUtc(old, w) ==
    LET m == IF Lives(old) THEN old ELSE NoHeat IN
    [m EXCEPT !.counts[w][ThisHour % Day] = @ + 1, !.until = now + 2 * Day * Hour]

Heats(old, w) ==
    LET m == IF Lives(old) THEN old ELSE NoHeat IN
    [m EXCEPT !.counts[w][LocalHour(ThisHour)] = @ + 1, !.until = now + 2 * Day * Hour]

\* HINCRBY and HSET of a field bring the record back, without an expiry and
\* without its other fields, if it was gone.
Touched(w) ==
    IF Lives(record[w]) THEN record[w] ELSE [NoRecord EXCEPT !.until = Never]

JobEnds(w, outcome) ==
    /\ worker[w] \in {"up", "stopped"} /\ Event
    /\ buckets' = [buckets EXCEPT ![ThisHour] = Counts(@, outcome)]
    /\ done' = [done EXCEPT ![ThisHour][outcome] = @ + 1]
    /\ record' = [record EXCEPT ![w] = Touched(w)]
    /\ forgotten' = IF Lives(record[w]) THEN forgotten ELSE forgotten \cup {w}
    /\ IF outcome = "failed"
       THEN /\ heatmap' = [heatmap EXCEPT ![ThisHour \div Day] = Heats(@, w)]
            /\ failures' = [failures EXCEPT ![ThisHour][w] = @ + 1]
       ELSE UNCHANGED <<heatmap, failures>>
    /\ UNCHANGED <<offset, worker, half, heard, cut>>

WorkerStarts(w) ==
    /\ worker[w] \in {"new", "stopped"} /\ w \notin half /\ Event
    /\ worker' = [worker EXCEPT ![w] = "up"]
    /\ record' = [record EXCEPT ![w] = [Touched(w) EXCEPT !.state = "online", !.named = TRUE]]
    /\ half' = half \cup {w}
    /\ heard' = [heard EXCEPT ![w] = now]
    /\ forgotten' = forgotten \ {w}
    /\ UNCHANGED <<offset, buckets, heatmap, done, failures, cut>>

StartStays(w) ==
    /\ w \in half
    /\ half' = half \ {w} /\ cut' = cut \ {w}
    /\ forgotten' = IF Lives(record[w]) THEN forgotten ELSE forgotten \cup {w}
    /\ heard' = [heard EXCEPT ![w] = now]
    /\ UNCHANGED <<now, events, offset, buckets, heatmap, worker, record, done, failures>>

StartExpires(w) ==
    /\ w \in half
    /\ half' = half \ {w} /\ cut' = cut \ {w}
    /\ record' = IF Lives(record[w]) THEN [record EXCEPT ![w].until = now + Beat] ELSE record
    /\ forgotten' = IF Lives(record[w]) THEN forgotten ELSE forgotten \cup {w}
    /\ heard' = [heard EXCEPT ![w] = now]
    /\ UNCHANGED <<now, events, offset, buckets, heatmap, worker, done, failures>>

HeartbeatNoExpire(w) ==
    /\ worker[w] = "up" /\ Event
    /\ record' = [record EXCEPT ![w] = [Touched(w) EXCEPT !.state = "online"]]
    /\ heard' = [heard EXCEPT ![w] = now]
    /\ forgotten' = IF Lives(record[w]) THEN forgotten ELSE forgotten \cup {w}
    /\ cut' = cut \ {w}
    /\ UNCHANGED <<offset, buckets, heatmap, worker, half, done, failures>>

Heartbeat(w) ==
    /\ worker[w] = "up" /\ Event
    /\ record' = [record EXCEPT ![w] = [Touched(w) EXCEPT !.state = "online",
                                                          !.until = now + Beat]]
    /\ heard' = [heard EXCEPT ![w] = now]
    /\ forgotten' = IF Lives(record[w]) THEN forgotten ELSE forgotten \cup {w}
    /\ cut' = cut \ {w}
    /\ UNCHANGED <<offset, buckets, heatmap, worker, half, done, failures>>

\* The patched stop clears the timers, then tells.
WorkerStops(w) ==
    /\ worker[w] = "up" /\ Event
    /\ worker' = [worker EXCEPT ![w] = "stopped"]
    /\ record' = [record EXCEPT ![w] = [Touched(w) EXCEPT !.state = "stopped"]]
    /\ UNCHANGED <<offset, buckets, heatmap, half, done, failures, heard, cut, forgotten>>

\* The process of the stack, with its workers: nothing more is told.
WorkersDieHalf ==
    /\ worker' = [w \in Workers |-> IF worker[w] = "new" THEN "new" ELSE "dead"]
    /\ half' = half /\ cut' = cut \cup half
    /\ UNCHANGED <<offset, buckets, heatmap, record, done, failures, heard, forgotten>>

WorkersDie ==
    /\ worker' = [w \in Workers |-> IF worker[w] = "new" THEN "new" ELSE "dead"]
    /\ half' = {} /\ cut' = cut \cup half
    /\ UNCHANGED <<offset, buckets, heatmap, record, done, failures, heard, forgotten>>

RollupsInit ==
    /\ offset \in Offsets
    /\ buckets = [h \in Hours |-> NoBucket] /\ heatmap = [d \in Days |-> NoHeat]
    /\ worker = [w \in Workers |-> "new"] /\ half = {}
    /\ record = [w \in Workers |-> NoRecord]
    /\ done = [h \in Hours |-> [processed |-> 0, failed |-> 0]]
    /\ failures = [h \in Hours |-> [w \in Workers |-> 0]]
    /\ heard = [w \in Workers |-> 0] /\ cut = {} /\ forgotten = {}

RollupsStep(w) ==
    \/ \E outcome \in {"processed", "failed"} : JobEnds(w, outcome)
    \/ WorkerStarts(w) \/ StartExpires(w) \/ Heartbeat(w) \/ WorkerStops(w)
----------------------------------------------------------------------------
(***************************************************************************)
(* Reading                                                                 *)
(***************************************************************************)
\* Analytics of the last n hours: what the bucket of each says.
Analytics(n) ==
    [h \in {h \in Hours : h <= ThisHour /\ h > ThisHour - n} |->
        IF Lives(buckets[h]) THEN buckets[h] ELSE NoBucket]

\* The heatmap, i hours ago: the hour by the zone, and today's key unless the
\* hours of the day do not reach back so far.
IsToday(i) == LocalHour(ThisHour) - i >= 0

HeatCell(w, i) ==
    LET d == IF IsToday(i) THEN ThisHour \div Day ELSE ThisHour \div Day - 1
        f == (LocalHour(ThisHour) - i + Day) % Day
    IN  IF d \in Days /\ Lives(heatmap[d]) THEN heatmap[d].counts[w][f] ELSE 0

Counted == {w \in Workers : Lives(record[w]) /\ record[w].named /\ record[w].state = "online"}

\* ForecastQueue: e jobs come and c are done in a minute, depth wait, w
\* workers.  Minutes are fractions, <<numerator, denominator>>; None is null.
CeilDiv(a, b) == (a + b - 1) \div b

NeededBare(e, c, w) ==
    IF e <= c THEN 0
    ELSE IF w > 0 /\ c > 0 THEN CeilDiv(e * w, c) - w
    ELSE IF w > 0 THEN w + 2 ELSE 3

WorkersNeeded(e, c, w) ==
    IF e <= c THEN 0
    ELSE IF w > 0 /\ c > 0 THEN CeilDiv(e * w, c) - w + 1
    ELSE IF w > 0 THEN w + 2 ELSE 3

Overflow(e, c, depth, threshold) ==
    IF depth >= threshold THEN {<<0, 1>>}
    ELSE IF e > c THEN {<<threshold - depth, e - c>>} ELSE {}

DrainTime(e, c, depth) ==
    IF e < c THEN {<<depth, c - e>>} ELSE IF depth = 0 THEN {<<0, 1>>} ELSE {}

ProjectedDepth(e, c, depth, minutes) ==
    LET p == depth + (e - c) * minutes IN IF p < 0 THEN 0 ELSE p
----------------------------------------------------------------------------
(***************************************************************************)
(* Properties                                                              *)
(***************************************************************************)
\* The ranges shown hold every job that ended in their hours, no more and no
\* less: no bucket expires while a range can still show it, and none is read
\* as another hour's (server.js:334, :482).
BucketsAddUp ==
    \A n \in 1..Week :
        LET shown == Analytics(n) IN
        \A h \in DOMAIN shown : /\ shown[h].processed = done[h].processed
                                /\ shown[h].failed = done[h].failed

\* A cell of the heatmap shows the failures of its own hour whenever that hour
\* and this one lie on one day of the zone exactly if they lie on one day of
\* UTC (server.js:1282 against :158); where they do not, it is another
\* day's cell that is shown.
SameDay(i) ==
    (ThisHour \div Day = (ThisHour - i) \div Day)
    <=> ((ThisHour + offset) \div Day = (ThisHour - i + offset) \div Day)

HeatmapAgrees ==
    \A w \in Workers : \A i \in 0..Day - 1 :
        ThisHour - i >= 0 /\ SameDay(i)
        => HeatCell(w, i) = failures[ThisHour - i][w]

\* The forecast counts no worker that was not heard of for as long as a record
\* is kept, unless its process died before the record had an expiry
\* (MetricsCollector.js:177, ForecastingEngine.js:114).
CountedIsRecent ==
    \A w \in Counted : now < heard[w] + Beat \/ w \in half \cup cut

\* It counts every worker that runs and was heard of, unless the record was
\* gone in between: then the name of the queue is not in the one that came
\* back, and the worker is not counted again until it is started anew
\* (MetricsCollector.js:118, :191).
RunningIsCounted ==
    \A w \in Workers :
        worker[w] = "up" /\ now < heard[w] + Beat /\ w \notin half \cup forgotten
        => w \in Counted

\* The advice of the forecast is sound for the workers it counts: with those
\* it asks for added at the present rate of each, the queue shrinks; the time
\* it gives to the overflow is when the projection reaches the threshold, and
\* the time to drain when it reaches zero (ForecastingEngine.js:62).
Rates == 0..3

SoundFor == [w \in 0..Cardinality(Workers) |->
    \A e, c, depth \in Rates : \A threshold \in 1..3 :
        /\ e > c /\ c > 0 /\ w > 0 => (w + WorkersNeeded(e, c, w)) * c > e * w
        /\ e > c => \A t \in Overflow(e, c, depth, threshold) : \A m \in 0..4 :
               m * t[2] >= t[1] <=> ProjectedDepth(e, c, depth, m) >= threshold
        /\ \A t \in DrainTime(e, c, depth) : \A m \in 0..4 :
               e <= c /\ m * t[2] >= t[1] => ProjectedDepth(e, c, depth, m) = 0]

ForecastSound == SoundFor[Cardinality(Counted)]

RollupsTypeOK ==
    /\ offset \in Offsets /\ half \subseteq Workers
    /\ cut \subseteq Workers /\ forgotten \subseteq Workers
    /\ \A h \in Hours : buckets[h] \in [processed : 0..MaxEvents, failed : 0..MaxEvents,
                                        until : 0..Never]
    /\ \A d \in Days : heatmap[d].until \in 0..Never
    /\ \A w \in Workers :
           /\ worker[w] \in {"new", "up", "stopped", "dead"}
           /\ w \in half => worker[w] \in {"up", "stopped"}
           /\ record[w].state \in {"none", "online", "stopped"}
           /\ record[w].named \in BOOLEAN /\ record[w].until \in 0..Never
=============================================================================
