----------------------------- MODULE EventLink -----------------------------
(***************************************************************************)
(* QueueEvents: the subscription to the events of a queue, and how it      *)
(* comes back.  The client (ioredis, external) connects again by itself    *)
(* and then repeats the subscriptions it had; every 'error' and the 'end'  *)
(* of the client set a timer of QueueEvents as well, so that timers and    *)
(* subscribe calls may pile up, and after too many in a row it gives up.   *)
(***************************************************************************)
EXTENDS Naturals

CONSTANT MaxAttempts  \* _maxReconnectAttempts

ASSUME LinkAssumption == MaxAttempts \in Nat \ {0}

VARIABLES
    link,      \* the connection: up, down (reconnecting) or ended; "none" without QueueEvents
    subscribed,\* Redis knows the subscription
    known,     \* the client knows it, and repeats it
    attempts,  \* _reconnectAttempts
    timers,    \* timers that will call _subscribe
    pending,   \* subscribe calls without an answer
    closing,   \* how far close() is
    gaveUp     \* history: a reconnect was refused since the last success

linkVars == <<link, subscribed, known, attempts, timers, pending, closing, gaveUp>>

----------------------------------------------------------------------------
\* _reconnect, on an error or the end of the client.
Reconnect(calls) ==
    /\ pending' = calls
    /\ IF attempts >= MaxAttempts
       THEN gaveUp' = TRUE /\ UNCHANGED <<attempts, timers>>
       ELSE /\ attempts' = attempts + 1 /\ timers' = timers + 1
            /\ UNCHANGED gaveUp

\* The constructor's _subscribe, and that of a timer: nothing on an ended
\* client.
Subscribe ==
    /\ timers > 0 /\ timers' = timers - 1
    /\ pending' = IF link = "ended" THEN pending ELSE pending + 1
    /\ UNCHANGED <<link, subscribed, known, attempts, closing, gaveUp>>

Answered ==
    /\ link = "up" /\ pending > 0 /\ pending' = pending - 1
    /\ subscribed' = TRUE /\ known' = TRUE
    /\ attempts' = 0 /\ gaveUp' = FALSE
    /\ UNCHANGED <<link, timers, closing>>

RefusedSilently(where) ==
    /\ pending > 0 /\ link = where /\ pending' = pending - 1
    /\ UNCHANGED <<link, subscribed, known, attempts, timers, closing, gaveUp>>

\* The server refuses, or the client has ended with the call in its queue.
Refused(where) ==
    /\ pending > 0 /\ link = where
    /\ Reconnect(pending - 1)
    /\ UNCHANGED <<link, subscribed, known, closing>>

Drops ==
    /\ link = "up" /\ link' = "down" /\ subscribed' = FALSE
    /\ UNCHANGED <<known, attempts, timers, pending, closing, gaveUp>>

\* A connection attempt of the client fails: 'error'.
ConnectFails ==
    /\ link = "down"
    /\ Reconnect(pending)
    /\ UNCHANGED <<link, subscribed, known, closing>>

Connects ==
    /\ link = "down" /\ link' = "up" /\ subscribed' = known
    /\ UNCHANGED <<known, attempts, timers, pending, closing, gaveUp>>
----------------------------------------------------------------------------
\* close(): unsubscribe, which waits for a connection, then disconnect, after
\* which the client ends and QueueEvents tries to reconnect once more.
CloseBegins ==
    /\ closing = "no" /\ closing' = "unsubscribe"
    /\ UNCHANGED <<link, subscribed, known, attempts, timers, pending, gaveUp>>

Unsubscribed ==
    /\ closing = "unsubscribe" /\ link = "up"
    /\ closing' = "disconnect" /\ subscribed' = FALSE /\ known' = FALSE
    /\ UNCHANGED <<link, attempts, timers, pending, gaveUp>>

DisconnectedToReconnect ==
    /\ closing = "disconnect" /\ closing' = "done"
    /\ link' = "down" /\ subscribed' = FALSE
    /\ UNCHANGED <<known, attempts, timers, pending, gaveUp>>

Disconnected ==
    /\ closing = "disconnect" /\ closing' = "done"
    /\ link' = "ended" /\ subscribed' = FALSE
    /\ Reconnect(pending)
    /\ UNCHANGED known
----------------------------------------------------------------------------
\* The constructor has called _subscribe; the client is connecting.
LinkInit(held) ==
    /\ link = IF held THEN "down" ELSE "none"
    /\ pending = IF held THEN 1 ELSE 0
    /\ subscribed = FALSE /\ known = FALSE /\ attempts = 0 /\ timers = 0
    /\ closing = "no" /\ gaveUp = FALSE

LinkStep == Subscribe \/ Answered \/ Refused("ended") \/ Connects \/ Unsubscribed \/ Disconnected

LinkFault == Drops \/ ConnectFails \/ Refused("up")

LinkTypeOK ==
    /\ link \in {"none", "up", "down", "ended"}
    /\ subscribed \in BOOLEAN /\ known \in BOOLEAN /\ gaveUp \in BOOLEAN
    /\ attempts \in 0..MaxAttempts /\ timers \in Nat /\ pending \in Nat
    /\ closing \in {"no", "unsubscribe", "disconnect", "done"}

\* While QueueEvents is open it does not stay unsubscribed: the client repeats
\* what it knows when it connects, or a call or a timer of _reconnect is under
\* way, until so many attempts in a row failed that it gave up.
ComesBack ==
    link \in {"up", "down"} /\ closing = "no" /\ ~subscribed =>
        (link = "down" /\ known) \/ pending > 0 \/ timers > 0 \/ gaveUp

\* close() is final: neither the timer that the client's 'end' sets nor those
\* that were running subscribe again (queue-events.js:42, :49).
ClosedIsSilent == closing = "done" => ~subscribed /\ link = "ended"
=============================================================================
