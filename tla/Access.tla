------------------------------- MODULE Access -------------------------------
(***************************************************************************)
(* Who may use the dashboard server: the limiter of logins, the sessions,  *)
(* the sockets.                                                            *)
(*                                                                         *)
(* A login is stamped when its request arrives and counted when the script *)
(* runs, which may be later: the stamps of rateLimit.lua come from its     *)
(* callers, the expiry of its key from Redis.  The script is the one the   *)
(* workers use for the rate limit of a queue, and their clocks differ.     *)
(***************************************************************************)
EXTENDS Clock, Sequences, FiniteSets

CONSTANTS
    Browsers,       \* clients, all behind one address
    None,
    Duration,       \* window of the limiter: 60 s
    Limit,          \* 5 attempts
    Session,        \* life of a session: 24 h
    FixedSecret,    \* whether TAURUSMQ_JWT_SECRET is set
    Modes           \* values TAURUSMQ_AUTH_DISABLED may have

ASSUME AccessAssumption ==
    /\ Duration \in Nat \ {0} /\ Limit \in Nat \ {0} /\ Session \in Nat \ {0}
    /\ FixedSecret \in BOOLEAN /\ Modes \subseteq BOOLEAN
    /\ None \notin [secret : Nat, issued : Nat] \cup [from : Nat, after : Nat]

VARIABLES
    disabled,   \* TAURUSMQ_AUTH_DISABLED
    limiter,    \* the ZSET of the limiter and its expiry
    secret,     \* the JWT secret of the running process
    login,      \* the login each browser has under way
    cookie,     \* the token each browser holds
    sockets,    \* browsers whose socket is subscribed
    refusal     \* the last 429 each browser got

\* History: the attempts the script let through, in the order it ran; the
\* browsers whose last session ended by time, by logout or by a restart.
VARIABLES passed, ended

accessVars == <<disabled, limiter, secret, login, cookie, sockets, refusal, passed, ended>>

Idle == [at |-> "idle", stamp |-> 0]
NoKey == [entries |-> {}, until |-> 0]
----------------------------------------------------------------------------
(***************************************************************************)
(* rateLimit.lua.  An entry is an attempt: its stamp and its own name.     *)
(***************************************************************************)
Live(key) == IF key.until > now THEN key.entries ELSE {}

ClearedLate(key, stamp) == {e \in Live(key) : e.stamp >= stamp - Duration}

Cleared(key, stamp) == {e \in Live(key) : e.stamp > stamp - Duration}

Oldest(entries) == CHOOSE s \in {e.stamp : e \in entries} :
                       \A e \in entries : s <= e.stamp

AdmitsOneMore(key, stamp) == Cardinality(Cleared(key, stamp)) <= Limit

Admits(key, stamp) == Cardinality(Cleared(key, stamp)) < Limit

Admitted(key, stamp, id) ==
    [entries |-> Cleared(key, stamp) \cup {[stamp |-> stamp, id |-> id]},
     until |-> now + Duration]

WaitTime(key, stamp) ==
    LET w == Oldest(Cleared(key, stamp)) + Duration - stamp
    IN  IF w < 0 THEN 0 ELSE w
----------------------------------------------------------------------------
(***************************************************************************)
(* POST /api/auth/login, in the steps between which the process turns to   *)
(* other requests: the stamp, the script, the check of the password.       *)
(***************************************************************************)
Arrive(b) ==
    /\ login[b].at = "idle" /\ Event
    /\ login' = [login EXCEPT ![b] = [at |-> "stamped", stamp |-> now]]
    /\ UNCHANGED <<disabled, limiter, secret, cookie, sockets, refusal, passed, ended>>

Pass(b) ==
    LET s == login[b].stamp IN
    /\ login[b].at = "stamped" /\ Admits(limiter, s)
    /\ limiter' = Admitted(limiter, s, Len(passed))
    /\ passed' = Append(passed, [stamp |-> s, at |-> now])
    /\ login' = [login EXCEPT ![b].at = "checking"]
    /\ UNCHANGED <<now, events, disabled, secret, cookie, sockets, refusal, ended>>

Refuse(b) ==
    LET s == login[b].stamp IN
    /\ login[b].at = "stamped" /\ ~ Admits(limiter, s)
    /\ limiter' = [limiter EXCEPT !.entries = Cleared(limiter, s)]
    /\ refusal' = [refusal EXCEPT ![b] = [from |-> s + WaitTime(limiter, s),
                                          after |-> Len(passed)]]
    /\ login' = [login EXCEPT ![b] = Idle]
    /\ UNCHANGED <<now, events, disabled, secret, cookie, sockets, passed, ended>>

\* The script could not run: the attempt goes on uncounted.
LimiterFails(b) ==
    /\ login[b].at = "stamped" /\ Event
    /\ login' = [login EXCEPT ![b].at = "checking"]
    /\ UNCHANGED <<disabled, limiter, secret, cookie, sockets, refusal, passed, ended>>

WrongPassword(b) ==
    /\ login[b].at = "checking"
    /\ login' = [login EXCEPT ![b] = Idle]
    /\ UNCHANGED <<now, events, disabled, limiter, secret, cookie, sockets, refusal, passed, ended>>

Issue(b) ==
    /\ login[b].at = "checking"
    /\ cookie' = [cookie EXCEPT ![b] = [secret |-> secret, issued |-> now]]
    /\ login' = [login EXCEPT ![b] = Idle]
    /\ ended' = ended \ {b}
    /\ UNCHANGED <<now, events, disabled, limiter, secret, sockets, refusal, passed>>

Logout(b) ==
    /\ cookie[b] # None /\ Event
    /\ cookie' = [cookie EXCEPT ![b] = None]
    /\ ended' = ended \cup {b}
    /\ UNCHANGED <<disabled, limiter, secret, login, sockets, refusal, passed>>
----------------------------------------------------------------------------
(***************************************************************************)
(* What a request is answered.  A request is its method and whether it has *)
(* the headers of the dashboard; the socket is checked with a stand-in     *)
(* that has a cookie and no method.                                        *)
(***************************************************************************)
Held(b) == cookie[b] # None /\ now < cookie[b].issued + Session

Verified(b) == Held(b) /\ cookie[b].secret = secret

RequireAuth(b, method, headers) ==
    \/ disabled
    \/ /\ method \notin {"GET", "OPTIONS", "HEAD"} => headers
       /\ Verified(b)

Me(b) == disabled \/ Verified(b)

Upgrade(b) == RequireAuth(b, "undefined", FALSE)

Connect(b) ==
    /\ b \notin sockets /\ Event
    /\ Upgrade(b)
    /\ sockets' = sockets \cup {b}
    /\ UNCHANGED <<disabled, limiter, secret, login, cookie, refusal, passed, ended>>

Close(b) ==
    /\ b \in sockets /\ Event
    /\ sockets' = sockets \ {b}
    /\ UNCHANGED <<disabled, limiter, secret, login, cookie, refusal, passed, ended>>

\* SetupManager.setup of the new process: a secret of its own unless one is
\* set.  Requests under way and sockets go with the old one.
SameSecret == secret

NewSecret == IF FixedSecret \/ disabled THEN secret ELSE secret + 1

ServerRestarts ==
    /\ secret' = NewSecret
    /\ login' = [b \in Browsers |-> Idle] /\ sockets' = {}
    /\ ended' = ended \cup (IF FixedSecret \/ disabled THEN {} ELSE {b \in Browsers : cookie[b] # None})
    /\ UNCHANGED <<disabled, limiter, cookie, refusal, passed>>

AccessTimePasses ==
    /\ ended' = ended \cup {b \in Browsers : /\ cookie[b] # None
                                             /\ now' >= cookie[b].issued + Session}
    /\ UNCHANGED <<disabled, limiter, secret, login, cookie, sockets, refusal, passed>>

AccessInit ==
    /\ disabled \in Modes
    /\ limiter = NoKey /\ secret = 0
    /\ login = [b \in Browsers |-> Idle] /\ cookie = [b \in Browsers |-> None]
    /\ sockets = {} /\ refusal = [b \in Browsers |-> None]
    /\ passed = <<>> /\ ended = {}

AccessStep(b) ==
    \/ Arrive(b) \/ Pass(b) \/ Refuse(b) \/ LimiterFails(b)
    \/ WrongPassword(b) \/ Issue(b) \/ Logout(b)
    \/ Connect(b) \/ Close(b)

AccessTypeOK ==
    /\ limiter.entries \subseteq [stamp : 0..MaxTime, id : 0..Len(passed) - 1]
    /\ Cardinality(limiter.entries) <= Limit
    /\ secret \in 0..MaxEvents /\ sockets \subseteq Browsers /\ ended \subseteq Browsers
    /\ \A b \in Browsers :
           /\ login[b] \in [at : {"idle", "stamped", "checking"}, stamp : 0..MaxTime]
           /\ cookie[b] # None => cookie[b].secret <= secret /\ cookie[b].issued <= now
           /\ refusal[b] # None => refusal[b].after <= Len(passed)
----------------------------------------------------------------------------
(***************************************************************************)
(* Properties                                                              *)
(***************************************************************************)
\* An attempt counted at the time of its stamp finds in the limiter every
\* attempt that was let through in the window before it, in whatever order
\* the others were stamped and ran: there are never more than Limit of them
\* (rateLimit.lua:16, AuthMiddleware.js:93).  For an attempt counted later
\* than its stamp nothing of the kind holds: entries it should see may have
\* been cleared by a later stamp, or have gone with the key.
LoginsLimited ==
    \A i \in 1..Len(passed) :
        passed[i].at = passed[i].stamp =>
            Cardinality({k \in 1..i : passed[k].stamp > passed[i].stamp - Duration})
                <= Limit

\* Retry-After tells the truth: whoever waits it out is let in, unless others
\* were in between (AuthMiddleware.js:97).
RetryAfterSuffices ==
    \A b \in Browsers :
        /\ refusal[b] # None
        /\ refusal[b].after = Len(passed) /\ now >= refusal[b].from
        => Admits(limiter, now)

\* A browser that logged in and neither logged out nor outlived its session
\* nor saw the secret change gets an answer to every request the dashboard
\* makes, and one whose session ended gets none, and is told so by /me
\* (AuthMiddleware.js:147, :180).  No session opens a socket: what the server
\* hands to requireAuth for one lacks a method, so it is taken for a change
\* without the headers (server.js:1009).
SessionsHonoured ==
    ~ disabled =>
        \A b \in Browsers :
            LET open == cookie[b] # None /\ b \notin ended IN
            /\ RequireAuth(b, "GET", FALSE) <=> open
            /\ RequireAuth(b, "POST", TRUE) <=> open
            /\ Me(b) <=> open
            /\ b \notin sockets
=============================================================================
