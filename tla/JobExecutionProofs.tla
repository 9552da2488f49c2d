------------------------- MODULE JobExecutionProofs -------------------------
(***************************************************************************)
(* JobExecution keeps its types, loses no job outside the retry gap, and   *)
(* keeps every dead job retryable; and no job is run twice at once or has  *)
(* two outcomes, unless its lease ran out in a run's hands or a run that   *)
(* was over touched it; and it implements JobLifecycle.  For all sets of   *)
(* jobs, slots and clients, all priorities, retry budgets and retention    *)
(* caps.                                                                   *)
(***************************************************************************)
EXTENDS JobExecution, JobStoreProofs

\* The state of the runs and clients, and the history.
ExecType ==
    /\ pc \in [Slots -> Pcs]
    /\ held \in [Slots -> Handle \cup {None}]
    /\ next \in [Slots -> Handle \cup {None}]
    /\ renew \in [Slots -> Renewals]
    /\ \A s \in Slots : pc[s] # "idle" => held[s] # None
    /\ \A s \in Slots : renew[s] # "off" => held[s] # None
    /\ \A s \in Slots : next[s] # None => pc[s] = "finalized"

HistoryType ==
    /\ reading \in [Clients -> Jobs \cup {None}]
    /\ calls \in Nat /\ faults \in Nat
    /\ closed \subseteq Jobs /\ gapLost \subseteq Jobs /\ dlqLost \subseteq Jobs
    /\ lapsed \subseteq Jobs /\ disturbed \subseteq Jobs

LEMMA TypeParts == TypeOK <=> StoreTypeOK /\ ExecType /\ HistoryType
BY DEF TypeOK, ExecType, HistoryType

LEMMA HeldType ==
    ASSUME ExecType, NEW s \in Slots, pc[s] # "idle" \/ renew[s] # "off"
    PROVE  /\ held[s] \in Handle /\ held[s].job \in Jobs /\ held[s].rec \in JobRec
           /\ held[s] # None
BY DEF ExecType, Handle

LEMMA NextType ==
    ASSUME ExecType, NEW s \in Slots, next[s] # None
    PROVE  next[s] \in Handle /\ next[s].job \in Jobs
BY DEF ExecType, Handle

LEMMA NotNone == \A h \in Handle : h # None
BY NoneAssumption

\* The three ways a slot's own state moves.
LEMMA EndsType ==
    ASSUME ExecType, NEW s \in Slots, NEW r \in Renewals, Ends(s, r),
           r # "off" => renew[s] # "off"
    PROVE  ExecType'
<1>1. r # "off" => held[s] # None
    BY DEF ExecType
<1>2. /\ pc' \in [Slots -> Pcs] /\ renew' \in [Slots -> Renewals]
      /\ held' \in [Slots -> Handle \cup {None}]
      /\ next' \in [Slots -> Handle \cup {None}]
    BY DEF ExecType, Ends, Pcs
<1>3. ASSUME NEW t \in Slots
      PROVE  /\ pc'[t] # "idle" => held'[t] # None
             /\ renew'[t] # "off" => held'[t] # None
             /\ next'[t] # None => pc'[t] = "finalized"
  <2>1. CASE t = s
    BY <2>1, <1>1 DEF ExecType, Ends
  <2>2. CASE t # s
    BY <2>2 DEF ExecType, Ends
  <2> QED
    BY <2>1, <2>2
<1> QED
    BY <1>2, <1>3 DEF ExecType

LEMMA TimerType ==
    ASSUME ExecType, NEW s \in Slots
    PROVE  /\ TimerCleared(s) \in Renewals
           /\ TimerCleared(s) # "off" => renew[s] # "off"
BY DEF ExecType, TimerCleared, Renewals

\* The slot goes to another point of its run with the same object.
LEMMA MovesType ==
    ASSUME ExecType, NEW s \in Slots,
           NEW p \in Pcs, NEW h \in Handle, NEW r \in Renewals,
           NEW n \in Handle \cup {None}, n # None => p = "finalized",
           pc' = [pc EXCEPT ![s] = p], held' = [held EXCEPT ![s] = h],
           renew' = [renew EXCEPT ![s] = r], next' = [next EXCEPT ![s] = n]
    PROVE  ExecType'
<1>1. h # None
    BY NotNone
<1>2. /\ pc' \in [Slots -> Pcs] /\ renew' \in [Slots -> Renewals]
      /\ held' \in [Slots -> Handle \cup {None}]
      /\ next' \in [Slots -> Handle \cup {None}]
    BY DEF ExecType
<1>3. ASSUME NEW t \in Slots
      PROVE  /\ pc'[t] # "idle" => held'[t] # None
             /\ renew'[t] # "off" => held'[t] # None
             /\ next'[t] # None => pc'[t] = "finalized"
  <2>1. CASE t = s
    BY <2>1, <1>1 DEF ExecType
  <2>2. CASE t # s
    BY <2>2 DEF ExecType
  <2> QED
    BY <2>1, <2>2
<1> QED
    BY <1>2, <1>3 DEF ExecType
----------------------------------------------------------------------------
(***************************************************************************)
(* The invariant, and what must be shown of a step that keeps it: the jobs *)
(* still open were open before, or are on the queue now, none leaves the   *)
(* structures without an outcome, and none loses its vault entry.          *)
(***************************************************************************)
Inv == TypeOK /\ Accounted

LEMMA AccountedStep ==
    ASSUME Inv, closed' \subseteq Jobs,
           \A j \in Jobs \ closed' :
               /\ j \in closed => j \in OnQueue'
               /\ j \in gapLost => j \in gapLost'
               /\ j \notin closed /\ j \in OnQueue => j \in OnQueue' \/ Bridged(j)'
               /\ j \notin closed /\ Bridged(j) =>
                      j \in OnQueue' \/ j \in gapLost' \/ Bridged(j)'
               /\ j \in closed \/ Present(vault, j) => Present(vault', j)
    PROVE  Accounted'
BY DEF Inv, Accounted, Placed, OnQueue

\* A slot that is not in the gap moves: what the others hold is untouched.
LEMMA BridgesStay ==
    ASSUME ExecType, NEW s \in Slots, pc[s] # "gap",
           \A t \in Slots \ {s} : pc[t] = "gap" => pc'[t] = "gap" /\ held'[t] = held[t]
    PROVE  \A j \in Jobs : Bridged(j) => Bridged(j)'
BY DEF Bridged

LEMMA BridgesSame ==
    ASSUME UNCHANGED <<pc, held>>
    PROVE  \A j \in Jobs : Bridged(j) <=> Bridged(j)'
BY DEF Bridged

(***************************************************************************)
(* Producers and operators.                                                *)
(***************************************************************************)
LEMMA AddStep ==
    ASSUME Inv, NEW j \in Jobs, Add(j) \/ AddLater(j)
    PROVE  Inv'
<1>1. StoreTypeOK /\ ExecType /\ HistoryType
    BY TypeParts DEF Inv
<1>2. /\ StoreTypeOK' /\ OnQueue' = OnQueue \cup {j}
      /\ \A k \in Jobs : k = j \/ Present(vault, k) => Present(vault', k)
    BY <1>1, AddJobKeeps, AddDelayedKeeps DEF Add, AddLater
<1>3. /\ UNCHANGED <<execVars, reading, faults, gapLost, dlqLost, lapsed, disturbed>>
      /\ calls' = calls + 1 /\ closed' = closed \ {j}
    BY DEF Add, AddLater
<1>4. ExecType' /\ HistoryType'
    BY <1>1, <1>3 DEF ExecType, HistoryType, execVars
<1>5. \A k \in Jobs : Bridged(k) <=> Bridged(k)'
    BY <1>3, BridgesSame DEF execVars
<1>6. Accounted'
    BY <1>1, <1>2, <1>3, <1>5, AccountedStep DEF HistoryType
<1> QED
    BY <1>2, <1>4, <1>6, TypeParts DEF Inv, TypeOK, ExecType, HistoryType

LEMMA DrainStep ==
    ASSUME Inv, Drain
    PROVE  Inv'
<1>1. StoreTypeOK /\ ExecType /\ HistoryType
    BY TypeParts DEF Inv
<1>2. /\ StoreTypeOK'
      /\ OnQueue \subseteq OnQueue' \cup Queued \cup delayed
      /\ Queued \cup delayed \subseteq Jobs
      /\ \A k \in Jobs \ (Queued \cup delayed) :
            Present(vault, k) => Present(vault', k)
    BY <1>1, DrainKeeps DEF Drain
<1>3. /\ UNCHANGED <<execVars, reading, faults, gapLost, dlqLost, lapsed, disturbed>>
      /\ calls' = calls + 1 /\ closed' = closed \cup Queued \cup delayed
    BY DEF Drain
<1>4. ExecType' /\ HistoryType'
    BY <1>1, <1>2, <1>3 DEF ExecType, HistoryType, execVars
<1>5. \A k \in Jobs : Bridged(k) <=> Bridged(k)'
    BY <1>3, BridgesSame DEF execVars
<1>6. Accounted'
    BY <1>1, <1>2, <1>3, <1>4, <1>5, AccountedStep DEF HistoryType
<1> QED
    BY <1>2, <1>4, <1>6 DEF Inv, TypeOK, ExecType, HistoryType

LEMMA RetryStep ==
    ASSUME Inv, NEW c \in Clients, Retry(c)
    PROVE  Inv'
<1> DEFINE j == reading[c]
           rec == [status |-> "waiting", attempts |-> 0, picked |-> TRUE]
<1>1. StoreTypeOK /\ ExecType /\ HistoryType
    BY TypeParts DEF Inv
<1>2. j \in Jobs /\ rec \in JobRec /\ RetryScript(j, rec)
    BY <1>1 DEF Retry, HistoryType, JobRec, Statuses
<1>3. /\ StoreTypeOK' /\ OnQueue \cup {j} \subseteq OnQueue'
      /\ \A k \in Jobs : k = j \/ Present(vault, k) => Present(vault', k)
  <2> HIDE DEF j, rec
  <2> QED
    BY <1>1, <1>2, RetryKeeps
<1>4. /\ UNCHANGED <<execVars, calls, faults, gapLost, dlqLost, lapsed>>
      /\ closed' = closed \ {j} /\ disturbed' \subseteq disturbed \cup {j}
      /\ reading' = [reading EXCEPT ![c] = None]
    BY DEF Retry
<1> HIDE DEF j
<1>5. ExecType' /\ HistoryType'
    BY <1>1, <1>2, <1>4 DEF ExecType, HistoryType, execVars
<1>6. \A k \in Jobs : Bridged(k) <=> Bridged(k)'
    BY <1>4, BridgesSame DEF execVars
<1>7. Accounted'
    BY <1>1, <1>2, <1>3, <1>4, <1>6, AccountedStep DEF HistoryType
<1> QED
    BY <1>3, <1>5, <1>7 DEF Inv, TypeOK, ExecType, HistoryType

(***************************************************************************)
(* Steps that change neither the structures nor the runs' points.          *)
(***************************************************************************)
LEMMA QuietStep ==
    ASSUME Inv,
           \/ \E c \in Clients, j \in Jobs : RetryRead(c, j)
           \/ \E s \in Slots : RenewHset(s) \/ RenewReply(s) \/ UpdateProgress(s)
           \/ \E j \in Jobs : Due(j) \/ LeaseExpires(j)
           \/ UNCHANGED vars
    PROVE  Inv'
<1>1. StoreTypeOK /\ ExecType /\ HistoryType
    BY TypeParts DEF Inv
<1>2. UNCHANGED <<waiting, prioritized, active, delayed, pc, held, closed, gapLost>>
    BY DEF RetryRead, RenewHset, RenewReply, UpdateProgress, Due, LeaseExpires,
           TimeComes, LeaseRunsOut, vars, storeVars, execVars, history
<1>3. /\ StoreTypeOK'
      /\ \A k \in Jobs : Present(vault, k) => Present(vault', k)
  <2>1. CASE \E s \in Slots : RenewHset(s) \/ UpdateProgress(s)
    <3>1. PICK s \in Slots : RenewHset(s) \/ UpdateProgress(s)
      BY <2>1
    <3>2. held[s].job \in Jobs /\ held[s].rec \in JobRec
      BY <1>1, <3>1, HeldType DEF RenewHset, UpdateProgress
    <3>3. held[s].rec # Absent
      BY <3>2 DEF JobRec, Statuses, Absent
    <3>4. /\ vault' = [vault EXCEPT ![held[s].job] = held[s].rec]
          /\ UNCHANGED <<waiting, prioritized, active, expired, delayed, due,
                         completed, failed, dlq>>
      BY <3>1 DEF RenewHset, UpdateProgress
    <3> QED
      BY <1>1, <3>2, <3>3, <3>4 DEF StoreTypeOK, Present
  <2>2. CASE \/ \E c \in Clients, j \in Jobs : RetryRead(c, j)
             \/ \E s \in Slots : RenewReply(s)
             \/ UNCHANGED vars
    <3>1. UNCHANGED storeVars
      BY <2>2 DEF RetryRead, RenewReply, vars
    <3> QED
      BY <1>1, <3>1 DEF StoreTypeOK, storeVars, Present
  <2>3. CASE \E j \in Jobs : Due(j) \/ LeaseExpires(j)
    BY <1>1, <2>3 DEF Due, LeaseExpires, TimeComes, LeaseRunsOut, StoreTypeOK, Present
  <2> QED
    BY <2>1, <2>2, <2>3
<1>4. ExecType'
  <2>1. CASE \E s \in Slots : RenewHset(s) \/ RenewReply(s)
    BY <1>1, <2>1 DEF RenewHset, RenewReply, ExecType, Renewals
  <2>2. CASE ~ \E s \in Slots : RenewHset(s) \/ RenewReply(s)
    <3>1. UNCHANGED execVars
      BY <2>2 DEF RetryRead, UpdateProgress, Due, LeaseExpires, vars
    <3> QED
      BY <1>1, <3>1 DEF ExecType, execVars
  <2> QED
    BY <2>1, <2>2
<1>5. HistoryType'
  <2>1. CASE \E s \in Slots : RenewHset(s)
    <3>1. PICK s \in Slots : RenewHset(s)
      BY <2>1
    <3>2. held[s].job \in Jobs
      BY <1>1, <3>1, HeldType DEF RenewHset
    <3> QED
      BY <1>1, <3>1, <3>2 DEF RenewHset, HistoryType
  <2>2. CASE \E c \in Clients, j \in Jobs : RetryRead(c, j)
    BY <1>1, <2>2 DEF RetryRead, HistoryType, history
  <2>3. CASE \E j \in Jobs : Due(j) \/ LeaseExpires(j)
    BY <1>1, <2>3 DEF Due, LeaseExpires, HistoryType, history
  <2>4. CASE (\E s \in Slots : RenewReply(s) \/ UpdateProgress(s)) \/ UNCHANGED vars
    BY <1>1, <2>4 DEF RenewReply, UpdateProgress, vars, HistoryType, history
  <2> QED
    BY <2>1, <2>2, <2>3, <2>4
<1>6. \A k \in Jobs : Bridged(k) <=> Bridged(k)'
    BY <1>2, BridgesSame
<1>7. OnQueue' = OnQueue
    BY <1>2 DEF OnQueue, Queued
<1>8. Accounted'
    BY <1>1, <1>2, <1>3, <1>6, <1>7, AccountedStep DEF HistoryType
<1> QED
    BY <1>3, <1>4, <1>5, <1>8 DEF Inv, TypeOK, ExecType, HistoryType

LEMMA RenewZaddStep ==
    ASSUME Inv, NEW s \in Slots, RenewZadd(s)
    PROVE  Inv'
<1>1. StoreTypeOK /\ ExecType /\ HistoryType
    BY TypeParts DEF Inv
<1>2. held[s].job \in Jobs
    BY <1>1, HeldType DEF RenewZadd
<1>3. StoreTypeOK' /\ OnQueue \subseteq OnQueue' /\ UNCHANGED vault
    BY <1>1, <1>2 DEF RenewZadd, StoreTypeOK, OnQueue, Queued
<1>4. ExecType' /\ HistoryType' /\ UNCHANGED <<pc, held, closed, gapLost>>
    BY <1>1 DEF RenewZadd, ExecType, HistoryType, Renewals, history
<1>5. \A k \in Jobs : Bridged(k) <=> Bridged(k)'
    BY <1>4, BridgesSame
<1>6. Accounted'
    BY <1>1, <1>3, <1>4, <1>5, AccountedStep DEF HistoryType, Present
<1> QED
    BY <1>3, <1>4, <1>6 DEF Inv, TypeOK, ExecType, HistoryType

(***************************************************************************)
(* The fetcher.  An id whose record is gone leaves the queue for good, but *)
(* the invariant says that such a job is closed.                           *)
(***************************************************************************)
LEMMA FetchStep ==
    ASSUME Inv, NEW s \in Slots, NEW j \in Jobs, Fetch(s, j)
    PROVE  Inv'
<1>1. StoreTypeOK /\ ExecType /\ HistoryType
    BY TypeParts DEF Inv
<1>2. /\ StoreTypeOK'
      /\ OnQueue \subseteq OnQueue' \cup {j}
      /\ Present(vault, j) => j \in OnQueue' /\ vault'[j] \in JobRec
      /\ \A k \in Jobs : Present(vault, k) => Present(vault', k)
    BY <1>1, DequeueKeeps DEF Fetch
<1>3. UNCHANGED <<next, reading, calls, faults, history>>
    BY DEF Fetch
<1>4. HistoryType'
    BY <1>1, <1>3 DEF HistoryType, history
<1>5. ExecType'
  <2>1. CASE Present(vault, j)
    <3> DEFINE h == [job |-> j, rec |-> vault'[j]]
    <3>1. h \in Handle
      BY <1>2, <2>1 DEF Handle
    <3>2. /\ pc' = [pc EXCEPT ![s] = "running"]
          /\ held' = [held EXCEPT ![s] = h]
          /\ renew' = [renew EXCEPT ![s] = "armed"]
      BY <2>1 DEF Fetch
    <3>3. /\ next[s] = None /\ next' = [next EXCEPT ![s] = None]
          /\ "running" \in Pcs /\ "armed" \in Renewals
      BY <1>1, <1>3 DEF Fetch, Free, ExecType, Pcs, Renewals
    <3> HIDE DEF h
    <3> QED
      BY <1>1, <3>1, <3>2, <3>3, MovesType
  <2>2. CASE ~Present(vault, j)
    BY <1>1, <1>3, <2>2 DEF Fetch, ExecType
  <2> QED
    BY <2>1, <2>2
<1>6. \A k \in Jobs : Bridged(k) => Bridged(k)'
    BY <1>1, BridgesStay DEF Fetch, Free, ExecType
<1>7. Accounted'
    BY <1>1, <1>2, <1>3, <1>6, AccountedStep DEF HistoryType, history, Inv, Accounted
<1> QED
    BY <1>2, <1>4, <1>5, <1>7 DEF Inv, TypeOK, ExecType, HistoryType

(***************************************************************************)
(* The end of a run that succeeded.  What retention evicts is closed.      *)
(***************************************************************************)
LEMMA StatusType ==
    ASSUME ExecType, NEW s \in Slots, pc[s] # "idle", NEW st \in Statuses
    PROVE  /\ [held EXCEPT ![s].rec.status = st]
                  = [held EXCEPT ![s] = [held[s] EXCEPT !.rec.status = st]]
           /\ [held[s] EXCEPT !.rec.status = st] \in Handle
<1>1. held[s] \in Handle
    BY HeldType
<1> QED
    BY <1>1 DEF Handle, JobRec

LEMMA FinalizedType ==
    ASSUME ExecType, HistoryType, NEW s \in Slots, pc[s] = "running",
           NEW E \in SUBSET Jobs, NEW n \in Handle \cup {None}, Finalized(s, E, n)
    PROVE  /\ ExecType' /\ HistoryType' /\ UNCHANGED gapLost
           /\ closed' = closed \cup {held[s].job} \cup E
           /\ \A k \in Jobs : Bridged(k) => Bridged(k)'
<1> DEFINE h == [held[s] EXCEPT !.rec.status = "completed"]
<1>1. h \in Handle /\ held' = [held EXCEPT ![s] = h]
    BY StatusType DEF Finalized, Statuses
<1>2. /\ pc' = [pc EXCEPT ![s] = "finalized"]
      /\ next' = [next EXCEPT ![s] = n]
      /\ renew' = [renew EXCEPT ![s] = renew[s]]
      /\ renew[s] \in Renewals /\ "finalized" \in Pcs
    BY DEF Finalized, ExecType, Pcs
<1> HIDE DEF h
<1>3. ExecType'
    BY <1>1, <1>2, MovesType
<1>4. held[s].job \in Jobs
    BY HeldType
<1>5. /\ closed' = closed \cup {held[s].job} \cup E
      /\ UNCHANGED <<renew, reading, calls, faults, gapLost, dlqLost, lapsed, disturbed>>
    BY DEF Finalized
<1>6. HistoryType'
    BY <1>4, <1>5 DEF HistoryType
<1>7. \A k \in Jobs : Bridged(k) => Bridged(k)'
    BY <1>1, <1>2, BridgesStay DEF ExecType
<1> QED
    BY <1>3, <1>5, <1>6, <1>7

LEMMA FinalizeStep ==
    ASSUME Inv, NEW s \in Slots, Finalize(s)
    PROVE  Inv'
<1>1. StoreTypeOK /\ ExecType /\ HistoryType
    BY TypeParts DEF Inv
<1>2. PICK E \in SUBSET Jobs : /\ FinalizeScript(held[s].job, "completed", E)
                               /\ Finalized(s, E, None)
    BY DEF Finalize
<1>3. held[s].job \in Jobs
    BY <1>1, HeldType DEF Finalize
<1>4. /\ StoreTypeOK' /\ OnQueue \subseteq OnQueue' \cup {held[s].job}
      /\ \A k \in Jobs \ E : Present(vault, k) => Present(vault', k)
    BY <1>1, <1>2, <1>3, FinalizeKeeps
<1>5. /\ ExecType' /\ HistoryType' /\ UNCHANGED gapLost
      /\ closed' = closed \cup {held[s].job} \cup E
      /\ \A k \in Jobs : Bridged(k) => Bridged(k)'
    BY <1>1, <1>2, FinalizedType DEF Finalize
<1>6. Accounted'
    BY <1>1, <1>3, <1>4, <1>5, AccountedStep DEF HistoryType
<1> QED
    BY <1>4, <1>5, <1>6 DEF Inv, TypeOK, ExecType, HistoryType

LEMMA FinalizeAndFetchStep ==
    ASSUME Inv, NEW s \in Slots, FinalizeAndFetch(s)
    PROVE  Inv'
<1>1. StoreTypeOK /\ ExecType /\ HistoryType
    BY TypeParts DEF Inv
<1> DEFINE job == held[s].job
           f(E) == FinalVault(job, "completed", E)
           n(E, k) == IF Present(f(E), k) THEN [job |-> k, rec |-> vault'[k]] ELSE None
<1>2. PICK E \in SUBSET Jobs, k \in Jobs :
            /\ FinalizeFetchScript(job, "completed", E, k)
            /\ Finalized(s, E, n(E, k))
    BY DEF FinalizeAndFetch
<1>3. job \in Jobs /\ pc[s] = "running"
    BY <1>1, HeldType DEF FinalizeAndFetch
<1>4. /\ StoreTypeOK' /\ OnQueue \subseteq OnQueue' \cup {job, k}
      /\ Present(f(E), k) => k \in OnQueue' /\ vault'[k] \in JobRec
      /\ \A i \in Jobs \ E : Present(vault, i) => Present(vault', i)
  <2> HIDE DEF job
  <2> QED
    BY <1>1, <1>2, <1>3, FinalizeFetchKeeps
<1>5. Present(vault, k) /\ k \notin E => Present(f(E), k)
  <2> HIDE DEF job
  <2> QED
    BY <1>1, <1>3, FinalVaultType DEF StoreTypeOK, VaultType
<1>6. n(E, k) \in Handle \cup {None}
    BY <1>4 DEF Handle
<1>7. /\ ExecType' /\ HistoryType' /\ UNCHANGED gapLost
      /\ closed' = closed \cup {job} \cup E
      /\ \A i \in Jobs : Bridged(i) => Bridged(i)'
  <2> HIDE DEF n
  <2> QED
    BY <1>1, <1>2, <1>3, <1>6, FinalizedType
<1> HIDE DEF job, f, n
<1>8. Accounted'
    BY <1>1, <1>3, <1>4, <1>5, <1>7, AccountedStep DEF HistoryType, Inv, Accounted
<1> QED
    BY <1>4, <1>7, <1>8 DEF Inv, TypeOK, ExecType, HistoryType

LEMMA CompletedType ==
    ASSUME ExecType, NEW s \in Slots, Completed(s)
    PROVE  ExecType' /\ \A k \in Jobs : Bridged(k) => Bridged(k)'
<1>1. pc[s] = "finalized" /\ held[s] \in Handle /\ "running" \in Pcs
    BY HeldType DEF Completed, Pcs
<1>2. CASE next[s] = None /\ Ends(s, TimerCleared(s))
  <2>1. ExecType'
    BY <1>2, TimerType, EndsType
  <2> QED
    BY <1>1, <1>2, <2>1, BridgesStay DEF Ends, ExecType
<1>3. CASE /\ next[s] # None
           /\ pc' = [pc EXCEPT ![s] = "running"]
           /\ held' = [held EXCEPT ![s] = next[s]]
           /\ renew' = [renew EXCEPT ![s] = "armed"]
           /\ next' = [next EXCEPT ![s] = None]
  <2>1. next[s] \in Handle /\ "armed" \in Renewals
    BY <1>3, NextType DEF Renewals
  <2>2. ExecType'
    BY <1>1, <1>3, <2>1, MovesType
  <2> QED
    BY <1>1, <1>3, <2>2, BridgesStay DEF ExecType
<1>4. ASSUME next[s] # None, NEW t \in Slots \ {s}, Free(t),
             pc' = [pc EXCEPT ![s] = "idle", ![t] = "running"],
             renew' = [renew EXCEPT ![s] = TimerCleared(s), ![t] = "armed"],
             held' = [held EXCEPT ![t] = next[s],
                         ![s] = IF TimerCleared(s) = "off" THEN None ELSE @],
             next' = [next EXCEPT ![s] = None]
      PROVE  ExecType' /\ \A k \in Jobs : Bridged(k) => Bridged(k)'
  <2>1. /\ next[s] \in Handle /\ next[s] # None
        /\ "armed" \in Renewals /\ "idle" \in Pcs
        /\ TimerCleared(s) \in Renewals
    BY <1>4, NextType, TimerType DEF Renewals, Pcs
  <2>2. /\ pc' \in [Slots -> Pcs] /\ renew' \in [Slots -> Renewals]
        /\ held' \in [Slots -> Handle \cup {None}]
        /\ next' \in [Slots -> Handle \cup {None}]
    BY <1>1, <1>4, <2>1 DEF ExecType
  <2>3. next[t] = None
    BY <1>4 DEF ExecType, Free
  <2>4. held[s] # None
    BY <1>1, NotNone
  <2>5. ASSUME NEW u \in Slots
        PROVE  /\ pc'[u] # "idle" => held'[u] # None
               /\ renew'[u] # "off" => held'[u] # None
               /\ next'[u] # None => pc'[u] = "finalized"
    <3>1. CASE u = s
      BY <1>4, <2>4, <3>1 DEF ExecType
    <3>2. CASE u = t
      BY <1>4, <2>1, <2>3, <3>2 DEF ExecType
    <3>3. CASE u # s /\ u # t
      BY <1>4, <3>3 DEF ExecType
    <3> QED
      BY <3>1, <3>2, <3>3
  <2>6. ExecType'
    BY <2>2, <2>5 DEF ExecType
  <2>7. \A u \in Slots : pc[u] = "gap" => pc'[u] = "gap" /\ held'[u] = held[u]
    BY <1>1, <1>4 DEF ExecType, Free
  <2> QED
    BY <2>6, <2>7 DEF Bridged
<1> QED
    BY <1>2, <1>3, <1>4 DEF Completed

LEMMA CompletedStep ==
    ASSUME Inv, NEW s \in Slots, Completed(s)
    PROVE  Inv'
<1>1. StoreTypeOK /\ ExecType /\ HistoryType
    BY TypeParts DEF Inv
<1>2. UNCHANGED <<storeVars, reading, calls, faults, history>>
    BY DEF Completed
<1>3. StoreTypeOK' /\ HistoryType' /\ OnQueue' = OnQueue
    BY <1>1, <1>2 DEF StoreTypeOK, storeVars, HistoryType, history, OnQueue, Queued
<1>4. ExecType' /\ \A k \in Jobs : Bridged(k) => Bridged(k)'
    BY <1>1, CompletedType
<1>5. Accounted'
    BY <1>1, <1>2, <1>3, <1>4, AccountedStep
       DEF HistoryType, history, storeVars, Present
<1> QED
    BY <1>3, <1>4, <1>5 DEF Inv, TypeOK, ExecType, HistoryType

(***************************************************************************)
(* The end of a run that failed.                                           *)
(***************************************************************************)
LEMMA FailRetryStep ==
    ASSUME Inv, NEW s \in Slots, FailRetry(s)
    PROVE  Inv'
<1>1. StoreTypeOK /\ ExecType /\ HistoryType
    BY TypeParts DEF Inv
<1> DEFINE j == held[s].job
           r == [held[s].rec EXCEPT !.status = "retrying"]
<1>2. held[s] \in Handle /\ j \in Jobs /\ held[s].rec \in JobRec
    BY <1>1, HeldType DEF FailRetry, Caught
<1>3. r \in JobRec /\ r # Absent
    BY <1>2 DEF JobRec, Statuses, Absent
<1>4. /\ vault' = [vault EXCEPT ![j] = r]
      /\ UNCHANGED <<waiting, prioritized, active, expired, delayed, due,
                     completed, failed, dlq>>
      /\ UNCHANGED <<held, reading, calls, faults, closed, gapLost, dlqLost, lapsed>>
      /\ disturbed' \subseteq disturbed \cup {j}
    BY DEF FailRetry
<1>5. /\ pc' = [pc EXCEPT ![s] = "parked"] /\ pc[s] # "gap"
      /\ renew' = [renew EXCEPT ![s] = TimerCleared(s)]
      /\ next' = [next EXCEPT ![s] = None]
      /\ held' = [held EXCEPT ![s] = held[s]]
      /\ "parked" \in Pcs
    BY <1>1, <1>4 DEF FailRetry, Caught, Pcs, ExecType
<1> HIDE DEF j, r
<1>6. /\ StoreTypeOK' /\ OnQueue' = OnQueue
      /\ \A k \in Jobs : Present(vault, k) => Present(vault', k)
    BY <1>1, <1>2, <1>3, <1>4 DEF StoreTypeOK, OnQueue, Queued, Present
<1>7. ExecType'
    BY <1>1, <1>2, <1>5, TimerType, MovesType
<1>8. HistoryType'
    BY <1>1, <1>2, <1>4 DEF HistoryType
<1>9. \A k \in Jobs : Bridged(k) => Bridged(k)'
    BY <1>1, <1>4, <1>5, BridgesStay DEF ExecType
<1>10. Accounted'
    BY <1>1, <1>4, <1>6, <1>9, AccountedStep DEF HistoryType
<1> QED
    BY <1>6, <1>7, <1>8, <1>10 DEF Inv, TypeOK, ExecType, HistoryType

\* The job leaves the structures: from here the run is what bridges it.
LEMMA RetryZremStep ==
    ASSUME Inv, NEW s \in Slots, RetryZrem(s)
    PROVE  Inv'
<1>1. StoreTypeOK /\ ExecType /\ HistoryType
    BY TypeParts DEF Inv
<1> DEFINE j == held[s].job
<1>2. held[s] \in Handle /\ j \in Jobs
    BY <1>1, HeldType DEF RetryZrem
<1>3. /\ active' = active \ {j} /\ expired' = expired \ {j}
      /\ pc[s] = "parked" /\ pc' = [pc EXCEPT ![s] = "gap"]
      /\ UNCHANGED <<vault, waiting, prioritized, delayed, due,
                     completed, failed, dlq>>
      /\ UNCHANGED <<held, next, renew, reading, calls, faults, history>>
    BY DEF RetryZrem
<1>4. /\ held' = [held EXCEPT ![s] = held[s]]
      /\ renew' = [renew EXCEPT ![s] = renew[s]] /\ renew[s] \in Renewals
      /\ next' = [next EXCEPT ![s] = None] /\ "gap" \in Pcs
    BY <1>1, <1>3 DEF ExecType, Pcs
<1>5. StoreTypeOK' /\ OnQueue \subseteq OnQueue' \cup {j}
    BY <1>1, <1>3 DEF StoreTypeOK, OnQueue, Queued
<1>6. ExecType'
    BY <1>1, <1>2, <1>3, <1>4, MovesType
<1>7. HistoryType'
    BY <1>1, <1>3 DEF HistoryType, history
<1>8. \A k \in Jobs : Bridged(k) => Bridged(k)'
    BY <1>1, <1>3, BridgesStay DEF ExecType
<1>9. Bridged(j)'
    BY <1>1, <1>3 DEF Bridged, ExecType
<1>10. Accounted'
    BY <1>1, <1>3, <1>5, <1>8, <1>9, AccountedStep DEF HistoryType, history, Present
<1> QED
    BY <1>5, <1>6, <1>7, <1>10 DEF Inv, TypeOK, ExecType, HistoryType

\* The slot leaves the gap; only its own job loses the bridge.
LEMMA BridgeLeft ==
    ASSUME ExecType, NEW s \in Slots, NEW r \in Renewals, Ends(s, r)
    PROVE  \A k \in Jobs : Bridged(k) => Bridged(k)' \/ (pc[s] = "gap" /\ k = held[s].job)
<1> SUFFICES ASSUME NEW k \in Jobs, NEW t \in Slots, pc[t] = "gap", held[t].job = k
             PROVE  Bridged(k)' \/ (pc[s] = "gap" /\ k = held[s].job)
    BY DEF Bridged
<1>1. CASE t # s
  <2>1. pc'[t] = "gap" /\ held'[t] = held[t]
    BY <1>1 DEF Ends, ExecType
  <2> QED
    BY <2>1 DEF Bridged
<1> QED
    BY <1>1

LEMMA RetrySignalStep ==
    ASSUME Inv, NEW s \in Slots, RetrySignal(s)
    PROVE  Inv'
<1>1. StoreTypeOK /\ ExecType /\ HistoryType
    BY TypeParts DEF Inv
<1> DEFINE j == held[s].job
<1>2. j \in Jobs /\ renew[s] \in Renewals
    BY <1>1, HeldType DEF RetrySignal, ExecType
<1>3. SignalScript(j) /\ Ends(s, renew[s])
      /\ UNCHANGED <<reading, calls, faults, history>>
    BY DEF RetrySignal
<1>4. \A k \in Jobs : Bridged(k) => Bridged(k)' \/ k = j
    BY <1>1, <1>2, <1>3, BridgeLeft
<1>5. ExecType' /\ HistoryType'
    BY <1>1, <1>2, <1>3, EndsType DEF HistoryType, history
<1> HIDE DEF j
<1>6. /\ StoreTypeOK' /\ OnQueue' = OnQueue \cup {j}
      /\ \A k \in Jobs : Present(vault, k) => Present(vault', k)
    BY <1>1, <1>2, <1>3, SignalKeeps
<1>7. Accounted'
    BY <1>1, <1>3, <1>4, <1>6, AccountedStep DEF HistoryType, history
<1> QED
    BY <1>5, <1>6, <1>7 DEF Inv, TypeOK, ExecType, HistoryType

LEMMA FailDeadStep ==
    ASSUME Inv, NEW s \in Slots, FailDead(s)
    PROVE  Inv'
<1>1. StoreTypeOK /\ ExecType /\ HistoryType
    BY TypeParts DEF Inv
<1> DEFINE j == held[s].job
           h == [held[s] EXCEPT !.rec.status = "dead"]
<1>2. PICK E \in SUBSET Jobs : /\ FinalizeScript(j, "dead", E)
                               /\ closed' = closed \cup {j} \cup E
    BY DEF FailDead
<1>3. j \in Jobs /\ pc[s] # "idle" /\ pc[s] # "gap"
    BY <1>1, HeldType DEF FailDead, Caught
<1>4. h \in Handle /\ held' = [held EXCEPT ![s] = h]
    BY <1>1, <1>3, StatusType DEF FailDead, Statuses
<1>5. /\ pc' = [pc EXCEPT ![s] = "dead"] /\ "dead" \in Pcs
      /\ renew' = [renew EXCEPT ![s] = TimerCleared(s)]
      /\ next' = [next EXCEPT ![s] = None]
      /\ disturbed' \subseteq disturbed \cup {j}
      /\ UNCHANGED <<reading, calls, faults, gapLost, dlqLost, lapsed>>
    BY DEF FailDead, Pcs
<1> HIDE DEF j, h
<1>6. /\ StoreTypeOK' /\ OnQueue \subseteq OnQueue' \cup {j}
      /\ \A k \in Jobs \ E : Present(vault, k) => Present(vault', k)
    BY <1>1, <1>2, <1>3, FinalizeKeeps
<1>7. ExecType'
    BY <1>1, <1>4, <1>5, TimerType, MovesType
<1>8. HistoryType'
    BY <1>1, <1>2, <1>3, <1>5 DEF HistoryType
<1>9. \A k \in Jobs : Bridged(k) => Bridged(k)'
    BY <1>1, <1>3, <1>4, <1>5, BridgesStay DEF ExecType
<1>10. Accounted'
    BY <1>1, <1>2, <1>5, <1>6, <1>8, <1>9, AccountedStep DEF HistoryType
<1> QED
    BY <1>6, <1>7, <1>8, <1>10 DEF Inv, TypeOK, ExecType, HistoryType

LEMMA WriteDlqStep ==
    ASSUME Inv, NEW s \in Slots, WriteDlq(s)
    PROVE  Inv'
<1>1. StoreTypeOK /\ ExecType /\ HistoryType
    BY TypeParts DEF Inv
<1>2. held[s].job \in Jobs /\ renew[s] \in Renewals /\ pc[s] # "gap"
    BY <1>1, HeldType DEF WriteDlq, ExecType
<1>3. /\ Ends(s, renew[s])
      /\ dlq' = dlq \cup {held[s].job}
      /\ UNCHANGED <<vault, waiting, prioritized, active, expired, delayed, due,
                     completed, failed, reading, calls, faults, history>>
    BY DEF WriteDlq
<1>4. StoreTypeOK' /\ OnQueue' = OnQueue
    BY <1>1, <1>2, <1>3 DEF StoreTypeOK, OnQueue, Queued
<1>5. ExecType' /\ HistoryType'
    BY <1>1, <1>2, <1>3, EndsType DEF HistoryType, history
<1>6. \A k \in Jobs : Bridged(k) => Bridged(k)'
    BY <1>1, <1>2, <1>3, BridgeLeft
<1>7. Accounted'
    BY <1>1, <1>3, <1>4, <1>6, AccountedStep DEF HistoryType, history, Present
<1> QED
    BY <1>4, <1>5, <1>7 DEF Inv, TypeOK, ExecType, HistoryType

(***************************************************************************)
(* The scheduler's loops and crashes.                                      *)
(***************************************************************************)
LEMMA PromoteStep ==
    ASSUME Inv, Promote
    PROVE  Inv'
<1>1. StoreTypeOK /\ ExecType /\ HistoryType
    BY TypeParts DEF Inv
<1>2. /\ StoreTypeOK' /\ OnQueue' = OnQueue
      /\ \A k \in Jobs : Present(vault, k) => Present(vault', k)
    BY <1>1, PromoteKeeps DEF Promote
<1>3. UNCHANGED <<execVars, reading, calls, faults, history>>
    BY DEF Promote
<1>4. ExecType' /\ HistoryType'
    BY <1>1, <1>3 DEF ExecType, HistoryType, execVars, history
<1>5. \A k \in Jobs : Bridged(k) <=> Bridged(k)'
    BY <1>3, BridgesSame DEF execVars
<1>6. Accounted'
    BY <1>1, <1>2, <1>3, <1>5, AccountedStep DEF HistoryType, history
<1> QED
    BY <1>2, <1>4, <1>6 DEF Inv, TypeOK, ExecType, HistoryType

LEMMA RecoverStalledStep ==
    ASSUME Inv, RecoverStalled
    PROVE  Inv'
<1>1. StoreTypeOK /\ ExecType /\ HistoryType
    BY TypeParts DEF Inv
<1>2. /\ StoreTypeOK' /\ StalledDead \subseteq Jobs
      /\ OnQueue \subseteq OnQueue' \cup StalledDead
                                    \cup {j \in Jobs : ~Present(vault, j)}
      /\ \A k \in Jobs : Present(vault, k) => Present(vault', k)
    BY <1>1, RecoverKeeps DEF RecoverStalled
<1>3. /\ closed' = closed \cup StalledDead
      /\ UNCHANGED <<execVars, reading, calls, faults, gapLost, dlqLost, lapsed, disturbed>>
    BY DEF RecoverStalled
<1>4. ExecType' /\ HistoryType'
    BY <1>1, <1>2, <1>3 DEF ExecType, HistoryType, execVars
<1>5. \A k \in Jobs : Bridged(k) <=> Bridged(k)'
    BY <1>3, BridgesSame DEF execVars
<1>6. \A j \in Jobs \ closed : Present(vault, j)
    BY DEF Inv, Accounted
<1>7. Accounted'
    BY <1>1, <1>2, <1>3, <1>4, <1>5, <1>6, AccountedStep DEF HistoryType
<1> QED
    BY <1>2, <1>4, <1>7 DEF Inv, TypeOK, ExecType, HistoryType

LEMMA CrashStep ==
    ASSUME Inv, NEW s \in Slots, Crash(s)
    PROVE  Inv'
<1>1. StoreTypeOK /\ ExecType /\ HistoryType
    BY TypeParts DEF Inv
<1>2. held[s].job \in Jobs /\ "off" \in Renewals
    BY <1>1, HeldType DEF Crash, Free, Renewals
<1>3. /\ Ends(s, "off") /\ faults' = faults + 1
      /\ gapLost' = IF pc[s] = "gap" THEN gapLost \cup {held[s].job} ELSE gapLost
      /\ dlqLost' \subseteq dlqLost \cup {held[s].job}
      /\ UNCHANGED <<storeVars, reading, calls, closed, lapsed, disturbed>>
    BY DEF Crash
<1>4. StoreTypeOK' /\ OnQueue' = OnQueue
    BY <1>1, <1>3 DEF StoreTypeOK, storeVars, OnQueue, Queued
<1>5. ExecType'
    BY <1>1, <1>2, <1>3, EndsType
<1>6. HistoryType'
    BY <1>1, <1>2, <1>3 DEF HistoryType
<1>7. \A k \in Jobs : Bridged(k) => Bridged(k)' \/ (pc[s] = "gap" /\ k = held[s].job)
    BY <1>1, <1>2, <1>3, BridgeLeft
<1>8. Accounted'
    BY <1>1, <1>3, <1>4, <1>7, AccountedStep DEF HistoryType, storeVars, Present
<1> QED
    BY <1>4, <1>5, <1>6, <1>8 DEF Inv, TypeOK, ExecType, HistoryType
----------------------------------------------------------------------------
LEMMA InvInit == Init => Inv
<1> SUFFICES ASSUME Init PROVE Inv
    OBVIOUS
<1>1. StoreTypeOK
    BY DEF Init, StoreInit, StoreTypeOK
<1>2. ExecType
    BY DEF Init, ExecType, Pcs, Renewals
<1>3. HistoryType
    BY DEF Init, HistoryType
<1>4. Accounted
    BY DEF Init, Accounted
<1> QED
    BY <1>1, <1>2, <1>3, <1>4, TypeParts DEF Inv

LEMMA InvStep == Inv /\ [Next]_vars => Inv'
<1> SUFFICES ASSUME Inv, [Next]_vars PROVE Inv'
    OBVIOUS
<1>1. CASE \E j \in Jobs : Add(j) \/ AddLater(j)
    BY <1>1, AddStep
<1>2. CASE Drain
    BY <1>2, DrainStep
<1>3. CASE Promote
    BY <1>3, PromoteStep
<1>4. CASE RecoverStalled
    BY <1>4, RecoverStalledStep
<1>5. CASE \E c \in Clients : Retry(c)
    BY <1>5, RetryStep
<1>6. CASE \/ \E c \in Clients, j \in Jobs : RetryRead(c, j)
           \/ \E s \in Slots : RenewHset(s) \/ RenewReply(s) \/ UpdateProgress(s)
           \/ \E j \in Jobs : Due(j) \/ LeaseExpires(j)
           \/ UNCHANGED vars
    BY <1>6, QuietStep
<1>7. ASSUME NEW s \in Slots,
             \/ \E j \in Jobs : Fetch(s, j)
             \/ RenewZadd(s) \/ Finalize(s) \/ FinalizeAndFetch(s) \/ Completed(s)
             \/ FailRetry(s) \/ RetryZrem(s) \/ RetrySignal(s)
             \/ FailDead(s) \/ WriteDlq(s) \/ Crash(s)
      PROVE  Inv'
    BY <1>7, FetchStep, RenewZaddStep, FinalizeStep, FinalizeAndFetchStep,
       CompletedStep, FailRetryStep, RetryZremStep, RetrySignalStep,
       FailDeadStep, WriteDlqStep, CrashStep
<1> QED
    BY <1>1, <1>2, <1>3, <1>4, <1>5, <1>6, <1>7 DEF Next

\* Every variable keeps its type, a slot that does something has its job
\* object, and only a finalized run has a fetched job (worker.js:351-371).
THEOREM TypeCorrect == Spec => []TypeOK
<1>1. Inv => TypeOK
    BY DEF Inv
<1> QED
    BY <1>1, InvInit, InvStep, PTL DEF Spec

\* No schedule of producers, fetchers, renewal timers, recovery, promotion,
\* retries, drains, crashes and lapsed leases loses a job that has no outcome:
\* it stays on a structure with its record, except in the gap of
\* worker.js:632-633.
THEOREM NothingLost == Spec => []Accounted
<1>1. Inv => Accounted
    BY DEF Inv
<1> QED
    BY <1>1, InvInit, InvStep, PTL DEF Spec
----------------------------------------------------------------------------
(***************************************************************************)
(* Dead letters.  DeadIsRetryable is inductive: the two writers of the     *)
(* failed index either write the hash in the same script, or are a run     *)
(* that remains "dead" until it writes the hash or its process dies.       *)
(***************************************************************************)
Dying(j) == \E s \in Slots : pc[s] = "dead" /\ held[s].job = j

LEMMA DeadForm ==
    DeadIsRetryable <=> \A j \in failed : j \in dlq \/ j \in dlqLost \/ Dying(j)
BY DEF DeadIsRetryable, Dying

\* Steps that touch neither the index, nor the hash, nor a dying run.
LEMMA DeadUntouched ==
    ASSUME DeadIsRetryable, UNCHANGED <<failed, dlq, dlqLost>>,
           \A s \in Slots : pc[s] = "dead" => pc'[s] = "dead" /\ held'[s] = held[s]
    PROVE  DeadIsRetryable'
BY DEF DeadIsRetryable

LEMMA DeadQuiet ==
    ASSUME DeadIsRetryable,
           \/ \E j \in Jobs : Add(j) \/ AddLater(j) \/ Due(j) \/ LeaseExpires(j)
           \/ Drain \/ Promote
           \/ \E c \in Clients, j \in Jobs : RetryRead(c, j)
           \/ \E s \in Slots : RenewHset(s) \/ RenewZadd(s) \/ RenewReply(s) \/ UpdateProgress(s)
           \/ UNCHANGED vars
    PROVE  DeadIsRetryable'
<1>1. UNCHANGED <<failed, dlq, dlqLost, pc, held>>
    BY DEF Add, AddLater, Due, LeaseExpires, Drain, Promote, RetryRead, RenewHset,
           RenewZadd, RenewReply, UpdateProgress, vars, storeVars, execVars, history,
           AddJobScript, AddDelayedScript, TimeComes, LeaseRunsOut, DrainScript,
           PromoteScript
<1> QED
    BY <1>1, DeadUntouched

LEMMA DeadOfOtherRuns ==
    ASSUME ExecType, DeadIsRetryable, NEW s \in Slots,
           \/ \E j \in Jobs : Fetch(s, j)
           \/ Finalize(s) \/ FinalizeAndFetch(s) \/ Completed(s)
           \/ FailRetry(s) \/ RetryZrem(s) \/ RetrySignal(s)
    PROVE  DeadIsRetryable'
<1>1. UNCHANGED <<failed, dlq, dlqLost>>
  <2>1. CASE Finalize(s) \/ FinalizeAndFetch(s)
    BY <2>1 DEF Finalize, FinalizeAndFetch, Finalized, FinalizeScript,
                FinalizeFetchScript, FinalizeIndexes
  <2>2. CASE ~(Finalize(s) \/ FinalizeAndFetch(s))
    BY <2>2 DEF Fetch, Completed, FailRetry, RetryZrem, RetrySignal, DequeueScript,
                SignalScript, storeVars, history
  <2> QED
    BY <2>1, <2>2
<1>2. ASSUME NEW t \in Slots, pc[t] = "dead"
      PROVE  pc'[t] = "dead" /\ held'[t] = held[t]
  <2>1. t # s
    BY <1>2 DEF Fetch, Free, Finalize, FinalizeAndFetch, Completed, FailRetry, Caught,
                RetryZrem, RetrySignal
  <2>2. CASE \E j \in Jobs : Fetch(s, j)
    BY <1>2, <2>1, <2>2 DEF Fetch, ExecType
  <2>3. CASE Finalize(s) \/ FinalizeAndFetch(s)
    BY <1>2, <2>1, <2>3 DEF Finalize, FinalizeAndFetch, Finalized, ExecType
  <2>4. CASE Completed(s)
    BY <1>2, <2>1, <2>4 DEF Completed, Ends, Free, ExecType
  <2>5. CASE FailRetry(s) \/ RetryZrem(s) \/ RetrySignal(s)
    BY <1>2, <2>1, <2>5 DEF FailRetry, RetryZrem, RetrySignal, Ends, ExecType
  <2> QED
    BY <2>2, <2>3, <2>4, <2>5
<1> QED
    BY <1>1, <1>2, DeadUntouched

LEMMA DeadWritten ==
    ASSUME ExecType, DeadIsRetryable, NEW s \in Slots,
           FailDead(s) \/ WriteDlq(s) \/ Crash(s)
    PROVE  DeadIsRetryable'
<1> DEFINE j == held[s].job
<1>1. ASSUME NEW t \in Slots \ {s}, pc[t] = "dead"
      PROVE  pc'[t] = "dead" /\ held'[t] = held[t]
    BY <1>1 DEF FailDead, WriteDlq, Crash, Ends, ExecType
<1>2. \A k : Dying(k) => Dying(k)' \/ (pc[s] = "dead" /\ k = j)
    BY <1>1 DEF Dying
<1>3. CASE FailDead(s)
  <2>1. held'[s].job = j /\ pc'[s] = "dead" /\ pc[s] # "dead"
    <3>1. pc[s] # "idle"
      BY <1>3 DEF FailDead, Caught
    <3>2. held[s] \in Handle
      BY <3>1, HeldType
    <3> QED
      BY <1>3, <3>2 DEF FailDead, Caught, ExecType, Handle
  <2>2. PICK E \in SUBSET Jobs : /\ failed' = (failed \cup {j}) \ E
                                 /\ dlq' = dlq \ E
    BY <1>3 DEF FailDead, FinalizeScript, FinalizeIndexes
  <2>3. UNCHANGED dlqLost
    BY <1>3 DEF FailDead
  <2>4. ASSUME NEW k \in failed'
        PROVE  k \in dlq' \/ k \in dlqLost' \/ Dying(k)'
    <3>1. CASE k = j
      BY <2>1, <3>1 DEF Dying
    <3>2. CASE k # j
      <4>1. k \in failed /\ k \notin E
        BY <2>2, <3>2
      <4>2. k \in dlq \/ k \in dlqLost \/ Dying(k)
        BY <4>1, DeadForm
      <4> QED
        BY <1>2, <2>2, <2>3, <3>2, <4>1, <4>2
    <3> QED
      BY <3>1, <3>2
  <2> QED
    BY <2>4 DEF DeadIsRetryable, Dying
<1>4. CASE WriteDlq(s)
  <2>1. dlq' = dlq \cup {j} /\ UNCHANGED <<failed, dlqLost>>
    BY <1>4 DEF WriteDlq, history
  <2> QED
    BY <1>2, <2>1, DeadForm DEF DeadIsRetryable, Dying
<1>5. CASE Crash(s)
  <2>1. /\ UNCHANGED <<failed, dlq>>
        /\ dlqLost' = IF pc[s] = "dead" THEN dlqLost \cup {j} ELSE dlqLost
    BY <1>5 DEF Crash, storeVars
  <2> QED
    BY <1>2, <2>1, DeadForm DEF DeadIsRetryable, Dying
<1> QED
    BY <1>3, <1>4, <1>5

LEMMA DeadStep == Inv /\ DeadIsRetryable /\ [Next]_vars => DeadIsRetryable'
<1> SUFFICES ASSUME Inv, DeadIsRetryable, [Next]_vars PROVE DeadIsRetryable'
    OBVIOUS
<1>1. ExecType
    BY TypeParts DEF Inv
<1>2. CASE \/ \E j \in Jobs : Add(j) \/ AddLater(j) \/ Due(j) \/ LeaseExpires(j)
           \/ Drain \/ Promote
           \/ \E c \in Clients, j \in Jobs : RetryRead(c, j)
           \/ \E s \in Slots : RenewHset(s) \/ RenewZadd(s) \/ RenewReply(s) \/ UpdateProgress(s)
           \/ UNCHANGED vars
    BY <1>2, DeadQuiet
<1>3. CASE RecoverStalled
  <2>1. /\ failed' = failed \cup StalledDead /\ dlq' = dlq \cup StalledDead
        /\ UNCHANGED <<pc, held, dlqLost>>
    BY <1>3 DEF RecoverStalled, RecoverScript, execVars
  <2> QED
    BY <2>1 DEF DeadIsRetryable
<1>4. CASE \E c \in Clients : Retry(c)
  <2>1. PICK c \in Clients : Retry(c)
    BY <1>4
  <2>2. /\ failed' = failed \ {reading[c]} /\ dlq' = dlq \ {reading[c]}
        /\ UNCHANGED <<pc, held, dlqLost>>
    BY <2>1 DEF Retry, RetryScript, execVars
  <2> QED
    BY <2>2 DEF DeadIsRetryable
<1>5. ASSUME NEW s \in Slots,
             \/ \E j \in Jobs : Fetch(s, j)
             \/ Finalize(s) \/ FinalizeAndFetch(s) \/ Completed(s)
             \/ FailRetry(s) \/ RetryZrem(s) \/ RetrySignal(s)
      PROVE  DeadIsRetryable'
    BY <1>1, <1>5, DeadOfOtherRuns
<1>6. ASSUME NEW s \in Slots, FailDead(s) \/ WriteDlq(s) \/ Crash(s)
      PROVE  DeadIsRetryable'
    BY <1>1, <1>6, DeadWritten
<1> QED
    BY <1>2, <1>3, <1>4, <1>5, <1>6 DEF Next

\* An operator finds every job of the failed index in the dead-letter hash
\* that queue.retry reads, unless its worker is about to write it there or
\* died first (worker.js:540 comes after the script), whatever retention
\* evicts and however recovery, retry and duplicate runs interleave.
THEOREM DeadLettersKept == Spec => []DeadIsRetryable
<1>1. Init => DeadIsRetryable
    BY DEF Init, StoreInit, DeadIsRetryable
<1> QED
    BY <1>1, InvInit, InvStep, DeadStep, PTL DEF Spec
----------------------------------------------------------------------------
(***************************************************************************)
(* The invariant, of the jobs that are not adrift.  Such a job is always   *)
(* in one place: it is queued once, or delayed, or leased, or bridged by a *)
(* run in the retry gap, or it has one outcome, or is absent; and a lease  *)
(* that has not run out has one holder.                                    *)
(***************************************************************************)
Adrift == lapsed \cup disturbed

\* The runs that have the job's lease, or bridge it after they removed it.
Owner(s, j) == \/ pc[s] \in {"running", "parked", "gap"} /\ held[s].job = j
               \/ next[s] # None /\ next[s].job = j

\* In the store the job is in one place.
Apart(j) ==
    /\ j \in Queued \cup active \cup delayed =>
           Present(vault, j) /\ j \notin completed \cup failed
    /\ j \in completed => vault[j].status = "completed" /\ j \notin failed
    /\ j \in failed => vault[j].status = "dead"
    /\ j \in active => j \notin Queued \cup delayed
    /\ j \in delayed => j \notin Queued
    /\ ListedOnce(j)

\* One run at most has it, and then it is nowhere else.
Owned(j) ==
    /\ \A s, t \in Slots : Owner(s, j) /\ Owner(t, j) => s = t
    /\ \A s \in Slots : Owner(s, j) =>
           /\ Present(vault, j)
           /\ j \notin Queued \cup delayed \cup expired \cup completed \cup failed
           /\ j \in active <=> pc[s] # "gap"

\* A renewal between its two commands is that of a run that goes on.
LateTimers ==
    \A s \in Slots : renew[s] = "hset" => pc[s] = "running" \/ held[s].job \in disturbed

CleanInv == LateTimers /\ \A j \in Jobs \ Adrift : Apart(j) /\ Owned(j)

LEMMA AbsentStatus == \A j : vault[j] = Absent => vault[j].status = "absent"
BY DEF Absent

LEMMA OwnerInHand ==
    ASSUME ExecType, NEW s \in Slots, NEW j, Owner(s, j)
    PROVE  InHand(j)
BY DEF ExecType, Owner, InHand
----------------------------------------------------------------------------
(***************************************************************************)
(* The scripts, as one job sees them.                                      *)
(***************************************************************************)
\* finalizeJob.lua: what is evicted had an outcome, or gets one now.
LEMMA FinalizeApart ==
    ASSUME StoreTypeOK, NEW i \in Jobs, NEW outcome \in {"completed", "dead"},
           NEW E \in SUBSET Jobs, FinalizeIndexes(i, outcome, E),
           NEW j \in Jobs, Apart(j),
           j = i => Present(vault, j) /\ j \notin completed \cup failed,
           NEW v, v = FinalVault(i, outcome, E)
    PROVE  /\ j \in completed' => v[j].status = "completed" /\ j \notin failed'
           /\ j \in failed' => v[j].status = "dead"
           /\ j # i /\ j \notin completed \cup failed =>
                  v[j] = vault[j] /\ j \notin completed' \cup failed'
<1>1. /\ j \in E => v[j] = Absent
      /\ j \notin E /\ j # i => v[j] = vault[j]
      /\ j \notin E /\ j = i => v[j].status = outcome
  <2>1. v = [k \in Jobs |-> IF k \in E THEN Absent ELSE Finished(vault, i, outcome)[k]]
    BY DEF FinalVault, WithoutEntries
  <2>2. /\ j # i => Finished(vault, i, outcome)[j] = vault[j]
        /\ j = i => Finished(vault, i, outcome)[j].status = outcome
    <3>1. CASE Present(vault, i)
      <4>1. vault[i] \in JobRec
        BY <3>1 DEF StoreTypeOK, Present
      <4> QED
        BY <3>1, <4>1 DEF Finished, StoreTypeOK, JobRec
    <3>2. CASE ~Present(vault, i)
      BY <3>2 DEF Finished
    <3> QED
      BY <3>1, <3>2
  <2> QED
    BY <2>1, <2>2
<1>2. CASE outcome = "completed"
  <2>1. /\ E \subseteq completed \cup {i} /\ UNCHANGED failed
        /\ completed' = (completed \cup {i}) \ E
    BY <1>2 DEF FinalizeIndexes, Evictions
  <2> QED
    BY <1>1, <1>2, <2>1 DEF Apart
<1>3. CASE outcome = "dead"
  <2>1. /\ E \subseteq failed \cup {i} /\ UNCHANGED completed
        /\ failed' = (failed \cup {i}) \ E
    BY <1>3 DEF FinalizeIndexes, Evictions
  <2> QED
    BY <1>1, <1>3, <2>1 DEF Apart
<1> QED
    BY <1>2, <1>3
----------------------------------------------------------------------------
(***************************************************************************)
(* The steps.  What no step may do to a job that is not adrift after it:   *)
(* LateTimers apart, each lemma shows Apart and Owned of one such job.     *)
(***************************************************************************)
Strong == Inv /\ CleanInv

LEMMA AddClean ==
    ASSUME Strong, NEW i \in Jobs, Add(i) \/ AddLater(i)
    PROVE  CleanInv'
<1>1. StoreTypeOK /\ ExecType
    BY TypeParts DEF Strong, Inv
<1>2. UNCHANGED <<execVars, lapsed, disturbed, active, expired, completed, failed>>
    BY DEF Add, AddLater, AddJobScript, AddDelayedScript
<1>3. ~Present(vault, i) /\ vault' = [vault EXCEPT ![i] = NewRec]
    BY DEF Add, AddLater, AddJobScript, AddDelayedScript
<1>4. NewRec # Absent
    BY DEF NewRec, Absent
<1>5. LateTimers'
    BY <1>2 DEF Strong, CleanInv, LateTimers, execVars
<1>6. ASSUME NEW j \in Jobs \ Adrift' PROVE Apart(j)' /\ Owned(j)'
  <2>1. Apart(j) /\ Owned(j)
    BY <1>2 DEF Strong, CleanInv, Adrift
  <2>2. \A s \in Slots : Owner(s, j) <=> Owner(s, j)'
    BY <1>2 DEF Owner, execVars
  <2>3. i \notin completed \cup failed \/ i # j
    BY <1>3, <2>1, AbsentStatus DEF Present, Apart
  <2>4. /\ ListedOnce(j)'
        /\ \/ Queued' = Queued \cup {i} /\ delayed' = delayed
           \/ UNCHANGED Queued /\ delayed' = delayed \cup {i}
    <3>1. CASE Add(i)
      <4>1. Enqueue({i}) /\ UNCHANGED delayed
        BY <3>1 DEF Add, AddJobScript
      <4>2. QueueType
        BY <1>1 DEF StoreTypeOK, QueueType
      <4>3. j # i \/ j \notin Queued
        BY <1>3, <2>1 DEF Apart
      <4> QED
        BY <4>1, <4>2, <4>3, <2>1, EnqueueOnce, EnqueueType DEF Apart
    <3>2. CASE AddLater(i)
      BY <3>2, <2>1 DEF AddLater, AddDelayedScript, Apart, ListedOnce, Queued
    <3> QED
      BY <3>1, <3>2
  <2>5. j # i => vault'[j] = vault[j]
    BY <1>3, <1>1 DEF StoreTypeOK
  <2>6. j = i => /\ j \notin Queued \cup active \cup delayed /\ Present(vault, j)'
                 /\ \A s \in Slots : ~Owner(s, j)
    BY <1>1, <1>3, <1>4, <2>1 DEF Apart, Owned, Present, StoreTypeOK
  <2>7. Apart(j)'
    <3>1. CASE j = i
      BY <3>1, <1>2, <2>3, <2>4, <2>6 DEF Apart
    <3>2. CASE j # i
      BY <3>2, <1>2, <2>1, <2>4, <2>5 DEF Apart, Present
    <3> QED
      BY <3>1, <3>2
  <2>8. Owned(j)'
    <3>1. CASE j = i
      BY <3>1, <2>2, <2>6 DEF Owned
    <3>2. CASE j # i
      <4>1. UNCHANGED pc
        BY <1>2 DEF execVars
      <4> QED
        BY <3>2, <4>1, <1>2, <2>1, <2>2, <2>4, <2>5 DEF Owned, Present
    <3> QED
      BY <3>1, <3>2
  <2> QED
    BY <2>7, <2>8
<1> QED
    BY <1>5, <1>6 DEF CleanInv, Adrift

LEMMA DrainClean ==
    ASSUME Strong, Drain
    PROVE  CleanInv'
<1>1. StoreTypeOK /\ ExecType
    BY TypeParts DEF Strong, Inv
<1>2. /\ UNCHANGED <<pc, held, next, renew, lapsed, disturbed>>
      /\ UNCHANGED <<active, expired, completed, failed>>
      /\ vault' = WithoutEntries(vault, Queued \cup delayed)
      /\ waiting' = <<>> /\ prioritized' = {} /\ delayed' = {}
    BY DEF Drain, DrainScript, execVars
<1>3. LateTimers'
    BY <1>2 DEF Strong, CleanInv, LateTimers
<1>4. ASSUME NEW j \in Jobs \ Adrift' PROVE Apart(j)' /\ Owned(j)'
  <2>1. Apart(j) /\ Owned(j)
    BY <1>2 DEF Strong, CleanInv, Adrift
  <2>2. \A s \in Slots : Owner(s, j) <=> Owner(s, j)'
    BY <1>2 DEF Owner
  <2>3. Queued' = {} /\ ListedOnce(j)'
    BY <1>2 DEF Queued, ListedOnce, OnceIn, ToSet
  <2>4. j \notin Queued \cup delayed => vault'[j] = vault[j]
    BY <1>2 DEF WithoutEntries
  <2> QED
    BY <1>2, <2>1, <2>2, <2>3, <2>4 DEF Apart, Owned, Present
<1> QED
    BY <1>3, <1>4 DEF CleanInv, Adrift

LEMMA RetryClean ==
    ASSUME Strong, NEW c \in Clients, Retry(c)
    PROVE  CleanInv'
<1> DEFINE i == reading[c]
           rec == [status |-> "waiting", attempts |-> 0, picked |-> TRUE]
<1>1. StoreTypeOK /\ ExecType /\ HistoryType
    BY TypeParts DEF Strong, Inv
<1>2. i \in Jobs /\ RetryScript(i, rec)
    BY <1>1 DEF Retry, HistoryType
<1>3. /\ UNCHANGED <<pc, held, next, renew, lapsed>>
      /\ disturbed' = IF i \in closed \cap failed THEN disturbed ELSE disturbed \cup {i}
    BY DEF Retry, execVars
<1>4. rec # Absent
    BY DEF Absent
<1> HIDE DEF i, rec
<1>5. /\ UNCHANGED <<active, expired, delayed, completed>>
      /\ failed' = failed \ {i} /\ vault' = [vault EXCEPT ![i] = rec]
    BY <1>2 DEF RetryScript
<1>6. LateTimers'
    BY <1>3 DEF Strong, CleanInv, LateTimers
<1>7. ASSUME NEW j \in Jobs \ Adrift' PROVE Apart(j)' /\ Owned(j)'
  <2>1. Apart(j) /\ Owned(j) /\ (j = i => j \in failed)
    BY <1>3 DEF Strong, CleanInv, Adrift
  <2>2. \A s \in Slots : Owner(s, j) <=> Owner(s, j)'
    BY <1>3 DEF Owner
  <2>3. j = i => /\ j \notin Queued \cup active \cup delayed \cup completed
                 /\ \A s \in Slots : ~Owner(s, j)
    BY <2>1 DEF Apart, Owned
  <2>4. ListedOnce(j)' /\ Queued' = Queued \cup {i}
    <3>1. QueueType
      BY <1>1 DEF StoreTypeOK, QueueType
    <3> QED
      BY <3>1, <1>2, <2>1, <2>3, RetryOnce DEF Apart
  <2>5. (j # i => vault'[j] = vault[j]) /\ (j = i => vault'[j] # Absent)
    BY <1>1, <1>4, <1>5 DEF StoreTypeOK
  <2> QED
    BY <1>3, <1>5, <2>1, <2>2, <2>3, <2>4, <2>5 DEF Apart, Owned, Present
<1> QED
    BY <1>6, <1>7 DEF CleanInv, Adrift

\* The job that is dequeued was in the queue only, and has one owner now.
LEMMA LeaseOne ==
    ASSUME NEW v, VaultType(v), NEW k \in Jobs, NEW act, NEW exp, Lease(k, v, act, exp)
    PROVE  /\ Present(v, k) => /\ vault'[k] # Absent
                               /\ active' = act \cup {k} /\ expired' = exp \ {k}
           /\ ~Present(v, k) => active' = act /\ expired' = exp /\ vault' = v
           /\ \A j \in Jobs : j # k => vault'[j] = v[j]
BY DEF Lease, PickedUp, Absent, VaultType, Present

LEMMA FetchClean ==
    ASSUME Strong, NEW s \in Slots, NEW k \in Jobs, Fetch(s, k)
    PROVE  CleanInv'
<1>1. StoreTypeOK /\ ExecType
    BY TypeParts DEF Strong, Inv
<1>2. /\ UNCHANGED <<next, lapsed, disturbed, delayed, completed, failed>>
      /\ pc[s] = "idle" /\ renew[s] = "off" /\ next[s] = None
      /\ Pop(k) /\ Lease(k, vault, active, expired)
    BY <1>1 DEF Fetch, DequeueScript, Free, history, ExecType
<1>3. /\ \A t \in Slots \ {s} : pc'[t] = pc[t] /\ held'[t] = held[t] /\ renew'[t] = renew[t]
      /\ \/ pc'[s] = "idle" /\ renew'[s] = "off" /\ ~Present(vault, k)
         \/ pc'[s] = "running" /\ renew'[s] = "armed" /\ held'[s].job = k /\ Present(vault, k)
    BY <1>1, <1>2 DEF Fetch, ExecType
<1>4. LateTimers'
    BY <1>2, <1>3 DEF Strong, CleanInv, LateTimers
<1>5. ASSUME NEW j \in Jobs \ Adrift' PROVE Apart(j)' /\ Owned(j)'
  <2>1. Apart(j) /\ Owned(j)
    BY <1>2 DEF Strong, CleanInv, Adrift
  <2>2. /\ ListedOnce(j)' /\ k \in Queued
        /\ j = k => j \notin Queued'
        /\ j # k => (j \in Queued <=> j \in Queued')
    <3>1. QueueType
      BY <1>1 DEF StoreTypeOK, QueueType
    <3> QED
      BY <3>1, <1>2, <2>1, PopOnce DEF Apart
  <2>3. /\ Present(vault, k) => /\ vault'[k] # Absent
                                /\ active' = active \cup {k} /\ expired' = expired \ {k}
        /\ ~Present(vault, k) => active' = active /\ expired' = expired
        /\ \A i \in Jobs : i # k => vault'[i] = vault[i]
    <3>1. VaultType(vault)
      BY <1>1 DEF StoreTypeOK, VaultType
    <3> QED
      BY <3>1, <1>2, LeaseOne
  <2>4. CASE j # k
    <3>1. \A t \in Slots : Owner(t, j)' => Owner(t, j) /\ pc'[t] = pc[t]
      BY <1>2, <1>3, <2>4 DEF Owner
    <3>2. vault'[j] = vault[j] /\ (j \in active' <=> j \in active)
          /\ (j \in expired' <=> j \in expired)
      BY <2>3, <2>4
    <3>3. Apart(j)'
      BY <1>2, <2>1, <2>2, <2>4, <3>2 DEF Apart, Present
    <3>4. Owned(j)'
      BY <1>2, <2>1, <2>2, <2>4, <3>1, <3>2 DEF Owned, Present
    <3> QED
      BY <3>3, <3>4
  <2>5. CASE j = k
    <3>1. /\ Present(vault, k) /\ j \notin completed \cup failed \cup active \cup delayed
          /\ \A t \in Slots : ~Owner(t, j)
      BY <2>1, <2>2, <2>5 DEF Apart, Owned
    <3>2. vault'[j] # Absent /\ j \in active' /\ j \notin expired' /\ j \notin Queued'
      BY <2>2, <2>3, <2>5, <3>1
    <3>3. \A t \in Slots : Owner(t, j)' => t = s /\ pc'[t] = "running"
      BY <1>2, <1>3, <3>1 DEF Owner
    <3>4. Apart(j)'
      BY <1>2, <2>2, <3>1, <3>2 DEF Apart, Present
    <3>5. Owned(j)'
      BY <1>2, <3>1, <3>2, <3>3 DEF Owned, Present
    <3> QED
      BY <3>4, <3>5
  <2> QED
    BY <2>4, <2>5
<1> QED
    BY <1>4, <1>5 DEF CleanInv, Adrift

(***************************************************************************)
(* Steps that leave the structures as they are, but for what the records   *)
(* say: the job of a run that goes on, or one that is adrift from then on. *)
(***************************************************************************)
LEMMA SameOwners ==
    ASSUME UNCHANGED <<pc, held, next>>
    PROVE  \A s \in Slots, j \in Jobs : Owner(s, j) <=> Owner(s, j)'
BY DEF Owner

LEMMA RecordClean ==
    ASSUME Strong, NEW s \in Slots, RenewHset(s) \/ UpdateProgress(s)
    PROVE  CleanInv'
<1>1. StoreTypeOK /\ ExecType
    BY TypeParts DEF Strong, Inv
<1> DEFINE i == held[s].job
<1>2. i \in Jobs /\ held[s].rec \in JobRec
    BY <1>1, HeldType DEF RenewHset, UpdateProgress
<1>3. held[s].rec # Absent
    BY <1>2 DEF JobRec, Statuses, Absent
<1>4. /\ vault' = [vault EXCEPT ![i] = held[s].rec]
      /\ UNCHANGED <<waiting, prioritized, active, expired, delayed,
                     completed, failed, pc, held, next, lapsed>>
      /\ pc[s] # "running" => disturbed' = disturbed \cup {i}
      /\ pc[s] = "running" => disturbed' = disturbed
    BY DEF RenewHset, UpdateProgress, execVars, history
<1>5. \A t \in Slots \ {s} : renew'[t] = renew[t]
    BY <1>1 DEF RenewHset, UpdateProgress, execVars, ExecType
<1>6. renew'[s] = "hset" => renew[s] = "hset" \/ pc[s] = "running" \/ i \in disturbed'
    BY <1>1, <1>4 DEF RenewHset, UpdateProgress, execVars, ExecType
<1>7. LateTimers'
    BY <1>4, <1>5, <1>6 DEF Strong, CleanInv, LateTimers
<1>8. ASSUME NEW j \in Jobs \ Adrift' PROVE Apart(j)' /\ Owned(j)'
  <2>1. Apart(j) /\ Owned(j)
    BY <1>4 DEF Strong, CleanInv, Adrift
  <2>2. \A t \in Slots : Owner(t, j) <=> Owner(t, j)'
    BY <1>4, SameOwners
  <2>3. j # i => vault'[j] = vault[j]
    BY <1>1, <1>4 DEF StoreTypeOK
  <2>4. j = i => vault'[j] # Absent /\ Owner(s, j)
    BY <1>1, <1>2, <1>3, <1>4 DEF StoreTypeOK, Owner, Adrift
  <2>5. UNCHANGED Queued /\ ListedOnce(j)'
    BY <1>4, <2>1 DEF Apart, Queued, ListedOnce
  <2> HIDE DEF i
  <2>6. Apart(j)'
    BY <1>4, <2>1, <2>3, <2>4, <2>5 DEF Apart, Owned, Present
  <2>7. Owned(j)'
    BY <1>4, <2>1, <2>2, <2>3, <2>4, <2>5 DEF Owned, Present
  <2> QED
    BY <2>6, <2>7
<1> QED
    BY <1>7, <1>8 DEF CleanInv, Adrift

\* Nothing a clean job is looked at for changes, except that a lease may run
\* out; under a run that makes the job adrift.
LEMMA QuietClean ==
    ASSUME Strong,
           \/ \E c \in Clients, j \in Jobs : RetryRead(c, j)
           \/ \E s \in Slots : RenewReply(s)
           \/ \E j \in Jobs : Due(j) \/ LeaseExpires(j)
           \/ UNCHANGED vars
    PROVE  CleanInv'
<1>1. ExecType
    BY TypeParts DEF Strong, Inv
<1>2. /\ UNCHANGED <<vault, waiting, prioritized, active, delayed, completed, failed>>
      /\ UNCHANGED <<pc, held, next, disturbed>> /\ lapsed \subseteq lapsed'
    BY DEF RetryRead, RenewReply, Due, LeaseExpires, TimeComes, LeaseRunsOut,
           vars, storeVars, execVars, history
<1>3. \A s \in Slots : renew'[s] = "hset" => renew[s] = "hset"
    BY <1>1 DEF RetryRead, RenewReply, Due, LeaseExpires, vars, execVars, ExecType
<1>4. LateTimers'
    BY <1>2, <1>3 DEF Strong, CleanInv, LateTimers
<1>5. ASSUME NEW j \in Jobs \ Adrift' PROVE Apart(j)' /\ Owned(j)'
  <2>1. Apart(j) /\ Owned(j)
    BY <1>2 DEF Strong, CleanInv, Adrift
  <2>2. \A t \in Slots : Owner(t, j) <=> Owner(t, j)'
    BY <1>2, SameOwners
  <2>3. UNCHANGED Queued /\ ListedOnce(j)'
    BY <1>2, <2>1 DEF Apart, Queued, ListedOnce
  <2>4. j \in expired' => j \in expired \/ \A t \in Slots : ~Owner(t, j)
    <3>1. CASE \E i \in Jobs : LeaseExpires(i)
      <4>1. PICK i \in Jobs : LeaseExpires(i)
        BY <3>1
      <4>2. CASE i = j
        <5>1. ~InHand(j)
          BY <4>1, <4>2 DEF LeaseExpires, Adrift
        <5> QED
          BY <5>1, <1>1, OwnerInHand
      <4>3. CASE i # j
        BY <4>1, <4>3 DEF LeaseExpires, LeaseRunsOut
      <4> QED
        BY <4>2, <4>3
    <3>2. CASE ~ \E i \in Jobs : LeaseExpires(i)
      BY <3>2 DEF RetryRead, RenewReply, Due, TimeComes, vars, storeVars
    <3> QED
      BY <3>1, <3>2
  <2>5. Apart(j)'
    BY <1>2, <2>1, <2>3 DEF Apart, Present
  <2>6. Owned(j)'
    BY <1>2, <2>1, <2>2, <2>3, <2>4 DEF Owned, Present
  <2> QED
    BY <2>5, <2>6
<1> QED
    BY <1>4, <1>5 DEF CleanInv, Adrift

\* The second command of a renewal finds the lease there, or comes too late.
LEMMA RenewZaddClean ==
    ASSUME Strong, NEW s \in Slots, RenewZadd(s)
    PROVE  CleanInv'
<1>1. StoreTypeOK /\ ExecType
    BY TypeParts DEF Strong, Inv
<1>2. /\ UNCHANGED <<vault, waiting, prioritized, delayed, completed, failed>>
      /\ UNCHANGED <<pc, held, next, lapsed, disturbed>>
      /\ active' = active \cup {held[s].job} /\ expired' = expired \ {held[s].job}
      /\ renew[s] = "hset" /\ renew' = [renew EXCEPT ![s] = "reply"]
    BY DEF RenewZadd, history
<1>3. LateTimers'
    BY <1>1, <1>2 DEF Strong, CleanInv, LateTimers, ExecType
<1>4. ASSUME NEW j \in Jobs \ Adrift' PROVE Apart(j)' /\ Owned(j)'
  <2>1. Apart(j) /\ Owned(j)
    BY <1>2 DEF Strong, CleanInv, Adrift
  <2>2. \A t \in Slots : Owner(t, j) <=> Owner(t, j)'
    BY <1>2, SameOwners
  <2>3. j = held[s].job => pc[s] = "running" /\ Owner(s, j)
    BY <1>2 DEF Strong, CleanInv, LateTimers, Adrift, Owner
  <2>4. (j \in active' <=> j \in active) /\ (j \in expired' => j \in expired)
    BY <1>2, <2>1, <2>3 DEF Owned
  <2>5. UNCHANGED Queued /\ ListedOnce(j)'
    BY <1>2, <2>1 DEF Apart, Queued, ListedOnce
  <2>6. Apart(j)'
    BY <1>2, <2>1, <2>4, <2>5 DEF Apart, Present
  <2>7. Owned(j)'
    BY <1>2, <2>1, <2>2, <2>4, <2>5 DEF Owned, Present
  <2> QED
    BY <2>6, <2>7
<1> QED
    BY <1>3, <1>4 DEF CleanInv, Adrift

(***************************************************************************)
(* The end of a run.  What its script evicts had an outcome; its own job   *)
(* has one now, unless it is adrift.                                       *)
(***************************************************************************)
\* Owners of a job after slot s has moved on from the one it had.
LEMMA RunLeft ==
    ASSUME ExecType, NEW s \in Slots, NEW j,
           \A t \in Slots \ {s} : /\ pc'[t] = pc[t] /\ held'[t] = held[t]
                                  /\ next'[t] = next[t],
           pc'[s] \notin {"running", "parked", "gap"}, next'[s] = None
    PROVE  \A t \in Slots : Owner(t, j)' => t # s /\ Owner(t, j) /\ pc'[t] = pc[t]
BY DEF Owner

LEMMA FinalizeClean ==
    ASSUME Strong, NEW s \in Slots, pc[s] \in {"running", "finalized"},
           NEW outcome \in {"completed", "dead"}, NEW E \in SUBSET Jobs,
           FinalizeScript(held[s].job, outcome, E),
           \A t \in Slots \ {s} : /\ pc'[t] = pc[t] /\ held'[t] = held[t]
                                  /\ next'[t] = next[t],
           pc'[s] \in {"finalized", "dead"}, next'[s] = None, UNCHANGED lapsed,
           disturbed' = IF pc[s] = "running" THEN disturbed
                        ELSE disturbed \cup {held[s].job}
    PROVE  \A j \in Jobs \ Adrift' : Apart(j)' /\ Owned(j)'
<1>1. StoreTypeOK /\ ExecType
    BY TypeParts DEF Strong, Inv
<1> DEFINE i == held[s].job
<1>2. i \in Jobs
    BY <1>1, HeldType
<1>3. /\ FinalizeIndexes(i, outcome, E) /\ vault' = FinalVault(i, outcome, E)
      /\ active' = active \ {i} /\ expired' = expired \ {i}
      /\ UNCHANGED <<waiting, prioritized, delayed>>
    BY DEF FinalizeScript
<1> SUFFICES ASSUME NEW j \in Jobs \ Adrift' PROVE Apart(j)' /\ Owned(j)'
    OBVIOUS
<1>4. Apart(j) /\ Owned(j)
    BY DEF Strong, CleanInv, Adrift
<1>5. j = i => Owner(s, j)
    BY DEF Adrift, Owner
<1>6. \A t \in Slots : Owner(t, j)' => t # s /\ Owner(t, j) /\ pc'[t] = pc[t]
    BY <1>1, RunLeft
<1> HIDE DEF i
<1>7. j = i => /\ Present(vault, j) /\ j \notin Queued \cup delayed \cup completed \cup failed
               /\ \A t \in Slots : ~Owner(t, j)'
    BY <1>4, <1>5, <1>6 DEF Owned
<1>8. /\ j \in completed' => vault'[j].status = "completed" /\ j \notin failed'
      /\ j \in failed' => vault'[j].status = "dead"
      /\ j # i /\ j \notin completed \cup failed =>
             vault'[j] = vault[j] /\ j \notin completed' \cup failed'
    BY <1>1, <1>2, <1>3, <1>4, <1>7, FinalizeApart
<1>9. UNCHANGED Queued /\ ListedOnce(j)'
    BY <1>3, <1>4 DEF Apart, Queued, ListedOnce
<1>10. Apart(j)'
    BY <1>3, <1>4, <1>7, <1>8, <1>9 DEF Apart, Present
<1>11. Owned(j)'
    BY <1>3, <1>4, <1>6, <1>7, <1>8, <1>9 DEF Owned, Present
<1> QED
    BY <1>10, <1>11

LEMMA FinalizedOthers ==
    ASSUME ExecType, NEW s \in Slots, NEW E, NEW n, Finalized(s, E, n)
    PROVE  /\ \A t \in Slots \ {s} : /\ pc'[t] = pc[t] /\ held'[t] = held[t]
                                     /\ next'[t] = next[t]
           /\ pc'[s] = "finalized" /\ next'[s] = n
           /\ UNCHANGED <<renew, lapsed, disturbed>>
BY DEF Finalized, ExecType

\* A step that leaves the timers alone, of a slot that waits for its own.
LEMMA TimersStay ==
    ASSUME Strong, NEW s \in Slots, renew[s] # "hset", UNCHANGED renew,
           disturbed \subseteq disturbed',
           \A t \in Slots \ {s} : pc'[t] = pc[t] /\ held'[t] = held[t]
    PROVE  LateTimers'
BY DEF Strong, CleanInv, LateTimers

LEMMA FinalizeStepClean ==
    ASSUME Strong, NEW s \in Slots, Finalize(s)
    PROVE  CleanInv'
<1>1. ExecType
    BY TypeParts DEF Strong, Inv
<1>2. PICK E \in SUBSET Jobs : /\ FinalizeScript(held[s].job, "completed", E)
                               /\ Finalized(s, E, None)
    BY DEF Finalize
<1>3. /\ \A t \in Slots \ {s} : /\ pc'[t] = pc[t] /\ held'[t] = held[t]
                                /\ next'[t] = next[t]
      /\ pc'[s] = "finalized" /\ next'[s] = None
      /\ UNCHANGED <<renew, lapsed, disturbed>>
    BY <1>1, <1>2, FinalizedOthers
<1>4. pc[s] = "running" /\ renew[s] # "hset"
    BY DEF Finalize, InOrder
<1>5. \A j \in Jobs \ Adrift' : Apart(j)' /\ Owned(j)'
    BY <1>2, <1>3, <1>4, FinalizeClean
<1>6. LateTimers'
    BY <1>3, <1>4, TimersStay
<1> QED
    BY <1>5, <1>6 DEF CleanInv, Adrift

\* The same script dequeues: the fetched job has its owner in `next'.
LEMMA FetchNextClean ==
    ASSUME Strong, NEW s \in Slots, FinalizeAndFetch(s)
    PROVE  CleanInv'
<1>1. StoreTypeOK /\ ExecType
    BY TypeParts DEF Strong, Inv
<1> DEFINE i == held[s].job
           v(E) == FinalVault(i, "completed", E)
           n(E, k) == IF Present(v(E), k) THEN [job |-> k, rec |-> vault'[k]] ELSE None
<1>2. PICK E \in SUBSET Jobs, k \in Jobs :
            /\ FinalizeFetchScript(i, "completed", E, k)
            /\ Finalized(s, E, n(E, k))
    BY DEF FinalizeAndFetch
<1>3. pc[s] = "running" /\ renew[s] # "hset" /\ i \in Jobs
    BY <1>1, HeldType DEF FinalizeAndFetch, InOrder
<1>4. /\ \A t \in Slots \ {s} : /\ pc'[t] = pc[t] /\ held'[t] = held[t]
                                /\ next'[t] = next[t]
      /\ pc'[s] = "finalized" /\ next'[s] = n(E, k)
      /\ UNCHANGED <<renew, lapsed, disturbed>>
  <2> HIDE DEF n
  <2> QED
    BY <1>1, <1>2, FinalizedOthers
<1>5. next'[s] # None => Present(v(E), k) /\ next'[s].job = k
    BY <1>4
<1> DEFINE f == v(E)
<1>6. /\ FinalizeIndexes(i, "completed", E) /\ f = FinalVault(i, "completed", E)
      /\ Pop(k) /\ Lease(k, f, active \ {i}, expired \ {i})
      /\ UNCHANGED delayed
    BY <1>2 DEF FinalizeFetchScript
<1>7. VaultType(f)
    BY <1>1, <1>3, FinalVaultType DEF StoreTypeOK, VaultType
<1>8. next'[s] # None => Present(f, k) /\ next'[s].job = k
    BY <1>5
<1>9. \A j \in Jobs \ Adrift' : Owner(s, j)' => next'[s] # None /\ next'[s].job = j
    BY <1>4 DEF Owner
<1>10. \A j \in Jobs, t \in Slots \ {s} : Owner(t, j)' => Owner(t, j) /\ pc'[t] = pc[t]
    BY <1>4 DEF Owner
<1>11. \A j \in Jobs : j = i => Owner(s, j)
    BY <1>3 DEF Owner
<1> HIDE DEF i, v, n, f
<1>12. /\ Present(f, k) => /\ vault'[k] # Absent
                           /\ active' = (active \ {i}) \cup {k}
                           /\ expired' = (expired \ {i}) \ {k}
       /\ ~Present(f, k) => active' = active \ {i} /\ expired' = expired \ {i}
       /\ \A j \in Jobs : j # k => vault'[j] = f[j]
    BY <1>6, <1>7, LeaseOne
<1>13. ASSUME NEW j \in Jobs \ Adrift' PROVE Apart(j)' /\ Owned(j)'
  <2>1. Apart(j) /\ Owned(j)
    BY <1>4 DEF Strong, CleanInv, Adrift
  <2>2. j = i => /\ Present(vault, j)
                 /\ j \notin Queued \cup delayed \cup completed \cup failed
                 /\ \A t \in Slots \ {s} : ~Owner(t, j)
    BY <1>11, <2>1 DEF Owned
  <2>3. /\ ListedOnce(j)' /\ k \in Queued
        /\ j = k => j \notin Queued'
        /\ j # k => (j \in Queued <=> j \in Queued')
    <3>1. QueueType
      BY <1>1 DEF StoreTypeOK, QueueType
    <3> QED
      BY <3>1, <1>6, <2>1, PopOnce DEF Apart
  <2>4. /\ j \in completed' => f[j].status = "completed" /\ j \notin failed'
        /\ j \in failed' => f[j].status = "dead"
        /\ j # i /\ j \notin completed \cup failed =>
               f[j] = vault[j] /\ j \notin completed' \cup failed'
    BY <1>1, <1>3, <1>6, <2>1, <2>2, FinalizeApart
  <2>5. CASE j = k
    <3>1. /\ j # i /\ Present(vault, j) /\ j \notin completed \cup failed \cup active \cup delayed
          /\ \A t \in Slots : ~Owner(t, j)
      BY <2>1, <2>2, <2>3, <2>5 DEF Apart, Owned
    <3>2. Present(f, j) /\ j \notin completed' \cup failed'
      BY <2>4, <3>1 DEF Present
    <3>3. /\ vault'[j] # Absent /\ j \in active' /\ j \notin expired'
          /\ j \notin Queued' \cup delayed'
      BY <1>6, <1>12, <2>3, <2>5, <3>1, <3>2
    <3>4. \A t \in Slots : Owner(t, j)' => t = s /\ pc'[t] = "finalized"
      BY <1>4, <1>10, <3>1
    <3>5. Apart(j)'
      BY <2>3, <3>2, <3>3 DEF Apart, Present
    <3>6. Owned(j)'
      BY <3>2, <3>3, <3>4 DEF Owned, Present
    <3> QED
      BY <3>5, <3>6
  <2>6. CASE j # k
    <3>1. \A t \in Slots : Owner(t, j)' => t # s /\ Owner(t, j) /\ pc'[t] = pc[t]
      BY <1>8, <1>9, <1>10, <2>6
    <3>2. /\ vault'[j] = f[j]
          /\ (j \in active' <=> j \in active \ {i})
          /\ (j \in expired' <=> j \in expired \ {i})
      BY <1>12, <2>6
    <3>3. Apart(j)'
      BY <1>6, <2>1, <2>2, <2>3, <2>4, <2>6, <3>2 DEF Apart, Present
    <3>4. Owned(j)'
      BY <1>6, <2>1, <2>2, <2>3, <2>4, <2>6, <3>1, <3>2 DEF Owned, Present
    <3> QED
      BY <3>3, <3>4
  <2> QED
    BY <2>5, <2>6
<1>14. LateTimers'
    BY <1>3, <1>4, TimersStay
<1> QED
    BY <1>13, <1>14 DEF CleanInv, Adrift

(***************************************************************************)
(* Steps of a run that leave the store as it is: owners move on, or let go *)
(* of a job that stays where it is.                                        *)
(***************************************************************************)
LEMMA StoreSame ==
    ASSUME NEW j, Apart(j), UNCHANGED storeVars
    PROVE  Apart(j)'
BY DEF Apart, ListedOnce, Queued, Present, storeVars

LEMMA OwnersLeft ==
    ASSUME NEW j, Owned(j), UNCHANGED storeVars,
           \A t \in Slots : Owner(t, j)' => Owner(t, j) /\ (pc'[t] = "gap" <=> pc[t] = "gap")
    PROVE  Owned(j)'
BY DEF Owned, Present, storeVars, Queued

LEMMA CompletedClean ==
    ASSUME Strong, NEW s \in Slots, Completed(s)
    PROVE  CleanInv'
<1>1. ExecType
    BY TypeParts DEF Strong, Inv
<1>2. UNCHANGED <<storeVars, lapsed, disturbed>> /\ pc[s] = "finalized"
    BY DEF Completed, history
<1>3. renew[s] = "hset" => held[s].job \in disturbed
    BY <1>2 DEF Strong, CleanInv, LateTimers
<1>4. /\ LateTimers'
      /\ \A j \in Jobs :
            \/ \A t \in Slots : Owner(t, j)' => Owner(t, j) /\ (pc'[t] = "gap" <=> pc[t] = "gap")
            \/ \E u \in Slots : /\ Owner(s, j) /\ pc[s] # "gap" /\ pc'[u] # "gap"
                                /\ \A t \in Slots : Owner(t, j)' => t = u \/ (t # s /\ Owner(t, j))
  <2>1. CASE next[s] = None /\ Ends(s, TimerCleared(s))
    <3>1. /\ pc' = [pc EXCEPT ![s] = "idle"] /\ next' = [next EXCEPT ![s] = None]
          /\ \A t \in Slots \ {s} : held'[t] = held[t] /\ renew'[t] = renew[t]
          /\ renew'[s] = "hset" => renew[s] = "hset" /\ held'[s] = held[s]
      BY <1>1, <2>1 DEF Ends, TimerCleared, ExecType
    <3>2. LateTimers'
      BY <1>1, <1>2, <1>3, <3>1 DEF Strong, CleanInv, LateTimers, ExecType
    <3>3. \A j \in Jobs, t \in Slots :
              Owner(t, j)' => Owner(t, j) /\ (pc'[t] = "gap" <=> pc[t] = "gap")
      BY <1>1, <3>1 DEF Owner, ExecType
    <3> QED
      BY <3>2, <3>3
  <2>2. CASE /\ next[s] # None
             /\ pc' = [pc EXCEPT ![s] = "running"]
             /\ held' = [held EXCEPT ![s] = next[s]]
             /\ renew' = [renew EXCEPT ![s] = "armed"]
             /\ next' = [next EXCEPT ![s] = None]
    <3>1. LateTimers'
      BY <1>1, <1>2, <2>2 DEF Strong, CleanInv, LateTimers, ExecType
    <3>2. ASSUME NEW j \in Jobs, NEW t \in Slots, Owner(t, j)'
          PROVE  /\ t # s => Owner(t, j) /\ pc'[t] = pc[t]
                 /\ t = s => Owner(s, j) /\ pc'[s] = "running"
      BY <1>1, <2>2, <3>2 DEF Owner, ExecType
    <3> QED
      BY <1>2, <3>1, <3>2
  <2>3. ASSUME next[s] # None, NEW u \in Slots \ {s}, Free(u),
               pc' = [pc EXCEPT ![s] = "idle", ![u] = "running"],
               renew' = [renew EXCEPT ![s] = TimerCleared(s), ![u] = "armed"],
               held' = [held EXCEPT ![u] = next[s],
                           ![s] = IF TimerCleared(s) = "off" THEN None ELSE @],
               next' = [next EXCEPT ![s] = None]
        PROVE  /\ LateTimers'
               /\ \A j \in Jobs :
                     \/ \A t \in Slots : Owner(t, j)' =>
                            Owner(t, j) /\ (pc'[t] = "gap" <=> pc[t] = "gap")
                     \/ /\ Owner(s, j) /\ pc[s] # "gap" /\ pc'[u] # "gap"
                        /\ \A t \in Slots : Owner(t, j)' => t = u \/ (t # s /\ Owner(t, j))
    <3>1. /\ \A t \in Slots \ {s, u} : /\ pc'[t] = pc[t] /\ held'[t] = held[t]
                                       /\ renew'[t] = renew[t] /\ next'[t] = next[t]
          /\ renew'[s] = "hset" => renew[s] = "hset" /\ held'[s] = held[s]
          /\ renew'[u] = "armed" /\ pc'[u] = "running" /\ held'[u] = next[s]
          /\ pc'[s] = "idle" /\ next'[s] = None /\ next'[u] = None
      BY <1>1, <2>3 DEF TimerCleared, ExecType, Free
    <3>2. LateTimers'
      BY <1>2, <1>3, <3>1 DEF Strong, CleanInv, LateTimers
    <3>3. ASSUME NEW j \in Jobs, NEW t \in Slots, Owner(t, j)'
          PROVE  /\ t # s
                 /\ t # u => Owner(t, j) /\ pc'[t] = pc[t]
                 /\ t = u => Owner(s, j) /\ pc'[u] = "running"
      <4>1. CASE t = s
        BY <3>1, <3>3, <4>1 DEF Owner
      <4>2. CASE t = u
        <5>1. next[s].job = j
          BY <3>1, <3>3, <4>2 DEF Owner
        <5> QED
          BY <2>3, <3>1, <4>2, <5>1 DEF Owner
      <4>3. CASE t \in Slots \ {s, u}
        <5>1. pc'[t] = pc[t] /\ held'[t] = held[t] /\ next'[t] = next[t]
          BY <3>1, <4>3
        <5> QED
          BY <3>3, <4>3, <5>1 DEF Owner
      <4> QED
        BY <4>1, <4>2, <4>3
    <3>4. ASSUME NEW j \in Jobs
          PROVE  \/ \A t \in Slots : Owner(t, j)' =>
                        Owner(t, j) /\ (pc'[t] = "gap" <=> pc[t] = "gap")
                 \/ /\ Owner(s, j) /\ pc[s] # "gap" /\ pc'[u] # "gap"
                    /\ \A t \in Slots : Owner(t, j)' => t = u \/ (t # s /\ Owner(t, j))
      <4>1. CASE Owner(u, j)'
        BY <1>2, <3>1, <3>3, <4>1
      <4>2. CASE ~Owner(u, j)'
        BY <3>3, <4>2
      <4> QED
        BY <4>1, <4>2
    <3> QED
      BY <3>2, <3>4
  <2> QED
    BY <2>1, <2>2, <2>3 DEF Completed
<1>5. ASSUME NEW j \in Jobs \ Adrift' PROVE Apart(j)' /\ Owned(j)'
  <2>1. Apart(j) /\ Owned(j)
    BY <1>2 DEF Strong, CleanInv, Adrift
  <2>2. CASE \A t \in Slots : Owner(t, j)' => Owner(t, j) /\ (pc'[t] = "gap" <=> pc[t] = "gap")
    BY <1>2, <2>1, <2>2, StoreSame, OwnersLeft
  <2>3. CASE \E u \in Slots : /\ Owner(s, j) /\ pc[s] # "gap" /\ pc'[u] # "gap"
                              /\ \A t \in Slots : Owner(t, j)' => t = u \/ (t # s /\ Owner(t, j))
    <3>1. PICK u \in Slots : /\ Owner(s, j) /\ pc[s] # "gap" /\ pc'[u] # "gap"
                             /\ \A t \in Slots : Owner(t, j)' => t = u \/ (t # s /\ Owner(t, j))
      BY <2>3
    <3>2. \A t \in Slots : Owner(t, j)' => t = u
      BY <2>1, <3>1 DEF Owned
    <3>3. Owned(j)'
      <4>1. UNCHANGED <<Queued, delayed, expired, completed, failed, active, vault>>
        BY <1>2 DEF storeVars, Queued
      <4> QED
        BY <2>1, <3>1, <3>2, <4>1 DEF Owned, Present
    <3> QED
      BY <1>2, <2>1, <3>3, StoreSame
  <2> QED
    BY <1>4, <2>2, <2>3
<1> QED
    BY <1>4, <1>5 DEF CleanInv, Adrift

\* A step of s after which it has at most the job it had, the timers of the
\* others alone and its own not between two commands.
LEMMA SlotTimers ==
    ASSUME Strong, NEW s \in Slots, renew'[s] # "hset",
           disturbed \subseteq disturbed',
           \A t \in Slots \ {s} : /\ pc'[t] = pc[t] /\ held'[t] = held[t]
                                  /\ renew'[t] = renew[t]
    PROVE  LateTimers'
BY DEF Strong, CleanInv, LateTimers

LEMMA ClearedInOrder ==
    ASSUME NEW s \in Slots, InOrder(s)
    PROVE  TimerCleared(s) # "hset"
BY DEF InOrder, TimerCleared

\* The slots a step of s leaves alone.
LEMMA EndsOthers ==
    ASSUME ExecType, NEW s \in Slots, NEW r, Ends(s, r)
    PROVE  /\ \A t \in Slots \ {s} : /\ pc'[t] = pc[t] /\ held'[t] = held[t]
                                     /\ next'[t] = next[t] /\ renew'[t] = renew[t]
           /\ pc'[s] = "idle" /\ next'[s] = None /\ renew'[s] = r
BY DEF Ends, ExecType

\* handleFailure has written the record of the job it still has.
LEMMA FailRetryClean ==
    ASSUME Strong, NEW s \in Slots, FailRetry(s)
    PROVE  CleanInv'
<1>1. StoreTypeOK /\ ExecType
    BY TypeParts DEF Strong, Inv
<1> DEFINE i == held[s].job
           rec == [held[s].rec EXCEPT !.status = "retrying"]
<1>2. pc[s] \in {"running", "finalized"} /\ InOrder(s)
    BY DEF FailRetry, Caught
<1>3. i \in Jobs /\ rec # Absent
  <2>1. i \in Jobs /\ held[s].rec \in JobRec
    BY <1>1, <1>2, HeldType
  <2>2. rec.status = "retrying"
    BY <2>1 DEF JobRec
  <2> QED
    BY <2>1, <2>2 DEF Absent
<1>4. /\ vault' = [vault EXCEPT ![i] = rec]
      /\ UNCHANGED <<waiting, prioritized, active, expired, delayed,
                     completed, failed, held, lapsed>>
      /\ disturbed' = IF pc[s] = "running" THEN disturbed ELSE disturbed \cup {i}
    BY DEF FailRetry
<1> HIDE DEF rec
<1>5. /\ pc'[s] = "parked" /\ next'[s] = None /\ renew'[s] = TimerCleared(s)
      /\ \A t \in Slots \ {s} : /\ pc'[t] = pc[t] /\ held'[t] = held[t]
                                /\ next'[t] = next[t] /\ renew'[t] = renew[t]
    BY <1>1, <1>4 DEF FailRetry, ExecType
<1>6. LateTimers'
    BY <1>2, <1>4, <1>5, ClearedInOrder, SlotTimers
<1>7. ASSUME NEW j \in Jobs \ Adrift' PROVE Apart(j)' /\ Owned(j)'
  <2>1. Apart(j) /\ Owned(j)
    BY <1>4 DEF Strong, CleanInv, Adrift
  <2>2. j = i => pc[s] = "running" /\ Owner(s, j)
    BY <1>2, <1>4 DEF Adrift, Owner
  <2>3. ASSUME NEW t \in Slots, Owner(t, j)'
        PROVE  Owner(t, j) /\ (pc'[t] = "gap" <=> pc[t] = "gap")
    <3>1. CASE t = s
      <4>1. held[s].job = j
        BY <1>4, <1>5, <2>3, <3>1 DEF Owner
      <4> QED
        BY <1>2, <1>5, <2>2, <3>1, <4>1
    <3>2. CASE t # s
      <4>1. pc'[t] = pc[t] /\ held'[t] = held[t] /\ next'[t] = next[t]
        BY <1>5, <3>2
      <4> QED
        BY <2>3, <4>1 DEF Owner
    <3> QED
      BY <3>1, <3>2
  <2> HIDE DEF i
  <2>4. /\ j # i => vault'[j] = vault[j]
        /\ j = i => /\ vault'[j] # Absent
                    /\ j \notin Queued \cup delayed \cup completed \cup failed
    BY <1>1, <1>3, <1>4, <2>1, <2>2 DEF StoreTypeOK, Owned
  <2>5. UNCHANGED Queued /\ ListedOnce(j)'
    BY <1>4, <2>1 DEF Apart, Queued, ListedOnce
  <2>6. Apart(j)'
    BY <1>4, <2>1, <2>4, <2>5 DEF Apart, Present
  <2>7. Owned(j)'
    BY <1>4, <2>1, <2>3, <2>4, <2>5 DEF Owned, Present
  <2> QED
    BY <2>6, <2>7
<1> QED
    BY <1>6, <1>7 DEF CleanInv, Adrift

\* The lease goes, the run bridges the gap.
LEMMA RetryZremClean ==
    ASSUME Strong, NEW s \in Slots, RetryZrem(s)
    PROVE  CleanInv'
<1>1. StoreTypeOK /\ ExecType
    BY TypeParts DEF Strong, Inv
<1> DEFINE i == held[s].job
<1>2. /\ UNCHANGED <<vault, waiting, prioritized, delayed, completed, failed>>
      /\ UNCHANGED <<held, next, renew, lapsed, disturbed>>
      /\ active' = active \ {i} /\ expired' = expired \ {i}
      /\ pc[s] = "parked" /\ pc' = [pc EXCEPT ![s] = "gap"] /\ renew[s] # "hset"
    BY DEF RetryZrem, history, InOrder
<1>3. pc'[s] = "gap" /\ \A t \in Slots \ {s} : pc'[t] = pc[t]
    BY <1>1, <1>2 DEF ExecType
<1>4. LateTimers'
    BY <1>2, <1>3, SlotTimers
<1>5. ASSUME NEW j \in Jobs \ Adrift' PROVE Apart(j)' /\ Owned(j)'
  <2>1. Apart(j) /\ Owned(j)
    BY <1>2 DEF Strong, CleanInv, Adrift
  <2>2. \A t \in Slots : Owner(t, j)' => Owner(t, j)
    BY <1>2, <1>3 DEF Owner
  <2>3. (j = i <=> Owner(s, j)) /\ next[s] = None
    BY <1>1, <1>2 DEF Owner, ExecType
  <2> HIDE DEF i
  <2>4. UNCHANGED Queued /\ ListedOnce(j)'
    BY <1>2, <2>1 DEF Apart, Queued, ListedOnce
  <2>5. Apart(j)'
    BY <1>2, <2>1, <2>4 DEF Apart, Present
  <2>6. Owned(j)'
    BY <1>2, <1>3, <2>1, <2>2, <2>3, <2>4 DEF Owned, Present
  <2> QED
    BY <2>5, <2>6
<1> QED
    BY <1>4, <1>5 DEF CleanInv, Adrift

\* signal.lua: from the hands of the run to the delayed set.
LEMMA RetrySignalClean ==
    ASSUME Strong, NEW s \in Slots, RetrySignal(s)
    PROVE  CleanInv'
<1>1. StoreTypeOK /\ ExecType
    BY TypeParts DEF Strong, Inv
<1> DEFINE i == held[s].job
<1>2. /\ UNCHANGED <<vault, waiting, prioritized, active, expired, completed, failed>>
      /\ UNCHANGED <<lapsed, disturbed>>
      /\ delayed' = delayed \cup {i}
      /\ pc[s] = "gap" /\ renew[s] # "hset" /\ Ends(s, renew[s])
    BY DEF RetrySignal, SignalScript, history, InOrder
<1>3. /\ \A t \in Slots \ {s} : /\ pc'[t] = pc[t] /\ held'[t] = held[t]
                                /\ next'[t] = next[t] /\ renew'[t] = renew[t]
      /\ pc'[s] = "idle" /\ next'[s] = None /\ renew'[s] = renew[s]
    BY <1>1, <1>2, EndsOthers
<1>4. LateTimers'
    BY <1>2, <1>3, SlotTimers
<1>5. ASSUME NEW j \in Jobs \ Adrift' PROVE Apart(j)' /\ Owned(j)'
  <2>1. Apart(j) /\ Owned(j)
    BY <1>2 DEF Strong, CleanInv, Adrift
  <2>2. \A t \in Slots : Owner(t, j)' => t # s /\ Owner(t, j) /\ pc'[t] = pc[t]
    BY <1>1, <1>3, RunLeft
  <2>3. j = i => Owner(s, j)
    BY <1>2 DEF Owner
  <2> HIDE DEF i
  <2>4. j = i => /\ Present(vault, j) /\ j \notin completed \cup failed \cup Queued \cup active
                 /\ \A t \in Slots : ~Owner(t, j)'
    BY <1>2, <2>1, <2>2, <2>3 DEF Owned
  <2>5. UNCHANGED Queued /\ ListedOnce(j)'
    BY <1>2, <2>1 DEF Apart, Queued, ListedOnce
  <2>6. Apart(j)'
    BY <1>2, <2>1, <2>4, <2>5 DEF Apart, Present
  <2>7. Owned(j)'
    BY <1>2, <2>1, <2>2, <2>4, <2>5 DEF Owned, Present
  <2> QED
    BY <2>6, <2>7
<1> QED
    BY <1>4, <1>5 DEF CleanInv, Adrift

LEMMA FailDeadClean ==
    ASSUME Strong, NEW s \in Slots, FailDead(s)
    PROVE  CleanInv'
<1>1. ExecType
    BY TypeParts DEF Strong, Inv
<1>2. PICK E \in SUBSET Jobs : FinalizeScript(held[s].job, "dead", E)
    BY DEF FailDead
<1>3. /\ pc[s] \in {"running", "finalized"} /\ InOrder(s)
      /\ UNCHANGED lapsed
      /\ disturbed' = IF pc[s] = "running" THEN disturbed ELSE disturbed \cup {held[s].job}
    BY DEF FailDead, Caught
<1>4. /\ pc'[s] = "dead" /\ next'[s] = None /\ renew'[s] = TimerCleared(s)
      /\ \A t \in Slots \ {s} : /\ pc'[t] = pc[t] /\ held'[t] = held[t]
                                /\ next'[t] = next[t] /\ renew'[t] = renew[t]
    BY <1>1 DEF FailDead, ExecType
<1>5. \A j \in Jobs \ Adrift' : Apart(j)' /\ Owned(j)'
    BY <1>2, <1>3, <1>4, FinalizeClean
<1>6. LateTimers'
    BY <1>3, <1>4, ClearedInOrder, SlotTimers
<1> QED
    BY <1>5, <1>6 DEF CleanInv, Adrift

\* The run is over, of a job that was no longer its own, or its process died.
LEMMA RunOverClean ==
    ASSUME Strong, NEW s \in Slots, WriteDlq(s) \/ Crash(s)
    PROVE  CleanInv'
<1>1. ExecType
    BY TypeParts DEF Strong, Inv
<1>2. /\ UNCHANGED <<vault, waiting, prioritized, active, expired, delayed, completed, failed>>
      /\ UNCHANGED <<lapsed, disturbed>>
    BY DEF WriteDlq, Crash, history, storeVars
<1>3. PICK r : Ends(s, r) /\ r # "hset"
    BY DEF WriteDlq, Crash, InOrder
<1>4. /\ \A t \in Slots \ {s} : /\ pc'[t] = pc[t] /\ held'[t] = held[t]
                                /\ next'[t] = next[t] /\ renew'[t] = renew[t]
      /\ pc'[s] = "idle" /\ next'[s] = None /\ renew'[s] # "hset"
    BY <1>1, <1>3, EndsOthers
<1>5. LateTimers'
    BY <1>2, <1>4, SlotTimers
<1>6. ASSUME NEW j \in Jobs \ Adrift' PROVE Apart(j)' /\ Owned(j)'
  <2>1. Apart(j) /\ Owned(j)
    BY <1>2 DEF Strong, CleanInv, Adrift
  <2>2. \A t \in Slots : Owner(t, j)' => t # s /\ Owner(t, j) /\ pc'[t] = pc[t]
    BY <1>1, <1>4, RunLeft
  <2>3. UNCHANGED Queued /\ ListedOnce(j)'
    BY <1>2, <2>1 DEF Apart, Queued, ListedOnce
  <2>4. Apart(j)'
    BY <1>2, <2>1, <2>3 DEF Apart, Present
  <2>5. Owned(j)'
    BY <1>2, <2>1, <2>2, <2>3 DEF Owned, Present
  <2> QED
    BY <2>4, <2>5
<1> QED
    BY <1>5, <1>6 DEF CleanInv, Adrift
----------------------------------------------------------------------------
(***************************************************************************)
(* The scheduler's two loops.                                              *)
(***************************************************************************)
LEMMA PromoteClean ==
    ASSUME Strong, Promote
    PROVE  CleanInv'
<1>1. StoreTypeOK /\ due \subseteq delayed
    BY TypeParts DEF Strong, Inv, StoreTypeOK
<1>2. /\ UNCHANGED <<vault, active, expired, completed, failed>>
      /\ UNCHANGED <<pc, held, next, renew, lapsed, disturbed>>
      /\ PromoteScript /\ delayed' = delayed \ due
    BY DEF Promote, PromoteScript, execVars, history
<1>3. LateTimers'
    BY <1>2 DEF Strong, CleanInv, LateTimers
<1>4. ASSUME NEW j \in Jobs \ Adrift' PROVE Apart(j)' /\ Owned(j)'
  <2>1. Apart(j) /\ Owned(j)
    BY <1>2 DEF Strong, CleanInv, Adrift
  <2>2. \A t \in Slots : Owner(t, j) <=> Owner(t, j)'
    BY <1>2, SameOwners
  <2>3. j \in due => j \notin Queued /\ Present(vault, j)
    BY <1>1, <2>1 DEF Apart
  <2>4. ListedOnce(j)' /\ Queued' = Queued \cup due
    BY <1>1, <1>2, <2>1, <2>3, PromoteOnce DEF Apart
  <2>5. Apart(j)'
    BY <1>1, <1>2, <2>1, <2>4 DEF Apart, Present
  <2>6. Owned(j)'
    BY <1>1, <1>2, <2>1, <2>2, <2>4 DEF Owned, Present
  <2> QED
    BY <2>5, <2>6
<1> QED
    BY <1>3, <1>4 DEF CleanInv, Adrift

\* Whose lease has run out has no owner: it is queued once, or dies once.
LEMMA RecoverClean ==
    ASSUME Strong, RecoverStalled
    PROVE  CleanInv'
<1>1. StoreTypeOK /\ expired \subseteq active
    BY TypeParts DEF Strong, Inv, StoreTypeOK
<1>2. /\ UNCHANGED <<delayed, completed>>
      /\ UNCHANGED <<pc, held, next, renew, lapsed, disturbed>>
      /\ Enqueue(StalledBack)
      /\ failed' = failed \cup StalledDead
      /\ active' = active \ expired /\ expired' = {}
    BY DEF RecoverStalled, RecoverScript, execVars
<1>3. \A j \in Jobs :
          /\ j \in StalledDead => vault'[j] = [vault[j] EXCEPT !.status = "dead"]
          /\ j \in StalledBack \ StalledDead =>
                 vault'[j] = [vault[j] EXCEPT !.status = "waiting"]
          /\ j \notin StalledDead \cup StalledBack => vault'[j] = vault[j]
    BY DEF RecoverStalled, RecoverScript
<1>4. LateTimers'
    BY <1>2 DEF Strong, CleanInv, LateTimers
<1>5. StalledBack \in SUBSET Jobs /\ QueueType
    BY <1>1 DEF StoreTypeOK, StalledBack, QueueType
<1>6. StalledBack \subseteq expired /\ StalledDead \subseteq expired
    BY DEF StalledBack, StalledDead
<1>7. ASSUME NEW j \in Jobs \ Adrift' PROVE Apart(j)' /\ Owned(j)'
  <2>1. Apart(j) /\ Owned(j)
    BY <1>2 DEF Strong, CleanInv, Adrift
  <2>2. \A t \in Slots : Owner(t, j) <=> Owner(t, j)'
    BY <1>2, SameOwners
  <2>3. j \in expired => /\ Present(vault, j)
                         /\ j \notin Queued \cup delayed \cup completed \cup failed
                         /\ \A t \in Slots : ~Owner(t, j)
    BY <1>1, <2>1 DEF Apart, Owned
  <2>4. j \in expired => j \in StalledDead \/ j \in StalledBack
    <3>1. vault[j] \in JobRec \/ j \notin expired
      BY <1>1, <2>3 DEF StoreTypeOK, Present
    <3>2. MaxRetries[j] \in Nat
      BY OptionsAssumption
    <3> QED
      BY <2>3, <3>1, <3>2 DEF StalledDead, StalledBack, JobRec
  <2>5. ~(j \in StalledDead /\ j \in StalledBack)
    <3>1. vault[j] \in JobRec \/ ~Present(vault, j)
      BY <1>1 DEF StoreTypeOK, Present
    <3>2. MaxRetries[j] \in Nat
      BY OptionsAssumption
    <3> QED
      BY <3>1, <3>2 DEF StalledDead, StalledBack, JobRec
  <2>6. /\ j \in StalledDead => vault'[j].status = "dead"
        /\ j \in StalledBack => vault'[j] # Absent
    <3>1. vault[j] \in JobRec \/ j \notin expired
      BY <1>1, <2>3 DEF StoreTypeOK, Present
    <3>2. CASE j \in StalledDead
      <4>1. vault'[j] = [vault[j] EXCEPT !.status = "dead"] /\ vault[j] \in JobRec
        BY <1>3, <1>6, <3>1, <3>2
      <4> QED
        BY <2>5, <3>2, <4>1 DEF JobRec
    <3>3. CASE j \in StalledBack
      <4>1. vault'[j] = [vault[j] EXCEPT !.status = "waiting"] /\ vault[j] \in JobRec
        BY <1>3, <1>6, <2>5, <3>1, <3>3
      <4>2. vault'[j].status = "waiting"
        BY <4>1 DEF JobRec
      <4> QED
        BY <2>5, <3>3, <4>2 DEF Absent
    <3> QED
      BY <3>2, <3>3
  <2>7. ListedOnce(j)' /\ Queued' = Queued \cup StalledBack
    BY <1>2, <1>5, <1>6, <2>1, <2>3, EnqueueOnce, EnqueueType DEF Apart
  <2>8. Apart(j)'
    <3>1. CASE j \in expired
      BY <1>2, <3>1, <2>3, <2>4, <2>5, <2>6, <2>7 DEF Apart, Present
    <3>2. CASE j \notin expired
      BY <1>2, <1>3, <1>6, <3>2, <2>1, <2>7 DEF Apart, Present
    <3> QED
      BY <3>1, <3>2
  <2>9. Owned(j)'
    <3>1. CASE j \in expired
      BY <2>2, <2>3, <3>1 DEF Owned
    <3>2. CASE j \notin expired
      BY <1>2, <1>3, <1>6, <3>2, <2>1, <2>2, <2>7 DEF Owned, Present
    <3> QED
      BY <3>1, <3>2
  <2> QED
    BY <2>8, <2>9
<1> QED
    BY <1>4, <1>7 DEF CleanInv, Adrift
----------------------------------------------------------------------------
(***************************************************************************)
(* The invariant of every run.                                             *)
(***************************************************************************)
LEMMA CleanInit == Init => CleanInv
<1> SUFFICES ASSUME Init PROVE CleanInv
    OBVIOUS
<1>1. /\ \A s \in Slots : renew[s] = "off" /\ pc[s] = "idle" /\ next[s] = None
      /\ waiting = <<>> /\ prioritized = {} /\ active = {} /\ delayed = {}
      /\ completed = {} /\ failed = {}
    BY DEF Init, StoreInit
<1>2. \A s \in Slots, j \in Jobs : ~Owner(s, j)
    BY <1>1 DEF Owner
<1>3. Queued = {} /\ \A j \in Jobs : ListedOnce(j)
    BY <1>1 DEF Queued, ListedOnce, OnceIn, ToSet
<1> QED
    BY <1>1, <1>2, <1>3 DEF CleanInv, LateTimers, Apart, Owned

LEMMA CleanStep == Strong /\ [Next]_vars => CleanInv'
<1> SUFFICES ASSUME Strong, [Next]_vars PROVE CleanInv'
    OBVIOUS
<1>1. ASSUME NEW j \in Jobs, Add(j) \/ AddLater(j) \/ Due(j) \/ LeaseExpires(j)
      PROVE  CleanInv'
    BY <1>1, AddClean, QuietClean
<1>2. CASE Drain \/ Promote \/ RecoverStalled
    BY <1>2, DrainClean, PromoteClean, RecoverClean
<1>3. ASSUME NEW c \in Clients, Retry(c) \/ \E j \in Jobs : RetryRead(c, j)
      PROVE  CleanInv'
    BY <1>3, RetryClean, QuietClean
<1>4. ASSUME NEW s \in Slots,
             \/ \E j \in Jobs : Fetch(s, j)
             \/ RenewHset(s) \/ RenewZadd(s) \/ RenewReply(s) \/ UpdateProgress(s)
             \/ Finalize(s) \/ FinalizeAndFetch(s) \/ Completed(s)
             \/ FailRetry(s) \/ RetryZrem(s) \/ RetrySignal(s)
             \/ FailDead(s) \/ WriteDlq(s) \/ Crash(s)
      PROVE  CleanInv'
  <2>1. CASE \E j \in Jobs : Fetch(s, j)
    BY <2>1, FetchClean
  <2>2. CASE RenewHset(s) \/ RenewZadd(s) \/ RenewReply(s) \/ UpdateProgress(s)
    BY <2>2, RecordClean, RenewZaddClean, QuietClean
  <2>3. CASE Finalize(s) \/ FinalizeAndFetch(s) \/ Completed(s)
    BY <2>3, FinalizeStepClean, FetchNextClean, CompletedClean
  <2>4. CASE FailRetry(s) \/ RetryZrem(s) \/ RetrySignal(s)
    BY <2>4, FailRetryClean, RetryZremClean, RetrySignalClean
  <2>5. CASE FailDead(s) \/ WriteDlq(s) \/ Crash(s)
    BY <2>5, FailDeadClean, RunOverClean
  <2> QED
    BY <1>4, <2>1, <2>2, <2>3, <2>4, <2>5
<1>5. CASE UNCHANGED vars
    BY <1>5, QuietClean
<1> QED
    BY <1>1, <1>2, <1>3, <1>4, <1>5 DEF Next

LEMMA StrongAlways == Spec => []Strong
<1>1. Init => Strong
    BY InvInit, CleanInit DEF Strong
<1>2. Strong /\ [Next]_vars => Strong'
    BY InvStep, CleanStep DEF Strong
<1> QED
    BY <1>1, <1>2, PTL DEF Spec

\* Two runs execute a job only if its lease ran out under one that had it, or
\* a run that was over touched it, or it was retried without being dead: the
\* claims of dequeue, piggyback, recovery and promotion exclude each other.
THEOREM Exclusive == Spec => []ExclusiveExecution
<1>1. Strong => ExclusiveExecution
  <2> SUFFICES ASSUME Strong, NEW s \in Slots, NEW t \in Slots, NEW j \in Jobs \ Adrift,
                      Runs(s, j), Runs(t, j)
               PROVE  s = t
    BY DEF ExclusiveExecution, Adrift
  <2>1. Owner(s, j) /\ Owner(t, j)
    BY DEF Runs, Owner
  <2> QED
    BY <2>1 DEF Strong, CleanInv, Owned
<1> QED
    BY <1>1, StrongAlways, PTL

\* With the same exceptions a job has one outcome, its record says the same,
\* and it is neither queued, delayed, leased nor run any more.
THEOREM OneOutcomeEach == Spec => []OneOutcome
<1>1. Strong => OneOutcome
  <2> SUFFICES ASSUME Strong, NEW j \in Jobs \ Adrift
               PROVE  /\ j \in completed => vault[j].status = "completed"
                      /\ j \in failed => vault[j].status = "dead"
                      /\ j \in completed \cup failed =>
                             (~Placed(j) /\ \A s \in Slots : ~Runs(s, j))
    BY DEF OneOutcome, Adrift
  <2>1. Apart(j) /\ Owned(j)
    BY DEF Strong, CleanInv
  <2>2. \A s \in Slots : Runs(s, j) => Owner(s, j)
    BY DEF Runs, Owner
  <2> QED
    BY <2>1, <2>2 DEF Apart, Owned, Placed
<1> QED
    BY <1>1, StrongAlways, PTL
-----------------------------------------------------------------------------
(***************************************************************************)
(* JobExecution implements JobLifecycle: the life of a job that is not     *)
(* adrift is a path of the diagram.  The mapping is `phase <- Phase,       *)
(* adrift <- Adrift', and CleanInv says what a phase stands for.           *)
(***************************************************************************)
Runner(j) == \E s \in Slots : Runs(s, j)

\* The moves of every step that does not finalize a job.
PlainMoves == {<<"absent", "open">>, <<"open", "running">>, <<"open", "absent">>,
               <<"open", "dead">>, <<"running", "open">>, <<"dead", "open">>}
Plain(j) == Phase(j)' = Phase(j) \/ <<Phase(j), Phase(j)'>> \in PlainMoves

LEMMA PhaseIs ==
    ASSUME NEW j
    PROVE  /\ Runner(j) => Phase(j) = "running"
           /\ ~Runner(j) /\ j \in completed => Phase(j) = "completed"
           /\ ~Runner(j) /\ j \notin completed /\ j \in failed => Phase(j) = "dead"
           /\ ~Runner(j) /\ j \notin completed \cup failed /\ Present(vault, j)
                  => Phase(j) = "open"
           /\ ~Runner(j) /\ j \notin completed \cup failed /\ ~Present(vault, j)
                  => Phase(j) = "absent"
BY DEF Phase, Runner

LEMMA PhaseNext ==
    ASSUME NEW j
    PROVE  /\ Runner(j)' => Phase(j)' = "running"
           /\ ~Runner(j)' /\ j \in completed' => Phase(j)' = "completed"
           /\ ~Runner(j)' /\ j \notin completed' /\ j \in failed' => Phase(j)' = "dead"
           /\ ~Runner(j)' /\ j \notin completed' \cup failed' /\ Present(vault, j)'
                  => Phase(j)' = "open"
           /\ ~Runner(j)' /\ j \notin completed' \cup failed' /\ ~Present(vault, j)'
                  => Phase(j)' = "absent"
BY DEF Phase, Runner

\* What the phase of a job that is not adrift says of the store.
LEMMA CleanPhase ==
    ASSUME Strong, NEW j \in Jobs \ Adrift
    PROVE  /\ Runner(j) => /\ Present(vault, j)
                           /\ j \notin Queued \cup delayed \cup expired \cup completed \cup failed
           /\ j \in Queued \cup delayed \cup expired =>
                  /\ ~Runner(j) /\ Present(vault, j) /\ j \notin completed \cup failed
                  /\ Phase(j) = "open"
           /\ j \in completed => ~Runner(j) /\ Phase(j) = "completed"
           /\ j \in failed => ~Runner(j) /\ j \notin completed /\ Phase(j) = "dead"
           /\ ~Present(vault, j) => /\ ~Runner(j) /\ j \notin completed \cup failed
                                    /\ Phase(j) = "absent"
<1>1. Apart(j) /\ Owned(j)
    BY DEF Strong, CleanInv
<1>2. expired \subseteq active
    BY TypeParts DEF Strong, Inv, StoreTypeOK
<1>3. \A s \in Slots : Runs(s, j) => Owner(s, j)
    BY DEF Runs, Owner
<1>4. Runner(j) => /\ Present(vault, j)
                   /\ j \notin Queued \cup delayed \cup expired \cup completed \cup failed
    BY <1>1, <1>3 DEF Owned, Runner
<1>5. j \in Queued \cup delayed \cup expired => Present(vault, j) /\ j \notin completed \cup failed
    BY <1>1, <1>2 DEF Apart
<1>6. j \in completed \cup failed => Present(vault, j)
    BY <1>1, AbsentStatus DEF Apart, Present
<1> QED
    BY <1>1, <1>4, <1>5, <1>6, PhaseIs DEF Apart

\* Steps that change none of what the phase looks at.
LEMMA PhaseKept ==
    ASSUME NEW j, Runner(j) <=> Runner(j)', j \in completed <=> j \in completed',
           j \in failed <=> j \in failed', Present(vault, j) <=> Present(vault, j)'
    PROVE  Phase(j)' = Phase(j)
BY PhaseIs, PhaseNext

LEMMA RunnersSame ==
    ASSUME UNCHANGED <<pc, held>>, NEW j
    PROVE  Runner(j) <=> Runner(j)'
BY DEF Runner, Runs

LEMMA RunnersOthers ==
    ASSUME NEW s \in Slots, \A t \in Slots \ {s} : pc'[t] = pc[t] /\ held'[t] = held[t],
           NEW j, pc[s] # "running" \/ held[s].job # j, pc'[s] # "running"
    PROVE  Runner(j) <=> Runner(j)'
BY DEF Runner, Runs
----------------------------------------------------------------------------
(***************************************************************************)
(* Producers, operators, the scheduler and the clock.                      *)
(***************************************************************************)
LEMMA AddLives ==
    ASSUME Strong, NEW i \in Jobs, Add(i) \/ AddLater(i), NEW j \in Jobs \ Adrift
    PROVE  Plain(j)
<1>1. StoreTypeOK
    BY TypeParts DEF Strong, Inv
<1>2. /\ UNCHANGED <<pc, held, completed, failed>>
      /\ ~Present(vault, i) /\ vault' = [vault EXCEPT ![i] = NewRec]
    BY DEF Add, AddLater, AddJobScript, AddDelayedScript, execVars
<1>3. Runner(j) <=> Runner(j)'
    BY <1>2, RunnersSame
<1>4. CASE j = i
  <2>1. /\ Phase(j) = "absent" /\ ~Runner(j) /\ j \notin completed \cup failed
    BY <1>2, <1>4, CleanPhase
  <2>2. Present(vault, j)'
    BY <1>1, <1>2, <1>4 DEF Present, NewRec, Absent, StoreTypeOK
  <2>3. Phase(j)' = "open"
    BY <1>2, <1>3, <2>1, <2>2, PhaseNext
  <2> QED
    BY <2>1, <2>3 DEF Plain, PlainMoves
<1>5. CASE j # i
  <2>1. Present(vault, j) <=> Present(vault, j)'
    BY <1>1, <1>2, <1>5 DEF Present, StoreTypeOK
  <2> QED
    BY <1>2, <1>3, <2>1, PhaseKept DEF Plain
<1> QED
    BY <1>4, <1>5

LEMMA DrainLives ==
    ASSUME Strong, Drain, NEW j \in Jobs \ Adrift
    PROVE  Plain(j)
<1>1. /\ UNCHANGED <<pc, held, completed, failed>>
      /\ vault' = WithoutEntries(vault, Queued \cup delayed)
    BY DEF Drain, DrainScript, execVars
<1>2. Runner(j) <=> Runner(j)'
    BY <1>1, RunnersSame
<1>3. CASE j \in Queued \cup delayed
  <2>1. ~Runner(j) /\ j \notin completed \cup failed /\ Phase(j) = "open"
    BY <1>3, CleanPhase
  <2>2. ~Present(vault, j)'
    BY <1>1, <1>3 DEF WithoutEntries, Present
  <2>3. Phase(j)' = "absent"
    BY <1>1, <1>2, <2>1, <2>2, PhaseNext
  <2> QED
    BY <2>1, <2>3 DEF Plain, PlainMoves
<1>4. CASE j \notin Queued \cup delayed
  <2>1. Present(vault, j) <=> Present(vault, j)'
    BY <1>1, <1>4 DEF WithoutEntries, Present
  <2> QED
    BY <1>1, <1>2, <2>1, PhaseKept DEF Plain
<1> QED
    BY <1>3, <1>4

LEMMA RetryLives ==
    ASSUME Strong, NEW c \in Clients, Retry(c), NEW j \in Jobs \ Adrift, j \notin Adrift'
    PROVE  Plain(j)
<1> DEFINE i == reading[c]
<1>1. StoreTypeOK
    BY TypeParts DEF Strong, Inv
<1>2. /\ UNCHANGED <<pc, held, completed>> /\ failed' = failed \ {i}
      /\ vault' = [vault EXCEPT ![i] =
                      [status |-> "waiting", attempts |-> 0, picked |-> TRUE]]
      /\ j = i => i \in failed
    BY DEF Retry, RetryScript, execVars, Adrift
<1> HIDE DEF i
<1>3. Runner(j) <=> Runner(j)'
    BY <1>2, RunnersSame
<1>4. CASE j = i
  <2>1. ~Runner(j) /\ j \notin completed /\ Phase(j) = "dead"
    BY <1>2, <1>4, CleanPhase
  <2>2. Present(vault, j)'
    BY <1>1, <1>2, <1>4 DEF Present, Absent, StoreTypeOK
  <2>3. Phase(j)' = "open"
    BY <1>2, <1>3, <1>4, <2>1, <2>2, PhaseNext
  <2> QED
    BY <2>1, <2>3 DEF Plain, PlainMoves
<1>5. CASE j # i
  <2>1. Present(vault, j) <=> Present(vault, j)'
    BY <1>1, <1>2, <1>5 DEF Present, StoreTypeOK
  <2> QED
    BY <1>2, <1>3, <1>5, <2>1, PhaseKept DEF Plain
<1> QED
    BY <1>4, <1>5

LEMMA QuietLives ==
    ASSUME \/ \E c \in Clients, i \in Jobs : RetryRead(c, i)
           \/ \E s \in Slots : RenewReply(s) \/ RenewZadd(s)
           \/ \E i \in Jobs : Due(i) \/ LeaseExpires(i)
           \/ Promote \/ UNCHANGED vars,
           NEW j \in Jobs
    PROVE  Plain(j)
<1>1. UNCHANGED <<vault, completed, failed, pc, held>>
    BY DEF RetryRead, RenewReply, RenewZadd, Due, LeaseExpires, TimeComes, LeaseRunsOut,
           Promote, PromoteScript, vars, storeVars, execVars
<1>2. Runner(j) <=> Runner(j)'
    BY <1>1, RunnersSame
<1>3. Present(vault, j) <=> Present(vault, j)'
    BY <1>1 DEF Present
<1> QED
    BY <1>1, <1>2, <1>3, PhaseKept DEF Plain

LEMMA RecoverLives ==
    ASSUME Strong, RecoverStalled, NEW j \in Jobs \ Adrift
    PROVE  Plain(j)
<1>1. StoreTypeOK
    BY TypeParts DEF Strong, Inv
<1>2. /\ UNCHANGED <<pc, held, completed>> /\ failed' = failed \cup StalledDead
      /\ vault'[j] = IF j \in StalledDead THEN [vault[j] EXCEPT !.status = "dead"]
                     ELSE IF j \in StalledBack THEN [vault[j] EXCEPT !.status = "waiting"]
                     ELSE vault[j]
    BY DEF RecoverStalled, RecoverScript, execVars
<1>3. StalledBack \subseteq expired /\ StalledDead \subseteq expired
    BY DEF StalledBack, StalledDead
<1>4. Runner(j) <=> Runner(j)'
    BY <1>2, RunnersSame
<1>5. CASE j \in StalledDead
  <2>1. ~Runner(j) /\ j \notin completed /\ Phase(j) = "open"
    BY <1>3, <1>5, CleanPhase
  <2>2. Phase(j)' = "dead"
    BY <1>2, <1>4, <1>5, <2>1, PhaseNext
  <2> QED
    BY <2>1, <2>2 DEF Plain, PlainMoves
<1>6. CASE j \in StalledBack \ StalledDead
  <2>1. ~Runner(j) /\ Present(vault, j) /\ j \notin completed \cup failed /\ Phase(j) = "open"
    BY <1>3, <1>6, CleanPhase
  <2>2. vault[j] \in JobRec /\ vault'[j] = [vault[j] EXCEPT !.status = "waiting"]
    BY <1>1, <1>2, <1>6, <2>1 DEF StoreTypeOK, Present
  <2>3. vault'[j].status = "waiting"
    BY <2>2 DEF JobRec
  <2>4. Present(vault, j)'
    BY <2>3 DEF Present, Absent
  <2>5. Phase(j)' = "open"
    BY <1>2, <1>4, <1>6, <2>1, <2>4, PhaseNext
  <2> QED
    BY <2>1, <2>5 DEF Plain
<1>7. CASE j \notin StalledBack \cup StalledDead
  <2>1. Present(vault, j) <=> Present(vault, j)'
    BY <1>2, <1>7 DEF Present
  <2> QED
    BY <1>2, <1>4, <1>7, <2>1, PhaseKept DEF Plain
<1> QED
    BY <1>5, <1>6, <1>7
----------------------------------------------------------------------------
(***************************************************************************)
(* Runs.                                                                   *)
(***************************************************************************)
LEMMA FetchLives ==
    ASSUME Strong, NEW s \in Slots, NEW k \in Jobs, Fetch(s, k), NEW j \in Jobs \ Adrift
    PROVE  Plain(j)
<1>1. StoreTypeOK /\ ExecType
    BY TypeParts DEF Strong, Inv
<1>2. /\ UNCHANGED <<completed, failed>> /\ pc[s] = "idle"
      /\ Pop(k) /\ Lease(k, vault, active, expired)
    BY DEF Fetch, DequeueScript, Free
<1>3. /\ \A t \in Slots \ {s} : pc'[t] = pc[t] /\ held'[t] = held[t]
      /\ \/ pc'[s] = "idle" /\ ~Present(vault, k)
         \/ pc'[s] = "running" /\ held'[s].job = k /\ Present(vault, k)
    BY <1>1, <1>2 DEF Fetch, ExecType
<1>4. \A i \in Jobs : i # k => vault'[i] = vault[i]
  <2>1. VaultType(vault)
    BY <1>1 DEF StoreTypeOK, VaultType
  <2> QED
    BY <1>2, <2>1, LeaseOne
<1>5. CASE j = k
  <2>1. j \in Queued
    <3>1. QueueType
      BY <1>1 DEF StoreTypeOK, QueueType
    <3>2. ListedOnce(j)
      BY DEF Strong, CleanInv, Apart
    <3> QED
      BY <1>2, <1>5, <3>1, <3>2, PopOnce
  <2>2. Phase(j) = "open" /\ Present(vault, j)
    BY <2>1, CleanPhase
  <2>3. Runner(j)'
    BY <1>3, <1>5, <2>2 DEF Runner, Runs
  <2>4. Phase(j)' = "running"
    BY <2>3, PhaseNext
  <2> QED
    BY <2>2, <2>4 DEF Plain, PlainMoves
<1>6. CASE j # k
  <2>1. Runner(j) <=> Runner(j)'
    BY <1>2, <1>3, <1>6 DEF Runner, Runs
  <2>2. Present(vault, j) <=> Present(vault, j)'
    BY <1>4, <1>6 DEF Present
  <2> QED
    BY <1>2, <2>1, <2>2, PhaseKept DEF Plain
<1> QED
    BY <1>5, <1>6

LEMMA RecordLives ==
    ASSUME Strong, NEW s \in Slots, RenewHset(s) \/ UpdateProgress(s),
           NEW j \in Jobs \ Adrift, j \notin Adrift'
    PROVE  Plain(j)
<1> DEFINE i == held[s].job
<1>1. StoreTypeOK /\ ExecType
    BY TypeParts DEF Strong, Inv
<1>2. held[s].rec \in JobRec
    BY <1>1, HeldType DEF RenewHset, UpdateProgress
<1>3. held[s].rec # Absent
    BY <1>2 DEF JobRec, Statuses, Absent
<1>4. /\ vault' = [vault EXCEPT ![i] = held[s].rec]
      /\ UNCHANGED <<completed, failed, pc, held>>
      /\ j = i => pc[s] = "running"
    BY DEF RenewHset, UpdateProgress, execVars, Adrift
<1>5. Runner(j) <=> Runner(j)'
    BY <1>4, RunnersSame
<1>6. j = i => Runner(j)
    BY <1>4 DEF Runner, Runs
<1> HIDE DEF i
<1>7. CASE j = i
    BY <1>5, <1>6, <1>7, PhaseIs, PhaseNext DEF Plain
<1>8. CASE j # i
  <2>1. Present(vault, j) <=> Present(vault, j)'
    BY <1>1, <1>4, <1>8 DEF Present, StoreTypeOK
  <2> QED
    BY <1>4, <1>5, <2>1, PhaseKept DEF Plain
<1> QED
    BY <1>7, <1>8

\* The fetched job starts to run, here or in another slot.
LEMMA CompletedLives ==
    ASSUME Strong, NEW s \in Slots, Completed(s), NEW j \in Jobs \ Adrift
    PROVE  Plain(j)
<1>1. ExecType
    BY TypeParts DEF Strong, Inv
<1>2. UNCHANGED <<vault, completed, failed>> /\ pc[s] = "finalized"
    BY DEF Completed, storeVars
<1>3. Present(vault, j) <=> Present(vault, j)'
    BY <1>2 DEF Present
<1>4. CASE Runner(j) <=> Runner(j)'
    BY <1>2, <1>3, <1>4, PhaseKept DEF Plain
<1>5. ASSUME NEW u \in Slots, next[s] # None, pc'[u] = "running", held'[u] = next[s],
             \A t \in Slots : Runs(t, j) => Runs(t, j)',
             \A t \in Slots \ {u} : Runs(t, j)' => Runs(t, j)
      PROVE  Plain(j)
  <2>1. CASE next[s].job = j
    <3>1. Owner(s, j)
      BY <1>5, <2>1 DEF Owner
    <3>2. /\ Present(vault, j) /\ j \notin completed \cup failed
          /\ \A t \in Slots : Owner(t, j) => t = s
      BY <3>1 DEF Strong, CleanInv, Owned
    <3>3. ~Runner(j)
      BY <1>2, <3>2 DEF Runner, Runs, Owner
    <3>4. Runner(j)'
      BY <1>5, <2>1 DEF Runner, Runs
    <3>5. Phase(j) = "open" /\ Phase(j)' = "running"
      BY <3>2, <3>3, <3>4, PhaseIs, PhaseNext
    <3> QED
      BY <3>5 DEF Plain, PlainMoves
  <2>2. CASE next[s].job # j
    <3>1. ~Runs(u, j)'
      BY <1>5, <2>2 DEF Runs
    <3>2. Runner(j) <=> Runner(j)'
      BY <1>5, <3>1 DEF Runner
    <3> QED
      BY <1>2, <1>3, <3>2, PhaseKept DEF Plain
  <2> QED
    BY <2>1, <2>2
<1>6. CASE next[s] = None /\ Ends(s, TimerCleared(s))
  <2>1. /\ \A t \in Slots \ {s} : pc'[t] = pc[t] /\ held'[t] = held[t]
        /\ pc'[s] = "idle"
    BY <1>1, <1>6, EndsOthers
  <2>2. Runner(j) <=> Runner(j)'
    BY <1>2, <2>1, RunnersOthers
  <2> QED
    BY <1>4, <2>2
<1>7. CASE /\ next[s] # None
           /\ pc' = [pc EXCEPT ![s] = "running"]
           /\ held' = [held EXCEPT ![s] = next[s]]
  <2>1. /\ pc'[s] = "running" /\ held'[s] = next[s]
        /\ \A t \in Slots \ {s} : pc'[t] = pc[t] /\ held'[t] = held[t]
    BY <1>1, <1>7 DEF ExecType
  <2>2. /\ \A t \in Slots : Runs(t, j) => Runs(t, j)'
        /\ \A t \in Slots \ {s} : Runs(t, j)' => Runs(t, j)
    BY <1>2, <2>1 DEF Runs
  <2> QED
    BY <1>5, <1>7, <2>1, <2>2
<1>8. ASSUME next[s] # None, NEW u \in Slots \ {s}, Free(u),
             pc' = [pc EXCEPT ![s] = "idle", ![u] = "running"],
             held' = [held EXCEPT ![u] = next[s],
                         ![s] = IF TimerCleared(s) = "off" THEN None ELSE @]
      PROVE  Plain(j)
  <2>1. /\ pc'[u] = "running" /\ held'[u] = next[s] /\ pc'[s] = "idle" /\ pc[u] = "idle"
        /\ \A t \in Slots \ {s, u} : pc'[t] = pc[t] /\ held'[t] = held[t]
    BY <1>1, <1>8 DEF ExecType, Free
  <2>2. ASSUME NEW t \in Slots PROVE /\ Runs(t, j) => Runs(t, j)'
                                     /\ t # u => (Runs(t, j)' => Runs(t, j))
    <3>1. CASE t \in {s, u}
      BY <1>2, <2>1, <3>1 DEF Runs
    <3>2. CASE t \in Slots \ {s, u}
      BY <2>1, <3>2 DEF Runs
    <3> QED
      BY <3>1, <3>2
  <2> QED
    BY <1>5, <1>8, <2>1, <2>2
<1> QED
    BY <1>6, <1>7, <1>8 DEF Completed

\* A run that stops running: its job is open again.
LEMMA StopsLives ==
    ASSUME Strong, NEW s \in Slots, UNCHANGED <<completed, failed>>,
           \A t \in Slots \ {s} : pc'[t] = pc[t] /\ held'[t] = held[t],
           pc'[s] # "running", NEW j \in Jobs \ Adrift, j \notin Adrift',
           j # held[s].job => (Present(vault, j) <=> Present(vault, j)'),
           pc[s] = "running" => (Present(vault, j) => Present(vault, j)'),
           pc[s] # "running" => (Present(vault, j) <=> Present(vault, j)')
    PROVE  Plain(j)
<1>1. CASE pc[s] = "running" /\ held[s].job = j
  <2>1. Owner(s, j)
    BY <1>1 DEF Owner
  <2>2. /\ Present(vault, j) /\ j \notin completed \cup failed
        /\ \A t \in Slots : Owner(t, j) => t = s
    BY <2>1 DEF Strong, CleanInv, Owned
  <2>3. Runner(j) /\ ~Runner(j)'
    BY <1>1, <2>2 DEF Runner, Runs, Owner
  <2>4. Phase(j) = "running" /\ Phase(j)' = "open"
    BY <1>1, <2>2, <2>3, PhaseIs, PhaseNext
  <2> QED
    BY <2>4 DEF Plain, PlainMoves
<1>2. CASE ~(pc[s] = "running" /\ held[s].job = j)
  <2>1. Runner(j) <=> Runner(j)'
    BY <1>2, RunnersOthers
  <2> QED
    BY <1>2, <2>1, PhaseKept DEF Plain
<1> QED
    BY <1>1, <1>2

LEMMA FailRetryLives ==
    ASSUME Strong, NEW s \in Slots, FailRetry(s), NEW j \in Jobs \ Adrift, j \notin Adrift'
    PROVE  Plain(j)
<1> DEFINE i == held[s].job
           rec == [held[s].rec EXCEPT !.status = "retrying"]
<1>1. StoreTypeOK /\ ExecType
    BY TypeParts DEF Strong, Inv
<1>2. /\ UNCHANGED <<completed, failed, held>> /\ vault' = [vault EXCEPT ![i] = rec]
      /\ pc[s] \in {"running", "finalized"} /\ pc' = [pc EXCEPT ![s] = "parked"]
      /\ j = i => pc[s] = "running"
    BY DEF FailRetry, Caught, Adrift
<1>3. rec # Absent
  <2>1. held[s].rec \in JobRec
    BY <1>1, <1>2, HeldType
  <2>2. rec.status = "retrying"
    BY <2>1 DEF JobRec
  <2> QED
    BY <2>2 DEF Absent
<1> HIDE DEF rec
<1>4. /\ pc'[s] = "parked"
      /\ \A t \in Slots \ {s} : pc'[t] = pc[t] /\ held'[t] = held[t]
    BY <1>1, <1>2 DEF ExecType
<1>5. /\ j # i => vault'[j] = vault[j]
      /\ j = i => vault'[j] # Absent
    BY <1>1, <1>2, <1>3 DEF StoreTypeOK
<1> QED
    BY <1>2, <1>4, <1>5, StopsLives DEF Present

LEMMA EndsLives ==
    ASSUME Strong, NEW s \in Slots,
           RetryZrem(s) \/ RetrySignal(s) \/ WriteDlq(s) \/ Crash(s),
           NEW j \in Jobs \ Adrift, j \notin Adrift'
    PROVE  Plain(j)
<1>1. ExecType
    BY TypeParts DEF Strong, Inv
<1>2. UNCHANGED <<vault, completed, failed>>
    BY DEF RetryZrem, RetrySignal, SignalScript, WriteDlq, Crash, storeVars
<1>3. /\ pc'[s] # "running"
      /\ \A t \in Slots \ {s} : pc'[t] = pc[t] /\ held'[t] = held[t]
  <2>1. CASE RetryZrem(s)
    BY <1>1, <2>1 DEF RetryZrem, ExecType
  <2>2. CASE RetrySignal(s) \/ WriteDlq(s) \/ Crash(s)
    <3>1. PICK r : Ends(s, r)
      BY <2>2 DEF RetrySignal, WriteDlq, Crash
    <3> QED
      BY <1>1, <3>1, EndsOthers
  <2> QED
    BY <2>1, <2>2
<1> QED
    BY <1>2, <1>3, StopsLives DEF Present
----------------------------------------------------------------------------
(***************************************************************************)
(* The end of a run: its job has an outcome, or the outcome goes at once   *)
(* with others in the index, and what is evicted had the same outcome.     *)
(***************************************************************************)
LEMMA EvictionLeaves ==
    ASSUME NEW index, IsFiniteSet(index), NEW cap \in Nat, NEW E \in Evictions(index, cap),
           E # {}
    PROVE  \E k \in index : k \notin E
<1>1. E \in SUBSET index /\ IsFiniteSet(E)
    BY FS_Subset DEF Evictions
<1>2. Cardinality(E) # 0
    BY <1>1, FS_EmptySet
<1>3. cap > 0 /\ Cardinality(E) = Cardinality(index) - cap
    BY <1>2 DEF Evictions
<1>4. Cardinality(index) \in Nat
    BY FS_CardinalityType
<1>5. E # index
    BY <1>3, <1>4
<1> QED
    BY <1>1, <1>5

\* What the diagram lets a step that finalizes i do to a job.
Kept(j) == Phase(j)' = Phase(j)
Settled(i, outcome) ==
    /\ Phase(i) = "running" /\ Phase(i)' \in {outcome, "absent"}
    /\ Phase(i)' = "absent" =>
           \E k \in Jobs \ {i} : k \in Adrift' \/ Phase(k) \in {"completed", "dead"}
Replaced(j, i, outcome) ==
    /\ j # i /\ Phase(j) = outcome /\ Phase(j)' = "absent"
    /\ i \in Adrift' \/ (Phase(i) = "running" /\ Phase(i)' \in {outcome, "absent"})

LEMMA FinalVaultAt ==
    ASSUME NEW i \in Jobs, NEW outcome, NEW E, NEW j \in Jobs
    PROVE  /\ j \in E => ~Present(FinalVault(i, outcome, E), j)
           /\ j \notin E /\ j # i =>
                  (Present(vault, j) <=> Present(FinalVault(i, outcome, E), j))
BY DEF FinalVault, WithoutEntries, Finished, Present

LEMMA FinalLives ==
    ASSUME Strong, NEW s \in Slots, pc[s] \in {"running", "finalized"},
           NEW i \in Jobs, i = held[s].job,
           NEW outcome \in {"completed", "dead"}, NEW E \in SUBSET Jobs,
           FinalizeIndexes(i, outcome, E),
           \A j \in Jobs : Present(vault, j)' <=>
                               Present(FinalVault(i, outcome, E), j),
           \A t \in Slots \ {s} : pc'[t] = pc[t] /\ held'[t] = held[t],
           pc'[s] # "running", Adrift \subseteq Adrift',
           pc[s] # "running" => i \in Adrift',
           NEW j \in Jobs \ Adrift'
    PROVE  \/ Kept(j)
           \/ j = i /\ Settled(j, outcome)
           \/ Replaced(j, i, outcome)
<1>1. StoreTypeOK /\ ExecType
    BY TypeParts DEF Strong, Inv
<1>2. PICK index \in SUBSET Jobs, cap \in Nat :
          /\ E \in Evictions(index \cup {i}, cap)
          /\ \/ /\ outcome = "completed" /\ index = completed
                /\ completed' = (completed \cup {i}) \ E /\ failed' = failed
             \/ /\ outcome = "dead" /\ index = failed
                /\ failed' = (failed \cup {i}) \ E /\ completed' = completed
  <2>1. CASE outcome = "completed"
    BY <1>1, <2>1, OptionsAssumption DEF FinalizeIndexes, StoreTypeOK
  <2>2. CASE outcome = "dead"
    BY <1>1, <2>2, OptionsAssumption DEF FinalizeIndexes, StoreTypeOK
  <2> QED
    BY <2>1, <2>2
<1>3. /\ E \subseteq index \cup {i} /\ index \subseteq Jobs
      /\ E # {} => \E k \in index \cup {i} : k \notin E
  <2>1. index \subseteq Jobs
    BY <1>1, <1>2 DEF StoreTypeOK
  <2>2. index \cup {i} \in SUBSET Jobs
    BY <2>1
  <2>3. IsFiniteSet(index \cup {i})
    BY <2>2, JobsAssumption, FS_Subset
  <2>4. E \subseteq index \cup {i}
    BY <1>2 DEF Evictions
  <2> QED
    BY <1>2, <2>1, <2>3, <2>4, EvictionLeaves
<1>4. \A k \in Jobs \ Adrift : k \in index => Phase(k) = outcome /\ ~Runner(k)
    BY <1>2, CleanPhase
<1>5. /\ i \notin Adrift' => pc[s] = "running" /\ i \in Jobs \ Adrift
      /\ i \notin Adrift' => Owner(s, i) /\ Runner(i)
    BY DEF Owner, Runner, Runs
<1>6. i \notin Adrift' => /\ Phase(i) = "running" /\ i \notin completed \cup failed
                          /\ ~Runner(i)'
  <2> SUFFICES ASSUME i \notin Adrift'
               PROVE  /\ Phase(i) = "running" /\ i \notin completed \cup failed
                      /\ ~Runner(i)'
    OBVIOUS
  <2>1. \A t \in Slots : Owner(t, i) => t = s
    BY <1>5 DEF Strong, CleanInv, Owned
  <2>2. ~Runner(i)'
    BY <2>1 DEF Owner, Runner, Runs
  <2> QED
    BY <1>5, <2>2, PhaseIs, CleanPhase
<1>7. i \notin Adrift' => Phase(i)' \in {outcome, "absent"} /\ (i \notin E => Phase(i)' = outcome)
  <2>1. i \in E => ~Present(vault, i)'
    BY FinalVaultAt
  <2> QED
    BY <1>2, <1>6, <2>1, PhaseNext
<1>8. CASE j = i
  <2>1. Phase(j)' = "absent" => i \in E
    BY <1>7, <1>8
  <2>2. ASSUME i \in E
        PROVE  \E k \in Jobs \ {i} : k \in Adrift' \/ Phase(k) \in {"completed", "dead"}
    <3>1. PICK k \in index \cup {i} : k \notin E
      BY <1>3, <2>2
    <3>2. k \in index /\ k # i /\ k \in Jobs
      BY <1>3, <2>2, <3>1
    <3>3. k \in Adrift' \/ Phase(k) = outcome
      BY <1>4, <3>2
    <3> QED
      BY <3>2, <3>3
  <2>3. Settled(j, outcome)
    BY <1>6, <1>7, <1>8, <2>1, <2>2 DEF Settled
  <2> QED
    BY <1>8, <2>3
<1>9. CASE j # i /\ j \in E
  <2>1. j \in index /\ Phase(j) = outcome /\ ~Runner(j) /\ j \in Jobs \ Adrift
    BY <1>3, <1>4, <1>9
  <2>2. ~Present(vault, j)'
    BY <1>9, FinalVaultAt
  <2>3. ~Runner(j)'
    BY <1>9, <2>1, RunnersOthers
  <2>4. ~(j \in completed /\ j \in failed)
    BY <2>1, CleanPhase
  <2>5. j \notin completed' \cup failed'
    BY <1>2, <1>9, <2>1, <2>4
  <2>6. Phase(j)' = "absent"
    BY <2>2, <2>3, <2>5, PhaseNext
  <2>7. Replaced(j, i, outcome)
    BY <1>6, <1>7, <1>9, <2>1, <2>6 DEF Replaced
  <2> QED
    BY <2>7
<1>10. CASE j # i /\ j \notin E
  <2>1. Runner(j) <=> Runner(j)'
    BY <1>10, RunnersOthers
  <2>2. Present(vault, j) <=> Present(vault, j)'
    BY <1>10, FinalVaultAt
  <2>3. (j \in completed <=> j \in completed') /\ (j \in failed <=> j \in failed')
    BY <1>2, <1>10
  <2> QED
    BY <2>1, <2>2, <2>3, PhaseKept DEF Kept
<1> QED
    BY <1>8, <1>9, <1>10

LEMMA AdriftGrows == [Next]_vars => Adrift \subseteq Adrift'
<1>1. [Next]_vars => lapsed \subseteq lapsed' /\ disturbed \subseteq disturbed'
    BY DEF Next, vars, history, Add, AddLater, Due, LeaseExpires, Drain, Promote,
           RecoverStalled, Retry, RetryRead, Fetch, RenewHset, RenewZadd, RenewReply,
           UpdateProgress, Finalize, FinalizeAndFetch, Finalized, Completed, FailRetry,
           RetryZrem, RetrySignal, FailDead, WriteDlq, Crash
<1> QED
    BY <1>1 DEF Adrift

LEMMA FinishLives ==
    ASSUME Strong, Adrift \subseteq Adrift',
           NEW s \in Slots, Finalize(s) \/ FinalizeAndFetch(s) \/ FailDead(s)
    PROVE  \E i \in Jobs, outcome \in {"completed", "dead"} : \A j \in Jobs \ Adrift' :
               \/ Kept(j)
               \/ j = i /\ Settled(j, outcome)
               \/ Replaced(j, i, outcome)
<1>1. StoreTypeOK /\ ExecType
    BY TypeParts DEF Strong, Inv
<1>2. pc[s] \in {"running", "finalized"}
    BY DEF Finalize, FinalizeAndFetch, FailDead, Caught
<1>3. PICK i \in Jobs : i = held[s].job
    BY <1>1, <1>2, HeldType
<1>4. \E outcome \in {"completed", "dead"}, E \in SUBSET Jobs :
          /\ FinalizeIndexes(i, outcome, E)
          /\ \A j \in Jobs : Present(vault, j)' <=> Present(FinalVault(i, outcome, E), j)
  <2>1. CASE Finalize(s)
    <3>1. PICK E \in SUBSET Jobs : FinalizeScript(i, "completed", E)
      BY <1>3, <2>1 DEF Finalize
    <3> QED
      BY <3>1 DEF FinalizeScript, Present
  <2>2. CASE FailDead(s)
    <3>1. PICK E \in SUBSET Jobs : FinalizeScript(i, "dead", E)
      BY <1>3, <2>2 DEF FailDead
    <3> QED
      BY <3>1 DEF FinalizeScript, Present
  <2>3. CASE FinalizeAndFetch(s)
    <3>1. PICK E \in SUBSET Jobs, k \in Jobs : FinalizeFetchScript(i, "completed", E, k)
      BY <1>3, <2>3 DEF FinalizeAndFetch
    <3>2. PICK f : f = FinalVault(i, "completed", E)
      OBVIOUS
    <3>3. VaultType(f)
      BY <1>1, <3>2, FinalVaultType DEF StoreTypeOK, VaultType
    <3>4. /\ Present(f, k) => vault'[k] # Absent
          /\ ~Present(f, k) => vault' = f
          /\ \A j \in Jobs : j # k => vault'[j] = f[j]
      BY <3>1, <3>2, <3>3, LeaseOne DEF FinalizeFetchScript
    <3>5. \A j \in Jobs : Present(vault, j)' <=> Present(f, j)
      BY <3>4 DEF Present
    <3> QED
      BY <3>1, <3>2, <3>5 DEF FinalizeFetchScript
  <2> QED
    BY <2>1, <2>2, <2>3
<1>5. /\ \A t \in Slots \ {s} : pc'[t] = pc[t] /\ held'[t] = held[t]
      /\ pc'[s] # "running"
  <2>1. CASE Finalize(s) \/ FinalizeAndFetch(s)
    BY <1>1, <2>1 DEF Finalize, FinalizeAndFetch, Finalized, ExecType
  <2>2. CASE FailDead(s)
    BY <1>1, <2>2 DEF FailDead, ExecType
  <2> QED
    BY <2>1, <2>2
<1>6. pc[s] # "running" => i \in Adrift'
    BY <1>3 DEF Finalize, FinalizeAndFetch, FailDead, Adrift
<1>7. PICK outcome \in {"completed", "dead"}, E \in SUBSET Jobs :
          /\ FinalizeIndexes(i, outcome, E)
          /\ \A j \in Jobs : Present(vault, j)' <=> Present(FinalVault(i, outcome, E), j)
    BY <1>4
<1>8. \A j \in Jobs \ Adrift' :
          \/ Kept(j)
          \/ j = i /\ Settled(j, outcome)
          \/ Replaced(j, i, outcome)
    BY <1>2, <1>3, <1>5, <1>6, <1>7, FinalLives
<1> QED
    BY <1>8
----------------------------------------------------------------------------
(***************************************************************************)
(* The refinement.                                                         *)
(***************************************************************************)
LEMMA PlainNext ==
    ASSUME Adrift \subseteq Adrift', \A j \in Jobs \ Adrift' : Plain(j)
    PROVE  Life!LifeNext
<1>1. ASSUME NEW j \in Jobs \ Adrift'
      PROVE  /\ \/ Phase(j)' = Phase(j)
                \/ <<Phase(j), Phase(j)'>> \in Life!Moves
             /\ Phase(j)' = "absent" => Phase(j) \in {"absent", "open"}
    BY DEF Plain, PlainMoves, Life!Moves
<1> QED
    BY <1>1 DEF Life!LifeNext, Life!Evicted, Life!Outcomes, Adrift

LEMMA FinishNext ==
    ASSUME Adrift \subseteq Adrift', NEW i \in Jobs, NEW outcome \in {"completed", "dead"},
           \A j \in Jobs \ Adrift' : \/ Kept(j)
                                     \/ j = i /\ Settled(j, outcome)
                                     \/ Replaced(j, i, outcome)
    PROVE  Life!LifeNext
<1>1. ASSUME NEW j \in Jobs \ Adrift'
      PROVE  \/ Phase(j)' = Phase(j)
             \/ <<Phase(j), Phase(j)'>> \in Life!Moves
    BY DEF Kept, Settled, Replaced, Life!Moves, Life!Outcomes
<1>2. ASSUME NEW j \in Jobs \ Adrift', Phase(j)' = "absent"
      PROVE  /\ Phase(j) = "running" =>
                    \E k \in Jobs \ {j} : k \in Adrift' \/ Phase(k) \in {"completed", "dead"}
             /\ Phase(j) \in {"completed", "dead"} =>
                    \E k \in Jobs \ {j} :
                        \/ k \in Adrift'
                        \/ Phase(k) = "running" /\ Phase(k)' \in {Phase(j), "absent"}
    BY <1>2 DEF Kept, Settled, Replaced
<1> QED
    BY <1>1, <1>2 DEF Life!LifeNext, Life!Evicted, Life!Outcomes, Adrift

LEMMA LifeStep == Strong /\ [Next]_vars => Life!LifeNext
<1> SUFFICES ASSUME Strong, [Next]_vars PROVE Life!LifeNext
    OBVIOUS
<1>1. Adrift \subseteq Adrift'
    BY AdriftGrows
<1>2. CASE \E s \in Slots : Finalize(s) \/ FinalizeAndFetch(s) \/ FailDead(s)
    BY <1>1, <1>2, FinishLives, FinishNext
<1>3. CASE ~ \E s \in Slots : Finalize(s) \/ FinalizeAndFetch(s) \/ FailDead(s)
  <2> SUFFICES ASSUME NEW j \in Jobs \ Adrift' PROVE Plain(j)
    BY <1>1, PlainNext
  <2>1. j \in Jobs \ Adrift /\ j \notin Adrift'
    BY <1>1
  <2>2. ASSUME NEW i \in Jobs, Add(i) \/ AddLater(i) \/ Due(i) \/ LeaseExpires(i)
        PROVE  Plain(j)
    BY <2>1, <2>2, AddLives, QuietLives
  <2>3. CASE Drain \/ Promote \/ RecoverStalled
    BY <2>1, <2>3, DrainLives, QuietLives, RecoverLives
  <2>4. ASSUME NEW c \in Clients, Retry(c) \/ \E i \in Jobs : RetryRead(c, i)
        PROVE  Plain(j)
    BY <2>1, <2>4, RetryLives, QuietLives
  <2>5. ASSUME NEW s \in Slots,
               \/ \E k \in Jobs : Fetch(s, k)
               \/ RenewHset(s) \/ RenewZadd(s) \/ RenewReply(s) \/ UpdateProgress(s)
               \/ Completed(s) \/ FailRetry(s) \/ RetryZrem(s) \/ RetrySignal(s)
               \/ WriteDlq(s) \/ Crash(s)
        PROVE  Plain(j)
    <3>1. CASE \E k \in Jobs : Fetch(s, k)
      BY <2>1, <3>1, FetchLives
    <3>2. CASE RenewHset(s) \/ UpdateProgress(s)
      BY <2>1, <3>2, RecordLives
    <3>3. CASE RenewZadd(s) \/ RenewReply(s)
      BY <2>1, <3>3, QuietLives
    <3>4. CASE Completed(s) \/ FailRetry(s)
      BY <2>1, <3>4, CompletedLives, FailRetryLives
    <3>5. CASE RetryZrem(s) \/ RetrySignal(s) \/ WriteDlq(s) \/ Crash(s)
      BY <2>1, <3>5, EndsLives
    <3> QED
      BY <2>5, <3>1, <3>2, <3>3, <3>4, <3>5
  <2>6. CASE UNCHANGED vars
    BY <2>1, <2>6, QuietLives
  <2> QED
    BY <1>3, <2>2, <2>3, <2>4, <2>5, <2>6 DEF Next
<1> QED
    BY <1>2, <1>3

\* Whatever producers, workers, timers, the scheduler, operators and faults do
\* to the structures of the store, a job that is not adrift runs only between
\* its addition and one outcome, never again once completed, after death only
\* when it is retried, and its outcome is evicted only for another.
THEOREM LivesOn == Spec => LivesAsPromised
<1>1. Init => Life!LifeInit
  <2> SUFFICES ASSUME Init PROVE Life!LifeInit
    OBVIOUS
  <2>1. \A j \in Jobs : Phase(j) = "absent"
    BY PhaseIs DEF Init, StoreInit, Runner, Runs, Present
  <2> QED
    BY <2>1 DEF Life!LifeInit, Init
<1>2. Strong /\ [Next]_vars => [Life!LifeNext]_Life!lifeVars
    BY LifeStep
<1> QED
    BY <1>1, <1>2, StrongAlways, PTL DEF Spec, LivesAsPromised, Life!LifeSpec
=============================================================================
