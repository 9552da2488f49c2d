---------------------------- MODULE BatchRunProofs ----------------------------
(***************************************************************************)
(* Batches: a job of a batch is in the hands of one run and gets one       *)
(* outcome, the counter of a batch lasts as long as its jobs and not       *)
(* longer, and a dequeue returns less than a batch only for a reason.  For *)
(* all jobs, bulks, batch sizes, numbers of runs and of faults.            *)
(*                                                                         *)
(* The counter is exact only of batches whose jobs were neither counted    *)
(* twice nor stored anew; that a job of such a batch keeps its batch id,   *)
(* through copies that are written back late, is what Stored says.         *)
(***************************************************************************)
EXTENDS BatchRun, JobStoreProofs, WellFoundedInduction

RunTypeOK ==
    /\ at \in [Runs -> Ats]
    /\ verdict \in [Runs -> {"completed", "dead"}]
    /\ taken \in [Runs -> Seq(Copy)]
    /\ turn \in [Runs -> Nat]
    /\ timed \in [Runs -> SUBSET Jobs]
    /\ stray \subseteq Copy
    /\ \A r \in Runs : at[r] \notin {"idle", "handling"} => turn[r] \in DOMAIN taken[r]

CountTypeOK ==
    /\ call \in [Producers -> {"idle", "checked", "empty", "refused", "done"}]
    /\ keyed \subseteq Batches /\ count \in [Batches -> Int]
    /\ \A b \in Batches \ keyed : count[b] = 0
    /\ batch \in [Jobs -> Batches \cup {NoBatch}]
    /\ faults \in 0..MaxFaults
    /\ shared \subseteq Batches

HistoryTypeOK ==
    /\ closed \subseteq Jobs /\ counted \subseteq Jobs /\ twice \subseteq Jobs
    /\ uncounted \subseteq Jobs /\ lapsed \subseteq Jobs /\ relisted \subseteq Jobs
    /\ again \subseteq Jobs

\* Where a run is says what it has.
RunFits(r) ==
    /\ at[r] = "idle" <=> taken[r] = <<>>
    /\ at[r] \in {"idle", "handling"} => turn[r] = 0
    /\ \A j \in timed[r] : \E i \in DOMAIN taken[r] : i > turn[r] /\ taken[r][i].job = j
    /\ at[r] \in {"dlq", "count", "zero"} => Mine(r) \in closed

Copies == stray \cup UNION {ToSet(taken[r]) : r \in Runs}

\* A stored job has a batch id, and keeps it as long as it is not stored
\* anew; it is forgotten only once it had an outcome.
Stored ==
    /\ \A j \in Jobs : Present(vault, j) => batch[j] # NoBatch
    /\ \A j \in Jobs : batch[j] # NoBatch =>
           j \in Sent(batch[j]) /\ (Present(vault, j) \/ j \in closed)
    /\ \A h \in Copies :
           /\ batch[h.job] # NoBatch /\ h.job \in Sent(h.batch)
           /\ h.job \notin again => h.batch = batch[h.job]
    /\ completed \cup failed \cup dlq \subseteq closed

\* In the store the job is in one place, until it has an outcome.
OnePlace(j) ==
    /\ j \in Queued \cup active \cup delayed => Present(vault, j) /\ j \notin closed
    /\ j \in active => j \notin Queued \cup delayed
    /\ j \in delayed => j \notin Queued
    /\ ListedOnce(j)

\* One run at most has it, once, and then it is nowhere else.
OneHolder(j) ==
    /\ \A r, s \in Runs : \A i \in DOMAIN taken[r], k \in DOMAIN taken[s] :
           taken[r][i].job = j /\ taken[s][k].job = j => r = s /\ i = k
    /\ InHand(j) => j \notin Queued \cup delayed \cup expired
    /\ \A r \in Runs : j \in timed[r] => j \in active
    /\ j \in Orphans => j \in active /\ \A r \in Runs : j \notin Has(r)

Clean == Jobs \ (lapsed \cup again)
CleanInv == \A j \in Clean : OnePlace(j) /\ OneHolder(j)

\* The turn of a job of a run is to come, or has come.
Pending(r, i) == i > turn[r] \/ (i = turn[r] /\ at[r] = "script")
VerdictInv ==
    /\ OneVerdict
    /\ \A j \in Clean \ relisted : \A r \in Runs :
           /\ \A i \in DOMAIN taken[r] :
                  taken[r][i].job = j /\ Pending(r, i) => j \notin closed
           /\ at[r] = "dlq" /\ Mine(r) = j => j \notin completed

\* The producer whose bulk is the one of a batch id.
Owns(p, b) == BatchOf[p] = b /\ call[p] \in {"empty", "done"}
Plain(b) == b \notin shared /\ Sent(b) \cap (twice \cup again) = {}

\* Every outcome is counted, lost, or about to be counted.
Tally ==
    /\ counted \subseteq closed
    /\ \A j \in closed \ (counted \cup uncounted) :
           \E r \in Runs : at[r] \in {"dlq", "count"} /\ Mine(r) = j

CountOk(p, b) ==
    /\ call[p] = "empty" => Of(b) = {}
    /\ Of(b) # {} => count[b] = Len(Items[p]) - Cardinality(Of(b) \cap counted)
    /\ call[p] = "done" /\ b \in keyed =>
           /\ Of(b) # {}
           /\ \/ count[b] # 0
              \/ Of(b) \cap uncounted # {}
              \/ \E r \in Runs : at[r] = "zero" /\ Batchid(r) = b
    /\ \A r \in Runs : at[r] = "zero" /\ Batchid(r) = b => count[b] = 0

CountInv ==
    /\ \A p, o \in Producers : \A b \in Batches \ shared : Owns(p, b) /\ Owns(o, b) => p = o
    /\ \A p \in Producers : \A b \in Batches : Owns(p, b) /\ Plain(b) => CountOk(p, b)

Inv ==
    /\ StoreTypeOK /\ RunTypeOK /\ CountTypeOK /\ HistoryTypeOK
    /\ \A r \in Runs : RunFits(r)
    /\ Stored /\ CleanInv /\ VerdictInv /\ Tally /\ CountInv

LEMMA TypeParts == TypeOK <=> StoreTypeOK /\ RunTypeOK /\ CountTypeOK /\ HistoryTypeOK
BY DEF TypeOK, RunTypeOK, CountTypeOK, HistoryTypeOK

LEMMA CopyType ==
    ASSUME RunTypeOK, NEW r \in Runs
    PROVE  /\ DOMAIN taken[r] = 1 .. Len(taken[r]) /\ Len(taken[r]) \in Nat
           /\ \A i \in DOMAIN taken[r] : taken[r][i] \in Copy /\ taken[r][i].job \in Jobs
           /\ Has(r) \subseteq Jobs
           /\ at[r] \notin {"idle", "handling"} => Mine(r) \in Jobs /\ Mine(r) \in Has(r)
                                                 /\ Batchid(r) \in Batches
<1>1. taken[r] \in Seq(Copy)
    BY DEF RunTypeOK
<1>2. DOMAIN taken[r] = 1 .. Len(taken[r]) /\ Len(taken[r]) \in Nat
    BY <1>1, LenProperties
<1>3. \A i \in DOMAIN taken[r] : taken[r][i] \in Copy
    BY <1>1, <1>2, ElementOfSeq
<1>4. \A i \in DOMAIN taken[r] : taken[r][i].job \in Jobs /\ taken[r][i].batch \in Batches
    BY <1>3 DEF Copy
<1>5. at[r] \notin {"idle", "handling"} => turn[r] \in DOMAIN taken[r]
    BY DEF RunTypeOK
<1> QED
    BY <1>2, <1>3, <1>4, <1>5 DEF Has, Mine, Batchid
----------------------------------------------------------------------------
(***************************************************************************)
(* A run goes on to its next job, starts over with another verdict, or is  *)
(* over and may leave its timers behind.                                   *)
(***************************************************************************)
Moved(r) ==
    /\ RunTypeOK'
    /\ \A s \in Runs \ {r} :
           /\ at'[s] = at[s] /\ taken'[s] = taken[s]
           /\ turn'[s] = turn[s] /\ timed'[s] = timed[s]
    /\ \/ /\ at'[r] = "idle" /\ taken'[r] = <<>> /\ turn'[r] = 0 /\ timed'[r] = {}
          /\ stray' \subseteq stray \cup Armed(r) /\ stray \subseteq stray'
       \/ /\ at'[r] = "script" /\ taken'[r] = taken[r] /\ stray' = stray
          /\ timed'[r] = timed[r] \ {taken[r][turn'[r]].job}
          /\ turn'[r] = turn[r] + 1 \/ (turn'[r] = 1 /\ Has(r) \subseteq relisted')
    /\ relisted \subseteq relisted'

LEMMA SettleMoves ==
    ASSUME RunTypeOK, NEW r \in Runs, RunFits(r), at[r] # "idle",
           NEW outcome \in {"completed", "dead"}, Settle(r, outcome),
           at[r] = "handling" \/ Has(r) \subseteq relisted', relisted \subseteq relisted'
    PROVE  Moved(r)
<1>1. taken[r] # <<>> /\ taken[r] \in Seq(Copy)
    BY DEF RunFits, RunTypeOK
<1>2. 1 \in DOMAIN taken[r]
    BY <1>1, EmptySeq, LenProperties
<1>3. RunTypeOK'
  <2>1. /\ at' \in [Runs -> Ats] /\ verdict' \in [Runs -> {"completed", "dead"}]
        /\ taken' = taken /\ stray' = stray /\ turn' \in [Runs -> Nat]
        /\ timed' \in [Runs -> SUBSET Jobs]
    BY DEF RunTypeOK, Settle, Ats
  <2>2. ASSUME NEW s \in Runs, at'[s] \notin {"idle", "handling"}
        PROVE  turn'[s] \in DOMAIN taken'[s]
    BY <2>2, <1>2 DEF RunTypeOK, Settle
  <2> QED
    BY <2>1, <2>2 DEF RunTypeOK
<1>4. at[r] = "handling" => turn[r] = 0
    BY DEF RunFits
<1> QED
    BY <1>3, <1>4 DEF Moved, Settle, RunTypeOK

LEMMA OverMoves ==
    ASSUME RunTypeOK, NEW r \in Runs, Over(r),
           stray' = stray \/ stray' = stray \cup Armed(r), relisted \subseteq relisted'
    PROVE  Moved(r)
<1>1. Armed(r) \subseteq Copy
    BY CopyType DEF Armed
<1>2. RunTypeOK'
  <2>1. /\ at' \in [Runs -> Ats] /\ verdict' \in [Runs -> {"completed", "dead"}]
        /\ stray' \subseteq Copy /\ turn' \in [Runs -> Nat]
        /\ timed' \in [Runs -> SUBSET Jobs]
    BY <1>1 DEF RunTypeOK, Over, Ats
  <2>2. taken' \in [Runs -> Seq(Copy)]
    <3>1. <<>> \in Seq(Copy)
      BY EmptySeq
    <3> QED
      BY <3>1 DEF RunTypeOK, Over
  <2>3. ASSUME NEW s \in Runs, at'[s] \notin {"idle", "handling"}
        PROVE  turn'[s] \in DOMAIN taken'[s]
    BY <2>3 DEF RunTypeOK, Over
  <2> QED
    BY <2>1, <2>2, <2>3 DEF RunTypeOK
<1> QED
    BY <1>2 DEF Moved, Over, RunTypeOK

LEMMA EmittedMoves ==
    ASSUME RunTypeOK, NEW r \in Runs, at[r] \notin {"idle", "handling"}, Emitted(r),
           relisted \subseteq relisted'
    PROVE  Moved(r)
<1>1. CASE turn[r] < Len(taken[r])
  <2>1. turn[r] + 1 \in DOMAIN taken[r]
    BY <1>1, CopyType DEF RunTypeOK
  <2>2. RunTypeOK'
    <3> DEFINE mine == {taken[r][turn[r] + 1].job}
    <3>1. /\ at' = [at EXCEPT ![r] = "script"] /\ turn' = [turn EXCEPT ![r] = @ + 1]
          /\ timed' = [timed EXCEPT ![r] = @ \ mine]
          /\ verdict' = verdict /\ taken' = taken /\ stray' = stray
      BY <1>1 DEF Emitted
    <3> HIDE DEF mine
    <3>2. at' \in [Runs -> Ats] /\ turn' \in [Runs -> Nat]
      BY <3>1 DEF RunTypeOK, Ats
    <3>3. timed' \in [Runs -> SUBSET Jobs]
      BY <3>1 DEF RunTypeOK
    <3>4. ASSUME NEW s \in Runs, at'[s] \notin {"idle", "handling"}
          PROVE  turn'[s] \in DOMAIN taken'[s]
      BY <2>1, <3>1, <3>4 DEF RunTypeOK
    <3> QED
      BY <3>1, <3>2, <3>3, <3>4 DEF RunTypeOK
  <2> QED
    BY <1>1, <2>2 DEF Moved, Emitted, RunTypeOK
<1>2. CASE ~(turn[r] < Len(taken[r]))
    BY <1>2, OverMoves DEF Emitted
<1> QED
    BY <1>1, <1>2

LEMMA ThrownMoves ==
    ASSUME RunTypeOK, NEW r \in Runs, RunFits(r), at[r] # "idle", Thrown(r)
    PROVE  Moved(r)
<1>1. CASE verdict[r] = "completed"
    BY <1>1, SettleMoves DEF Thrown
<1>2. CASE verdict[r] # "completed"
    BY <1>2, OverMoves DEF Thrown
<1> QED
    BY <1>1, <1>2

\* The actions after which a run is somewhere else, and the store is not.
MovesOn(r) ==
    \/ HandlerEnds(r) \/ DeleteCounter(r) \/ CommandFails(r) \/ Crash(r)
    \/ Decrement(r) /\ Remaining(r, Batchid(r)) # 0

LEMMA RunMoves ==
    ASSUME RunTypeOK, NEW r \in Runs, RunFits(r), MovesOn(r)
    PROVE  /\ Moved(r) /\ at[r] # "idle"
           /\ UNCHANGED <<storeVars, batch, closed, lapsed, again, call, shared>>
<1>1. CASE HandlerEnds(r)
    BY <1>1, SettleMoves DEF HandlerEnds, history
<1>2. CASE DeleteCounter(r)
    BY <1>2, EmittedMoves, ThrownMoves DEF DeleteCounter, Emit
<1>3. CASE CommandFails(r)
    BY <1>3, EmittedMoves, ThrownMoves DEF CommandFails
<1>4. CASE Crash(r)
    BY <1>4, OverMoves DEF Crash
<1>5. CASE Decrement(r) /\ Remaining(r, Batchid(r)) # 0
    BY <1>5, EmittedMoves, ThrownMoves DEF Decrement, Emit
<1> QED
    BY <1>1, <1>2, <1>3, <1>4, <1>5 DEF MovesOn
----------------------------------------------------------------------------
(***************************************************************************)
(* What a move of a run keeps of the invariant.                            *)
(***************************************************************************)
LEMMA MovedFits ==
    ASSUME RunTypeOK, \A s \in Runs : RunFits(s), NEW r \in Runs, at[r] # "idle",
           Moved(r), UNCHANGED closed
    PROVE  \A s \in Runs : RunFits(s)'
<1>1. ASSUME NEW s \in Runs \ {r} PROVE RunFits(s)'
    BY <1>1 DEF Moved, RunFits, Mine
<1>2. CASE at'[r] = "idle"
    BY <1>1, <1>2 DEF Moved, RunFits
<1>3. CASE at'[r] = "script"
  <2>1. /\ taken'[r] = taken[r] /\ timed'[r] = timed[r] \ {taken[r][turn'[r]].job}
        /\ turn'[r] = turn[r] + 1 \/ turn'[r] = 1
    BY <1>3 DEF Moved
  <2>2. taken[r] # <<>>
    BY DEF RunFits
  <2>3. ASSUME NEW j \in timed'[r]
        PROVE  \E i \in DOMAIN taken[r] : i > turn'[r] /\ taken[r][i].job = j
    <3>1. PICK i \in DOMAIN taken[r] : i > turn[r] /\ taken[r][i].job = j
      BY <2>1 DEF RunFits
    <3>2. i # turn'[r]
      BY <2>1, <3>1
    <3>3. i \in Nat /\ turn[r] \in Nat
      BY <3>1, CopyType DEF RunTypeOK
    <3>4. i > turn'[r]
      BY <2>1, <3>1, <3>2, <3>3
    <3> QED
      BY <3>1, <3>4
  <2> QED
    BY <1>1, <1>3, <2>1, <2>2, <2>3 DEF RunFits
<1> QED
    BY <1>2, <1>3 DEF Moved

\* Copies are only given up, and those in hand come to nobody else's.
LEMMA MovedCopies ==
    ASSUME RunTypeOK, NEW r \in Runs, Moved(r)
    PROVE  /\ Copies' \subseteq Copies
           /\ \A s \in Runs : /\ taken'[s] = taken[s] \/ taken'[s] = <<>>
                              /\ Has(s)' \subseteq Has(s) /\ timed'[s] \subseteq timed[s]
           /\ \A j \in Orphans' \ Orphans : j \in timed[r] /\ Has(r)' = {}
           /\ \A j : InHand(j)' => InHand(j)
<1>1. \A s \in Runs : /\ taken'[s] = taken[s] \/ taken'[s] = <<>>
                      /\ timed'[s] \subseteq timed[s]
    BY DEF Moved
<1>2. \A s \in Runs : Has(s)' \subseteq Has(s) /\ ToSet(taken'[s]) \subseteq ToSet(taken[s])
    BY <1>1 DEF Has, ToSet
<1>3. Armed(r) \subseteq ToSet(taken[r]) /\ \A h \in Armed(r) : h.job \in timed[r] \cap Has(r)
    BY DEF Armed, ToSet, Has
<1>4. stray' \subseteq stray \cup Armed(r) /\ (stray' # stray => taken'[r] = <<>>)
    BY DEF Moved
<1>5. \A j \in Orphans' \ Orphans : j \in timed[r] \cap Has(r) /\ Has(r)' = {}
    BY <1>3, <1>4 DEF Orphans, Has
<1> QED
    BY <1>1, <1>2, <1>3, <1>4, <1>5 DEF Copies, InHand, Orphans

LEMMA MovedStored ==
    ASSUME Stored, RunTypeOK, NEW r \in Runs, Moved(r),
           UNCHANGED <<vault, completed, failed, dlq, batch, closed, again, call>>
    PROVE  Stored'
<1>1. \A b : Sent(b)' = Sent(b)
    BY DEF Sent
<1>2. Copies' \subseteq Copies
    BY MovedCopies
<1> QED
    BY <1>1, <1>2 DEF Stored, Present

LEMMA MovedClean ==
    ASSUME CleanInv, RunTypeOK, \A s \in Runs : RunFits(s), NEW r \in Runs, Moved(r),
           UNCHANGED <<storeVars, closed, lapsed, again>>
    PROVE  CleanInv'
<1> SUFFICES ASSUME NEW j \in Clean PROVE OnePlace(j)' /\ OneHolder(j)'
    BY DEF CleanInv, Clean
<1>1. OnePlace(j) /\ OneHolder(j)
    BY DEF CleanInv
<1>2. OnePlace(j)'
    BY <1>1 DEF OnePlace, ListedOnce, Queued, Present, OnceIn, storeVars
<1>3. /\ \A s \in Runs : /\ taken'[s] = taken[s] \/ taken'[s] = <<>>
                         /\ Has(s)' \subseteq Has(s) /\ timed'[s] \subseteq timed[s]
      /\ \A k \in Orphans' \ Orphans : k \in timed[r] /\ Has(r)' = {}
      /\ InHand(j)' => InHand(j)
    BY MovedCopies
<1>4. Queued' = Queued /\ UNCHANGED <<active, delayed, expired>>
    BY DEF storeVars, Queued
<1>5. ASSUME NEW s \in Runs, NEW t \in Runs,
             NEW i \in DOMAIN taken'[s], NEW k \in DOMAIN taken'[t],
             taken'[s][i].job = j, taken'[t][k].job = j
      PROVE  s = t /\ i = k
  <2>1. taken'[s] = taken[s] /\ taken'[t] = taken[t]
    BY <1>3, <1>5
  <2> QED
    BY <1>1, <1>5, <2>1 DEF OneHolder
<1>6. ASSUME j \in Orphans' PROVE j \in active' /\ \A s \in Runs : j \notin Has(s)'
  <2>1. CASE j \in Orphans
    BY <1>1, <1>3, <1>4, <2>1 DEF OneHolder
  <2>2. CASE j \notin Orphans
    <3>1. j \in timed[r] /\ Has(r)' = {}
      BY <1>3, <1>6, <2>2
    <3>2. j \in Has(r)
      BY <3>1 DEF RunFits, Has
    <3>3. \A s \in Runs \ {r} : j \notin Has(s)
      BY <1>1, <3>2 DEF OneHolder, Has
    <3> QED
      BY <1>1, <1>3, <1>4, <3>1, <3>3 DEF OneHolder
  <2> QED
    BY <2>1, <2>2
<1>7. OneHolder(j)'
  <2>1. InHand(j)' => j \notin Queued' \cup delayed' \cup expired'
    BY <1>1, <1>3, <1>4 DEF OneHolder
  <2>2. \A s \in Runs : j \in timed'[s] => j \in active'
    BY <1>1, <1>3, <1>4 DEF OneHolder
  <2> QED
    BY <1>5, <1>6, <2>1, <2>2 DEF OneHolder
<1> QED
    BY <1>2, <1>7

LEMMA MovedVerdict ==
    ASSUME VerdictInv, RunTypeOK, NEW r \in Runs, Moved(r), at[r] # "idle",
           UNCHANGED <<completed, failed, dlq, closed, lapsed, again>>
    PROVE  VerdictInv'
<1>1. OneVerdict'
    BY DEF VerdictInv, OneVerdict, Moved
<1> SUFFICES ASSUME NEW j \in Clean' \ relisted', NEW s \in Runs
             PROVE  /\ \A i \in DOMAIN taken'[s] :
                           taken'[s][i].job = j /\ Pending(s, i)' => j \notin closed'
                    /\ at'[s] = "dlq" /\ Mine(s)' = j => j \notin completed'
    BY <1>1 DEF VerdictInv
<1>2. j \in Clean \ relisted
    BY DEF Clean, Moved
<1>3. /\ \A i \in DOMAIN taken[s] : taken[s][i].job = j /\ Pending(s, i) => j \notin closed
      /\ at[s] = "dlq" /\ Mine(s) = j => j \notin completed
    BY <1>2 DEF VerdictInv
<1>4. CASE s # r
    BY <1>3, <1>4 DEF Moved, Pending, Mine
<1>5. CASE s = r /\ at'[r] = "idle"
    BY <1>5 DEF Moved
<1>6. CASE s = r /\ at'[r] # "idle"
  <2>1. at'[r] = "script" /\ taken'[r] = taken[r]
    BY <1>6 DEF Moved
  <2>2. CASE turn'[r] = turn[r] + 1
    <3>1. ASSUME NEW i \in DOMAIN taken[r], Pending(r, i)' PROVE i > turn[r]
      <4>1. i \in Nat /\ turn[r] \in Nat
        BY CopyType DEF RunTypeOK
      <4> QED
        BY <2>2, <3>1, <4>1 DEF Pending
    <3> QED
      BY <1>3, <1>6, <2>1, <3>1 DEF Pending
  <2>3. CASE Has(r) \subseteq relisted'
    BY <1>6, <2>1, <2>3 DEF Has
  <2> QED
    BY <1>6, <2>1, <2>2, <2>3 DEF Moved
<1> QED
    BY <1>4, <1>5, <1>6
----------------------------------------------------------------------------
(***************************************************************************)
(* What every step must show of the counters and of a clean job.           *)
(***************************************************************************)
Settling(r) == at[r] \notin {"idle", "handling"}

LEMMA MineKnown ==
    ASSUME Stored, RunTypeOK, NEW r \in Runs, Settling(r)
    PROVE  /\ Mine(r) \in Sent(Batchid(r)) /\ Mine(r) \in Jobs /\ Batchid(r) \in Batches
           /\ Mine(r) \in Has(r)
           /\ Mine(r) \notin again => Mine(r) \in Of(Batchid(r))
<1>1. turn[r] \in DOMAIN taken[r]
    BY DEF RunTypeOK, Settling
<1>2. taken[r][turn[r]] \in Copies
    BY <1>1 DEF Copies, ToSet
<1>3. Mine(r) \in Jobs /\ Batchid(r) \in Batches /\ Mine(r) \in Has(r)
    BY CopyType DEF Settling
<1> QED
    BY <1>2, <1>3 DEF Stored, Mine, Batchid, Of

LEMMA CountOkKept ==
    ASSUME NEW p, NEW b, CountOk(p, b), call'[p] = call[p],
           Of(b)' = Of(b), count'[b] = count[b], b \in keyed' => b \in keyed,
           Of(b) \cap counted' = Of(b) \cap counted, uncounted \subseteq uncounted',
           \A r \in Runs : at[r] = "zero" /\ Batchid(r) = b =>
               (at'[r] = "zero" /\ Batchid(r)' = b) \/ Of(b) \cap uncounted' # {},
           \A r \in Runs : at'[r] = "zero" /\ Batchid(r)' = b =>
               at[r] = "zero" /\ Batchid(r) = b
    PROVE  CountOk(p, b)'
BY DEF CountOk

\* A step that counts nothing and stores no bulk.
LEMMA CountKept ==
    ASSUME CountInv, Stored, RunTypeOK,
           UNCHANGED <<call, keyed, count, counted, twice, shared>>,
           again \subseteq again', uncounted \subseteq uncounted',
           \A b \in Batches : Plain(b) => Of(b)' = Of(b),
           \A r \in Runs : at[r] = "zero" =>
               (at'[r] = "zero" /\ Batchid(r)' = Batchid(r)) \/ Mine(r) \in uncounted',
           \A r \in Runs : at'[r] = "zero" => at[r] = "zero" /\ Batchid(r)' = Batchid(r)
    PROVE  CountInv'
<1>1. \A p, b : Owns(p, b)' <=> Owns(p, b)
    BY DEF Owns
<1>2. \A b : Sent(b)' = Sent(b)
    BY DEF Sent
<1>3. \A b : Plain(b)' => Plain(b)
    BY <1>2 DEF Plain
<1>4. ASSUME NEW p \in Producers, NEW b \in Batches, Owns(p, b), Plain(b)
      PROVE  CountOk(p, b)'
  <2>1. CountOk(p, b) /\ Of(b)' = Of(b)
    BY <1>4 DEF CountInv
  <2>2. ASSUME NEW r \in Runs, at[r] = "zero", Batchid(r) = b
        PROVE  (at'[r] = "zero" /\ Batchid(r)' = b) \/ Of(b) \cap uncounted' # {}
    <3>1. Mine(r) \in Sent(b) /\ (Mine(r) \notin again => Mine(r) \in Of(b))
      BY <2>2, MineKnown DEF Settling
    <3>2. Mine(r) \in Of(b)
      BY <1>4, <3>1 DEF Plain
    <3> QED
      BY <2>2, <3>2
  <2> QED
    BY <2>1, <2>2, CountOkKept
<1> QED
    BY <1>1, <1>3, <1>4 DEF CountInv

LEMMA TallyKept ==
    ASSUME Tally, counted' = counted, uncounted \subseteq uncounted', closed \subseteq closed',
           \A j \in closed' \ closed :
               \/ j \in uncounted'
               \/ \E r \in Runs : at'[r] \in {"dlq", "count"} /\ Mine(r)' = j,
           \A r \in Runs : at[r] \in {"dlq", "count"} =>
               (at'[r] \in {"dlq", "count"} /\ Mine(r)' = Mine(r)) \/ Mine(r) \in uncounted'
    PROVE  Tally'
BY DEF Tally

LEMMA HolderKept ==
    ASSUME NEW j, OneHolder(j), UNCHANGED <<taken, timed>>, stray' \subseteq stray,
           InHand(j) => j \notin Queued' \cup delayed' \cup expired',
           j \in Orphans \/ (\E r \in Runs : j \in timed[r]) => j \in active'
    PROVE  OneHolder(j)'
<1>1. (j \in Orphans' => j \in Orphans) /\ \A r \in Runs : Has(r)' = Has(r)
    BY DEF Orphans, Has
<1>2. InHand(j)' => InHand(j)
    BY <1>1 DEF InHand
<1> QED
    BY <1>1, <1>2 DEF OneHolder

LEMMA VerdictKept ==
    ASSUME VerdictInv, UNCHANGED <<at, taken, turn, completed, failed, dlq, closed>>,
           lapsed \subseteq lapsed', again \subseteq again', relisted \subseteq relisted'
    PROVE  VerdictInv'
BY DEF VerdictInv, OneVerdict, Clean, Pending, Mine

LEMMA FitsKept ==
    ASSUME \A r \in Runs : RunFits(r), UNCHANGED <<at, taken, turn, timed>>,
           closed \subseteq closed'
    PROVE  \A r \in Runs : RunFits(r)'
BY DEF RunFits, Mine

\* Records come and go, but none without a batch id or an outcome.
LEMMA StoredKept ==
    ASSUME Stored, UNCHANGED <<batch, again, call>>, Copies' \subseteq Copies,
           closed \subseteq closed',
           \A j \in Jobs : Present(vault', j) => Present(vault, j),
           \A j \in Jobs : Present(vault, j) => Present(vault', j) \/ j \in closed',
           completed' \cup failed' \cup dlq' \subseteq closed'
    PROVE  Stored'
<1>1. \A b : Sent(b)' = Sent(b)
    BY DEF Sent
<1> QED
    BY <1>1 DEF Stored

LEMMA CopiesSame == UNCHANGED <<taken, stray>> => Copies' = Copies
BY DEF Copies
----------------------------------------------------------------------------
(***************************************************************************)
(* One lemma per action.                                                   *)
(***************************************************************************)
LEMMA MovesOnStep ==
    ASSUME Inv, NEW r \in Runs,
           HandlerEnds(r) \/ CommandFails(r) \/ Crash(r)
    PROVE  Inv'
<1>1. /\ Moved(r) /\ at[r] # "idle"
      /\ UNCHANGED <<storeVars, batch, closed, lapsed, again, call, shared>>
    BY RunMoves DEF Inv, MovesOn
<1>2. /\ UNCHANGED <<storeVars, call, keyed, count, batch, closed, counted, twice, shared,
                     lapsed, again>>
      /\ uncounted \subseteq uncounted' /\ relisted' \subseteq Jobs
      /\ uncounted' \subseteq Jobs /\ faults' \in 0 .. MaxFaults
      /\ Settling(r) => Mine(r) \in uncounted'
  <2>1. Has(r) \subseteq Jobs /\ (Settling(r) => Mine(r) \in Jobs /\ Mine(r) \in Has(r))
    BY CopyType DEF Inv, Settling
  <2>2. CASE HandlerEnds(r)
    BY <2>2 DEF HandlerEnds, history, Inv, HistoryTypeOK, CountTypeOK, Settling
  <2>3. CASE CommandFails(r)
    <3>1. Settling(r)
      BY <2>3 DEF CommandFails, Settling
    <3>2. relisted' \subseteq relisted \cup Has(r)
      BY <2>3 DEF CommandFails, Thrown
    <3>3. faults' \in 0 .. MaxFaults
      BY <2>3, BatchAssumption DEF CommandFails, Fault, Inv, CountTypeOK
    <3> QED
      BY <2>1, <2>3, <3>1, <3>2, <3>3 DEF CommandFails, Inv, HistoryTypeOK
  <2>4. CASE Crash(r)
    <3>1. faults' \in 0 .. MaxFaults
      BY <2>4, BatchAssumption DEF Crash, Fault, Inv, CountTypeOK
    <3> QED
      BY <2>1, <2>4, <3>1 DEF Crash, Inv, HistoryTypeOK
  <2> QED
    BY <2>2, <2>3, <2>4
<1>3. StoreTypeOK' /\ CountTypeOK' /\ HistoryTypeOK' /\ RunTypeOK'
    BY <1>1, <1>2 DEF Inv, StoreTypeOK, CountTypeOK, HistoryTypeOK, storeVars, Moved
<1>4. (\A s \in Runs : RunFits(s)') /\ CleanInv'
    BY <1>1, <1>2, MovedFits, MovedClean DEF Inv
<1>5. Stored' /\ VerdictInv'
    BY <1>1, <1>2, MovedStored, MovedVerdict DEF Inv, storeVars
<1>6. \A s \in Runs : Settling(s) =>
          (at'[s] = at[s] /\ Mine(s)' = Mine(s) /\ Batchid(s)' = Batchid(s))
          \/ Mine(s) \in uncounted'
    BY <1>1, <1>2 DEF Moved, Mine, Batchid
<1>7. Tally'
    BY <1>2, <1>6, TallyKept DEF Inv, Settling
<1>8. \A s \in Runs : at'[s] = "zero" => at[s] = "zero" /\ Batchid(s)' = Batchid(s)
    BY <1>1 DEF Moved, Batchid
<1>9. CountInv'
    BY <1>2, <1>6, <1>8, CountKept DEF Inv, Settling, Of
<1> QED
    BY <1>3, <1>4, <1>5, <1>7, <1>9 DEF Inv
\* A step of the store, of the scheduler or of the clock.
LEMMA StoreStep ==
    ASSUME Inv, StoreTypeOK',
           UNCHANGED <<call, keyed, count, batch, runVars, faults, counted, twice, shared,
                       relisted, again>>,
           closed \subseteq closed', uncounted \subseteq uncounted', lapsed \subseteq lapsed',
           closed' \cup uncounted' \cup lapsed' \subseteq Jobs,
           closed' \ closed \subseteq uncounted',
           \A j \in Jobs : Present(vault', j) <=> Present(vault, j),
           completed' \cup failed' \cup dlq' \subseteq closed',
           \A j \in Clean' : OnePlace(j)' /\ OneHolder(j)',
           VerdictInv'
    PROVE  Inv'
<1>1. RunTypeOK' /\ CountTypeOK' /\ HistoryTypeOK'
    BY DEF Inv, RunTypeOK, CountTypeOK, HistoryTypeOK, runVars
<1>2. (\A r \in Runs : RunFits(r)') /\ CleanInv'
    BY FitsKept DEF Inv, runVars, CleanInv
<1>3. Stored'
    BY StoredKept, CopiesSame DEF Inv, runVars
<1>4. Tally'
    BY TallyKept DEF Inv, runVars, Mine
<1>5. CountInv'
    BY CountKept DEF Inv, runVars, Of, Batchid
<1> QED
    BY <1>1, <1>2, <1>3, <1>4, <1>5 DEF Inv

LEMMA ClockStep ==
    ASSUME Inv, NEW k \in Jobs, Due(k) \/ LeaseExpires(k)
    PROVE  Inv'
<1>1. /\ StoreTypeOK' /\ UNCHANGED <<vault, waiting, prioritized, active, delayed,
                                      completed, failed, dlq>>
      /\ UNCHANGED <<call, keyed, count, batch, runVars, faults, history>>
      /\ \A j : j \in expired' => j \in expired \/ ~InHand(j)
    BY DEF Inv, Due, LeaseExpires, TimeComes, LeaseRunsOut, StoreTypeOK
<1>2. Queued' = Queued
    BY <1>1 DEF Queued
<1>3. ASSUME NEW j \in Clean' PROVE OnePlace(j)' /\ OneHolder(j)'
  <2>1. OnePlace(j) /\ OneHolder(j)
    BY <1>1, <1>3 DEF Inv, CleanInv, Clean, history
  <2>2. OnePlace(j)'
    BY <1>1, <1>2, <2>1 DEF OnePlace, ListedOnce, OnceIn, Present, history
  <2>3. OneHolder(j)'
    <3>1. InHand(j) => j \notin Queued' \cup delayed' \cup expired'
      BY <1>1, <1>2, <2>1 DEF OneHolder
    <3>2. j \in Orphans \/ (\E r \in Runs : j \in timed[r]) => j \in active'
      BY <1>1, <2>1 DEF OneHolder
    <3> QED
      BY <1>1, <2>1, <3>1, <3>2, HolderKept DEF runVars
  <2> QED
    BY <2>2, <2>3
<1>4. VerdictInv'
    BY <1>1, VerdictKept DEF Inv, runVars, history
<1> QED
  <2>1. /\ closed \subseteq closed' /\ uncounted \subseteq uncounted' /\ lapsed \subseteq lapsed'
        /\ closed' \cup uncounted' \cup lapsed' \subseteq Jobs
        /\ closed' \ closed \subseteq uncounted'
        /\ UNCHANGED <<counted, twice, shared, relisted, again>>
    BY <1>1 DEF Inv, HistoryTypeOK, history
  <2>2. completed' \cup failed' \cup dlq' \subseteq closed'
    BY <1>1 DEF Inv, Stored, history
  <2>3. \A j \in Jobs : Present(vault', j) <=> Present(vault, j)
    BY <1>1
  <2> QED
    BY <1>1, <1>3, <1>4, <2>1, <2>2, <2>3, StoreStep

LEMMA StuckStep ==
    ASSUME Inv, NEW r \in Runs, Stuck(r)
    PROVE  Inv'
<1> DEFINE mine == Has(r) \cap active
<1>1. /\ UNCHANGED <<vault, waiting, prioritized, active, delayed, due, completed, failed, dlq>>
      /\ UNCHANGED <<call, keyed, count, batch, runVars, closed, counted, twice, uncounted,
                     shared, relisted, again>>
      /\ expired' = expired \cup mine /\ lapsed' = lapsed \cup mine
      /\ faults' \in 0 .. MaxFaults
    BY BatchAssumption DEF Stuck, Fault, Inv, CountTypeOK
<1>2. mine \subseteq Jobs /\ mine \subseteq active
    BY DEF Inv, StoreTypeOK
<1> HIDE DEF mine
<1>3. StoreTypeOK' /\ Queued' = Queued
    BY <1>1, <1>2 DEF Inv, StoreTypeOK, Queued
<1>4. ASSUME NEW j \in Clean' PROVE OnePlace(j)' /\ OneHolder(j)'
  <2>1. OnePlace(j) /\ OneHolder(j) /\ j \notin mine
    BY <1>1, <1>4 DEF Inv, CleanInv, Clean
  <2>2. OnePlace(j)'
    BY <1>1, <1>3, <2>1 DEF OnePlace, ListedOnce, OnceIn, Present
  <2>3. OneHolder(j)'
    <3>1. InHand(j) => j \notin Queued' \cup delayed' \cup expired'
      BY <1>1, <1>3, <2>1 DEF OneHolder
    <3>2. j \in Orphans \/ (\E s \in Runs : j \in timed[s]) => j \in active'
      BY <1>1, <2>1 DEF OneHolder
    <3> QED
      BY <1>1, <2>1, <3>1, <3>2, HolderKept DEF runVars
  <2> QED
    BY <2>2, <2>3
<1>5. VerdictInv'
    BY <1>1, VerdictKept DEF Inv, runVars
<1>6. RunTypeOK' /\ CountTypeOK' /\ HistoryTypeOK'
    BY <1>1, <1>2 DEF Inv, RunTypeOK, CountTypeOK, HistoryTypeOK, runVars
<1>7. (\A s \in Runs : RunFits(s)') /\ CleanInv'
    BY <1>1, <1>4, FitsKept DEF Inv, runVars, CleanInv
<1>8. Stored'
    BY <1>1, StoredKept, CopiesSame DEF Inv, runVars, Stored
<1>9. Tally' /\ CountInv'
    BY <1>1, TallyKept, CountKept DEF Inv, runVars, Mine, Of, Batchid
<1> QED
    BY <1>3, <1>5, <1>6, <1>7, <1>8, <1>9 DEF Inv

LEMMA PromoteStep ==
    ASSUME Inv, Promote
    PROVE  Inv'
<1>1. /\ PromoteScript
      /\ UNCHANGED <<call, keyed, count, batch, runVars, faults, history>>
    BY DEF Promote
<1>2. StoreTypeOK /\ StoreTypeOK' /\ \A j \in Jobs : Present(vault', j) <=> Present(vault, j)
    BY <1>1, PromoteKeeps DEF Inv, PromoteScript
<1>3. /\ delayed' = delayed \ due /\ due \subseteq delayed
      /\ UNCHANGED <<active, expired, completed, failed, dlq>>
    BY <1>1, <1>2 DEF PromoteScript, StoreTypeOK
<1>4. ASSUME NEW j \in Clean' PROVE OnePlace(j)' /\ OneHolder(j)'
  <2>1. OnePlace(j) /\ OneHolder(j) /\ j \in Jobs
    BY <1>1, <1>4 DEF Inv, CleanInv, Clean, history
  <2>2. j \notin due \/ (j \notin Queued /\ Present(vault, j))
    BY <1>3, <2>1 DEF OnePlace
  <2>3. ListedOnce(j)' /\ Queued' = Queued \cup due
    BY <1>1, <1>2, <2>1, <2>2, PromoteOnce DEF OnePlace
  <2>4. OnePlace(j)'
    BY <1>1, <1>2, <1>3, <2>1, <2>3 DEF OnePlace, history
  <2>5. OneHolder(j)'
    <3>1. InHand(j) => j \notin Queued' \cup delayed' \cup expired'
      BY <1>3, <2>1, <2>3 DEF OneHolder
    <3>2. j \in Orphans \/ (\E s \in Runs : j \in timed[s]) => j \in active'
      BY <1>3, <2>1 DEF OneHolder
    <3> QED
      BY <1>1, <2>1, <3>1, <3>2, HolderKept DEF runVars
  <2> QED
    BY <2>4, <2>5
<1>5. VerdictInv'
    BY <1>1, <1>3, VerdictKept DEF Inv, runVars, history
<1>6. /\ closed \subseteq closed' /\ uncounted \subseteq uncounted' /\ lapsed \subseteq lapsed'
      /\ closed' \cup uncounted' \cup lapsed' \subseteq Jobs
      /\ closed' \ closed \subseteq uncounted'
      /\ UNCHANGED <<counted, twice, shared, relisted, again>>
    BY <1>1 DEF Inv, HistoryTypeOK, history
<1>7. completed' \cup failed' \cup dlq' \subseteq closed'
    BY <1>1, <1>3 DEF Inv, Stored, history
<1> QED
    BY <1>1, <1>2, <1>4, <1>5, <1>6, <1>7, StoreStep

LEMMA RecoverStep ==
    ASSUME Inv, RecoverStalled
    PROVE  Inv'
<1>1. /\ RecoverScript
      /\ uncounted' = uncounted \cup StalledDead /\ closed' = closed \cup StalledDead
      /\ UNCHANGED <<call, keyed, count, batch, runVars, faults, counted, twice, shared,
                     lapsed, relisted, again>>
    BY DEF RecoverStalled
<1>2. StoreTypeOK /\ StoreTypeOK' /\ StalledDead \subseteq Jobs
    BY <1>1, RecoverKeeps DEF Inv
<1>3. \A j \in Jobs : Present(vault', j) <=> Present(vault, j)
  <2>1. \A j \in Jobs : Present(vault, j) => Present(vault', j)
    BY <1>1, <1>2, RecoverKeeps
  <2>2. \A j \in Jobs : Present(vault', j) => Present(vault, j)
    BY <1>1 DEF RecoverScript, StalledDead, StalledBack, Present
  <2> QED
    BY <2>1, <2>2
<1>4. /\ active' = active \ expired /\ expired' = {} /\ expired \subseteq active
      /\ failed' = failed \cup StalledDead /\ dlq' = dlq \cup StalledDead
      /\ UNCHANGED <<delayed, completed>>
      /\ StalledDead \subseteq expired /\ StalledBack \subseteq expired
    BY <1>1, <1>2 DEF RecoverScript, StoreTypeOK, StalledDead, StalledBack
<1>5. \A j \in StalledBack : j \notin StalledDead /\ Present(vault, j)
  <2>1. \A j \in StalledBack : vault[j].attempts \in Nat /\ MaxRetries[j] \in Nat
    BY <1>2, OptionsAssumption DEF StalledBack, StoreTypeOK, JobRec, Absent
  <2> QED
    BY <2>1 DEF StalledBack, StalledDead
<1>6. Enqueue(StalledBack) /\ QueueType /\ StalledBack \in SUBSET Jobs
    BY <1>1, <1>2, <1>4 DEF RecoverScript, StoreTypeOK, QueueType
<1>7. Queued' = Queued \cup StalledBack
    BY <1>6, EnqueueType
<1>8. ASSUME NEW j \in Clean' PROVE OnePlace(j)' /\ OneHolder(j)'
  <2>1. OnePlace(j) /\ OneHolder(j) /\ j \in Jobs
    BY <1>1, <1>8 DEF Inv, CleanInv, Clean
  <2>2. j \in expired => j \notin Queued \cup delayed /\ ~InHand(j) /\ j \notin closed
    BY <1>4, <2>1 DEF OnePlace, OneHolder
  <2>3. ListedOnce(j)'
    BY <1>4, <1>6, <2>1, <2>2, EnqueueOnce DEF OnePlace
  <2>4. OnePlace(j)'
    <3>1. j \in Queued' \cup active' \cup delayed' => Present(vault', j) /\ j \notin closed'
      BY <1>1, <1>3, <1>4, <1>5, <1>7, <2>1, <2>2 DEF OnePlace
    <3>2. (j \in active' => j \notin Queued' \cup delayed') /\ (j \in delayed' => j \notin Queued')
      BY <1>4, <1>7, <2>1, <2>2 DEF OnePlace
    <3> QED
      BY <2>3, <3>1, <3>2 DEF OnePlace
  <2>5. OneHolder(j)'
    <3>1. InHand(j) => j \notin Queued' \cup delayed' \cup expired'
      BY <1>4, <1>7, <2>1, <2>2 DEF OneHolder
    <3>2. ASSUME j \in Orphans \/ (\E s \in Runs : j \in timed[s]) PROVE j \in active'
      <4>1. j \in active
        BY <2>1, <3>2 DEF OneHolder
      <4>2. InHand(j)
        BY <3>2 DEF InHand, Inv, RunFits, Has
      <4> QED
        BY <1>4, <2>2, <4>1, <4>2
    <3> QED
      BY <1>1, <2>1, <3>1, <3>2, HolderKept DEF runVars
  <2> QED
    BY <2>4, <2>5
<1>9. VerdictInv'
  <2>1. \A j \in Clean \cap StalledDead : ~InHand(j) /\ j \notin closed
    BY <1>4 DEF Inv, CleanInv, OnePlace, OneHolder
  <2>2. OneVerdict'
    <3> SUFFICES ASSUME NEW j \in StalledDead, j \in completed
                 PROVE  j \in lapsed \cup relisted \cup again
      BY <1>1, <1>4 DEF OneVerdict, Inv, VerdictInv
    <3>1. j \in closed /\ j \in Jobs
      BY <1>2 DEF Inv, Stored
    <3> QED
      BY <2>1, <3>1 DEF Clean
  <2>3. ASSUME NEW j \in Clean \ relisted, NEW r \in Runs, NEW i \in DOMAIN taken[r],
               taken[r][i].job = j, Pending(r, i)
        PROVE  j \notin closed'
    <3>1. InHand(j)
      BY <2>3 DEF InHand, Has
    <3>2. j \notin closed
      BY <2>3 DEF Inv, VerdictInv
    <3> QED
      BY <1>1, <2>1, <3>1, <3>2
  <2>4. /\ Clean' = Clean /\ UNCHANGED <<at, taken, turn, relisted, completed>>
        /\ \A r \in Runs : Mine(r)' = Mine(r) /\ \A i : Pending(r, i)' <=> Pending(r, i)
    BY <1>1, <1>4 DEF Clean, runVars, Mine, Pending
  <2> QED
    BY <2>2, <2>3, <2>4 DEF Inv, VerdictInv
<1>10. /\ closed \subseteq closed' /\ uncounted \subseteq uncounted' /\ lapsed \subseteq lapsed'
       /\ closed' \cup uncounted' \cup lapsed' \subseteq Jobs
       /\ closed' \ closed \subseteq uncounted'
    BY <1>1, <1>2 DEF Inv, HistoryTypeOK
<1>11. completed' \cup failed' \cup dlq' \subseteq closed'
    BY <1>1, <1>4 DEF Inv, Stored
<1> QED
    BY <1>1, <1>2, <1>3, <1>8, <1>9, <1>10, <1>11, StoreStep

LEMMA DlqStep ==
    ASSUME Inv, NEW r \in Runs, WriteDlq(r)
    PROVE  Inv'
<1>1. /\ at[r] = "dlq" /\ dlq' = dlq \cup {Mine(r)} /\ at' = [at EXCEPT ![r] = "count"]
      /\ UNCHANGED <<vault, waiting, prioritized, active, expired, delayed, due,
                     completed, failed>>
      /\ UNCHANGED <<call, keyed, count, batch, verdict, taken, turn, timed, stray, faults,
                     history>>
    BY DEF WriteDlq
<1>2. Mine(r) \in Jobs /\ Mine(r) \in closed
    BY <1>1, CopyType DEF Inv, RunFits
<1>3. StoreTypeOK' /\ CountTypeOK' /\ HistoryTypeOK'
    BY <1>1, <1>2 DEF Inv, StoreTypeOK, CountTypeOK, HistoryTypeOK, history
<1>4. /\ at' \in [Runs -> Ats] /\ at'[r] = "count"
      /\ \A s \in Runs : s # r => at'[s] = at[s]
      /\ \A s \in Runs : Mine(s)' = Mine(s) /\ Batchid(s)' = Batchid(s)
    BY <1>1 DEF Inv, RunTypeOK, Ats, Mine, Batchid
<1>5. RunTypeOK'
    BY <1>1, <1>4 DEF Inv, RunTypeOK
<1>6. \A s \in Runs : RunFits(s)'
    BY <1>1, <1>2, <1>4 DEF Inv, RunFits, history
<1>7. Stored'
    BY <1>1, <1>2, StoredKept, CopiesSame DEF Inv, Stored, history
<1>8. CleanInv'
  <2> SUFFICES ASSUME NEW j \in Clean PROVE OnePlace(j)' /\ OneHolder(j)'
    BY <1>1 DEF CleanInv, Clean, history
  <2>1. OnePlace(j) /\ OneHolder(j)
    BY DEF Inv, CleanInv
  <2>2. Queued' = Queued
    BY <1>1 DEF Queued
  <2>3. OnePlace(j)'
    BY <1>1, <2>1, <2>2 DEF OnePlace, ListedOnce, OnceIn, Present, history
  <2>4. OneHolder(j)'
    <3>1. InHand(j) => j \notin Queued' \cup delayed' \cup expired'
      BY <1>1, <2>1, <2>2 DEF OneHolder
    <3>2. j \in Orphans \/ (\E s \in Runs : j \in timed[s]) => j \in active'
      BY <1>1, <2>1 DEF OneHolder
    <3> QED
      BY <1>1, <2>1, <3>1, <3>2, HolderKept
  <2> QED
    BY <2>3, <2>4
<1>9. VerdictInv'
  <2>1. OneVerdict'
    <3>1. Mine(r) \in completed => Mine(r) \in lapsed \cup relisted \cup again
      BY <1>1, <1>2 DEF Inv, VerdictInv, Clean
    <3> QED
      BY <1>1, <3>1 DEF OneVerdict, Inv, VerdictInv, history
  <2>2. \A s \in Runs : \A i : Pending(s, i)' <=> Pending(s, i)
    BY <1>1, <1>4 DEF Pending
  <2>3. \A s \in Runs : at'[s] = "dlq" => at[s] = "dlq"
    BY <1>4
  <2>4. Clean' = Clean /\ UNCHANGED <<relisted, taken, closed, completed>>
    BY <1>1 DEF Clean, history
  <2> QED
    BY <1>4, <2>1, <2>2, <2>3, <2>4 DEF Inv, VerdictInv
<1>10. Tally'
    BY <1>1, <1>4, TallyKept DEF Inv, history
<1>11. CountInv'
    BY <1>1, <1>4, CountKept DEF Inv, history, Of
<1> QED
    BY <1>3, <1>5, <1>6, <1>7, <1>8, <1>9, <1>10, <1>11 DEF Inv

\* Only the job being settled can be evicted without having had an outcome.
LEMMA FinalizeStored ==
    ASSUME StoreTypeOK, Stored, NEW j \in Jobs, NEW outcome \in {"completed", "dead"},
           NEW E \in SUBSET Jobs, FinalizeScript(j, outcome, E)
    PROVE  /\ StoreTypeOK' /\ E \subseteq closed \cup {j}
           /\ \A k \in Jobs : Present(vault', k) => Present(vault, k)
           /\ \A k \in Jobs \ E : Present(vault, k) => Present(vault', k)
           /\ active' = active \ {j} /\ expired' = expired \ {j}
           /\ UNCHANGED <<waiting, prioritized, delayed, due>>
           /\ outcome = "completed" => /\ completed' \subseteq completed \cup {j}
                                       /\ UNCHANGED <<failed, dlq>>
           /\ outcome = "dead" => /\ failed' \subseteq failed \cup {j} /\ dlq' \subseteq dlq
                                  /\ UNCHANGED completed
<1>1. StoreTypeOK' /\ \A k \in Jobs \ E : Present(vault, k) => Present(vault', k)
    BY FinalizeKeeps
<1>2. FinalizeIndexes(j, outcome, E) /\ vault' = FinalVault(j, outcome, E)
    BY DEF FinalizeScript
<1>3. E \subseteq closed \cup {j}
    BY <1>2 DEF FinalizeIndexes, Evictions, Stored
<1>4. ASSUME NEW k \in Jobs, ~Present(vault, k) PROVE ~Present(vault', k)
  <2>1. Finished(vault, j, outcome)[k] = Absent
    BY <1>4 DEF Finished, Present, StoreTypeOK
  <2> QED
    BY <1>2, <2>1 DEF FinalVault, WithoutEntries, Present
<1>5. outcome = "completed" => /\ completed' \subseteq completed \cup {j}
                               /\ UNCHANGED <<failed, dlq>>
    BY <1>2 DEF FinalizeIndexes
<1>6. outcome = "dead" => /\ failed' \subseteq failed \cup {j} /\ dlq' \subseteq dlq
                          /\ UNCHANGED completed
    BY <1>2 DEF FinalizeIndexes
<1> QED
    BY <1>1, <1>3, <1>4, <1>5, <1>6 DEF FinalizeScript

LEMMA FinalizeStep ==
    ASSUME Inv, NEW r \in Runs, FinalizeBatchJob(r)
    PROVE  Inv'
<1> DEFINE m == Mine(r)
<1>1. /\ at[r] = "script" /\ closed' = closed \cup {m}
      /\ at' = [at EXCEPT ![r] = IF verdict[r] = "dead" THEN "dlq" ELSE "count"]
      /\ UNCHANGED <<call, keyed, count, batch, verdict, taken, turn, timed, stray, faults,
                     counted, twice, uncounted, shared, lapsed, relisted, again>>
    BY DEF FinalizeBatchJob
<1>2. m \in Jobs /\ m \in Has(r) /\ turn[r] \in DOMAIN taken[r] /\ m = taken[r][turn[r]].job
      /\ verdict[r] \in {"completed", "dead"}
    BY <1>1, CopyType DEF Inv, RunTypeOK, Mine
<1>3. PICK E \in SUBSET Jobs : FinalizeScript(m, verdict[r], E)
    BY DEF FinalizeBatchJob
<1> HIDE DEF m
<1>4. /\ StoreTypeOK' /\ E \subseteq closed'
      /\ \A k \in Jobs : Present(vault', k) => Present(vault, k)
      /\ \A k \in Jobs \ E : Present(vault, k) => Present(vault', k)
      /\ active' = active \ {m} /\ expired' = expired \ {m}
      /\ UNCHANGED <<waiting, prioritized, delayed, due>>
      /\ verdict[r] = "completed" => /\ completed' \subseteq completed \cup {m}
                                     /\ UNCHANGED <<failed, dlq>>
      /\ verdict[r] = "dead" => /\ failed' \subseteq failed \cup {m} /\ dlq' \subseteq dlq
                                /\ UNCHANGED completed
    BY <1>1, <1>2, <1>3, FinalizeStored DEF Inv
<1>5. /\ at' \in [Runs -> Ats] /\ at'[r] \in {"dlq", "count"}
      /\ at'[r] = "dlq" => verdict[r] = "dead"
      /\ \A s \in Runs : s # r => at'[s] = at[s]
      /\ \A s \in Runs : Mine(s)' = Mine(s) /\ Batchid(s)' = Batchid(s)
    BY <1>1 DEF Inv, RunTypeOK, Ats, Mine, Batchid
<1>6. CountTypeOK' /\ HistoryTypeOK' /\ RunTypeOK'
    BY <1>1, <1>2, <1>5 DEF Inv, CountTypeOK, HistoryTypeOK, RunTypeOK
<1>7. \A s \in Runs : RunFits(s)'
  <2>1. \A s \in Runs \ {r} : RunFits(s)'
    BY <1>1, <1>5 DEF Inv, RunFits
  <2>2. RunFits(r)'
    BY <1>1, <1>5 DEF Inv, RunFits, m
  <2> QED
    BY <2>1, <2>2
<1>8. completed' \cup failed' \cup dlq' \subseteq closed'
    BY <1>1, <1>2, <1>4 DEF Inv, Stored
<1>9. Stored'
    BY <1>1, <1>4, <1>8, StoredKept, CopiesSame DEF Inv
<1>10. ASSUME NEW j \in Clean
       PROVE  /\ OnePlace(j) /\ OneHolder(j)
              /\ j = m => j \notin Queued \cup delayed
              /\ \A s \in Runs : \A i \in DOMAIN taken[s] :
                     taken[s][i].job = j /\ j = m => s = r /\ i = turn[r]
  <2>1. OnePlace(j) /\ OneHolder(j)
    BY DEF Inv, CleanInv
  <2> QED
    BY <1>2, <2>1 DEF OneHolder, InHand
<1>11. CleanInv'
  <2> SUFFICES ASSUME NEW j \in Clean PROVE OnePlace(j)' /\ OneHolder(j)'
    BY <1>1 DEF CleanInv, Clean
  <2>1. Queued' = Queued
    BY <1>4 DEF Queued
  <2>2. OnePlace(j)'
    <3>1. ASSUME j \in Queued' \cup active' \cup delayed'
          PROVE  Present(vault', j) /\ j \notin closed'
      <4>1. j # m /\ Present(vault, j) /\ j \notin closed
        BY <1>4, <1>10, <2>1, <3>1 DEF OnePlace
      <4> QED
        BY <1>1, <1>4, <4>1 DEF Clean
    <3>2. (j \in active' => j \notin Queued' \cup delayed') /\ (j \in delayed' => j \notin Queued')
      BY <1>4, <1>10, <2>1 DEF OnePlace
    <3>3. ListedOnce(j)'
      BY <1>4, <1>10 DEF OnePlace, ListedOnce, OnceIn
    <3> QED
      BY <3>1, <3>2, <3>3 DEF OnePlace
  <2>3. OneHolder(j)'
    <3>1. InHand(j) => j \notin Queued' \cup delayed' \cup expired'
      BY <1>4, <1>10, <2>1 DEF OneHolder
    <3>2. j \in Orphans => j \in active'
      BY <1>2, <1>4, <1>10 DEF OneHolder
    <3>3. ASSUME NEW s \in Runs, j \in timed[s] PROVE j \in active'
      <4>1. PICK i \in DOMAIN taken[s] : i > turn[s] /\ taken[s][i].job = j
        BY <3>3 DEF Inv, RunFits
      <4>2. i \in Nat /\ turn[s] \in Nat
        BY <4>1, CopyType DEF Inv, RunTypeOK
      <4>3. j # m
        BY <1>10, <4>1, <4>2
      <4> QED
        BY <1>4, <1>10, <3>3, <4>3 DEF OneHolder
    <3> QED
      BY <1>1, <1>10, <3>1, <3>2, <3>3, HolderKept
  <2> QED
    BY <2>2, <2>3
<1>12. VerdictInv'
  <2>1. ASSUME m \in Clean \ relisted PROVE m \notin closed
    <3>1. Pending(r, turn[r])
      BY <1>1 DEF Pending
    <3> QED
      BY <1>2, <2>1, <3>1 DEF Inv, VerdictInv
  <2>2. OneVerdict'
    <3>1. m \in closed => m \in lapsed \cup relisted \cup again
      BY <1>2, <2>1 DEF Clean
    <3>2. \A k \in completed' \cap (failed' \cup dlq') :
              k \in completed \cap (failed \cup dlq) \/ (k = m /\ k \in closed)
      BY <1>2, <1>4 DEF Inv, Stored
    <3> QED
      BY <1>1, <3>1, <3>2 DEF Inv, VerdictInv, OneVerdict
  <2>3. ASSUME NEW j \in Clean \ relisted, NEW s \in Runs, NEW i \in DOMAIN taken[s],
               taken[s][i].job = j, Pending(s, i)'
        PROVE  j \notin closed'
    <3>1. Pending(s, i)
      BY <1>1, <1>5, <2>3 DEF Pending
    <3>2. j \notin closed
      BY <2>3, <3>1 DEF Inv, VerdictInv
    <3>3. ASSUME j = m PROVE FALSE
      <4>1. s = r /\ i = turn[r]
        BY <1>10, <2>3, <3>3
      <4>2. turn[r] \in Nat /\ turn'[r] = turn[r]
        BY <1>1 DEF Inv, RunTypeOK
      <4> QED
        BY <1>5, <2>3, <4>1, <4>2 DEF Pending
    <3> QED
      BY <1>1, <3>2, <3>3
  <2>4. ASSUME NEW j \in Clean \ relisted, NEW s \in Runs, at'[s] = "dlq", Mine(s) = j
        PROVE  j \notin completed'
    <3>1. CASE s = r
      <4>1. j = m /\ verdict[r] = "dead"
        BY <1>5, <2>4, <3>1 DEF m
      <4> QED
        BY <1>4, <2>1, <2>4, <4>1 DEF Inv, Stored
    <3>2. CASE s # r
      <4>1. at[s] = "dlq"
        BY <1>5, <2>4, <3>2
      <4>2. j \notin completed
        BY <2>4, <4>1 DEF Inv, VerdictInv
      <4>3. turn[s] \in DOMAIN taken[s] /\ taken[s][turn[s]].job = j
        BY <2>4, <4>1 DEF Inv, RunTypeOK, Mine
      <4>4. j # m
        BY <1>10, <2>4, <3>2, <4>3
      <4> QED
        BY <1>2, <1>4, <4>2, <4>4
    <3> QED
      BY <3>1, <3>2
  <2>5. Clean' = Clean /\ UNCHANGED <<relisted, taken>>
    BY <1>1 DEF Clean
  <2> QED
    BY <1>5, <2>2, <2>3, <2>4, <2>5 DEF VerdictInv
<1>13. Tally'
    BY <1>1, <1>5, TallyKept DEF Inv, m
<1>14. CountInv'
    BY <1>1, <1>5, CountKept DEF Inv, Of
<1> QED
    BY <1>4, <1>6, <1>7, <1>9, <1>11, <1>12, <1>13, <1>14 DEF Inv

LEMMA CopiesType ==
    ASSUME RunTypeOK
    PROVE  \A h \in Copies : h \in Copy /\ h.job \in Jobs /\ h.rec \in JobRec /\ h.batch \in Batches
<1>1. \A r \in Runs : ToSet(taken[r]) \subseteq Copy
    BY CopyType DEF ToSet
<1>2. Copies \subseteq Copy
    BY <1>1 DEF Copies, RunTypeOK
<1> QED
    BY <1>2 DEF Copy

LEMMA StrayEndsStep ==
    ASSUME Inv, StrayEnds
    PROVE  Inv'
<1>1. /\ stray' \subseteq stray
      /\ UNCHANGED <<storeVars, call, keyed, count, batch, at, verdict, taken, turn, timed,
                     faults, history>>
    BY DEF StrayEnds
<1>2. StoreTypeOK' /\ RunTypeOK' /\ CountTypeOK' /\ HistoryTypeOK'
    BY <1>1 DEF Inv, StoreTypeOK, storeVars, RunTypeOK, CountTypeOK, HistoryTypeOK, history
<1>3. (\A r \in Runs : RunFits(r)')
    BY <1>1, FitsKept DEF Inv, history
<1>4. Stored'
  <2>1. Copies' \subseteq Copies
    BY <1>1 DEF Copies
  <2> QED
    BY <1>1, <2>1, StoredKept DEF Inv, Stored, storeVars, history
<1>5. CleanInv'
  <2> SUFFICES ASSUME NEW j \in Clean PROVE OnePlace(j)' /\ OneHolder(j)'
    BY <1>1 DEF CleanInv, Clean, history
  <2>1. OnePlace(j) /\ OneHolder(j)
    BY DEF Inv, CleanInv
  <2>2. Queued' = Queued
    BY <1>1 DEF Queued, storeVars
  <2>3. OnePlace(j)'
    BY <1>1, <2>1, <2>2 DEF OnePlace, ListedOnce, OnceIn, Present, storeVars, history
  <2>4. OneHolder(j)'
    <3>1. InHand(j) => j \notin Queued' \cup delayed' \cup expired'
      BY <1>1, <2>1, <2>2 DEF OneHolder, storeVars
    <3>2. j \in Orphans \/ (\E s \in Runs : j \in timed[s]) => j \in active'
      BY <1>1, <2>1 DEF OneHolder, storeVars
    <3> QED
      BY <1>1, <2>1, <3>1, <3>2, HolderKept
  <2> QED
    BY <2>3, <2>4
<1>6. VerdictInv'
    BY <1>1, VerdictKept DEF Inv, storeVars, history
<1>7. Tally' /\ CountInv'
    BY <1>1, TallyKept, CountKept DEF Inv, history, Mine, Of, Batchid
<1> QED
    BY <1>2, <1>3, <1>4, <1>5, <1>6, <1>7 DEF Inv

\* A renewal writes back the copy of a job that has a lease, or of one that
\* was stored anew since.
LEMMA RenewStep ==
    ASSUME Inv, Renew
    PROVE  Inv'
<1>1. PICK h \in Renewed :
          /\ vault' = [vault EXCEPT ![h.job] = h.rec]
          /\ batch' = [batch EXCEPT ![h.job] = h.batch]
          /\ active' = active \cup {h.job} /\ expired' = expired \ {h.job}
          /\ UNCHANGED <<waiting, prioritized, delayed, due, completed, failed, dlq>>
          /\ UNCHANGED <<call, keyed, count, runVars, faults, history>>
    BY DEF Renew
<1>2. h \in Copies /\ (h.job \in Orphans \/ \E r \in Runs : h.job \in timed[r])
  <2>1. CASE h \in stray
    BY <2>1 DEF Copies, Orphans
  <2>2. CASE \E r \in Runs : h \in Armed(r)
    BY <2>2 DEF Copies, Armed, ToSet
  <2> QED
    BY <1>1, <2>1, <2>2 DEF Renewed
<1>3. h.job \in Jobs /\ h.rec \in JobRec /\ h.batch \in Batches
    BY <1>2, CopiesType DEF Inv
<1>4. h.rec # Absent /\ h.batch # NoBatch
    BY <1>3, BatchAssumption DEF JobRec, Statuses, Absent
<1>5. StoreTypeOK' /\ RunTypeOK' /\ CountTypeOK' /\ HistoryTypeOK'
  <2>1. StoreTypeOK'
    BY <1>1, <1>3 DEF Inv, StoreTypeOK
  <2>2. CountTypeOK'
    BY <1>1, <1>3 DEF Inv, CountTypeOK, history
  <2> QED
    BY <1>1, <2>1, <2>2 DEF Inv, RunTypeOK, HistoryTypeOK, runVars, history
<1>6. \A r \in Runs : RunFits(r)'
    BY <1>1, FitsKept DEF Inv, runVars, history
<1>7. /\ vault'[h.job] = h.rec /\ batch'[h.job] = h.batch
      /\ \A j \in Jobs : j # h.job => vault'[j] = vault[j] /\ batch'[j] = batch[j]
    BY <1>1, <1>3 DEF Inv, StoreTypeOK, CountTypeOK
<1>8. \A b : Sent(b)' = Sent(b)
    BY <1>1 DEF Sent
<1>9. /\ batch[h.job] # NoBatch /\ h.job \in Sent(h.batch) /\ h.job \in Sent(batch[h.job])
      /\ h.job \notin again => h.batch = batch[h.job]
    BY <1>2, <1>3 DEF Inv, Stored
<1>10. Stored'
  <2>1. \A j \in Jobs : Present(vault', j) => batch'[j] # NoBatch
    BY <1>4, <1>7 DEF Inv, Stored, Present
  <2>2. ASSUME NEW j \in Jobs, batch'[j] # NoBatch
        PROVE  j \in Sent(batch'[j]) /\ (Present(vault', j) \/ j \in closed)
    BY <1>4, <1>7, <1>9, <2>2 DEF Inv, Stored, Present
  <2>3. Copies' = Copies /\ UNCHANGED <<again, closed, completed, failed, dlq>>
    BY <1>1, CopiesSame DEF runVars, history
  <2>4. ASSUME NEW g \in Copies
        PROVE  /\ batch'[g.job] # NoBatch /\ g.job \in Sent(g.batch)
               /\ g.job \notin again => g.batch = batch'[g.job]
    <3>1. g.job \in Jobs
      BY CopiesType DEF Inv
    <3>2. /\ batch[g.job] # NoBatch /\ g.job \in Sent(g.batch)
          /\ g.job \notin again => g.batch = batch[g.job]
      BY DEF Inv, Stored
    <3> QED
      BY <1>4, <1>7, <1>9, <3>1, <3>2
  <2> QED
    BY <1>8, <2>1, <2>2, <2>3, <2>4 DEF Inv, Stored
<1>11. ASSUME NEW j \in Clean PROVE OnePlace(j) /\ OneHolder(j) /\ (j = h.job => j \in active)
    BY <1>2 DEF Inv, CleanInv, OneHolder
<1>12. CleanInv'
  <2> SUFFICES ASSUME NEW j \in Clean PROVE OnePlace(j)' /\ OneHolder(j)'
    BY <1>1 DEF CleanInv, Clean, history
  <2>1. Queued' = Queued
    BY <1>1 DEF Queued
  <2>2. (j \in active' <=> j \in active) /\ (j \in expired' => j \in expired)
    BY <1>1, <1>11
  <2>3. OnePlace(j)'
    <3>1. Present(vault, j) => Present(vault', j)
      BY <1>4, <1>7 DEF Present, Clean
    <3> QED
      BY <1>1, <1>11, <2>1, <2>2, <3>1 DEF OnePlace, ListedOnce, OnceIn, history
  <2>4. OneHolder(j)'
    <3>1. InHand(j) => j \notin Queued' \cup delayed' \cup expired'
      BY <1>1, <1>11, <2>1, <2>2 DEF OneHolder
    <3>2. j \in Orphans \/ (\E s \in Runs : j \in timed[s]) => j \in active'
      BY <1>1, <1>11, <2>2 DEF OneHolder
    <3> QED
      BY <1>1, <1>11, <3>1, <3>2, HolderKept DEF runVars
  <2> QED
    BY <2>3, <2>4
<1>13. VerdictInv'
    BY <1>1, VerdictKept DEF Inv, runVars, history
<1>14. ASSUME NEW b \in Batches, Plain(b) PROVE Of(b)' = Of(b)
  <2>1. CASE h.job \notin again
    BY <1>3, <1>7, <1>9, <2>1 DEF Of
  <2>2. CASE h.job \in again
    <3>1. h.batch # b /\ batch[h.job] # b
      BY <1>9, <1>14, <2>2 DEF Plain
    <3> QED
      BY <1>3, <1>7, <3>1 DEF Of
  <2> QED
    BY <2>1, <2>2
<1>15. Tally'
    BY <1>1, TallyKept DEF Inv, history, runVars, Mine
<1>16. CountInv'
    BY <1>1, <1>14, CountKept DEF Inv, history, runVars, Batchid
<1> QED
    BY <1>5, <1>6, <1>10, <1>12, <1>13, <1>15, <1>16 DEF Inv

LEMMA BulkCheckStep ==
    ASSUME Inv, NEW p \in Producers, BulkCheck(p)
    PROVE  Inv'
<1>1. /\ call[p] = "idle" /\ call' \in [Producers -> {"idle", "checked", "empty", "refused", "done"}]
      /\ call'[p] \in {"checked", "refused"} /\ \A o \in Producers \ {p} : call'[o] = call[o]
      /\ UNCHANGED <<storeVars, keyed, count, batch, runVars, faults, history>>
    BY DEF BulkCheck, Inv, CountTypeOK
<1>2. /\ \A b : Sent(b)' = Sent(b)
      /\ \A o \in Producers : \A b : Owns(o, b)' <=> Owns(o, b)
    BY <1>1 DEF Sent, Owns
<1>3. StoreTypeOK' /\ RunTypeOK' /\ CountTypeOK' /\ HistoryTypeOK'
    BY <1>1 DEF Inv, StoreTypeOK, storeVars, RunTypeOK, runVars, CountTypeOK, HistoryTypeOK, history
<1>4. Copies' = Copies
    BY <1>1, CopiesSame DEF runVars
<1>5. Stored'
    BY <1>1, <1>2, <1>4 DEF Inv, Stored, storeVars, history
<1>6. (\A r \in Runs : RunFits(r)') /\ VerdictInv'
    BY <1>1, FitsKept, VerdictKept DEF Inv, runVars, storeVars, history
<1>7. CleanInv'
  <2> SUFFICES ASSUME NEW j \in Clean PROVE OnePlace(j)' /\ OneHolder(j)'
    BY <1>1 DEF CleanInv, Clean, history
  <2>1. OnePlace(j) /\ OneHolder(j)
    BY DEF Inv, CleanInv
  <2>2. Queued' = Queued
    BY <1>1 DEF Queued, storeVars
  <2>3. OnePlace(j)'
    BY <1>1, <2>1, <2>2 DEF OnePlace, ListedOnce, OnceIn, Present, storeVars, history
  <2>4. OneHolder(j)'
    BY <1>1, <2>1, <2>2, HolderKept DEF OneHolder, storeVars, runVars
  <2> QED
    BY <2>3, <2>4
<1>8. Tally'
    BY <1>1, TallyKept DEF Inv, history, runVars, Mine
<1>9. CountInv'
  <2>1. \A b : Plain(b)' <=> Plain(b)
    BY <1>1, <1>2 DEF Plain, history
  <2>2. ASSUME NEW o \in Producers, NEW b \in Batches, Owns(o, b), Plain(b)
        PROVE  CountOk(o, b)'
    <3>1. CountOk(o, b) /\ o # p
      BY <1>1, <2>2 DEF Inv, CountInv, Owns
    <3>2. call'[o] = call[o] /\ Of(b)' = Of(b)
      BY <1>1, <3>1 DEF Of
    <3> QED
      BY <1>1, <3>1, <3>2, CountOkKept DEF history, runVars, Batchid
  <2>3. UNCHANGED shared
    BY <1>1 DEF history
  <2> QED
    BY <1>2, <2>1, <2>2, <2>3 DEF Inv, CountInv
<1> QED
    BY <1>3, <1>5, <1>6, <1>7, <1>8, <1>9 DEF Inv

\* A bulk that stored nothing deletes the counter it made; nothing under the
\* id counts on it.
LEMMA BulkEmptyStep ==
    ASSUME Inv, NEW p \in Producers, BulkEmpty(p)
    PROVE  Inv'
<1> DEFINE d == BatchOf[p]
<1>1. /\ call[p] = "empty" /\ call' = [call EXCEPT ![p] = "done"]
      /\ keyed' = keyed \ {d} /\ count' = [count EXCEPT ![d] = 0]
      /\ UNCHANGED <<storeVars, batch, runVars, faults, history>>
    BY DEF BulkEmpty, Deleted
<1>2. d \in Batches
    BY BatchAssumption
<1> HIDE DEF d
<1>3. /\ call' \in [Producers -> {"idle", "checked", "empty", "refused", "done"}]
      /\ call'[p] = "done" /\ \A o \in Producers \ {p} : call'[o] = call[o]
      /\ count' \in [Batches -> Int] /\ count'[d] = 0
      /\ \A b \in Batches \ {d} : count'[b] = count[b]
    BY <1>1, <1>2 DEF Inv, CountTypeOK
<1>4. /\ \A b : Sent(b)' = Sent(b)
      /\ \A o \in Producers : \A b : Owns(o, b)' <=> Owns(o, b)
    BY <1>1, <1>3 DEF Sent, Owns
<1>5. StoreTypeOK' /\ RunTypeOK' /\ CountTypeOK' /\ HistoryTypeOK'
    BY <1>1, <1>3
       DEF Inv, StoreTypeOK, storeVars, RunTypeOK, runVars, CountTypeOK, HistoryTypeOK, history
<1>6. Copies' = Copies
    BY <1>1, CopiesSame DEF runVars
<1>7. Stored'
    BY <1>1, <1>4, <1>6 DEF Inv, Stored, storeVars, history
<1>8. (\A r \in Runs : RunFits(r)') /\ VerdictInv'
    BY <1>1, FitsKept, VerdictKept DEF Inv, runVars, storeVars, history
<1>9. CleanInv'
  <2> SUFFICES ASSUME NEW j \in Clean PROVE OnePlace(j)' /\ OneHolder(j)'
    BY <1>1 DEF CleanInv, Clean, history
  <2>1. OnePlace(j) /\ OneHolder(j)
    BY DEF Inv, CleanInv
  <2>2. Queued' = Queued
    BY <1>1 DEF Queued, storeVars
  <2>3. OnePlace(j)'
    BY <1>1, <2>1, <2>2 DEF OnePlace, ListedOnce, OnceIn, Present, storeVars, history
  <2>4. OneHolder(j)'
    BY <1>1, <2>1, <2>2, HolderKept DEF OneHolder, storeVars, runVars
  <2> QED
    BY <2>3, <2>4
<1>10. Tally'
    BY <1>1, TallyKept DEF Inv, history, runVars, Mine
<1>11. CountInv'
  <2>1. \A b : Plain(b)' <=> Plain(b)
    BY <1>1, <1>4 DEF Plain, history
  <2>2. \A b : Of(b)' = Of(b)
    BY <1>1 DEF Of
  <2>3. ASSUME NEW o \in Producers, NEW b \in Batches, Owns(o, b), Plain(b)
        PROVE  CountOk(o, b)'
    <3>1. CountOk(o, b)
      BY <2>3 DEF Inv, CountInv
    <3>2. CASE b # d
      <4>1. o # p
        BY <2>3, <3>2 DEF Owns, d
      <4>2. call'[o] = call[o] /\ count'[b] = count[b]
        BY <1>3, <3>2, <4>1
      <4> QED
        BY <1>1, <2>2, <3>1, <4>2, CountOkKept DEF history, runVars, Batchid
    <3>3. CASE b = d
      <4>1. Owns(p, b)
        BY <1>1, <3>3 DEF Owns, d
      <4>2. o = p
        BY <2>3, <4>1 DEF Inv, CountInv, Plain
      <4>3. Of(b)' = {}
        BY <1>1, <2>2, <3>1, <4>2 DEF CountOk
      <4> QED
        BY <1>1, <1>3, <3>3, <4>2, <4>3 DEF CountOk
    <3> QED
      BY <3>2, <3>3
  <2>4. UNCHANGED shared
    BY <1>1 DEF history
  <2> QED
    BY <1>4, <2>1, <2>3, <2>4 DEF Inv, CountInv
<1> QED
    BY <1>5, <1>7, <1>8, <1>9, <1>10, <1>11 DEF Inv

\* Where a job is listed more than once, one place is the first.
LEMMA LeastPlace ==
    ASSUME NEW T \in SUBSET Nat, T # {}
    PROVE  \E m \in T : \A k \in T : m <= k
<1> DEFINE R == {ss \in Nat \X Nat : ss[1] < ss[2]}
<1>1. OpToRel(<, Nat) = R
    BY Zenon DEF OpToRel
<1>2. IsWellFoundedOn(R, Nat)
    BY <1>1, NatLessThanWellFounded
<1>3. \E m \in T : \A k \in T : ~ (<<k, m>> \in R)
  <2> HIDE DEF R
  <2> QED
    BY <1>2, WFMin
<1>4. PICK m \in T : \A k \in T : ~ (<<k, m>> \in R)
    BY <1>3
<1>5. ASSUME NEW k \in T PROVE m <= k
  <2>1. k \in Nat /\ m \in Nat
    OBVIOUS
  <2>2. ~ (<<k, m>> \in R)
    BY <1>4
  <2>3. ~(k < m)
    BY <2>1, <2>2
  <2> QED
    BY <2>1, <2>3
<1> QED
    BY <1>5

\* The script stores the jobs that are not there, each once.
LEMMA AddBulkKeeps ==
    ASSUME StoreTypeOK, NEW p \in Producers, AddBulkScript(p)
    PROVE  /\ StoreTypeOK' /\ Created(p) \subseteq Jobs /\ Created(p) \subseteq ToSet(Items[p])
           /\ \A j \in Jobs : Present(vault', j) <=> Present(vault, j) \/ j \in Created(p)
           /\ \A j \in Jobs : ListedOnce(j) /\ j \notin Queued => ListedOnce(j)'
           /\ \A j \in Jobs \ Created(p) : ListedOnce(j) => ListedOnce(j)'
           /\ Queued' = Queued \cup (Created(p) \ Later)
           /\ delayed' = delayed \cup (Created(p) \cap Later)
           /\ UNCHANGED <<active, expired, completed, failed, dlq>>
<1> DEFINE new == Created(p)
           now == new \ Later
           first(i) == \A k \in 1..(i - 1) : Items[p][k] # Items[p][i]
           places == {i \in DOMAIN Items[p] : Items[p][i] \in now \ Prioritised /\ first(i)}
<1>1. PICK w \in PartAt(Items[p], places) : waiting' = waiting \o w
    BY DEF AddBulkScript
<1>2. /\ vault' = [j \in Jobs |-> IF j \in new THEN NewRec ELSE vault[j]]
      /\ prioritized' = prioritized \cup (now \cap Prioritised)
      /\ delayed' = delayed \cup (new \cap Later) /\ due' = due \ new
      /\ UNCHANGED <<active, expired, completed, failed, dlq>>
    BY DEF AddBulkScript
<1>3. Items[p] \in Seq(Jobs)
    BY BatchAssumption
<1>4. DOMAIN Items[p] = 1 .. Len(Items[p]) /\ Len(Items[p]) \in Nat
      /\ \A i \in DOMAIN Items[p] : Items[p][i] \in Jobs
    BY <1>3, LenProperties, ElementOfSeq
<1>5. new \subseteq Jobs /\ new \subseteq ToSet(Items[p])
    BY <1>4 DEF Created, ToSet
<1>6. \A a, c \in places : Items[p][a] = Items[p][c] => a = c
  <2> SUFFICES ASSUME NEW a \in places, NEW c \in places, Items[p][a] = Items[p][c], a < c
               PROVE  FALSE
    BY <1>4
  <2>1. a \in 1 .. (c - 1)
    BY <1>4
  <2> QED
    BY <2>1
<1>7. {Items[p][i] : i \in places} = now \ Prioritised
  <2>1. {Items[p][i] : i \in places} \subseteq now \ Prioritised
    OBVIOUS
  <2>2. ASSUME NEW j \in now \ Prioritised PROVE \E i \in places : Items[p][i] = j
    <3> DEFINE T == {i \in DOMAIN Items[p] : Items[p][i] = j}
    <3>1. T \in SUBSET Nat /\ T # {}
      BY <1>4, <1>5, <2>2 DEF ToSet
    <3>2. \E m \in T : \A k \in T : m <= k
      <4> HIDE DEF T
      <4> QED
        BY <3>1, LeastPlace
    <3>3. PICK i \in T : \A k \in T : i <= k
      BY <3>2
    <3>4. \A k \in 1 .. (i - 1) : Items[p][k] # Items[p][i]
      BY <1>4, <3>3
    <3> QED
      BY <2>2, <3>3, <3>4
  <2> QED
    BY <2>1, <2>2
<1> HIDE DEF places, now, new
<1>8. /\ w \in Seq(Jobs) /\ ToSet(w) = now \ Prioritised
      /\ \A j : OnceIn(w, j)
  <2>1. places \in SUBSET DOMAIN Items[p]
    BY DEF places
  <2> QED
    BY <1>1, <1>3, <1>6, <1>7, <2>1, PartAtType
<1>9. waiting \in Seq(Jobs)
    BY DEF StoreTypeOK
<1>10. waiting' \in Seq(Jobs) /\ ToSet(waiting') = ToSet(waiting) \cup (now \ Prioritised)
    BY <1>1, <1>8, <1>9, ToSetConcat
<1>11. NewRec \in JobRec /\ NewRec # Absent
    BY DEF NewRec, JobRec, Statuses, Absent
<1>12. StoreTypeOK'
    BY <1>2, <1>5, <1>10, <1>11 DEF StoreTypeOK, now
<1>13. \A j \in Jobs : Present(vault', j) <=> Present(vault, j) \/ j \in new
    BY <1>2, <1>11 DEF Present
<1>14. Queued' = Queued \cup now
    BY <1>2, <1>10 DEF Queued
<1>15. ASSUME NEW j \in Jobs, ListedOnce(j), j \notin Queued \/ j \notin new
       PROVE  ListedOnce(j)'
  <2>1. j \notin ToSet(waiting) \/ j \notin ToSet(w)
    BY <1>8, <1>15 DEF Queued, now
  <2>2. OnceIn(waiting', j)
    BY <1>1, <1>8, <1>9, <1>15, <2>1, OnceConcat DEF ListedOnce
  <2>3. j \in ToSet(waiting') => j \notin prioritized'
    BY <1>2, <1>10, <1>15 DEF ListedOnce, Queued, now
  <2> QED
    BY <2>2, <2>3 DEF ListedOnce
<1> QED
    BY <1>2, <1>5, <1>12, <1>13, <1>14, <1>15 DEF new, now

LEMMA BulkScriptStep ==
    ASSUME Inv, NEW p \in Producers, BulkScript(p)
    PROVE  Inv'
<1> DEFINE d == BatchOf[p]
           new == Created(p)
<1>1. /\ call[p] = "checked" /\ AddBulkScript(p)
      /\ keyed' = keyed \cup {d} /\ count' = [count EXCEPT ![d] = Len(Items[p])]
      /\ batch' = [j \in Jobs |-> IF j \in new THEN d ELSE batch[j]]
      /\ call' = [call EXCEPT ![p] = IF new = {} THEN "empty" ELSE "done"]
      /\ shared' = IF \E o \in Producers \ {p} : BatchOf[o] = d /\ call[o] \in {"empty", "done"}
                   THEN shared \cup {d} ELSE shared
      /\ again' = again \cup (new \cap closed)
      /\ UNCHANGED <<runVars, faults, closed, counted, twice, uncounted, lapsed, relisted>>
    BY DEF BulkScript
<1>2. d \in Batches /\ d # NoBatch /\ Items[p] \in Seq(Jobs) /\ Len(Items[p]) \in Nat
    BY BatchAssumption, LenProperties
<1>3. /\ StoreTypeOK' /\ new \subseteq Jobs /\ new \subseteq ToSet(Items[p])
      /\ \A j \in Jobs : Present(vault', j) <=> Present(vault, j) \/ j \in new
      /\ \A j \in Jobs : ListedOnce(j) /\ j \notin Queued => ListedOnce(j)'
      /\ \A j \in Jobs \ new : ListedOnce(j) => ListedOnce(j)'
      /\ Queued' = Queued \cup (new \ Later) /\ delayed' = delayed \cup (new \cap Later)
      /\ UNCHANGED <<active, expired, completed, failed, dlq>>
    BY <1>1, AddBulkKeeps DEF Inv
<1>4. \A j \in new : ~Present(vault, j)
    BY DEF Created
<1>5. new = {} => call'[p] = "empty"
    BY <1>1 DEF Inv, CountTypeOK
<1> HIDE DEF d, new
<1>6. /\ call' \in [Producers -> {"idle", "checked", "empty", "refused", "done"}]
      /\ call'[p] \in {"empty", "done"} /\ \A o \in Producers \ {p} : call'[o] = call[o]
      /\ count' \in [Batches -> Int] /\ count'[d] = Len(Items[p])
      /\ \A b \in Batches \ {d} : count'[b] = count[b]
      /\ batch' \in [Jobs -> Batches \cup {NoBatch}]
      /\ \A j \in Jobs : batch'[j] = IF j \in new THEN d ELSE batch[j]
    BY <1>1, <1>2 DEF Inv, CountTypeOK
<1>7. /\ Sent(d)' = Sent(d) \cup ToSet(Items[p])
      /\ \A b : b # d => Sent(b)' = Sent(b)
    BY <1>1, <1>6 DEF Sent, d
<1>8. \A j \in new : batch[j] # NoBatch => j \in closed /\ j \in again'
    BY <1>1, <1>3, <1>4 DEF Inv, Stored
<1>9. StoreTypeOK' /\ RunTypeOK' /\ CountTypeOK' /\ HistoryTypeOK'
  <2>1. CountTypeOK'
    <3>1. keyed' \subseteq Batches /\ shared' \subseteq Batches
      BY <1>1, <1>2 DEF Inv, CountTypeOK
    <3>2. \A b \in Batches \ keyed' : count'[b] = 0
      BY <1>1, <1>6 DEF Inv, CountTypeOK
    <3> QED
      BY <1>1, <1>6, <3>1, <3>2 DEF Inv, CountTypeOK
  <2>2. HistoryTypeOK'
    BY <1>1, <1>3 DEF Inv, HistoryTypeOK
  <2> QED
    BY <1>1, <1>3, <2>1, <2>2 DEF Inv, RunTypeOK, runVars
<1>10. (\A r \in Runs : RunFits(r)') /\ VerdictInv'
    BY <1>1, <1>3, FitsKept, VerdictKept DEF Inv, runVars
<1>11. Copies' = Copies
    BY <1>1, CopiesSame DEF runVars
<1>12. Stored'
  <2>1. \A j \in Jobs : Present(vault', j) => batch'[j] # NoBatch
    BY <1>2, <1>3, <1>6 DEF Inv, Stored
  <2>2. ASSUME NEW j \in Jobs, batch'[j] # NoBatch
        PROVE  (j \in Sent(batch[j]))' /\ (Present(vault', j) \/ j \in closed')
    <3>1. CASE j \in new
      <4>1. batch'[j] = d /\ j \in Sent(d)'
        BY <1>3, <1>6, <1>7, <3>1
      <4> QED
        BY <1>3, <3>1, <4>1 DEF Sent
    <3>2. CASE j \notin new
      <4>1. batch'[j] = batch[j] /\ j \in Sent(batch[j])
        BY <1>6, <2>2, <3>2 DEF Inv, Stored
      <4>2. PICK b : b = batch[j]
        OBVIOUS
      <4>3. j \in Sent(b)' /\ b = batch'[j]
        BY <1>7, <4>1, <4>2
      <4>4. (j \in Sent(batch[j]))'
        BY <4>3 DEF Sent
      <4> QED
        BY <1>1, <1>3, <2>2, <3>2, <4>1, <4>4 DEF Inv, Stored
    <3> QED
      BY <3>1, <3>2
  <2>3. ASSUME NEW g \in Copies
        PROVE  /\ batch'[g.job] # NoBatch /\ g.job \in Sent(g.batch)'
               /\ g.job \notin again' => g.batch = batch'[g.job]
    <3>1. g.job \in Jobs
      BY CopiesType DEF Inv
    <3>2. /\ batch[g.job] # NoBatch /\ g.job \in Sent(g.batch)
          /\ g.job \notin again => g.batch = batch[g.job]
      BY DEF Inv, Stored
    <3> QED
      BY <1>1, <1>2, <1>6, <1>7, <1>8, <3>1, <3>2
  <2>4. completed' \cup failed' \cup dlq' \subseteq closed'
    BY <1>1, <1>3 DEF Inv, Stored
  <2> QED
    BY <1>11, <2>1, <2>2, <2>3, <2>4 DEF Stored
<1>13. CleanInv'
  <2> SUFFICES ASSUME NEW j \in Clean' PROVE OnePlace(j)' /\ OneHolder(j)'
    BY DEF CleanInv
  <2>1. j \in Clean /\ j \notin again'
    BY <1>1 DEF Clean
  <2>2. OnePlace(j) /\ OneHolder(j) /\ j \in Jobs
    BY <2>1 DEF Inv, CleanInv, Clean
  <2>3. j \in new => /\ j \notin Queued \cup active \cup delayed /\ j \notin closed
                     /\ ~InHand(j)
    <3>1. ASSUME j \in new, InHand(j) PROVE FALSE
      <4>1. PICK g \in Copies : g.job = j
        BY <3>1 DEF InHand, Orphans, Has, Copies, ToSet
      <4>2. batch[j] # NoBatch
        BY <4>1 DEF Inv, Stored
      <4> QED
        BY <1>8, <2>1, <3>1, <4>2
    <3> QED
      BY <1>1, <1>4, <2>1, <2>2, <3>1 DEF OnePlace
  <2>4. OnePlace(j)'
    <3>1. ListedOnce(j)'
      BY <1>3, <2>2, <2>3 DEF OnePlace
    <3>2. j \in Queued' \cup active' \cup delayed' => Present(vault', j) /\ j \notin closed'
      BY <1>1, <1>3, <2>2, <2>3 DEF OnePlace
    <3>3. (j \in active' => j \notin Queued' \cup delayed') /\ (j \in delayed' => j \notin Queued')
      BY <1>3, <2>2, <2>3 DEF OnePlace
    <3> QED
      BY <3>1, <3>2, <3>3 DEF OnePlace
  <2>5. OneHolder(j)'
    <3>1. InHand(j) => j \notin Queued' \cup delayed' \cup expired'
      BY <1>3, <2>2, <2>3 DEF OneHolder
    <3>2. j \in Orphans \/ (\E s \in Runs : j \in timed[s]) => j \in active'
      BY <1>3, <2>2 DEF OneHolder
    <3> QED
      BY <1>1, <2>2, <3>1, <3>2, HolderKept DEF runVars
  <2> QED
    BY <2>4, <2>5
<1>14. Tally'
    BY <1>1, TallyKept DEF Inv, runVars, Mine
<1>15. \A q \in Producers : \A b \in Batches \ shared' : Owns(q, b)' /\ q # p => b # d
    BY <1>1, <1>6 DEF Owns
<1>16. \A q \in Producers \ {p} : \A b : Owns(q, b)' <=> Owns(q, b)
    BY <1>6 DEF Owns
<1>17. \A b \in Batches \ {d} : Owns(p, b)' => FALSE
    BY DEF Owns, d
<1>18. \A q \in Producers, o \in Producers : \A b \in Batches \ shared' :
           Owns(q, b)' /\ Owns(o, b)' => q = o
  <2> SUFFICES ASSUME NEW q \in Producers, NEW o \in Producers, NEW b \in Batches \ shared',
                      Owns(q, b)', Owns(o, b)'
               PROVE  q = o
    OBVIOUS
  <2>1. b \notin shared
    BY <1>1
  <2>2. CASE b = d
    BY <1>15, <2>2
  <2>3. CASE b # d
    <3>1. q # p /\ o # p
      BY <1>17, <2>3
    <3> QED
      BY <1>16, <2>1, <3>1 DEF Inv, CountInv
  <2> QED
    BY <2>2, <2>3
<1>19. ASSUME NEW q \in Producers, NEW b \in Batches, Owns(q, b)', Plain(b)'
       PROVE  CountOk(q, b)'
  <2>1. CASE b # d
    <3>1. q # p /\ Owns(q, b) /\ Plain(b)
      BY <1>1, <1>7, <1>16, <1>17, <1>19, <2>1 DEF Plain
    <3>2. CountOk(q, b) /\ call'[q] = call[q] /\ count'[b] = count[b]
      BY <1>6, <2>1, <3>1 DEF Inv, CountInv
    <3>3. Of(b)' = Of(b)
      <4>1. ASSUME NEW j \in new, j \in Of(b) PROVE FALSE
        <5>1. batch[j] = b /\ j \in Jobs /\ b # NoBatch
          BY <4>1, BatchAssumption DEF Of
        <5>2. j \in again' /\ j \in Sent(b)
          BY <1>8, <5>1 DEF Inv, Stored
        <5> QED
          BY <1>7, <1>19, <2>1, <5>2 DEF Plain
      <4> QED
        BY <1>6, <2>1, <4>1 DEF Of
    <3> QED
      BY <1>1, <2>1, <3>2, <3>3, CountOkKept DEF runVars, Batchid
  <2>2. CASE b = d
    <3>1. q = p /\ Sent(d) = {}
      <4>1. q = p
        BY <1>15, <1>19, <2>2 DEF Plain
      <4>2. \A o \in Producers : BatchOf[o] = d => call[o] \notin {"empty", "done"}
        BY <1>1, <1>2, <1>19, <2>2 DEF Plain
      <4> QED
        BY <4>1, <4>2 DEF Sent
    <3>2. Of(d)' = new
      <4>1. Of(d) = {}
        BY <1>2, <3>1 DEF Of, Inv, Stored
      <4> QED
        BY <1>3, <1>6, <4>1 DEF Of
    <3>3. new \cap counted = {}
      <4>1. new \cap again' = {}
        BY <1>3, <1>7, <1>19, <2>2 DEF Plain
      <4>2. counted \subseteq closed
        BY DEF Inv, Tally
      <4> QED
        BY <1>1, <4>1, <4>2
    <3>4. count'[d] = Len(Items[p]) - Cardinality(Of(d)' \cap counted')
      <4>1. Of(d)' \cap counted' = {}
        BY <1>1, <3>2, <3>3
      <4>2. Cardinality(Of(d)' \cap counted') = 0
        BY <4>1, FS_EmptySet
      <4> QED
        BY <1>2, <1>6, <4>1, <4>2
    <3>5. call'[p] = "empty" => new = {}
      BY <1>1 DEF Inv, CountTypeOK
    <3>6. new # {} => count'[d] # 0
      BY <1>2, <1>3, <1>6, LenProperties DEF ToSet
    <3>7. \A r \in Runs : at'[r] = "zero" /\ Batchid(r)' = d => FALSE
      <4> SUFFICES ASSUME NEW r \in Runs, at[r] = "zero", Batchid(r) = d PROVE FALSE
        BY <1>1 DEF runVars, Batchid
      <4>1. Mine(r) \in Sent(d)
        BY MineKnown DEF Inv, Settling
      <4> QED
        BY <3>1, <4>1
    <3>8. call'[p] = "done" => new # {}
      BY <1>5
    <3> QED
      BY <2>2, <3>1, <3>2, <3>4, <3>5, <3>6, <3>7, <3>8 DEF CountOk
  <2> QED
    BY <2>1, <2>2
<1>20. CountInv'
    BY <1>18, <1>19 DEF CountInv
<1> QED
    BY <1>9, <1>10, <1>12, <1>13, <1>14, <1>20 DEF Inv
----------------------------------------------------------------------------
\* A list cut in two.
LEMMA SplitType ==
    ASSUME NEW S, NEW s \in Seq(S), NEW n \in 0 .. Len(s)
    PROVE  /\ SubSeq(s, 1, n) \in Seq(S) /\ SubSeq(s, n + 1, Len(s)) \in Seq(S)
           /\ ToSet(s) = ToSet(SubSeq(s, 1, n)) \cup ToSet(SubSeq(s, n + 1, Len(s)))
           /\ \A j : OnceIn(s, j) =>
                  /\ OnceIn(SubSeq(s, 1, n), j) /\ OnceIn(SubSeq(s, n + 1, Len(s)), j)
                  /\ j \notin ToSet(SubSeq(s, 1, n)) \/ j \notin ToSet(SubSeq(s, n + 1, Len(s)))
<1> DEFINE h == SubSeq(s, 1, n)
           t == SubSeq(s, n + 1, Len(s))
<1>1. DOMAIN s = 1 .. Len(s) /\ Len(s) \in Nat /\ n \in Nat /\ n <= Len(s)
    BY LenProperties
<1>2. /\ h \in Seq(S) /\ Len(h) = n /\ \A i \in 1 .. n : h[i] = s[i]
  <2>1. \A i \in 1 .. n : s[i] \in S
    BY <1>1, ElementOfSeq
  <2>2. /\ h \in Seq(S) /\ Len(h) = IF 1 <= n THEN n - 1 + 1 ELSE 0
        /\ \A i \in 1 .. n - 1 + 1 : h[i] = s[1 + i - 1]
    BY <1>1, <2>1, SubSeqProperties
  <2> QED
    BY <1>1, <2>2
<1>3. /\ t \in Seq(S) /\ Len(t) = Len(s) - n /\ \A i \in 1 .. Len(s) - n : t[i] = s[n + i]
  <2>1. \A i \in n + 1 .. Len(s) : s[i] \in S
    BY <1>1, ElementOfSeq
  <2>2. /\ t \in Seq(S)
        /\ Len(t) = IF n + 1 <= Len(s) THEN Len(s) - (n + 1) + 1 ELSE 0
        /\ \A i \in 1 .. Len(s) - (n + 1) + 1 : t[i] = s[(n + 1) + i - 1]
    BY <1>1, <2>1, SubSeqProperties
  <2> HIDE DEF t
  <2>3. Len(s) - (n + 1) + 1 = Len(s) - n /\ \A i \in 1 .. Len(s) - n : (n + 1) + i - 1 = n + i
    BY <1>1
  <2>4. n + 1 <= Len(s) \/ Len(s) - n = 0
    <3>1. \A k \in Nat : n \in Nat /\ n <= k => n + 1 <= k \/ k - n = 0
      OBVIOUS
    <3> QED
      BY <1>1, <3>1
  <2>5. Len(t) = Len(s) - n
    BY <2>2, <2>3, <2>4
  <2> QED
    BY <2>2, <2>3, <2>5
<1>4. DOMAIN h = 1 .. n /\ DOMAIN t = 1 .. Len(s) - n
    BY <1>2, <1>3, LenProperties
<1> HIDE DEF h, t
<1>5. ToSet(h) \subseteq ToSet(s) /\ ToSet(t) \subseteq ToSet(s)
  <2>1. \A i \in DOMAIN h : i \in DOMAIN s /\ h[i] = s[i]
    BY <1>1, <1>2, <1>4
  <2>2. \A i \in DOMAIN t : n + i \in DOMAIN s /\ t[i] = s[n + i]
    BY <1>1, <1>3, <1>4
  <2> QED
    BY <2>1, <2>2 DEF ToSet
<1>6. ASSUME NEW i \in DOMAIN s PROVE s[i] \in ToSet(h) \cup ToSet(t)
  <2>1. CASE i <= n
    BY <1>1, <1>2, <1>4, <2>1 DEF ToSet
  <2>2. CASE ~(i <= n)
    <3>1. i - n \in DOMAIN t /\ n + (i - n) = i
      BY <1>1, <1>4, <2>2
    <3>2. t[i - n] = s[i]
      BY <1>3, <1>4, <3>1
    <3> QED
      BY <3>1, <3>2 DEF ToSet
  <2> QED
    BY <2>1, <2>2
<1>7. ASSUME NEW j, OnceIn(s, j)
      PROVE  OnceIn(h, j) /\ OnceIn(t, j) /\ (j \notin ToSet(h) \/ j \notin ToSet(t))
  <2>1. \A i \in DOMAIN h : i \in DOMAIN s /\ h[i] = s[i] /\ i \in Nat /\ i <= n
    BY <1>1, <1>2, <1>4
  <2>2. \A i \in DOMAIN t : n + i \in DOMAIN s /\ t[i] = s[n + i] /\ i \in Nat /\ i > 0
    BY <1>1, <1>3, <1>4
  <2>3. OnceIn(h, j)
    BY <1>7, <2>1 DEF OnceIn
  <2>4. OnceIn(t, j)
    <3> SUFFICES ASSUME NEW a \in DOMAIN t, NEW b \in DOMAIN t, t[a] = j, t[b] = j
                 PROVE  a = b
      BY DEF OnceIn
    <3>1. n + a = n + b
      BY <1>7, <2>2 DEF OnceIn
    <3> QED
      BY <1>1, <2>2, <3>1
  <2>5. ASSUME j \in ToSet(h), j \in ToSet(t) PROVE FALSE
    <3>1. PICK a \in DOMAIN h, b \in DOMAIN t : h[a] = j /\ t[b] = j
      BY <2>5 DEF ToSet
    <3>2. a = n + b
      BY <1>7, <2>1, <2>2, <3>1 DEF OnceIn
    <3> QED
      BY <1>1, <2>1, <2>2, <3>2
  <2> QED
    BY <2>3, <2>4, <2>5
<1>8. ToSet(s) = ToSet(h) \cup ToSet(t)
    BY <1>5, <1>6 DEF ToSet
<1> QED
    BY <1>2, <1>3, <1>7, <1>8 DEF h, t

\* The script looks no further than the end of the list.
LEMMA HeadType ==
    ASSUME StoreTypeOK, NEW P \in SUBSET prioritized, Popped(P)
    PROVE  /\ HeadLength(P) \in 0 .. Len(waiting)
           /\ HeadLength(P) = Len(waiting)
              \/ Cardinality({j \in P : Present(vault, j)}) + HeadLength(P) = BatchSize
<1> DEFINE found == {j \in P : Present(vault, j)}
<1>1. found \in SUBSET Jobs
    BY DEF StoreTypeOK
<1>2. Cardinality(found) \in Nat
    BY <1>1, JobsAssumption, FS_Subset, FS_CardinalityType
<1>3. Cardinality(found) <= BatchSize
    BY DEF Popped
<1>4. Len(waiting) \in Nat /\ BatchSize \in Nat
    BY BatchAssumption, LenProperties DEF StoreTypeOK
<1>5. HeadLength(P) = IF BatchSize - Cardinality(found) < Len(waiting)
                      THEN BatchSize - Cardinality(found) ELSE Len(waiting)
    BY DEF HeadLength
<1> HIDE DEF found
<1>6. HeadLength(P) \in 0 .. Len(waiting)
      /\ (HeadLength(P) = Len(waiting) \/ Cardinality(found) + HeadLength(P) = BatchSize)
    BY <1>2, <1>3, <1>4, <1>5
<1> QED
    BY <1>6 DEF found

\* What the batch dequeue takes, and what it leaves behind.
LEMMA BatchDequeueKeeps ==
    ASSUME StoreTypeOK, NEW P \in SUBSET prioritized, NEW ids, BatchDequeueScript(P, ids)
    PROVE  /\ StoreTypeOK' /\ ids \in Seq(Jobs) /\ ToSet(ids) \subseteq Queued
           /\ \A j \in ToSet(ids) : Present(vault, j) /\ vault'[j] \in JobRec
           /\ \A j \in Jobs : Present(vault', j) <=> Present(vault, j)
           /\ Queued' \subseteq Queued
           /\ \A j \in Jobs : ListedOnce(j) =>
                  ListedOnce(j)' /\ OnceIn(ids, j) /\ (j \in ToSet(ids) => j \notin Queued')
           /\ active' = active \cup ToSet(ids) /\ expired' = expired \ ToSet(ids)
           /\ UNCHANGED <<delayed, due, completed, failed, dlq>>
<1> DEFINE n == HeadLength(P)
           h == SubSeq(waiting, 1, n)
           t == SubSeq(waiting, n + 1, Len(waiting))
           found == {j \in P : Present(vault, j)}
           kept == {i \in DOMAIN h : Present(vault, h[i])}
           left == {i \in DOMAIN h : ~Present(vault, h[i])}
<1>1. /\ Popped(P) /\ ids \in Batch(P) /\ waiting' \in LeftWaiting(P)
      /\ prioritized' = prioritized \ P
      /\ vault' = [j \in Jobs |-> IF j \in ToSet(ids) THEN PickedUp(vault[j]) ELSE vault[j]]
      /\ active' = active \cup ToSet(ids) /\ expired' = expired \ ToSet(ids)
      /\ UNCHANGED <<delayed, due, completed, failed, dlq>>
    BY DEF BatchDequeueScript
<1>2. waiting \in Seq(Jobs) /\ n \in 0 .. Len(waiting)
  <2>1. n \in 0 .. Len(waiting)
    BY <1>1, HeadType
  <2> QED
    BY <2>1 DEF StoreTypeOK
<1>3. PICK q \in Orders(found), w \in PartAt(h, kept) : ids = q \o w
  <2>1. WithRecord(HeadIds(P)) = PartAt(h, kept)
    BY DEF WithRecord, HeadIds
  <2>2. PICK q \in Orders(found), w \in WithRecord(HeadIds(P)) : ids = q \o w
    BY <1>1 DEF Batch
  <2> QED
    BY <2>1, <2>2
<1>4. PICK g \in PartAt(h, left) : waiting' = g \o t
    BY <1>1 DEF LeftWaiting, Ghosts, HeadIds
<1> HIDE DEF n
<1>5. /\ h \in Seq(Jobs) /\ t \in Seq(Jobs) /\ ToSet(waiting) = ToSet(h) \cup ToSet(t)
      /\ \A j : OnceIn(waiting, j) =>
             /\ OnceIn(h, j) /\ OnceIn(t, j)
             /\ j \notin ToSet(h) \/ j \notin ToSet(t)
    BY <1>2, SplitType
<1> HIDE DEF h, t
<1>6. found \in SUBSET Jobs /\ IsFiniteSet(found)
  <2>1. found \in SUBSET Jobs
    BY DEF StoreTypeOK
  <2> QED
    BY <2>1, JobsAssumption, FS_Subset
<1>7. q \in Seq(Jobs) /\ ToSet(q) = found /\ \A j : OnceIn(q, j)
  <2>1. q \in Seq(found) /\ ToSet(q) = found /\ \A j : OnceIn(q, j)
    BY <1>6, OrdersType, OrdersOnce
  <2> QED
    BY <1>6, <2>1, SeqMonotonic
<1>8. /\ w \in Seq(Jobs) /\ ToSet(w) = {h[i] : i \in kept}
      /\ \A j : OnceIn(h, j) => OnceIn(w, j)
  <2>1. kept \in SUBSET DOMAIN h
    OBVIOUS
  <2> HIDE DEF kept
  <2>2. /\ w \in Seq(Jobs) /\ ToSet(w) = {h[i] : i \in kept}
        /\ \A j : (\A a, b \in kept : h[a] = j /\ h[b] = j => a = b) => OnceIn(w, j)
    BY <1>5, <2>1, PartAtType
  <2> QED
    BY <2>1, <2>2 DEF OnceIn
<1>9. /\ g \in Seq(Jobs) /\ ToSet(g) = {h[i] : i \in left}
      /\ \A j : OnceIn(h, j) => OnceIn(g, j)
  <2>1. left \in SUBSET DOMAIN h
    OBVIOUS
  <2> HIDE DEF left
  <2>2. /\ g \in Seq(Jobs) /\ ToSet(g) = {h[i] : i \in left}
        /\ \A j : (\A a, b \in left : h[a] = j /\ h[b] = j => a = b) => OnceIn(g, j)
    BY <1>5, <2>1, PartAtType
  <2> QED
    BY <2>1, <2>2 DEF OnceIn
<1>10. /\ ids \in Seq(Jobs) /\ ToSet(ids) = found \cup ToSet(w)
       /\ waiting' \in Seq(Jobs) /\ ToSet(waiting') = ToSet(g) \cup ToSet(t)
    BY <1>3, <1>4, <1>5, <1>7, <1>8, <1>9, ToSetConcat
<1>11. /\ ToSet(w) \subseteq ToSet(h) /\ \A j \in ToSet(w) : Present(vault, j)
       /\ ToSet(g) \subseteq ToSet(h) /\ \A j \in ToSet(g) : ~Present(vault, j)
    BY <1>8, <1>9 DEF ToSet
<1>12. /\ ToSet(ids) \subseteq Queued /\ Queued' \subseteq Queued
       /\ \A j \in ToSet(ids) : j \in Jobs /\ Present(vault, j)
  <2>1. found \subseteq prioritized /\ \A j \in found : Present(vault, j)
    OBVIOUS
  <2>2. ToSet(ids) \subseteq Jobs
    BY <1>10, ElementOfSeq, LenProperties DEF ToSet
  <2> HIDE DEF found, kept, left
  <2>3. \A j \in ToSet(ids) : j \in found \/ j \in ToSet(w)
    BY <1>10
  <2>4. ToSet(ids) \subseteq Queued
    BY <1>5, <1>11, <2>1, <2>3 DEF Queued
  <2>5. Queued' \subseteq Queued
    BY <1>1, <1>5, <1>10, <1>11 DEF Queued
  <2> QED
    BY <1>11, <2>1, <2>2, <2>3, <2>4, <2>5
<1>13. ASSUME NEW j \in ToSet(ids)
       PROVE  vault'[j] \in JobRec /\ vault'[j] # Absent
  <2>1. vault[j] \in JobRec /\ j \in Jobs
    BY <1>12 DEF StoreTypeOK, Present
  <2>2. PickedUp(vault[j]) \in JobRec
    BY <2>1, PickedUpType
  <2>3. vault'[j] = PickedUp(vault[j])
    BY <1>1, <2>1
  <2> QED
    BY <2>2, <2>3 DEF JobRec, Statuses, Absent
<1>14. \A j \in Jobs \ ToSet(ids) : vault'[j] = vault[j]
    BY <1>1
<1>15. StoreTypeOK'
  <2>1. vault' \in [Jobs -> JobRec \cup {Absent}]
    BY <1>1, <1>13, <1>14 DEF StoreTypeOK
  <2> QED
    BY <1>1, <1>10, <1>12, <2>1 DEF StoreTypeOK
<1>16. \A j \in Jobs : Present(vault', j) <=> Present(vault, j)
    BY <1>12, <1>13, <1>14 DEF Present
<1>17. ASSUME NEW j \in Jobs, ListedOnce(j)
       PROVE  ListedOnce(j)' /\ OnceIn(ids, j) /\ (j \in ToSet(ids) => j \notin Queued')
  <2>1. OnceIn(waiting, j) /\ (j \in ToSet(waiting) => j \notin prioritized)
    BY <1>17 DEF ListedOnce
  <2>2. j \notin ToSet(h) \/ j \notin ToSet(t)
    BY <1>5, <2>1
  <2>3. OnceIn(waiting', j)
    <3>1. OnceIn(g, j) /\ OnceIn(t, j) /\ (j \notin ToSet(g) \/ j \notin ToSet(t))
      BY <1>5, <1>9, <1>11, <2>1, <2>2
    <3> QED
      BY <1>4, <1>5, <1>9, <3>1, OnceConcat
  <2>4. OnceIn(ids, j)
    <3>1. OnceIn(q, j) /\ OnceIn(w, j)
      BY <1>5, <1>7, <1>8, <2>1
    <3>2. j \notin ToSet(q) \/ j \notin ToSet(w)
      BY <1>5, <1>7, <1>11, <2>1
    <3> QED
      BY <1>3, <1>7, <1>8, <3>1, <3>2, OnceConcat
  <2>5. j \in ToSet(waiting') => j \notin prioritized'
    BY <1>1, <1>5, <1>10, <1>11, <2>1
  <2>6. j \in ToSet(ids) => j \notin Queued'
    BY <1>1, <1>5, <1>10, <1>11, <2>1, <2>2 DEF Queued
  <2> QED
    BY <2>3, <2>4, <2>5, <2>6 DEF ListedOnce
<1> QED
    BY <1>1, <1>10, <1>12, <1>13, <1>15, <1>16, <1>17

\* What a run has after a fetch that returned ids.
Fetched(r, ids) ==
    IF ids = <<>> THEN UNCHANGED runVars
    ELSE /\ at' = [at EXCEPT ![r] = "handling"]
         /\ taken' = [taken EXCEPT ![r] =
                [i \in DOMAIN ids |->
                    [job |-> ids[i], rec |-> Counted(vault'[ids[i]]), batch |-> batch[ids[i]]]]]
         /\ timed' = [timed EXCEPT ![r] = ToSet(ids)]
         /\ UNCHANGED <<verdict, turn, stray>>

LEMMA FetchStep ==
    ASSUME Inv, NEW r \in Runs, BatchFetch(r)
    PROVE  Inv'
<1>1. at[r] = "idle" /\ taken[r] = <<>> /\ turn[r] = 0 /\ Has(r) = {} /\ timed[r] = {}
  <2>1. at[r] = "idle" /\ taken[r] = <<>> /\ turn[r] = 0
    BY DEF BatchFetch, Inv, RunFits
  <2> QED
    BY <2>1 DEF Inv, RunFits, Has
<1>0. PICK P \in SUBSET prioritized :
           \E ids \in Batch(P) : BatchDequeueScript(P, ids) /\ Fetched(r, ids)
    BY DEF BatchFetch, Fetched
<1>2. PICK ids \in Batch(P) : BatchDequeueScript(P, ids) /\ Fetched(r, ids)
    BY <1>0
<1>3. UNCHANGED <<call, keyed, count, batch, faults, history>>
    BY DEF BatchFetch
<1>4. /\ StoreTypeOK' /\ ids \in Seq(Jobs) /\ ToSet(ids) \subseteq Queued
      /\ \A j \in ToSet(ids) : Present(vault, j) /\ vault'[j] \in JobRec
      /\ \A j \in Jobs : Present(vault', j) <=> Present(vault, j)
      /\ Queued' \subseteq Queued
      /\ \A j \in Jobs : ListedOnce(j) =>
             ListedOnce(j)' /\ OnceIn(ids, j) /\ (j \in ToSet(ids) => j \notin Queued')
      /\ active' = active \cup ToSet(ids) /\ expired' = expired \ ToSet(ids)
      /\ UNCHANGED <<delayed, due, completed, failed, dlq>>
    BY <1>2, BatchDequeueKeeps DEF Inv
<1>5. /\ DOMAIN ids = 1 .. Len(ids) /\ Len(ids) \in Nat
      /\ \A i \in DOMAIN ids : ids[i] \in Jobs /\ ids[i] \in ToSet(ids)
    BY <1>4, LenProperties, ElementOfSeq DEF ToSet
<1> DEFINE copies == [i \in DOMAIN ids |->
                         [job |-> ids[i], rec |-> Counted(vault'[ids[i]]), batch |-> batch[ids[i]]]]
<1>6. ASSUME NEW i \in DOMAIN ids
      PROVE  /\ copies[i] \in Copy /\ copies[i].job = ids[i]
             /\ copies[i].batch = batch[ids[i]] /\ batch[ids[i]] # NoBatch
             /\ ids[i] \in Sent(batch[ids[i]])
  <2>1. vault'[ids[i]] \in JobRec /\ Present(vault, ids[i]) /\ ids[i] \in Jobs
    BY <1>4, <1>5
  <2>2. Counted(vault'[ids[i]]) \in JobRec
    BY <2>1 DEF Counted, JobRec
  <2>3. batch[ids[i]] # NoBatch /\ ids[i] \in Sent(batch[ids[i]])
    BY <2>1 DEF Inv, Stored
  <2>4. batch[ids[i]] \in Batches
    BY <2>1, <2>3 DEF Inv, CountTypeOK
  <2> QED
    BY <2>1, <2>2, <2>3, <2>4 DEF Copy
<1>7. copies \in Seq(Copy) /\ DOMAIN copies = DOMAIN ids
  <2>1. copies \in [1 .. Len(ids) -> Copy]
    BY <1>5, <1>6
  <2> QED
    BY <1>5, <2>1
<1> HIDE DEF copies
<1>8. \/ /\ UNCHANGED runVars /\ ids = <<>>
      \/ /\ ids # <<>> /\ copies # <<>>
         /\ at' = [at EXCEPT ![r] = "handling"] /\ taken' = [taken EXCEPT ![r] = copies]
         /\ timed' = [timed EXCEPT ![r] = ToSet(ids)]
         /\ UNCHANGED <<verdict, turn, stray>>
  <2>1. CASE ids = <<>>
    BY <1>2, <2>1 DEF Fetched
  <2>2. CASE ids # <<>>
    <3>1. copies # <<>>
      <4>1. Len(ids) # 0
        BY <1>4, <2>2, EmptySeq
      <4>2. 1 \in DOMAIN copies
        BY <1>5, <1>7, <4>1
      <4> QED
        BY <4>2
    <3> QED
      BY <1>2, <2>2, <3>1 DEF copies, Fetched
  <2> QED
    BY <2>1, <2>2
<1>9. /\ \A s \in Runs \ {r} : /\ at'[s] = at[s] /\ taken'[s] = taken[s]
                               /\ turn'[s] = turn[s] /\ timed'[s] = timed[s]
      /\ turn'[r] = 0 /\ stray' = stray
      /\ at'[r] \in {"idle", "handling"} /\ (at'[r] = "idle" <=> taken'[r] = <<>>)
      /\ taken'[r] \in Seq(Copy)
      /\ DOMAIN taken'[r] = DOMAIN ids
      /\ \A i \in DOMAIN ids : taken'[r][i] = copies[i]
      /\ timed'[r] = ToSet(ids)
  <2>1. CASE UNCHANGED runVars /\ ids = <<>>
    <3>1. DOMAIN ids = {} /\ ToSet(ids) = {}
      BY <2>1 DEF ToSet
    <3> QED
      BY <1>1, <1>7, <2>1, <3>1 DEF runVars, Inv, RunTypeOK
  <2>2. CASE ~(UNCHANGED runVars /\ ids = <<>>)
    BY <1>1, <1>7, <1>8, <2>2 DEF Inv, RunTypeOK
  <2> QED
    BY <2>1, <2>2
<1>10. RunTypeOK'
  <2>1. /\ at' \in [Runs -> Ats] /\ verdict' \in [Runs -> {"completed", "dead"}]
        /\ taken' \in [Runs -> Seq(Copy)] /\ turn' \in [Runs -> Nat]
        /\ timed' \in [Runs -> SUBSET Jobs] /\ stray' \subseteq Copy
    <3>1. ToSet(ids) \in SUBSET Jobs
      BY <1>4 DEF Inv, StoreTypeOK, Queued, ToSet
    <3> QED
      BY <1>7, <1>8, <3>1 DEF Inv, RunTypeOK, runVars, Ats
  <2>2. \A s \in Runs : at'[s] \notin {"idle", "handling"} => turn'[s] \in DOMAIN taken'[s]
    BY <1>9 DEF Inv, RunTypeOK
  <2> QED
    BY <2>1, <2>2 DEF RunTypeOK
<1>11. CountTypeOK' /\ HistoryTypeOK'
    BY <1>3 DEF Inv, CountTypeOK, HistoryTypeOK, history
<1>12. \A s \in Runs : RunFits(s)'
  <2>1. \A s \in Runs \ {r} : RunFits(s)'
    BY <1>3, <1>9 DEF Inv, RunFits, Mine, history
  <2>2. ASSUME NEW j \in timed'[r]
        PROVE  \E i \in DOMAIN taken'[r] : i > turn'[r] /\ taken'[r][i].job = j
    <3>1. PICK i \in DOMAIN ids : ids[i] = j
      BY <1>9, <2>2 DEF ToSet
    <3>2. i > 0 /\ taken'[r][i].job = j
      BY <1>5, <1>6, <1>9, <3>1
    <3> QED
      BY <1>9, <3>2
  <2>3. RunFits(r)'
    BY <1>9, <2>2 DEF RunFits
  <2> QED
    BY <2>1, <2>3
<1>13. Copies' \subseteq Copies \cup {copies[i] : i \in DOMAIN ids}
  <2> SUFFICES ASSUME NEW h \in Copies' PROVE h \in Copies \/ \E i \in DOMAIN ids : h = copies[i]
    OBVIOUS
  <2>1. h \in stray' \/ \E s \in Runs : h \in ToSet(taken'[s])
    BY DEF Copies
  <2> QED
    BY <1>9, <2>1 DEF Copies, ToSet
<1>14. Stored'
  <2>1. \A b : Sent(b)' = Sent(b)
    BY <1>3 DEF Sent
  <2>2. ASSUME NEW h \in Copies'
        PROVE  /\ batch[h.job] # NoBatch /\ h.job \in Sent(h.batch)
               /\ h.job \notin again => h.batch = batch[h.job]
    BY <1>6, <1>13 DEF Inv, Stored
  <2> QED
    BY <1>3, <1>4, <2>1, <2>2 DEF Inv, Stored, history
<1>15. Clean' = Clean /\ UNCHANGED <<closed, relisted, again, lapsed>>
    BY <1>3 DEF Clean, history
<1>16. ASSUME NEW j \in Clean
       PROVE  /\ OnePlace(j) /\ OneHolder(j) /\ j \in Jobs
              /\ ListedOnce(j)' /\ OnceIn(ids, j)
              /\ j \in ToSet(ids) => /\ j \in Queued /\ j \notin Queued' /\ Present(vault, j)
                                     /\ j \notin closed /\ ~InHand(j)
  <2>1. OnePlace(j) /\ OneHolder(j) /\ j \in Jobs
    BY DEF Inv, CleanInv, Clean
  <2> QED
    BY <1>4, <2>1 DEF OnePlace, OneHolder
<1>17. ASSUME NEW j \in Clean PROVE OnePlace(j)' /\ OneHolder(j)'
  <2>1. OnePlace(j)'
    <3>1. j \in Queued' \cup active' \cup delayed' => Present(vault', j) /\ j \notin closed'
      BY <1>4, <1>15, <1>16 DEF OnePlace
    <3>2. (j \in active' => j \notin Queued' \cup delayed') /\ (j \in delayed' => j \notin Queued')
      BY <1>4, <1>16 DEF OnePlace
    <3> QED
      BY <1>16, <3>1, <3>2 DEF OnePlace
  <2>2. /\ \A s \in Runs \ {r} : Has(s)' = Has(s)
        /\ Has(r)' = ToSet(ids) /\ Orphans' = Orphans
    <3>1. Has(r)' = ToSet(ids)
      BY <1>6, <1>9 DEF Has, ToSet
    <3> QED
      BY <1>9, <3>1 DEF Has, Orphans
  <2>3. InHand(j)' <=> InHand(j) \/ j \in ToSet(ids)
    BY <1>1, <2>2 DEF InHand
  <2>4. InHand(j)' => j \notin Queued' \cup delayed' \cup expired'
    BY <1>4, <1>16, <2>3 DEF OneHolder, OnePlace
  <2>5. \A s \in Runs : j \in timed'[s] => j \in active'
    BY <1>4, <1>9, <1>16 DEF OneHolder
  <2>6. j \in Orphans' => j \in active' /\ \A s \in Runs : j \notin Has(s)'
    BY <1>4, <1>16, <2>2 DEF OneHolder, InHand
  <2>7. ASSUME NEW s \in Runs, NEW u \in Runs, NEW i \in DOMAIN taken'[s], NEW k \in DOMAIN taken'[u],
               taken'[s][i].job = j, taken'[u][k].job = j
        PROVE  s = u /\ i = k
    <3>1. ASSUME NEW v \in Runs \ {r}, NEW n \in DOMAIN taken'[v], taken'[v][n].job = j
          PROVE  InHand(j)
      BY <1>9, <3>1 DEF InHand, Has
    <3>2. ASSUME NEW n \in DOMAIN taken'[r], taken'[r][n].job = j
          PROVE  n \in DOMAIN ids /\ ids[n] = j /\ j \in ToSet(ids)
      BY <1>5, <1>6, <1>9, <3>2
    <3>3. CASE s = r /\ u = r
      BY <1>16, <2>7, <3>2, <3>3 DEF OnceIn
    <3>4. CASE s # r /\ u # r
      BY <1>9, <1>16, <2>7, <3>4 DEF OneHolder
    <3>5. CASE (s = r /\ u # r) \/ (s # r /\ u = r)
      BY <1>16, <2>7, <3>1, <3>2, <3>5
    <3> QED
      BY <3>3, <3>4, <3>5
  <2>8. OneHolder(j)'
    BY <2>4, <2>5, <2>6, <2>7 DEF OneHolder
  <2> QED
    BY <2>1, <2>8
<1>18. CleanInv'
    BY <1>15, <1>17 DEF CleanInv
<1>19. VerdictInv'
  <2>1. OneVerdict'
    BY <1>4, <1>15 DEF Inv, VerdictInv, OneVerdict
  <2>2. ASSUME NEW j \in Clean \ relisted, NEW s \in Runs, NEW i \in DOMAIN taken'[s],
               taken'[s][i].job = j, Pending(s, i)'
        PROVE  j \notin closed
    <3>1. CASE s = r
      BY <1>5, <1>6, <1>9, <1>16, <2>2, <3>1
    <3>2. CASE s # r
      BY <1>9, <2>2, <3>2 DEF Inv, VerdictInv, Pending
    <3> QED
      BY <3>1, <3>2
  <2>3. ASSUME NEW j \in Clean \ relisted, NEW s \in Runs, at'[s] = "dlq", Mine(s)' = j
        PROVE  j \notin completed
    BY <1>9, <2>3 DEF Inv, VerdictInv, Mine
  <2> QED
    BY <1>4, <1>15, <2>1, <2>2, <2>3 DEF VerdictInv
<1>20. \A s \in Runs : at[s] \notin {"idle", "handling"} \/ at'[s] \notin {"idle", "handling"} =>
           at'[s] = at[s] /\ Mine(s)' = Mine(s) /\ Batchid(s)' = Batchid(s)
    BY <1>1, <1>9 DEF Mine, Batchid
<1>21. Tally'
    BY <1>3, <1>20, TallyKept DEF Inv, history
<1>22. CountInv'
    BY <1>3, <1>20, CountKept DEF Inv, history, Of
<1> QED
    BY <1>4, <1>10, <1>11, <1>12, <1>14, <1>18, <1>19, <1>21, <1>22 DEF Inv
----------------------------------------------------------------------------
(***************************************************************************)
(* The counter.  What is sent under a plain id is one bulk, so no more     *)
(* jobs can be counted than it has items, and only the last decrement      *)
(* finds the counter at one.                                               *)
(***************************************************************************)
LEMMA ToSetBound ==
    ASSUME NEW S, NEW s \in Seq(S)
    PROVE  IsFiniteSet(ToSet(s)) /\ Cardinality(ToSet(s)) <= Len(s)
<1>1. DOMAIN s = 1 .. Len(s) /\ Len(s) \in Nat
    BY LenProperties
<1>2. s \in Surjection(1 .. Len(s), ToSet(s))
    BY <1>1 DEF Surjection, ToSet
<1>3. IsFiniteSet(1 .. Len(s)) /\ Cardinality(1 .. Len(s)) = Len(s)
    BY <1>1, FS_Interval
<1> QED
    BY <1>2, <1>3, FS_Surjection

LEMMA OwnSent ==
    ASSUME CountInv, Stored, NEW p \in Producers, NEW b \in Batches \ shared, Owns(p, b)
    PROVE  /\ Of(b) \subseteq ToSet(Items[p]) /\ Sent(b) = ToSet(Items[p])
           /\ IsFiniteSet(Of(b)) /\ Cardinality(Of(b)) <= Len(Items[p])
           /\ Len(Items[p]) \in Nat
<1>1. \A o \in Producers : BatchOf[o] = b /\ call[o] \in {"empty", "done"} <=> o = p
    BY DEF CountInv, Owns
<1>2. Sent(b) = ToSet(Items[p])
    BY <1>1 DEF Sent
<1>3. b # NoBatch /\ Items[p] \in Seq(Jobs)
    BY BatchAssumption
<1>4. Of(b) \subseteq Sent(b)
    BY <1>3 DEF Of, Stored
<1>5. IsFiniteSet(ToSet(Items[p])) /\ Cardinality(ToSet(Items[p])) <= Len(Items[p])
      /\ Len(Items[p]) \in Nat
    BY <1>3, ToSetBound, LenProperties
<1>6. /\ IsFiniteSet(Of(b)) /\ Cardinality(Of(b)) <= Cardinality(ToSet(Items[p]))
      /\ Cardinality(Of(b)) \in Nat /\ Cardinality(ToSet(Items[p])) \in Nat
    BY <1>2, <1>4, <1>5, FS_Subset, FS_CardinalityType
<1> QED
    BY <1>2, <1>4, <1>5, <1>6

\* The two steps at the counter, but for what they do to it.
LEMMA AtCounter ==
    ASSUME Inv, NEW r \in Runs, Decrement(r) \/ DeleteCounter(r)
    PROVE  /\ StoreTypeOK' /\ RunTypeOK' /\ HistoryTypeOK' /\ faults' \in 0 .. MaxFaults
           /\ (\A s \in Runs : RunFits(s)') /\ Stored' /\ CleanInv' /\ VerdictInv'
           /\ \A s \in Runs \ {r} : /\ at'[s] = at[s] /\ Mine(s)' = Mine(s)
                                    /\ Batchid(s)' = Batchid(s)
           /\ at'[r] = "zero" => /\ Decrement(r) /\ Remaining(r, Batchid(r)) = 0
                                 /\ Batchid(r)' = Batchid(r)
           /\ Decrement(r) /\ Remaining(r, Batchid(r)) = 0 => at'[r] = "zero"
                                                               /\ Batchid(r)' = Batchid(r)
<1>1. Mine(r) \in Jobs /\ Mine(r) \in closed /\ Has(r) \subseteq Jobs
      /\ at[r] \in {"count", "zero"}
    BY CopyType DEF Inv, RunFits, Decrement, DeleteCounter
<1>2. /\ relisted' \subseteq relisted \cup Has(r)
      /\ faults' \in 0 .. MaxFaults
      /\ counted' \subseteq counted \cup {Mine(r)} /\ twice' \subseteq twice \cup {Mine(r)}
      /\ UNCHANGED <<storeVars, call, batch, closed, uncounted, shared, lapsed, again>>
  <2>1. CASE Decrement(r) /\ Remaining(r, Batchid(r)) = 0
    BY <2>1 DEF Decrement, Inv, CountTypeOK
  <2>2. CASE Emit(r)
    <3>1. relisted' \subseteq relisted \cup Has(r)
      BY <2>2 DEF Emit, Thrown
    <3>2. faults' \in 0 .. MaxFaults
      BY <2>2, BatchAssumption DEF Emit, Fault, Inv, CountTypeOK
    <3> QED
      BY <3>1, <3>2 DEF Decrement, DeleteCounter
  <2> QED
    BY <2>1, <2>2 DEF Decrement, DeleteCounter
<1>3. StoreTypeOK' /\ HistoryTypeOK'
    BY <1>1, <1>2 DEF Inv, StoreTypeOK, storeVars, HistoryTypeOK
<1>4. CASE MovesOn(r)
  <2>1. Moved(r) /\ at[r] # "idle"
    BY <1>4, RunMoves DEF Inv
  <2>2. /\ (\A s \in Runs : RunFits(s)') /\ CleanInv' /\ Stored' /\ VerdictInv' /\ RunTypeOK'
    BY <1>2, <2>1, MovedFits, MovedClean, MovedStored, MovedVerdict
       DEF Inv, storeVars, Moved
  <2>3. /\ \A s \in Runs \ {r} : /\ at'[s] = at[s] /\ Mine(s)' = Mine(s)
                                 /\ Batchid(s)' = Batchid(s)
        /\ at'[r] # "zero"
    BY <2>1 DEF Moved, Mine, Batchid
  <2>4. ~(Decrement(r) /\ Remaining(r, Batchid(r)) = 0)
    BY <2>3, <1>1 DEF Decrement, Inv, RunTypeOK
  <2> QED
    BY <1>2, <1>3, <2>2, <2>3, <2>4
<1>5. CASE Decrement(r) /\ Remaining(r, Batchid(r)) = 0
  <2>1. /\ at[r] = "count" /\ at' = [at EXCEPT ![r] = "zero"]
        /\ UNCHANGED <<verdict, taken, turn, timed, stray, faults, relisted>>
    BY <1>5 DEF Decrement
  <2>2. /\ at' \in [Runs -> Ats] /\ at'[r] = "zero" /\ \A s \in Runs : s # r => at'[s] = at[s]
        /\ \A s \in Runs : Mine(s)' = Mine(s) /\ Batchid(s)' = Batchid(s)
    BY <2>1 DEF Inv, RunTypeOK, Ats, Mine, Batchid
  <2>3. RunTypeOK'
    BY <2>1, <2>2 DEF Inv, RunTypeOK
  <2>4. \A s \in Runs : RunFits(s)'
    BY <1>2, <2>1, <2>2 DEF Inv, RunFits
  <2>5. Stored'
    BY <1>2, <2>1, StoredKept, CopiesSame DEF Inv, Stored, storeVars
  <2>6. CleanInv'
    <3> SUFFICES ASSUME NEW j \in Clean PROVE OnePlace(j)' /\ OneHolder(j)'
      BY <1>2 DEF CleanInv, Clean
    <3>1. OnePlace(j) /\ OneHolder(j)
      BY DEF Inv, CleanInv
    <3>2. Queued' = Queued
      BY <1>2 DEF Queued, storeVars
    <3>3. OnePlace(j)'
      BY <1>2, <3>1, <3>2 DEF OnePlace, ListedOnce, OnceIn, Present, storeVars
    <3>4. OneHolder(j)'
      BY <1>2, <2>1, <3>1, <3>2, HolderKept DEF OneHolder, storeVars
    <3> QED
      BY <3>3, <3>4
  <2>7. VerdictInv'
    <3>1. OneVerdict'
      BY <1>2, <2>1 DEF Inv, VerdictInv, OneVerdict, storeVars
    <3>2. \A s \in Runs : /\ \A i : Pending(s, i)' => Pending(s, i)
                          /\ at'[s] = "dlq" => at[s] = "dlq"
      BY <2>1, <2>2 DEF Pending
    <3>3. Clean' = Clean /\ UNCHANGED <<completed, closed>>
      BY <1>2 DEF Clean, storeVars
    <3> QED
      BY <2>1, <2>2, <3>1, <3>2, <3>3 DEF Inv, VerdictInv
  <2> QED
    BY <1>2, <1>3, <1>5, <2>2, <2>3, <2>4, <2>5, <2>6, <2>7
<1> QED
    BY <1>4, <1>5 DEF MovesOn

LEMMA DeleteStep ==
    ASSUME Inv, NEW r \in Runs, DeleteCounter(r)
    PROVE  Inv'
<1> DEFINE d == Batchid(r)
<1>1. /\ at[r] = "zero" /\ keyed' = keyed \ {d} /\ count' = [count EXCEPT ![d] = 0]
      /\ UNCHANGED <<storeVars, call, batch, closed, counted, twice, uncounted, shared,
                     lapsed, again>>
    BY DEF DeleteCounter, Deleted
<1>2. d \in Batches
    BY <1>1, CopyType DEF Inv
<1>3. d = Batchid(r)
    OBVIOUS
<1> HIDE DEF d
<1>4. /\ StoreTypeOK' /\ RunTypeOK' /\ HistoryTypeOK' /\ faults' \in 0 .. MaxFaults
      /\ (\A s \in Runs : RunFits(s)') /\ Stored' /\ CleanInv' /\ VerdictInv'
      /\ \A s \in Runs \ {r} : /\ at'[s] = at[s] /\ Mine(s)' = Mine(s)
                               /\ Batchid(s)' = Batchid(s)
      /\ at'[r] # "zero"
    BY <1>1, AtCounter DEF Decrement
<1>5. CountTypeOK'
    BY <1>1, <1>2, <1>4 DEF Inv, CountTypeOK
<1>6. Tally'
    BY <1>1, <1>4, TallyKept DEF Inv
<1>7. /\ \A b : Sent(b)' = Sent(b) /\ Of(b)' = Of(b)
      /\ \A o \in Producers : \A b : Owns(o, b)' <=> Owns(o, b)
    BY <1>1 DEF Sent, Owns, Of
<1>8. \A b : Plain(b)' <=> Plain(b)
    BY <1>1, <1>7 DEF Plain
<1>9. ASSUME NEW o \in Producers, NEW b \in Batches, Owns(o, b), Plain(b)
      PROVE  CountOk(o, b)'
  <2>1. CountOk(o, b)
    BY <1>9 DEF Inv, CountInv
  <2>2. CASE b # d
    <3>1. count'[b] = count[b] /\ (b \in keyed' => b \in keyed)
      BY <1>1, <2>2 DEF Inv, CountTypeOK
    <3> QED
      BY <1>1, <1>3, <1>4, <1>7, <2>1, <2>2, <3>1, CountOkKept
  <2>3. CASE b = d
    <3>1. count[d] = 0 /\ count'[d] = 0
      BY <1>1, <1>2, <1>3, <2>1, <2>3 DEF CountOk, Inv, CountTypeOK
    <3> QED
      BY <1>1, <1>7, <2>1, <2>3, <3>1 DEF CountOk
  <2> QED
    BY <2>2, <2>3
<1>10. CountInv'
    BY <1>1, <1>7, <1>8, <1>9 DEF Inv, CountInv
<1> QED
    BY <1>4, <1>5, <1>6, <1>10 DEF Inv

LEMMA DecrementStep ==
    ASSUME Inv, NEW r \in Runs, Decrement(r)
    PROVE  Inv'
<1> PICK d : d = Batchid(r)
    OBVIOUS
<1> PICK m : m = Mine(r)
    OBVIOUS
<1>1. /\ at[r] = "count" /\ keyed' = keyed \cup {d} /\ count' = [count EXCEPT ![d] = count[d] - 1]
      /\ twice' = (IF m \in counted THEN twice \cup {m} ELSE twice)
      /\ counted' = counted \cup {m}
      /\ UNCHANGED <<storeVars, call, batch, closed, uncounted, shared, lapsed, again>>
    BY DEF Decrement, Remaining
<1>2. /\ d \in Batches /\ m \in Jobs /\ m \in closed /\ m \in Sent(d)
      /\ m \notin again => m \in Of(d)
    BY <1>1, MineKnown DEF Inv, Settling, RunFits
<1>3. d = Batchid(r) /\ m = Mine(r) /\ Remaining(r, d) = count[d] - 1
    BY DEF Remaining
<1>4. /\ StoreTypeOK' /\ RunTypeOK' /\ HistoryTypeOK' /\ faults' \in 0 .. MaxFaults
      /\ (\A s \in Runs : RunFits(s)') /\ Stored' /\ CleanInv' /\ VerdictInv'
      /\ \A s \in Runs \ {r} : /\ at'[s] = at[s] /\ Mine(s)' = Mine(s)
                               /\ Batchid(s)' = Batchid(s)
      /\ at'[r] = "zero" => Remaining(r, Batchid(r)) = 0 /\ Batchid(r)' = Batchid(r)
      /\ Remaining(r, Batchid(r)) = 0 => at'[r] = "zero" /\ Batchid(r)' = Batchid(r)
    BY AtCounter
<1>5. /\ count' \in [Batches -> Int] /\ count'[d] = count[d] - 1 /\ count[d] \in Int
      /\ \A b \in Batches \ {d} : count'[b] = count[b]
    BY <1>1, <1>2 DEF Inv, CountTypeOK
<1>6. CountTypeOK'
    BY <1>1, <1>2, <1>4, <1>5 DEF Inv, CountTypeOK
<1>7. Tally'
  <2>1. counted' \subseteq closed'
    BY <1>1, <1>2 DEF Inv, Tally
  <2>2. ASSUME NEW k \in closed' \ (counted' \cup uncounted')
        PROVE  \E s \in Runs : at'[s] \in {"dlq", "count"} /\ Mine(s)' = k
    <3>1. PICK s \in Runs : at[s] \in {"dlq", "count"} /\ Mine(s) = k
      BY <1>1 DEF Inv, Tally
    <3>2. s # r
      BY <1>1, <1>3, <3>1
    <3> QED
      BY <1>4, <3>1, <3>2
  <2> QED
    BY <2>1, <2>2 DEF Tally
<1>8. /\ \A b : Sent(b)' = Sent(b) /\ Of(b)' = Of(b)
      /\ \A o \in Producers : \A b : Owns(o, b)' <=> Owns(o, b)
    BY <1>1 DEF Sent, Owns, Of
<1>9. \A b : Plain(b)' => Plain(b)
    BY <1>1, <1>8 DEF Plain
<1>10. ASSUME NEW o \in Producers, NEW b \in Batches, Owns(o, b), Plain(b)'
       PROVE  CountOk(o, b)'
  <2>1. Plain(b) /\ CountOk(o, b)
    BY <1>9, <1>10 DEF Inv, CountInv
  <2>2. CASE b # d
    <3>1. m \notin Of(b)
      <4>1. CASE m \in again
        <5>1. m \in Of(b) => m \in Sent(b)
          BY BatchAssumption DEF Of, Inv, Stored
        <5> QED
          BY <2>1, <4>1, <5>1 DEF Plain
      <4>2. CASE m \notin again
        BY <1>2, <2>2, <4>2 DEF Of
      <4> QED
        BY <4>1, <4>2
    <3>2. Of(b) \cap counted' = Of(b) \cap counted
      BY <1>1, <3>1
    <3>3. count'[b] = count[b] /\ (b \in keyed' => b \in keyed)
      BY <1>1, <1>5, <2>2
    <3> QED
      BY <1>1, <1>3, <1>4, <1>8, <2>1, <2>2, <3>2, <3>3, CountOkKept
  <2>3. CASE b = d
    <3>1. m \in Of(d) /\ m \notin counted
      BY <1>1, <1>2, <1>8, <1>10, <2>3 DEF Plain
    <3>2. call[o] = "done"
      BY <1>10, <2>1, <2>3, <3>1 DEF CountOk, Owns
    <3> DEFINE C == Of(d) \cap counted
               L == Len(Items[o])
    <3>3. /\ count[d] = L - Cardinality(C) /\ L \in Nat
          /\ IsFiniteSet(Of(d)) /\ Cardinality(Of(d)) <= L
      BY <1>10, <2>1, <2>3, <3>1, OwnSent DEF CountOk, Inv, Plain
    <3>4. /\ Of(d) \cap counted' = C \cup {m} /\ m \notin C
          /\ C \in SUBSET Of(d) /\ C \cup {m} \in SUBSET Of(d)
      BY <1>1, <3>1
    <3> HIDE DEF C, L
    <3>5. /\ IsFiniteSet(C) /\ Cardinality(C) \in Nat
          /\ Cardinality(C \cup {m}) = Cardinality(C) + 1
          /\ Cardinality(C \cup {m}) <= Cardinality(Of(d)) /\ Cardinality(Of(d)) \in Nat
      BY <3>3, <3>4, FS_Subset, FS_AddElement, FS_CardinalityType
    <3>6. count[d] > 0 /\ count'[d] = L - Cardinality(Of(d) \cap counted')
      <4>1. Cardinality(Of(d) \cap counted') = Cardinality(C) + 1
        BY <3>4, <3>5
      <4> QED
        BY <1>5, <3>3, <3>5, <4>1
    <3>7. \A s \in Runs : at'[s] = "zero" /\ Batchid(s)' = d => count'[d] = 0
      <4> SUFFICES ASSUME NEW s \in Runs, at'[s] = "zero", Batchid(s)' = d PROVE count'[d] = 0
        OBVIOUS
      <4>1. CASE s = r
        BY <1>3, <1>4, <1>5, <4>1
      <4>2. CASE s # r
        <5>1. at[s] = "zero" /\ Batchid(s) = d
          BY <1>4, <4>2
        <5>2. count[d] = 0
          BY <2>1, <2>3, <5>1 DEF CountOk
        <5> QED
          BY <3>6, <5>2
      <4> QED
        BY <4>1, <4>2
    <3>8. count'[d] # 0 \/ \E s \in Runs : at'[s] = "zero" /\ Batchid(s)' = d
      BY <1>3, <1>4, <1>5
    <3>9. Of(d)' = Of(d) /\ Of(d) # {} /\ call'[o] = "done"
      BY <1>1, <1>8, <3>1, <3>2
    <3>10. Cardinality(Of(d) \cap counted)' = Cardinality(Of(d) \cap counted')
      BY <3>9
    <3> QED
      BY <2>3, <3>6, <3>7, <3>8, <3>9, <3>10 DEF CountOk, L
  <2> QED
    BY <2>2, <2>3
<1>11. CountInv'
    BY <1>1, <1>8, <1>10 DEF Inv, CountInv
<1> QED
    BY <1>4, <1>6, <1>7, <1>11 DEF Inv
----------------------------------------------------------------------------
LEMMA InvInit == Init => Inv
<1> SUFFICES ASSUME Init PROVE Inv
    OBVIOUS
<1>1. <<>> \in Seq(Jobs) /\ <<>> \in Seq(Copy) /\ DOMAIN <<>> = {} /\ ToSet(<<>>) = {}
    BY EmptySeq DEF ToSet
<1>2. StoreTypeOK /\ HistoryTypeOK
    BY <1>1 DEF Init, StoreInit, StoreTypeOK, HistoryTypeOK
<1>3. RunTypeOK
    BY <1>1 DEF Init, RunTypeOK, Ats
<1>4. CountTypeOK
    BY BatchAssumption DEF Init, CountTypeOK
<1>5. /\ \A r \in Runs : at[r] = "idle" /\ taken[r] = <<>> /\ timed[r] = {} /\ turn[r] = 0
      /\ stray = {} /\ \A j \in Jobs : batch[j] = NoBatch /\ ~Present(vault, j)
      /\ \A p \in Producers : call[p] = "idle"
      /\ waiting = <<>> /\ prioritized = {} /\ active = {} /\ expired = {} /\ delayed = {}
      /\ completed = {} /\ failed = {} /\ dlq = {} /\ closed = {} /\ counted = {}
    BY DEF Init, StoreInit, Present
<1>6. \A r \in Runs : RunFits(r)
    BY <1>5 DEF RunFits
<1>7. Stored
    BY <1>1, <1>5 DEF Stored, Copies
<1>8. CleanInv
  <2>1. \A j : ~InHand(j) /\ j \notin Orphans
    BY <1>1, <1>5 DEF InHand, Orphans, Has
  <2> QED
    BY <1>1, <1>5, <2>1 DEF CleanInv, OnePlace, OneHolder, ListedOnce, OnceIn, Queued
<1>9. VerdictInv /\ Tally
    BY <1>1, <1>5 DEF VerdictInv, OneVerdict, Tally
<1>10. CountInv
    BY <1>5 DEF CountInv, Owns
<1> QED
    BY <1>2, <1>3, <1>4, <1>6, <1>7, <1>8, <1>9, <1>10 DEF Inv

LEMMA InvStep == Inv /\ [Next]_vars => Inv'
<1> SUFFICES ASSUME Inv, [Next]_vars PROVE Inv'
    OBVIOUS
<1>1. ASSUME NEW p \in Producers, BulkCheck(p) \/ BulkScript(p) \/ BulkEmpty(p) PROVE Inv'
    BY <1>1, BulkCheckStep, BulkScriptStep, BulkEmptyStep
<1>2. ASSUME NEW r \in Runs, BatchFetch(r) PROVE Inv'
    BY <1>2, FetchStep
<1>3. ASSUME NEW r \in Runs, HandlerEnds(r) \/ CommandFails(r) \/ Crash(r) PROVE Inv'
    BY <1>3, MovesOnStep
<1>4. ASSUME NEW r \in Runs, FinalizeBatchJob(r) PROVE Inv'
    BY <1>4, FinalizeStep
<1>5. ASSUME NEW r \in Runs, WriteDlq(r) PROVE Inv'
    BY <1>5, DlqStep
<1>6. ASSUME NEW r \in Runs, Decrement(r) PROVE Inv'
    BY <1>6, DecrementStep
<1>7. ASSUME NEW r \in Runs, DeleteCounter(r) PROVE Inv'
    BY <1>7, DeleteStep
<1>8. ASSUME NEW r \in Runs, Stuck(r) PROVE Inv'
    BY <1>8, StuckStep
<1>9. CASE Renew \/ StrayEnds
    BY <1>9, RenewStep, StrayEndsStep
<1>10. CASE RecoverStalled \/ Promote
    BY <1>10, RecoverStep, PromoteStep
<1>11. ASSUME NEW j \in Jobs, Due(j) \/ LeaseExpires(j) PROVE Inv'
    BY <1>11, ClockStep
<1>12. CASE UNCHANGED vars
  <2>1. /\ UNCHANGED <<storeVars, call, keyed, count, batch, at, verdict, taken, turn, timed,
                       faults, history>>
        /\ stray' = stray
    BY <1>12 DEF vars, runVars
  <2>2. Queued' = Queued /\ Copies' = Copies /\ Orphans' = Orphans
        /\ \A r \in Runs : Has(r)' = Has(r) /\ Mine(r)' = Mine(r) /\ Batchid(r)' = Batchid(r)
    BY <2>1 DEF Queued, Copies, Orphans, Has, Mine, Batchid, storeVars
  <2>3. StoreTypeOK' /\ RunTypeOK' /\ CountTypeOK' /\ HistoryTypeOK'
    BY <2>1 DEF Inv, StoreTypeOK, storeVars, RunTypeOK, CountTypeOK, HistoryTypeOK, history
  <2>4. (\A r \in Runs : RunFits(r)') /\ VerdictInv' /\ Stored'
    BY <2>1, <2>2, FitsKept, VerdictKept, StoredKept DEF Inv, storeVars, history, Stored
  <2>5. CleanInv'
    <3> SUFFICES ASSUME NEW j \in Clean PROVE OnePlace(j)' /\ OneHolder(j)'
      BY <2>1 DEF CleanInv, Clean, history
    <3>1. OnePlace(j) /\ OneHolder(j)
      BY DEF Inv, CleanInv
    <3>2. OnePlace(j)'
      BY <2>1, <2>2, <3>1 DEF OnePlace, ListedOnce, OnceIn, Present, storeVars, history
    <3>3. OneHolder(j)'
      BY <2>1, <2>2, <3>1, HolderKept DEF OneHolder, storeVars
    <3> QED
      BY <3>2, <3>3
  <2>6. Tally' /\ CountInv'
    BY <2>1, <2>2, TallyKept, CountKept DEF Inv, history, Of
  <2> QED
    BY <2>3, <2>4, <2>5, <2>6 DEF Inv
<1> QED
    BY <1>1, <1>2, <1>3, <1>4, <1>5, <1>6, <1>7, <1>8, <1>9, <1>10, <1>11, <1>12 DEF Next

LEMMA InvHolds == Spec => []Inv
<1>1. Init => Inv
    BY InvInit
<1>2. Inv /\ [Next]_vars => Inv'
    BY InvStep
<1> QED
    BY <1>1, <1>2, PTL DEF Spec
----------------------------------------------------------------------------
(***************************************************************************)
(* _executeBatch (worker.js:199): no job of a batch is in the hands of two *)
(* runs, or twice in those of one, unless its lease lapsed under a run or  *)
(* it was removed and stored anew; and none is both completed and failed,  *)
(* unless one of these happened or a throwing listener sent its batch to   *)
(* the dead jobs.                                                          *)
(***************************************************************************)
THEOREM OneRunOneVerdict == Spec => []JobsOfBatchSound
<1>1. Inv => JobsOfBatchSound
  <2> SUFFICES ASSUME Inv PROVE JobsOfBatchSound
    OBVIOUS
  <2>1. TypeOK
    BY TypeParts DEF Inv
  <2>2. TakenOnce
    <3> SUFFICES ASSUME NEW r \in Runs, NEW s \in Runs,
                        NEW i \in DOMAIN taken[r], NEW k \in DOMAIN taken[s],
                        taken[r][i].job = taken[s][k].job, <<r, i>> # <<s, k>>,
                        taken[r][i].job \notin lapsed \cup again
                 PROVE  FALSE
      BY DEF TakenOnce
    <3>1. taken[r][i].job \in Clean
      BY CopyType DEF Inv, Clean
    <3>2. OneHolder(taken[r][i].job)
      BY <3>1 DEF Inv, CleanInv
    <3> QED
      BY <3>2 DEF OneHolder
  <2> QED
    BY <2>1, <2>2 DEF JobsOfBatchSound, Inv, VerdictInv
<1> QED
    BY <1>1, InvHolds, PTL

(***************************************************************************)
(* The counter of a batch (addBulk.lua, worker.js:571): it is above zero   *)
(* as long as a job of the batch has no outcome, so that queue.js:137      *)
(* refuses the id; and when the last one is settled it is deleted.         *)
(***************************************************************************)
THEOREM CounterExact == Spec => []CounterSound
<1>1. Inv => CounterOutlivesJobs
  <2> SUFFICES ASSUME Inv, NEW b \in Batches \ shared, count[b] <= 0,
                      Sent(b) \cap (twice \cup again) = {}, Of(b) # {}
               PROVE  Of(b) \subseteq closed
    BY DEF CounterOutlivesJobs
  <2>1. Of(b) \subseteq Sent(b)
    BY BatchAssumption DEF Inv, Stored, Of
  <2>2. PICK p \in Producers : Owns(p, b)
    BY <2>1 DEF Sent, Owns
  <2>3. CountOk(p, b)
    BY <2>2 DEF Inv, CountInv, Plain
  <2>4. /\ IsFiniteSet(Of(b)) /\ Cardinality(Of(b)) <= Len(Items[p]) /\ Len(Items[p]) \in Nat
        /\ count[b] = Len(Items[p]) - Cardinality(Of(b) \cap counted)
    BY <2>2, <2>3, OwnSent DEF Inv, CountOk
  <2> DEFINE C == Of(b) \cap counted
  <2>5. /\ C \in SUBSET Of(b) /\ Cardinality(C) <= Cardinality(Of(b))
        /\ Cardinality(Of(b)) = Cardinality(C) => Of(b) = C
        /\ Cardinality(C) \in Nat /\ Cardinality(Of(b)) \in Nat
    BY <2>4, FS_Subset, FS_CardinalityType
  <2> HIDE DEF C
  <2>6. Of(b) = C
    <3>1. count[b] = Len(Items[p]) - Cardinality(C)
      BY <2>4 DEF C
    <3> QED
      BY <2>4, <2>5, <3>1
  <2> QED
    BY <2>6 DEF Inv, Tally, C
<1>2. Inv => IdComesBack
  <2> SUFFICES ASSUME Inv, NEW p \in Producers, NEW b, b = BatchOf[p],
                      call[p] = "done", b \notin shared, Exact(p), Of(b) \subseteq closed,
                      \A j \in Of(b) : ~InHand(j),
                      Of(b) \cap (twice \cup uncounted \cup again) = {},
                      b \in keyed
               PROVE  FALSE
    BY DEF IdComesBack
  <2>1. b \in Batches \ shared /\ Owns(p, b)
    BY BatchAssumption DEF Owns
  <2>2. /\ Of(b) \subseteq ToSet(Items[p]) /\ Sent(b) = ToSet(Items[p])
        /\ Cardinality(Of(b)) = Len(Items[p]) /\ Len(Items[p]) \in Nat
    BY <2>1, OwnSent DEF Inv, Exact
  <2>3. Sent(b) = Of(b)
    <3>1. IsFiniteSet(ToSet(Items[p])) /\ Cardinality(ToSet(Items[p])) <= Len(Items[p])
      BY BatchAssumption, ToSetBound
    <3>2. /\ Cardinality(Of(b)) <= Cardinality(ToSet(Items[p]))
          /\ Cardinality(ToSet(Items[p])) = Cardinality(Of(b)) => ToSet(Items[p]) = Of(b)
          /\ Cardinality(ToSet(Items[p])) \in Nat
      BY <2>2, <3>1, FS_Subset, FS_CardinalityType
    <3> QED
      BY <2>2, <3>1, <3>2
  <2>4. CountOk(p, b)
    BY <2>1, <2>3 DEF Inv, CountInv, Plain
  <2>5. \A r \in Runs : Settling(r) => Mine(r) \notin Of(b)
    BY MineKnown DEF Inv, InHand
  <2>6. Of(b) \subseteq counted
    BY <2>5 DEF Inv, Tally, Settling
  <2>7. Of(b) \cap counted = Of(b)
    BY <2>6
  <2>8. Of(b) # {} => count[b] = 0
    <3>1. Cardinality(Of(b) \cap counted) = Len(Items[p])
      BY <2>2, <2>7
    <3>2. Of(b) # {} => count[b] = Len(Items[p]) - Cardinality(Of(b) \cap counted)
      BY <2>4 DEF CountOk
    <3> QED
      BY <2>2, <3>1, <3>2
  <2>9. \A r \in Runs : at[r] = "zero" => Batchid(r) # b
    BY <2>3, <2>5, MineKnown DEF Inv, Settling
  <2> QED
    BY <2>4, <2>8, <2>9 DEF CountOk
<1> QED
    BY <1>1, <1>2, InvHolds, PTL DEF CounterSound

(***************************************************************************)
(* batchdequeue.lua:42: if no id at the head of the list is without a      *)
(* record, what is returned is a full batch or all there is.               *)
(***************************************************************************)
THEOREM BatchesFilled == Spec => []DequeueFillsBatch
<1>1. Inv => DequeueFillsBatch
  <2> SUFFICES ASSUME StoreTypeOK, NEW P \in SUBSET prioritized, Popped(P),
                      ~(Cardinality({j \in P : Present(vault, j)}) + HeadLength(P) >= BatchSize)
               PROVE  {j \in P \cup ToSet(HeadIds(P)) : Present(vault, j)} = Takeable
    BY DEF DequeueFillsBatch, Inv
  <2> DEFINE found == {j \in P : Present(vault, j)}
  <2>1. HeadLength(P) \in 0 .. Len(waiting)
        /\ (HeadLength(P) = Len(waiting) \/ Cardinality(found) + HeadLength(P) = BatchSize)
    BY HeadType
  <2>2. P = prioritized \/ Cardinality(found) = BatchSize
    BY DEF Popped
  <2>3. ~(Cardinality(found) + HeadLength(P) >= BatchSize) /\ BatchSize \in Nat
        /\ Len(waiting) \in Nat /\ waiting \in Seq(Jobs)
    BY BatchAssumption, LenProperties DEF StoreTypeOK
  <2> HIDE DEF found
  <2>4. HeadLength(P) = Len(waiting) /\ P = prioritized
    BY <2>1, <2>2, <2>3
  <2>5. HeadIds(P) = waiting
    BY <2>3, <2>4, SubSeqFull DEF HeadIds
  <2> QED
    BY <2>4, <2>5 DEF Takeable, Queued
<1> QED
    BY <1>1, InvHolds, PTL
=============================================================================
