----------------------------- MODULE RetryBudget -----------------------------
(***************************************************************************)
(* JobExecution with a count of how often handleFailure has sent each job  *)
(* back, to hold against its maxretries.                                   *)
(***************************************************************************)
EXTENDS JobExecution

CONSTANT MaxCounted  \* bound: failures after which no more are counted

VARIABLE retries  \* how often each job was sent back since it was queued anew

ParkedNow(j) == \E s \in Slots : /\ pc[s] # "parked" /\ pc'[s] = "parked"
                                 /\ held[s].job = j
Requeued(j) == j \in closed /\ j \notin closed'

BudgetInit == Init /\ retries = [j \in Jobs |-> 0]
BudgetNext ==
    /\ Next
    /\ retries' = [j \in Jobs |->
                      IF Requeued(j) THEN 0
                      ELSE IF ParkedNow(j) /\ retries[j] < MaxCounted
                           THEN retries[j] + 1
                      ELSE retries[j]]
BudgetSpec == BudgetInit /\ [][BudgetNext]_<<vars, retries>>

(***************************************************************************)
(* A job that keeps failing is sent back at most maxretries times, then it *)
(* dies: "max retries -> DLQ" (tests/vitest/qa/qa-reliability.test.js:29,  *)
(* which tries maxretries 1 only).  An attempt is counted at the first     *)
(* pickup alone (dequeue.lua:28), so a job with maxretries above 1 never   *)
(* gets there.                                                             *)
(***************************************************************************)
RetriesBounded == \A j \in Jobs : retries[j] <= MaxRetries[j]
=============================================================================
