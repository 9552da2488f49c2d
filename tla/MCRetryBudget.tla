---------------------------- MODULE MCRetryBudget ----------------------------
(* Instances of RetryBudget for TLC. *)
EXTENDS RetryBudget, TLC

CONSTANTS j1

MCMaxRetries == [j \in Jobs |-> 2]
MCScore == [j \in Jobs |-> 0]
=============================================================================
