----------------------------- MODULE MCBatchRun -----------------------------
(* Instances of BatchRun for TLC. *)
EXTENDS BatchRun, TLC

CONSTANTS j1, j2, j3, p1, p2, b1

MCMaxRetries == [j \in Jobs |-> IF j = j1 THEN 2 ELSE 1]
MCScore == [j \in Jobs |-> 0]
MCBatchOf == [p \in Producers |-> b1]
MCItems == [p \in Producers |-> IF p = p1 THEN <<j1, j2, j3>> ELSE <<j2>>]
MCSymmetry == Permutations(Runs)
=============================================================================
