------------------------------ MODULE MCGauges ------------------------------
(* Instances of Gauges for TLC: a job with a retry, one with a delay, one *)
(* that waits for a parent, a bulk of one; a worker with a batch size and *)
(* one without, which were given the same handler.                         *)
EXTENDS Gauges, TLC

CONSTANTS p, d, c, b, w1, w2, h

MCMaxRetries == [j \in Jobs |-> IF j \in {p, b} THEN 2 ELSE 1]
OneHandler == [w \in Workers |-> h]
=============================================================================
