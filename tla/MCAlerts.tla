------------------------------ MODULE MCAlerts ------------------------------
(* Instances of Alerts for TLC: one rule, which may be moved to another *)
(* queue, another metric, or a metric that is not known.                *)
EXTENDS Alerts, TLC

CONSTANTS q1, q2, r1, e1, e2

MCStart == (q1 :> 1) @@ (q2 :> 0)
MCOptions == {[queue |-> q1, metric |-> "waiting", threshold |-> 0],
              [queue |-> q2, metric |-> "health", threshold |-> 1],
              [queue |-> q1, metric |-> "other", threshold |-> 0]}
=============================================================================
