---------------------------- MODULE MCFlowUpkeep ----------------------------
(* Instances of FlowUpkeep for TLC: a root that waits for a fan-out node *)
(* with one child and for a ranked leaf, which itself waits for a job of *)
(* its own; another job waits for the leaf.                              *)
EXTENDS FlowUpkeep, TLC

CONSTANTS r, a, b, x, o1, o2, q1, q2

MCKids == (r :> {a, x}) @@ (a :> {b}) @@ (b :> {}) @@ (x :> {})
MCExtra == [n \in Nodes |-> IF n = x THEN {o1} ELSE {}]
MCLate == (o1 :> {}) @@ (o2 :> {a})
MCQueueOf == [j \in FlowJobs |-> IF j = o2 THEN q2 ELSE q1]
=============================================================================
