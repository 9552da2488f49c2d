--------------------------- MODULE MCJobExecution ---------------------------
(* Instances of JobExecution for TLC. *)
EXTENDS JobExecution, TLC

CONSTANTS j1, j2

MCMaxRetries == [j \in Jobs |-> IF j = j1 THEN 2 ELSE 1]
MCScore == [j \in Jobs |-> 0]
\* A third call only without j2: two callers may then retry j1.
MCFocus ==
    calls > 2 => ~Present(vault, j2) /\ \A s \in Slots : held[s] = None \/ held[s].job = j1

MCSymmetry == Permutations(Slots) \cup Permutations(Clients)
=============================================================================
