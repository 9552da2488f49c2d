------------------------------ MODULE MCJobDag ------------------------------
(* Instances of JobDag for TLC. *)
EXTENDS JobDag

CONSTANTS a, b, c, qa

\* c waits for a and b, b waits for a.
MCChain == [j \in Jobs |-> CASE j = c -> <<a, b>> [] j = b -> <<a>> [] OTHER -> <<>>]
MCAnyOrder == [j \in Jobs |-> {}]

MCOneQueue == [j \in Jobs |-> qa]
=============================================================================
