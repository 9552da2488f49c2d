---------------------------- MODULE MCQueueAdmin ----------------------------
EXTENDS QueueAdmin

CONSTANTS j1, j2

MCMaxRetries == [j \in Jobs |-> 2]
MCScore == [j \in Jobs |-> 0]
MCSymmetry == Permutations(Runners) \cup Permutations(Admins)
=============================================================================
