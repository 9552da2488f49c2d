---------------------------- MODULE MCLifecycle ----------------------------
EXTENDS Lifecycle, TLC

CONSTANTS s1, s2, j1

MCApps == {[scheds |-> {s1, s2}, events |-> FALSE, delays |-> TRUE]}
              \cup {[scheds |-> {s}, events |-> TRUE, delays |-> FALSE] : s \in Scheds}

MCSymmetry == Permutations(Scheds)
=============================================================================
