------------------------------- MODULE Clock -------------------------------
(***************************************************************************)
(* The time and the budget of outside events that the parts of the         *)
(* dashboard server share.                                                 *)
(***************************************************************************)
EXTENDS Integers

CONSTANTS MaxTime, MaxEvents    \* bounds

ASSUME ClockAssumption == MaxTime \in Nat /\ MaxEvents \in Nat

VARIABLES now, events

Event == events < MaxEvents /\ events' = events + 1 /\ UNCHANGED now

Passes == now < MaxTime /\ now' = now + 1 /\ UNCHANGED events
=============================================================================
