---------------------------- MODULE JobLifecycle ----------------------------
(***************************************************************************)
(* What a queue promises of each of its jobs, whatever its workers,        *)
(* scripts, leases and timers do: the life of a job is a path of one       *)
(* diagram.  Of a job that is adrift nothing is promised any more;         *)
(* JobExecution says which jobs those are.                                 *)
(***************************************************************************)
CONSTANT Jobs

VARIABLES
    phase,   \* of each job: absent, open, running, completed or dead
    adrift   \* the jobs of which nothing is promised any more

lifeVars == <<phase, adrift>>

Outcomes == {"completed", "dead"}

Moves ==
    {<<"absent", "open">>,       \* added
     <<"open", "running">>,      \* taken by a worker
     <<"open", "absent">>,       \* drained
     <<"open", "dead">>,         \* its worker died on its last attempt
     <<"running", "open">>,      \* to be retried, or its worker died
     <<"running", "completed">>,
     <<"running", "dead">>,
     <<"dead", "open">>,         \* retried by an operator
     <<"running", "absent">>}    \* its outcome evicted as it came in
        \cup Outcomes \X {"absent"}  \* its outcome evicted

\* An outcome is evicted only when there is another, and a new one comes in:
\* by the workers' clocks the new one may itself be among the oldest.
Evicted(j) ==
    phase'[j] = "absent" =>
        /\ phase[j] = "running" => \E k \in Jobs \ {j} : k \in adrift' \/ phase[k] \in Outcomes
        /\ phase[j] \in Outcomes => \E k \in Jobs \ {j} :
               \/ k \in adrift'
               \/ phase[k] = "running" /\ phase'[k] \in {phase[j], "absent"}

LifeInit == phase = [j \in Jobs |-> "absent"] /\ adrift = {}

LifeNext ==
    /\ adrift \subseteq adrift'
    /\ \A j \in Jobs \ adrift' :
           /\ phase'[j] = phase[j] \/ <<phase[j], phase'[j]>> \in Moves
           /\ Evicted(j)

LifeSpec == LifeInit /\ [][LifeNext]_lifeVars
=============================================================================
