----------------------------- MODULE FlowUpkeep -----------------------------
(***************************************************************************)
(* Flows built and undone: FlowProducer.add adds the jobs of a tree one    *)
(* queue.add at a time and deletes them again when one of them fails, and  *)
(* the maintenance engine deletes a job with everything that waits for it, *)
(* while workers take, finish and send back the same jobs.                 *)
(*                                                                         *)
(* A job is in at most one structure of its queue (`place').  What happens *)
(* between the scripts of one finished job is the subject of JobDag, what  *)
(* happens to one job among its workers that of JobExecution.              *)
(***************************************************************************)
EXTENDS Integers, FiniteSets

CONSTANTS
    Nodes,     \* the jobs of the flow
    Root,      \* its root
    Kids,      \* node.children
    FanOut,    \* nodes whose children wait for them, not they for the children
    Extra,     \* parents a node's own options name, outside the flow
    Others,    \* jobs outside the flow
    Late,      \* which of them wait for which nodes
    Ranked,    \* jobs with a priority
    QueueOf,   \* the queue of each job
    MaxFailures, \* bound: commands that fail, retries
    MaxTasks   \* bound: calls of removeJob

FlowJobs == Nodes \cup Others
ASSUME FlowAssumption ==
    /\ Root \in Nodes /\ FanOut \subseteq Nodes /\ Ranked \subseteq FlowJobs
    /\ Kids \in [Nodes -> SUBSET Nodes] /\ Extra \in [Nodes -> SUBSET Others]
    /\ Late \in [Others -> SUBSET Nodes] /\ Nodes \cap Others = {}
    /\ IsFiniteSet(FlowJobs) /\ MaxFailures \in Nat /\ MaxTasks \in Nat

\* A flow is a tree of objects: no node is among the children of its children.
ASSUME TreeAssumption ==
    \A S \in SUBSET Nodes : S # {} => \E n \in S : \A p \in S : n \notin Kids[p]

VARIABLES
    rec,      \* jobs with a record in the vault
    place,    \* the structure each job is in
    hand,     \* jobs a worker has in hand
    kids,     \* <<d, j>>: j is in the set dependent:d:children:
    pars,     \* <<d, j>>: d is in the set dependent:j:parent:
    count,    \* job:j:count, zero where it does not exist
    counted,  \* jobs whose job:j:count exists
    named,    \* jobs whose job:j:name exists
    pc,       \* where processNode is for each node
    created,  \* createdNodes
    sent,     \* other jobs that were added; an id is used once
    walk,     \* the deletion under way
    tasks, failures

\* History: jobs a worker took; jobs that wait for a job that was gone when
\* they came or was deleted since; deleted jobs some other job still lists;
\* jobs deleted in the wrong queue; jobs that came after the walk had passed.
VARIABLES seized, bereft, listed, missed, late

jobVars == <<rec, place, hand, kids, pars, count, counted, named>>
flowHistory == <<seized, bereft, listed, missed, late>>
flowVars == <<jobVars, pc, created, sent, walk, tasks, failures, flowHistory>>

Places == {"none", "queued", "ranked", "delayed", "blocked", "active", "completed"}
Pcs == {"todo", "kids", "adding", "undo", "done", "failed", "rejected", "swallowed"}
NoWalk == [at |-> "idle", from |-> Root, todo |-> {}, found |-> {}, names |-> {}]

FlowTypeOK ==
    /\ rec \subseteq FlowJobs /\ hand \subseteq FlowJobs /\ created \subseteq Nodes /\ sent \subseteq Others
    /\ place \in [FlowJobs -> Places] /\ pc \in [Nodes -> Pcs]
    /\ kids \subseteq FlowJobs \X FlowJobs /\ pars \subseteq FlowJobs \X FlowJobs
    /\ count \in [FlowJobs -> Int] /\ \A j \in FlowJobs \ counted : count[j] = 0
    /\ counted \subseteq FlowJobs /\ named \subseteq FlowJobs
    /\ walk.at \in {"idle", "walk", "names", "purge"}
    /\ walk.todo \cup walk.found \cup walk.names \subseteq FlowJobs
    /\ walk.todo \cap walk.found = {}
    /\ tasks \in 0..MaxTasks /\ failures \in 0..MaxFailures
    /\ seized \cup bereft \cup listed \cup missed \cup late \subseteq FlowJobs

FlowInit ==
    /\ rec = {} /\ hand = {} /\ kids = {} /\ pars = {} /\ counted = {} /\ named = {}
    /\ place = [j \in FlowJobs |-> "none"] /\ count = [j \in FlowJobs |-> 0]
    /\ pc = [n \in Nodes |-> "todo"] /\ created = {} /\ sent = {}
    /\ walk = NoWalk /\ tasks = 0 /\ failures = 0
    /\ seized = {} /\ bereft = {} /\ listed = {} /\ missed = {} /\ late = {}

Failure == failures < MaxFailures /\ failures' = failures + 1
Queue(j) == IF j \in Ranked THEN "ranked" ELSE "queued"
----------------------------------------------------------------------------
(***************************************************************************)
(* addJob.lua: an id that has a record is left alone; the parents that     *)
(* have not finished in this queue are counted, all of them are recorded.  *)
(***************************************************************************)
\* Mutant: parents that have finished are counted too.
PendingAll(j, deps) == deps
Here(d, j) == place[d] = "completed" /\ QueueOf[d] = QueueOf[j]
Pending(j, deps) == {d \in deps : ~Here(d, j)}
Gone(d) == d \notin hand /\ (d \notin rec \/ place[d] \in {"none", "completed"})

AddJob(j, deps) ==
    LET pending == Pending(j, deps) IN
    IF j \in rec
    THEN UNCHANGED <<rec, place, kids, pars, count, counted, named, bereft, late>>
    ELSE /\ rec' = rec \cup {j}
         /\ kids' = kids \cup (deps \X {j}) /\ pars' = pars \cup (deps \X {j})
         /\ IF pending = {}
            THEN /\ place' = [place EXCEPT ![j] = Queue(j)]
                 /\ UNCHANGED <<count, counted, named>>
            ELSE /\ place' = [place EXCEPT ![j] = "blocked"]
                 /\ count' = [count EXCEPT ![j] = Cardinality(pending)]
                 /\ counted' = counted \cup {j} /\ named' = named \cup {j}
         /\ bereft' = IF \E d \in pending : Gone(d)
                      THEN bereft \cup {j} ELSE bereft
         /\ late' = IF deps \cap walk.found # {} THEN late \cup {j} ELSE late

AddOther(o) ==
    /\ o \notin sent /\ Late[o] \subseteq created
    /\ sent' = sent \cup {o}
    /\ AddJob(o, Late[o])
    /\ UNCHANGED <<hand, pc, created, walk, tasks, failures, seized, listed, missed>>

(***************************************************************************)
(* processNode.  The children of a node are processed at the same time;    *)
(* a fan-in node is added after its children, a fan-out node before them.  *)
(* When a child failed and all have settled, everything added so far is    *)
(* deleted, and once more at every level above.                            *)
(***************************************************************************)
Above(n) == {p \in Nodes : n \in Kids[p]}
Goes(n, to) == pc' = [pc EXCEPT ![n] = to]
Reached(n) == n = Root \/ \E p \in Above(n) : pc[p] = "kids"
Deps(n) == Extra[n] \cup (Above(n) \cap FanOut) \cup (IF n \in FanOut THEN {} ELSE Kids[n])

Begin(n) ==
    /\ pc[n] = "todo" /\ Reached(n)
    /\ Goes(n, IF Kids[n] = {} \/ n \in FanOut THEN "adding" ELSE "kids")
    /\ UNCHANGED <<jobVars, created, sent, walk, tasks, failures, flowHistory>>

AddNode(n) ==
    /\ pc[n] = "adding" /\ Extra[n] \subseteq sent
    /\ AddJob(n, Deps(n))
    /\ created' = created \cup {n}
    /\ Goes(n, IF n \in FanOut /\ Kids[n] # {} THEN "kids" ELSE "done")
    /\ UNCHANGED <<hand, sent, walk, tasks, failures, seized, listed, missed>>

AddFails(n) ==
    /\ pc[n] = "adding" /\ Failure
    /\ Goes(n, "failed")
    /\ UNCHANGED <<jobVars, created, sent, walk, tasks, flowHistory>>

\* Mutant: the first failure is not waited out (Promise.all).
SettledAny(n) == \/ \A k \in Kids[n] : pc[k] \in {"done", "failed"}
                 \/ \E k \in Kids[n] : pc[k] = "failed"
AllSettled(n) == \A k \in Kids[n] : pc[k] \in {"done", "failed"}

KidsSettled(n) ==
    /\ pc[n] = "kids" /\ AllSettled(n)
    /\ Goes(n, IF \E k \in Kids[n] : pc[k] = "failed" THEN "undo"
               ELSE IF n \in FanOut THEN "done" ELSE "adding")
    /\ UNCHANGED <<jobVars, created, sent, walk, tasks, failures, flowHistory>>

(***************************************************************************)
(* _compensate: one pipeline per queue, here one step.  It leaves out the  *)
(* prioritized ZSET, and it deletes the set of a job's parents before it   *)
(* reads it, so that parents that stay keep the job in their children set. *)
(***************************************************************************)
Forget(S) ==
    /\ kids' = {p \in kids : p[1] \notin S} /\ pars' = {p \in pars : p[2] \notin S}
    /\ count' = [j \in FlowJobs |-> IF j \in S THEN 0 ELSE count[j]]
    /\ counted' = counted \ S /\ named' = named \ S
    /\ bereft' = bereft \cup {j \in FlowJobs \ S : \E d \in S : <<d, j>> \in kids}

\* Mutant: blocked jobs are not removed from the blocked hash.
TakenOutNotBlocked(S) ==
    [j \in FlowJobs |-> IF j \in S /\ place[j] \notin {"ranked", "blocked"} THEN "none"
                    ELSE place[j]]
TakenOut(S) ==
    [j \in FlowJobs |-> IF j \in S /\ place[j] # "ranked" THEN "none" ELSE place[j]]

Compensate ==
    /\ Forget(created)
    /\ rec' = rec \ created
    /\ place' = TakenOut(created)
    /\ listed' = listed \cup {j \in created : \E d \in FlowJobs \ created : <<d, j>> \in kids}
    /\ UNCHANGED <<hand, created, sent, walk, tasks, seized, missed, late>>

\* Its errors are swallowed.
Undo(n) ==
    \/ /\ pc[n] = "undo" /\ Goes(n, "failed")
       /\ \/ Compensate /\ UNCHANGED failures
          \/ Failure /\ UNCHANGED <<jobVars, created, sent, walk, tasks, flowHistory>>
    \/ /\ n = Root /\ pc[n] = "failed"
       /\ \/ Goes(n, "rejected") /\ Compensate /\ UNCHANGED failures
          \/ /\ Goes(n, "swallowed") /\ Failure
             /\ UNCHANGED <<jobVars, created, sent, walk, tasks, flowHistory>>
----------------------------------------------------------------------------
(***************************************************************************)
(* removeJob and Maintenance.handleDeletion: a walk over the jobs that     *)
(* wait for the job, then a look at the queue name each of them has, then  *)
(* one pipeline.  A job without a name is looked for in the queue of the   *)
(* job that was removed.                                                   *)
(***************************************************************************)
RemoveJob(j) ==
    /\ walk.at = "idle" /\ j \in rec
    /\ tasks < MaxTasks /\ tasks' = tasks + 1
    /\ walk' = [NoWalk EXCEPT !.at = "walk", !.from = j, !.todo = {j}]
    /\ UNCHANGED <<jobVars, pc, created, sent, failures, flowHistory>>

\* Mutant: only the job itself is found.
FoundAlone(id) == {}
Found(id) == {c \in FlowJobs : <<id, c>> \in kids}

\* Mutant: the job looked at stays in the queue of the walk.
LeftKeepsIt(id) == walk.todo \cup Found(id)
Left(id) == (walk.todo \cup Found(id)) \ (walk.found \cup {id})

Walk ==
    /\ walk.at = "walk"
    /\ \E id \in walk.todo :
        /\ kids' = {p \in kids : ~(p[2] = id /\ p \in pars)}
        /\ walk' = [walk EXCEPT !.todo = Left(id), !.found = walk.found \cup {id},
                                !.at = IF Left(id) = {} THEN "names" ELSE "walk"]
    /\ UNCHANGED <<rec, place, hand, pars, count, counted, named>>
    /\ UNCHANGED <<pc, created, sent, tasks, failures, flowHistory>>

Names ==
    /\ walk.at = "names"
    /\ walk' = [walk EXCEPT !.at = "purge", !.names = walk.found \cap named]
    /\ UNCHANGED <<jobVars, pc, created, sent, tasks, failures, flowHistory>>

Purge ==
    LET here == {j \in walk.found : j \in walk.names \/ QueueOf[j] = QueueOf[walk.from]} IN
    /\ walk.at = "purge"
    /\ Forget(walk.found)
    /\ rec' = rec \ here
    /\ place' = TakenOut(here)
    /\ missed' = missed \cup (walk.found \ here)
    /\ walk' = NoWalk
    /\ UNCHANGED <<hand, pc, created, sent, tasks, failures, seized, listed, late>>
----------------------------------------------------------------------------
(***************************************************************************)
(* Workers.  A queued id without a record is dropped; finishing a job      *)
(* makes its index entry and releases those that wait for it; a retry      *)
(* writes the whole record back, whether or not it was deleted meanwhile.  *)
(***************************************************************************)
PickUp(j) ==
    /\ place[j] \in {"queued", "ranked", "delayed"}
    /\ place' = [place EXCEPT ![j] = IF j \in rec THEN "active" ELSE "none"]
    /\ hand' = IF j \in rec THEN hand \cup {j} ELSE hand
    /\ seized' = IF j \in rec THEN seized \cup {j} ELSE seized
    /\ UNCHANGED <<rec, kids, pars, count, counted, named>>
    /\ UNCHANGED <<pc, created, sent, walk, tasks, failures, bereft, listed, missed, late>>

\* Mutant: a released job keeps its counter and its name.
KeepsTracking(open) == {}
Untracked(open) == open

Complete(j) ==
    LET freed == {c \in FlowJobs : <<j, c>> \in kids}
        open == {c \in freed : count[c] <= 1 /\ c \in named}
    IN  /\ j \in hand
        /\ hand' = hand \ {j}
        /\ kids' = kids \ ({j} \X freed) /\ pars' = pars \ ({j} \X freed)
        /\ count' = [c \in FlowJobs |-> IF c \in open THEN 0
                                    ELSE IF c \in freed THEN count[c] - 1 ELSE count[c]]
        /\ counted' = (counted \cup freed) \ Untracked(open)
        /\ named' = named \ Untracked(open)
        /\ place' = [c \in FlowJobs |-> IF c = j THEN "completed"
                                    ELSE IF c \in open /\ place[c] = "blocked"
                                    THEN Queue(c) ELSE place[c]]
        /\ UNCHANGED <<rec, pc, created, sent, walk, tasks, failures, flowHistory>>

SendBack(j) ==
    /\ j \in hand /\ Failure
    /\ hand' = hand \ {j} /\ rec' = rec \cup {j}
    /\ place' = [place EXCEPT ![j] = "delayed"]
    /\ UNCHANGED <<kids, pars, count, counted, named>>
    /\ UNCHANGED <<pc, created, sent, walk, tasks, flowHistory>>

----------------------------------------------------------------------------
(***************************************************************************)
(* What the dashboard shows of flows.  It reads with several commands, and *)
(* here at once.  Its "parents" of a job are those that wait for it, from  *)
(* the set of them, or when that is empty from the records of all queues.  *)
(***************************************************************************)
Needs == [j \in FlowJobs |-> IF j \in Nodes THEN Deps(j) ELSE Late[j]]

FlowList == {j \in rec : Needs[j] # {} \/ j \in FanOut}

\* Mutant: the reverse scan is left out.
WaitersByIndex(j) == Found(j)
WaitersShown(j) == IF Found(j) # {} THEN Found(j) ELSE {c \in rec : j \in Needs[c]}

NeedsShown(j) == {d \in FlowJobs : <<d, j>> \in pars} \cup Needs[j]

QueueArrows ==
    {<<QueueOf[e[1]], QueueOf[e[2]]>> : e \in
        {p \in rec \X rec : p[1] \in Needs[p[2]] /\ QueueOf[p[1]] # QueueOf[p[2]]}}

FlowNext ==
    \/ \E n \in Nodes : Begin(n) \/ AddNode(n) \/ AddFails(n) \/ KidsSettled(n) \/ Undo(n)
    \/ \E o \in Others : AddOther(o)
    \/ \E j \in FlowJobs : RemoveJob(j) \/ PickUp(j) \/ Complete(j) \/ SendBack(j)
    \/ Walk \/ Names \/ Purge

FlowSpec == FlowInit /\ [][FlowNext]_flowVars
----------------------------------------------------------------------------
(***************************************************************************)
(* When add() has thrown, none of the jobs it added is stored or queued,   *)
(* unless its id is in the prioritized ZSET, or a worker had taken it and  *)
(* finishes it or sends it back after the deletion.                        *)
(***************************************************************************)
FailedFlowIsGone ==
    pc[Root] = "rejected" =>
        \A n \in created \ seized : n \notin rec /\ place[n] \in {"none", "ranked"}

(***************************************************************************)
(* A blocked job is released when as many of its parents have completed as *)
(* its count says: that is the number of those that list it and are still  *)
(* to complete.  Not so where a parent was gone when the job came          *)
(* (addJob.lua sees a finished parent of its own queue only), or was       *)
(* deleted under it: compensation does not look for jobs that wait, and    *)
(* the maintenance walk has passed those that come late.                   *)
(***************************************************************************)
Releasable ==
    \A j \in FlowJobs \ (bereft \cup walk.found) :
        place[j] = "blocked" =>
            count[j] = Cardinality({d \in FlowJobs : <<d, j>> \in kids /\ ~Gone(d)})

(***************************************************************************)
(* A counter belongs to a blocked job.  Only a deleted job that a parent   *)
(* outside the flow still lists gets one of its own, below zero and for    *)
(* ever, when that parent completes.                                       *)
(***************************************************************************)
CountsOwned == \A j \in counted : place[j] = "blocked" \/ j \in listed

(***************************************************************************)
(* When a deletion is over, no job that still waits for a job the deletion *)
(* took is left out of it, unless it came after the walk.  The job itself  *)
(* is gone unless it has no queue name and lives in another queue.         *)
(***************************************************************************)
PurgedTogether ==
    [][Purge => /\ \A j \in walk.found \ missed' : j \notin rec'
                /\ \A j \in FlowJobs \ late : place'[j] = "blocked" =>
                       \A d \in walk.found : <<d, j>> \notin kids]_flowVars

(***************************************************************************)
(* The views of two stored jobs show the edge between them at both ends,   *)
(* and the flow list leads to it, as the arrows between queues do.  The    *)
(* job waited for may lose the edge when the one that waits was credited,  *)
(* or deprived of it, and others wait (server.js:613).  A job is shown as  *)
(* unknown only where a compensated one is still listed, and a job that is *)
(* being deleted is left out.                                              *)
(***************************************************************************)
ViewsAgree ==
    \A x \in rec : LET seen == WaitersShown(x) IN
        /\ seen \subseteq rec \cup listed
        /\ \A c \in seen \cap rec : x \in NeedsShown(c) /\ c \in FlowList
        /\ \A c \in rec \ (seen \cup walk.found) : x \in NeedsShown(c) =>
               Found(x) # {} /\ (<<x, c>> \notin pars \/ c \in bereft)
        /\ \A c \in seen \cap rec : place[c] = "blocked" /\ QueueOf[x] # QueueOf[c] =>
               <<QueueOf[x], QueueOf[c]>> \in QueueArrows

\* Whatever fails while a flow is added: blocked jobs can be released, counters
\* have owners, and a failed flow leaves nothing, but for what Releasable,
\* CountsOwned and FailedFlowIsGone name (flowProducer.js:78, :144).
FlowSound == FlowTypeOK /\ Releasable /\ CountsOwned /\ FailedFlowIsGone
=============================================================================
