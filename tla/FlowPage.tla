------------------------------ MODULE FlowPage ------------------------------
(***************************************************************************)
(* The flow page of the dashboard: a graph of jobs that grows as the user  *)
(* searches for a job or clicks on one.  Every look asks the server and    *)
(* goes on with the graph that was drawn when the user acted, whatever has *)
(* been drawn since.                                                       *)
(***************************************************************************)
EXTENDS Clock, FiniteSetsExt, Functions

CONSTANTS
    Tree,       \* the jobs of the flow
    Arrows,     \* <<c, p>>: p waits for c
    Looks,      \* requests that may be under way at one time
    Nobody      \* no job

ASSUME FlowPageAssumption ==
    Arrows \subseteq Tree \X Tree /\ Nobody \notin Tree /\ IsFiniteSet(Tree)

VARIABLES
    graph,      \* nodePositions (level and row of each node) and edges
    selected,   \* the job in the drawer
    loading,    \* the spinner that covers the graph
    look        \* handleLoadFlow and handleNodeClick at their await

\* History: the jobs whose neighbours were drawn by a look at them that
\* nothing has replaced, with the jobs that were drawn when it was asked;
\* and whether a click was answered for a graph that had changed since.
VARIABLES opened, overtaken

flowPageVars == <<graph, selected, loading, look, opened, overtaken>>

NoLook == [kind |-> "none", job |-> Nobody, base |-> {}]
Blank == [pos |-> << >>, edges |-> {}]

After(j) == {p \in Tree : <<j, p>> \in Arrows}
Before(j) == {c \in Tree : <<c, j>> \in Arrows}
Drawn(g) == DOMAIN g.pos
----------------------------------------------------------------------------
FirstRowTop(pos, level) == 0

\* Below what is drawn already at that level.
FirstRow(pos, level) ==
    LET rows == {pos[n][2] : n \in {m \in DOMAIN pos : pos[m][1] = level}}
    IN IF rows = {} THEN 0 ELSE Max(rows) + 1

Layout(pos, new, origin, step) ==
    LET level == pos[origin][1] + step
        place == CHOOSE f \in Bijection(new, 1..Cardinality(new)) : TRUE
    IN [n \in DOMAIN pos \cup new |->
           IF n \in DOMAIN pos THEN pos[n] ELSE <<level, FirstRow(pos, level) + place[n] - 1>>]

Opened(j) ==
    [pos |-> Layout(Layout([n \in {j} |-> <<0, 1>>], After(j), j, 1), Before(j), j, -1),
     edges |-> ({j} \X After(j)) \cup (Before(j) \X {j})]

\* The edges of a side are drawn only when a job on that side is new.
NewSide(side, g) == side \ Drawn(g)

ExpandedBlank(g, j) == Opened(j)

Expanded(g, j) ==
    LET up == NewSide(After(j), g)
        down == NewSide(Before(j), g)
    IN [pos |-> Layout(Layout(g.pos, up, j, 1), down, j, -1),
        edges |-> g.edges \cup (IF up = {} THEN {} ELSE {j} \X After(j))
                          \cup (IF down = {} THEN {} ELSE Before(j) \X {j})]
----------------------------------------------------------------------------
Search(i, j) ==
    /\ look[i] = NoLook /\ Event
    /\ look' = [look EXCEPT ![i] = [kind |-> "load", job |-> j, base |-> Blank]]
    /\ loading' = TRUE /\ selected' = Nobody
    /\ UNCHANGED <<graph, opened, overtaken>>

\* The spinner covers the graph: nothing can be clicked below it.
Click(i, j) ==
    /\ look[i] = NoLook /\ ~loading /\ j \in Drawn(graph) /\ Event
    /\ look' = [look EXCEPT ![i] = [kind |-> "click", job |-> j, base |-> graph]]
    /\ UNCHANGED <<graph, selected, loading, opened, overtaken>>

CloseDrawer ==
    /\ selected # Nobody /\ selected' = Nobody
    /\ UNCHANGED <<now, events, graph, loading, look, opened, overtaken>>

Loaded(i) ==
    /\ look[i].kind = "load"
    /\ graph' = Opened(look[i].job) /\ selected' = look[i].job
    /\ loading' = FALSE /\ look' = [look EXCEPT ![i] = NoLook]
    /\ opened' = [j \in {look[i].job} |-> {j}] /\ overtaken' = FALSE
    /\ UNCHANGED <<now, events>>

Clicked(i) ==
    /\ look[i].kind = "click"
    /\ graph' = Expanded(look[i].base, look[i].job) /\ selected' = look[i].job
    /\ look' = [look EXCEPT ![i] = NoLook]
    /\ opened' = [j \in DOMAIN opened \cup {look[i].job} |->
                   IF j = look[i].job THEN Drawn(look[i].base) ELSE opened[j]]
    /\ overtaken' = (overtaken \/ graph # look[i].base)
    /\ UNCHANGED <<now, events, loading>>

\* No record (404), or the request fails: the graph stays as it is.
LoadFails(i) ==
    /\ look[i].kind = "load" /\ look' = [look EXCEPT ![i] = NoLook]
    /\ loading' = FALSE
    /\ UNCHANGED <<now, events, graph, selected, opened, overtaken>>

ClickFails(i) ==
    /\ look[i].kind = "click" /\ look' = [look EXCEPT ![i] = NoLook]
    /\ UNCHANGED <<now, events, graph, selected, loading, opened, overtaken>>

FlowPageInit ==
    /\ graph = Blank /\ selected = Nobody /\ loading = FALSE
    /\ look = [i \in Looks |-> NoLook] /\ opened = << >> /\ overtaken = FALSE

FlowPageStep ==
    \/ CloseDrawer
    \/ \E i \in Looks :
          \/ \E j \in Tree : Search(i, j) \/ Click(i, j)
          \/ Loaded(i) \/ Clicked(i) \/ LoadFails(i) \/ ClickFails(i)
----------------------------------------------------------------------------
FlowPageTypeOK ==
    /\ Drawn(graph) \subseteq Tree /\ graph.edges \subseteq Tree \X Tree
    /\ \A n \in Drawn(graph) : graph.pos[n] \in Int \X Nat
    /\ selected \in Tree \cup {Nobody} /\ loading \in BOOLEAN
    /\ \A i \in Looks : look[i].kind \in {"none", "load", "click"}
    /\ DOMAIN opened \subseteq Tree /\ overtaken \in BOOLEAN

Linked(g, S) == S \cup {n \in Drawn(g) : \E m \in S : <<m, n>> \in g.edges \/ <<n, m>> \in g.edges}

\* No part of what is drawn is cut off from the rest.
InOnePiece(g) ==
    \A S \in SUBSET Drawn(g) : S # {} /\ Linked(g, S) = S => S = Drawn(g)

\* What is drawn is one piece of the flow: every edge is an arrow of it and
\* joins two drawn jobs, the jobs hang together, and no two are drawn in one
\* place; the drawer shows a drawn job, and the spinner belongs to a search
\* that is under way.  Any order of the answers may lead here, as a click
\* brings its own older graph back (dashboard/src/app/flow/page.tsx:264).
GraphDrawn ==
    LET J == Drawn(graph) IN
    /\ graph.edges \subseteq Arrows \cap (J \X J)
    /\ \A m, n \in J : m # n => graph.pos[m] # graph.pos[n]
    /\ InOnePiece(graph)
    /\ selected # Nobody => selected \in J
    /\ loading => \E i \in Looks : look[i].kind = "load"

\* A job that was opened stays open: its neighbours are drawn, and so are the
\* arrows to them, but for those of a side where every neighbour was drawn
\* before.  Only a click that is answered after the graph has changed throws
\* away what was opened since (page.tsx:366).
ExpansionsStay ==
    ~overtaken =>
        \A j \in DOMAIN opened :
            /\ After(j) \cup Before(j) \subseteq Drawn(graph)
            /\ After(j) \subseteq opened[j] \/ {j} \X After(j) \subseteq graph.edges
            /\ Before(j) \subseteq opened[j] \/ Before(j) \X {j} \subseteq graph.edges
=============================================================================
