----------------------------- MODULE QueuePage -----------------------------
(***************************************************************************)
(* The page of one queue: the range and the refresh the user chooses, the  *)
(* loads this starts, whose answers come in any order and are all applied, *)
(* and the table of jobs with its tabs, groups of failures and pages.      *)
(***************************************************************************)
EXTENDS Clock, FiniteSets

CONSTANTS
    Ranges,     \* 1h, 24h, 7d
    Groups,     \* groups of failure reasons
    Answers,    \* how many jobs each list may have: [{"active"} \cup Groups -> Nat]
    Loads,      \* loads that may be under way at one time
    NoGroup     \* null

NoRange == "none"

ASSUME QueuePageAssumption ==
    /\ "24h" \in Ranges /\ Loads # {}
    /\ NoGroup \notin Groups /\ "active" \notin Groups /\ IsFiniteSet(Groups)
    /\ NoRange \notin Ranges /\ Answers \subseteq [{"active"} \cup Groups -> Nat]

VARIABLES
    chosen,     \* timeRange, and whether refreshInterval is not Off
    table,      \* activeTab, selectedFailureGroup, currentPage, pageSize
    shown,      \* what the last answer said, and for which range
    load,       \* loadData at its await
    action,     \* a button's request that is under way, with the loadData it will call
    content     \* the jobs of the queue, as the server counts them

\* History, beside what a load carries of it (the loads that were under way
\* when it was asked, and whether one asked later has been shown): whether the
\* answer for the chosen range was overtaken, lost, or undone by a button; and
\* whether the list got shorter than the user's page, or lost the user's group.
VARIABLES missed, shrunk, vanished

queuePageVars == <<chosen, table, shown, load, action, content,
                   missed, shrunk, vanished>>

NoLoad == [range |-> NoRange, button |-> FALSE, older |-> {}, late |-> FALSE]
NoAction == NoRange
Q == shown.range # NoRange      \* q: the page has had an answer
----------------------------------------------------------------------------
CeilOf(a, b) == (a + b - 1) \div b

\* failureGroups, displayedJobs
HasGroup(jobs, g) == jobs[g] > 0
Total(t, jobs) ==
    IF t.tab = "active" THEN jobs["active"]
    ELSE IF t.group # NoGroup THEN jobs[t.group]
    ELSE Cardinality(UNION {{g} \X (1..jobs[g]) : g \in Groups})

TotalPages(t, jobs) == IF Total(t, jobs) = 0 THEN 1 ELSE CeilOf(Total(t, jobs), t.size)

Rows(t, jobs) ==    \* paginatedJobs, by their places in displayedJobs
    {i \in 1..Total(t, jobs) : (t.page - 1) * t.size < i /\ i <= t.page * t.size}

\* The numbers on the page buttons, of five at most.
ButtonsUnclamped(pages, page) ==
    [i \in 1..(IF pages < 5 THEN pages ELSE 5) |->
        IF pages > 5 /\ page > 3 THEN page - 3 + i ELSE i]

Buttons(pages, page) ==
    [i \in 1..(IF pages < 5 THEN pages ELSE 5) |->
        IF pages > 5 /\ page > 3
        THEN IF page + 2 > pages THEN pages - 5 + i ELSE page - 3 + i
        ELSE i]
----------------------------------------------------------------------------
LoadFor(i, range, button) ==
    /\ load[i] = NoLoad
    /\ load' = [load EXCEPT ![i] = [range |-> range, button |-> button, late |-> FALSE,
                                   older |-> {k \in Loads : load[k] # NoLoad}]]

Ended(i) == [k \in Loads |-> IF k = i THEN NoLoad ELSE [load[k] EXCEPT !.older = @ \ {i}]]

\* The effect on [name, timeRange, refreshInterval]: load, then set the timer.
EffectWhenOn(i, range) ==
    IF chosen.refresh THEN LoadFor(i, range, FALSE) ELSE UNCHANGED load

Effect(i, range) == LoadFor(i, range, FALSE)

ChooseRange(i, range) ==
    /\ range # chosen.range /\ Event
    /\ chosen' = [chosen EXCEPT !.range = range]
    /\ Effect(i, range)
    /\ missed' = FALSE
    /\ UNCHANGED <<table, shown, action, content, shrunk, vanished>>

ChooseRefresh(i) ==
    /\ Event
    /\ chosen' = [chosen EXCEPT !.refresh = ~@]
    /\ Effect(i, chosen.range)
    /\ UNCHANGED <<table, shown, action, content, missed, shrunk, vanished>>

Poll(i) ==
    /\ chosen.refresh
    /\ LoadFor(i, chosen.range, FALSE)
    /\ UNCHANGED <<now, events, chosen, table, shown, action, content, missed, shrunk, vanished>>

\* A load for another range is under way that was asked later than i.
Undercut(i) ==
    \E k \in Loads \ {i} : load[k].range \notin {NoRange, chosen.range} /\ k \notin load[i].older

\* The answer is applied whatever has been chosen or shown since.
Shows(i, c) ==
    /\ load[i] # NoLoad
    /\ load' = [k \in Loads |-> [Ended(i)[k] EXCEPT !.late = @ \/ k \in load[i].older]]
    /\ shown' = [range |-> load[i].range, jobs |-> c]
    /\ missed' = IF load[i].range = chosen.range THEN missed /\ Undercut(i)
                 ELSE missed \/ load[i].button \/ load[i].late
    /\ shrunk' = (table.page > TotalPages(table, c))
    /\ vanished' = (table.group # NoGroup /\ ~HasGroup(c, table.group))
    /\ UNCHANGED <<now, events, chosen, table, action, content>>

\* quiet fallback
LoadLost(i) ==
    /\ load[i] # NoLoad /\ Event /\ load' = Ended(i)
    /\ missed' = (missed \/ load[i].range = chosen.range)
    /\ UNCHANGED <<chosen, table, shown, action, content, shrunk, vanished>>

\* Retry all, clean, pause: when the request is answered the page loads what
\* the button was drawn with.
Press ==
    /\ Q /\ action = NoAction /\ Event
    /\ action' = chosen.range
    /\ UNCHANGED <<chosen, table, shown, load, content, missed, shrunk, vanished>>

PressAnswered(i, c) ==
    /\ action # NoAction /\ action' = NoAction
    /\ LoadFor(i, action, TRUE) /\ content' = c
    /\ UNCHANGED <<now, events, chosen, table, shown, missed, shrunk, vanished>>

PressFails ==
    /\ action # NoAction /\ action' = NoAction
    /\ UNCHANGED <<now, events, chosen, table, shown, load, content, missed, shrunk, vanished>>

Changes(c) ==
    /\ Event /\ content' = c
    /\ UNCHANGED <<chosen, table, shown, load, action, missed, shrunk, vanished>>
----------------------------------------------------------------------------
\* The effect on [activeTab, selectedFailureGroup].
KeepPage(t) == t
ToFirst(t) == [t EXCEPT !.page = 1]

TurnTo(t) ==
    /\ Q /\ t # table /\ table' = t /\ Event
    /\ shrunk' = (shrunk /\ t.page > TotalPages(t, shown.jobs))
    /\ vanished' = (vanished /\ t.group = table.group)
    /\ UNCHANGED <<chosen, shown, load, action, content, missed>>

Tab(tab) == TurnTo(ToFirst([table EXCEPT !.tab = tab, !.group = NoGroup]))

Group(g) ==
    /\ table.tab = "failed" /\ HasGroup(shown.jobs, g)
    /\ TurnTo(ToFirst([table EXCEPT !.group = IF g = @ THEN NoGroup ELSE g]))

Size(n) == TurnTo([table EXCEPT !.size = n, !.page = 1])

Previous == table.page # 1 /\ TurnTo([table EXCEPT !.page = @ - 1])

NextPage ==
    LET pages == TotalPages(table, shown.jobs) IN
    /\ table.page # pages
    /\ TurnTo([table EXCEPT !.page = IF pages < @ + 1 THEN pages ELSE @ + 1])

Numbered(k) ==
    LET pages == TotalPages(table, shown.jobs) IN
    /\ k \in DOMAIN Buttons(pages, table.page)
    /\ TurnTo([table EXCEPT !.page = Buttons(pages, table.page)[k]])

Turns ==
    /\ Q
    /\ \/ \E t \in {"active", "failed"} : Tab(t)
       \/ \E g \in Groups : Group(g)
       \/ Total(table, shown.jobs) > 0 /\
            (Previous \/ NextPage \/ (\E n \in 1..2 : Size(n)) \/ (\E k \in 1..5 : Numbered(k)))
----------------------------------------------------------------------------
QueuePageInit ==
    /\ chosen = [range |-> "24h", refresh |-> TRUE]
    /\ load = [i \in Loads |-> IF i = CHOOSE x \in Loads : TRUE
                               THEN [NoLoad EXCEPT !.range = "24h"] ELSE NoLoad]
    /\ table = [tab |-> "active", group |-> NoGroup, page |-> 1, size |-> 1]
    /\ content \in Answers
    /\ shown = [range |-> NoRange, jobs |-> [l \in {"active"} \cup Groups |-> 0]]
    /\ action = NoAction /\ missed = FALSE /\ shrunk = FALSE /\ vanished = FALSE

QueuePageStep ==
    \/ \E i \in Loads :
          \/ \E r \in Ranges : ChooseRange(i, r)
          \/ ChooseRefresh(i) \/ Poll(i) \/ Shows(i, content) \/ LoadLost(i)
          \/ \E c \in Answers : PressAnswered(i, c)
    \/ Press \/ PressFails \/ Turns
    \/ \E c \in Answers : Changes(c)
----------------------------------------------------------------------------
QueuePageTypeOK ==
    /\ chosen.range \in Ranges /\ chosen.refresh \in BOOLEAN
    /\ table.tab \in {"active", "failed"} /\ table.group \in Groups \cup {NoGroup}
    /\ table.page \in Nat \ {0} /\ table.size \in Nat \ {0}
    /\ shown.range \in Ranges \cup {NoRange} /\ content \in Answers
    /\ \A i \in Loads : load[i].range \in Ranges \cup {NoRange} /\ load[i].older \subseteq Loads \ {i}
    /\ action \in Ranges \cup {NoAction}

\* The page comes to show the range that was chosen: if it shows another one,
\* a load for the chosen one is under way, unless an older load was answered
\* later, a button had been pressed before the range was chosen, or the load
\* failed.  With the refresh off nothing corrects these
\* (dashboard/src/app/queues/[name]/page.tsx:147).
RangeShown ==
    Q /\ shown.range # chosen.range /\ ~missed =>
        \E i \in Loads : load[i].range = chosen.range

\* The buttons count on within the pages there are, and include the current
\* one if it exists.
ButtonsSound ==
    \A pages, page \in 1..9 :
        LET b == Buttons(pages, page) IN
        /\ \A k \in DOMAIN b : b[k] \in 1..pages
        /\ \A k \in DOMAIN b : k > 1 => b[k] = b[k - 1] + 1
        /\ page <= pages => \E k \in DOMAIN b : b[k] = page

\* A table that has jobs shows some, with the page among the buttons, unless
\* the list has become shorter since the user turned to the page; a group can
\* be left by the button that chose it, unless its last job has gone
\* (page.tsx:65).
TableShowsRows ==
    /\ Q => ButtonsSound
    /\ Total(table, shown.jobs) > 0 /\ ~shrunk =>
          /\ Rows(table, shown.jobs) # {}
          /\ \E k \in DOMAIN Buttons(TotalPages(table, shown.jobs), table.page) :
                Buttons(TotalPages(table, shown.jobs), table.page)[k] = table.page
    /\ table.group # NoGroup /\ ~vanished => table.tab = "failed" /\ HasGroup(shown.jobs, table.group)
=============================================================================
