---------------------------- MODULE MCDashboard ----------------------------
EXTENDS Dashboard, TLC

CONSTANTS ja, jb, jc, jd, je

\* A diamond, and one more job that jd's second parent waits for.
MCArrows == {<<ja, jb>>, <<ja, jc>>, <<jb, jd>>, <<jc, jd>>, <<je, jc>>}

MCAnswers == {[active |-> 3, g1 |-> 1, g2 |-> 1], [active |-> 1, g1 |-> 2, g2 |-> 0]}

BrowserSymmetry == Permutations(Browsers)

\* The zone of the server, whether it asks for a login, and what a page does
\* have nothing to do with each other: a start looks at one of them.
MCInit ==
    /\ Init
    /\ disabled => offset = 0
    /\ page # "none" => ~disabled /\ offset = 0
    /\ page # "queue" => content = CHOOSE x \in Answers : TRUE

MCFocus == page # "none" => UNCHANGED <<now, serverVars>>

MCSpec == MCInit /\ [][Next]_vars
=============================================================================
