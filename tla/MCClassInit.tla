----------------------------- MODULE MCClassInit -----------------------------
\* Instances of ClassInit for TLC.
EXTENDS ClassInit, TLC

CONSTANTS A, B, C

Edges(a, b, c) == (A :> a) @@ (B :> b) @@ (C :> c)

\* Programs, one for each shape that two threads can tell apart: a fork and a
\* join, a shared dependency, a circle of two with a way in, a circle of three.
Programs == {Edges({B, C}, {C}, {}), Edges({C}, {C}, {}),
             Edges({B}, {A}, {A}), Edges({B}, {C}, {A})}

MCInit == Init /\ uses \in Programs
MCSpec == MCInit /\ [][Next]_vars /\ \A t \in Threads : WF_vars(Step(t))
=============================================================================
