------------------------------ MODULE MCMonitor ------------------------------
(* Small instances of Monitor for TLC. *)
EXTENDS Monitor, TLC

\* Threads, monitors and nodes are interchangeable.
Symmetry ==
    Permutations(Threads) \cup Permutations(Monitors)
        \cup Permutations(Nodes) \cup Permutations(Objects)
=============================================================================
