-------------------------- MODULE MCPosixWaitObject --------------------------
(* Small instances of PosixWaitObject for TLC. *)
EXTENDS PosixWaitObject, TLC

\* Threads are interchangeable.
Symmetry == Permutations(Threads)
=============================================================================
