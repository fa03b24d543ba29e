------------------------- MODULE MCThreadLocalValue -------------------------
(* Small instances of ThreadLocalValue for TLC. *)
EXTENDS ThreadLocalValue, TLC

\* Threads and objects are interchangeable.
Symmetry == Permutations(Threads) \cup Permutations(Objects)
=============================================================================
