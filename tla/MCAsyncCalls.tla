----------------------------- MODULE MCAsyncCalls -----------------------------
(***************************************************************************)
(* Two programs: one makes a call whose delegate makes another, and a call *)
(* with a callback; the other makes three calls on two sockets, which wait *)
(* for those to be ready, and one on a socket that is closed.              *)
(***************************************************************************)
EXTENDS ThreadPool, SocketPolling, TLC

CONSTANTS a, b, c, in1, out1, in2, gone, fd1, fd2

MCParent == (a :> None) @@ (b :> a) @@ (c :> None)
MCFd == (in1 :> fd1) @@ (out1 :> fd1) @@ (in2 :> fd2) @@ (gone :> NoFd)
MCInterest == (in1 :> "in") @@ (out1 :> "out") @@ (in2 :> "in") @@ (gone :> "in")

VARIABLE program

MCVars == <<vars, pollVars, program>>

MCInit == Init /\ PollInit /\ program \in {"calls", "sockets"}

MCNext ==
    /\ UNCHANGED program
    /\ \/ program = "calls" /\ Next /\ UNCHANGED pollVars
       \/ program = "sockets" /\ PollNext /\ UNCHANGED vars

MCSpec == MCInit /\ [][MCNext]_MCVars /\ Fairness /\ PollFairness

\* The type invariants of both.
TypeOK == PoolTypeOK /\ PollTypeOK

=============================================================================
