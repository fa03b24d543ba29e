--------------------------- MODULE MCManagedThreads ---------------------------
(***************************************************************************)
(* Small programs: one starts a thread and aborts or interrupts it while   *)
(* another thread attaches itself; one does both to its only thread, in a  *)
(* build without and with NET_4_0; and one starts two threads, of which    *)
(* any number are background threads at shutdown.                          *)
(***************************************************************************)
EXTENDS ManagedThreads

CONSTANTS t1, t2, f

VARIABLE program

Programs ==
    [threads : {{t1, f}}, requests : {{"abort"}, {"interrupt"}}, net40 : {FALSE}]
    \cup [threads : {{t1}}, requests : {{"abort", "interrupt"}}, net40 : BOOLEAN]
    \cup [threads : {{t1, t2}}, requests : {{}}, net40 : {FALSE}]

MCInit ==
    /\ Init
    /\ program \in Programs
    /\ net40 = program.net40

\* The program leaves the threads it does not have alone, and makes no other
\* requests than its own.
Keeps(p) ==
    /\ \A t \in Threads \ p.threads :
         <<place'[t], state'[t], interruptionRequested'[t]>> = <<"new", {}, FALSE>>
    /\ \A t \in Threads :
         /\ interruptionRequested'[t] => "interrupt" \in p.requests
         /\ "AbortRequested" \in state'[t] \/ ("Aborted" \in state'[t] /\ place'[t] = "new")
              => "abort" \in p.requests

MCNext == Next /\ Keeps(program) /\ UNCHANGED program

MCSpec == MCInit /\ [][MCNext]_<<vars, program>> /\ Fairness

=============================================================================
