---------------------------- MODULE LockContract ----------------------------
(***************************************************************************)
(* What System.Threading.Monitor promises its callers, with every call one *)
(* step: a lock per object that its holder may take again, and a set of    *)
(* threads that have left it to wait for a pulse.                          *)
(***************************************************************************)
EXTENDS Naturals

CONSTANTS
    Threads,    \* managed threads
    Objects,    \* the objects they lock
    Interrupts, \* may a user APC throw out of a Wait?
    NULL        \* no object

VARIABLES
    held,    \* thread -> object -> locks it has taken and not released
    waitsOn, \* thread -> the object whose Wait it is in, or NULL
    limit,   \* the timeout of the Wait a thread is in, "none" if in none
    pulsed   \* threads in a Wait a pulse has been spent on

vars == <<held, waitsOn, limit, pulsed>>

Init ==
    /\ held = [t \in Threads |-> [o \in Objects |-> 0]]
    /\ waitsOn = [t \in Threads |-> NULL]
    /\ limit = [t \in Threads |-> "none"]
    /\ pulsed = {}

Holder(t, o) == held[t][o] > 0 /\ waitsOn[t] # o

\* No other thread holds the lock of o.
Available(t, o) == \A u \in Threads \ {t} : ~Holder(u, o)

Enter(t, o) ==
    /\ waitsOn[t] = NULL
    /\ Available(t, o)
    /\ held' = [held EXCEPT ![t][o] = @ + 1]
    /\ UNCHANGED <<waitsOn, limit, pulsed>>

Exit(t, o) ==
    /\ Holder(t, o)
    /\ held' = [held EXCEPT ![t][o] = @ - 1]
    /\ UNCHANGED <<waitsOn, limit, pulsed>>

\* Wait lets go of the lock, however often it was taken ...
StartWait(t, o) ==
    /\ waitsOn[t] = NULL
    /\ Holder(t, o)
    /\ waitsOn' = [waitsOn EXCEPT ![t] = o]
    /\ \E l \in {"zero", "timed", "infinite"} : limit' = [limit EXCEPT ![t] = l]
    /\ UNCHANGED <<held, pulsed>>

\* ... and returns with it taken as often as before: after a pulse, after a timeout
\* if it was given one, or by the exception of an APC.
EndWait(t, o) ==
    /\ waitsOn[t] = o
    /\ Available(t, o)
    /\ limit[t] = "infinite" => t \in pulsed \/ Interrupts
    /\ waitsOn' = [waitsOn EXCEPT ![t] = NULL]
    /\ limit' = [limit EXCEPT ![t] = "none"]
    /\ pulsed' = pulsed \ {t}
    /\ UNCHANGED held

\* The threads a pulse may reach: those in a Wait of the same object that takes
\* time, for a Wait with a timeout of zero asks for none.
Waiters(o) == {u \in Threads : waitsOn[u] = o /\ limit[u] # "zero"}

\* Only the holder pulses: one waiter that no pulse has been spent on yet, or all
\* of them.
Pulse(t, o) ==
    /\ Holder(t, o)
    /\ \E u \in Waiters(o) \ pulsed : pulsed' = pulsed \cup {u}
    /\ UNCHANGED <<held, waitsOn, limit>>

PulseAll(t, o) ==
    /\ Holder(t, o)
    /\ pulsed' = pulsed \cup Waiters(o)
    /\ UNCHANGED <<held, waitsOn, limit>>

Next ==
    \E t \in Threads, o \in Objects :
        \/ Enter(t, o) \/ Exit(t, o) \/ StartWait(t, o) \/ EndWait(t, o)
        \/ Pulse(t, o) \/ PulseAll(t, o)

Spec == Init /\ [][Next]_vars
=============================================================================
