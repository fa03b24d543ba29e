------------------------------ MODULE WaitContract ------------------------------
(***************************************************************************)
(* What mutexes, semaphores and events promise the threads that use them:  *)
(* a call of Wait ends in one step, with the object, with a time-out it    *)
(* asked for, or with the exception of an APC another thread queued.       *)
(***************************************************************************)
EXTENDS Naturals

CONSTANTS Threads, Mutexes, Semaphores, AutoEvents, ManualEvents, MaximumValue,
          Throws, NULL

VARIABLES
    held,  \* thread -> mutex -> times it has locked it
    units, \* semaphore or event -> the units that are left
    call,  \* thread -> the Wait it is in, or NULL
    apcs   \* thread -> APCs queued on it

vars == <<held, units, call, apcs>>

Counted == Semaphores \cup AutoEvents \cup ManualEvents

Init ==
    /\ held = [t \in Threads |-> [o \in Mutexes |-> 0]]
    /\ units \in [Counted -> 0 .. MaximumValue]
    /\ call = [t \in Threads |-> NULL]
    /\ apcs = [t \in Threads |-> 0]

StartWait(t, o, time, alertable) ==
    /\ call[t] = NULL
    /\ call' = [call EXCEPT ![t] = [object |-> o, limit |-> time, alertable |-> alertable]]
    /\ UNCHANGED <<held, units, apcs>>

EndWait(t) == call[t] # NULL /\ call' = [call EXCEPT ![t] = NULL]

\* A mutex goes to one thread; a semaphore gives one unit, an auto-reset event
\* its only one, and a manual-reset event stays set.
Succeed(t) ==
    /\ EndWait(t)
    /\ LET o == call[t].object IN
         \/ /\ o \in Mutexes
            /\ \A u \in Threads : held[u][o] = 0
            /\ held' = [held EXCEPT ![t][o] = 1]
            /\ UNCHANGED units
         \/ /\ o \in Counted
            /\ units[o] > 0
            /\ units' = IF o \in ManualEvents THEN units ELSE [units EXCEPT ![o] = @ - 1]
            /\ UNCHANGED held
    /\ UNCHANGED apcs

TimeOut(t) ==
    /\ EndWait(t)
    /\ call[t].limit # "infinite"
    /\ UNCHANGED <<held, units, apcs>>

RunAPC(t) ==
    /\ call[t] # NULL
    /\ call[t].alertable
    /\ call[t].limit # "zero"
    /\ apcs[t] > 0
    /\ apcs' = [apcs EXCEPT ![t] = @ - 1]
    /\ \/ UNCHANGED call
       \/ Throws /\ EndWait(t)
    /\ UNCHANGED <<held, units>>

QueueAPC(u) ==
    /\ apcs' = [apcs EXCEPT ![u] = @ + 1]
    /\ UNCHANGED <<held, units, call>>

\* The holder locks once more, or unlocks one level.
Relock(t, o) ==
    /\ held[t][o] > 0
    /\ held' = [held EXCEPT ![t][o] = @ + 1]
    /\ UNCHANGED <<units, call, apcs>>

Unlock(t, o) ==
    /\ held[t][o] > 0
    /\ held' = [held EXCEPT ![t][o] = @ - 1]
    /\ UNCHANGED <<units, call, apcs>>

\* Post, Set and Reset; or the object is deleted and a new one created.
Refill(o) ==
    /\ \E n \in 0 .. MaximumValue :
         /\ units' = [units EXCEPT ![o] = n]
         /\ n < units[o] =>
              \/ o \in AutoEvents \cup ManualEvents
              \/ \A t \in Threads : call[t] # NULL => call[t].object # o
    /\ UNCHANGED <<held, call, apcs>>

Next ==
    \/ \E t \in Threads :
         \/ \E o \in Mutexes \cup Counted, time \in {"zero", "timed", "infinite"},
               alertable \in BOOLEAN : StartWait(t, o, time, alertable)
         \/ Succeed(t) \/ TimeOut(t) \/ RunAPC(t) \/ QueueAPC(t)
         \/ \E o \in Mutexes : Relock(t, o) \/ Unlock(t, o)
    \/ \E o \in Counted : Refill(o)

Spec == Init /\ [][Next]_vars
=============================================================================
