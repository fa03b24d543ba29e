---------------------------- MODULE PosixWaitObject ----------------------------
(***************************************************************************)
(* The wait objects of IL2CPP/libil2cpp/os/Posix: mutexes, semaphores and  *)
(* events over one pthread mutex and one condition variable each, whose    *)
(* waits can time out and can be interrupted by a user APC that another    *)
(* thread queues.                                                          *)
(*                                                                         *)
(* Abstractions.  What an operation does while it holds m_Mutex and nobody *)
(* else can see is one step; a thread keeps m_Mutex between two steps only *)
(* inside Wait.  A critical section of m_PendingAPCsMutex is one step.     *)
(* m_OwningThread is set with the count: until then only its own thread    *)
(* can tell.  A condition variable may wake a thread without a reason.     *)
(***************************************************************************)
EXTENDS Naturals, FiniteSets

CONSTANTS
    Threads,        \* threads
    Mutexes, Semaphores, AutoEvents, ManualEvents,  \* the wait objects
    InitialCount,   \* the count a semaphore starts with
    MaximumValue,   \* the most a semaphore may hold
    Limits,         \* kinds of timeout callers give
    Interruptibles, \* values callers give for "interruptible"
    Throws,         \* may a user APC throw?
    MaxAPCs,        \* bound: APCs queued on one thread
    MaxDepth,       \* bound: times one thread locks a mutex
    NULL            \* the null pointer

WaitObjects == Mutexes \cup Semaphores \cup AutoEvents \cup ManualEvents
Events == AutoEvents \cup ManualEvents

ASSUME WaitObjectAssumption ==
    /\ IsFiniteSet(Threads)
    /\ NULL \notin Threads \cup WaitObjects
    /\ NULL \notin [object : WaitObjects, limit : {"zero", "timed", "infinite"},
                   alertable : BOOLEAN]    \* the contract's calls
    /\ Mutexes \cap (Semaphores \cup Events) = {}
    /\ Semaphores \cap Events = {}
    /\ AutoEvents \cap ManualEvents = {}
    /\ MaximumValue \in Nat \ {0}
    /\ InitialCount \in 0 .. MaximumValue
    /\ Limits \subseteq {"zero", "timed", "infinite"}
    /\ Interruptibles \subseteq BOOLEAN
    /\ Throws \in BOOLEAN
    /\ MaxAPCs \in Nat
    /\ MaxDepth \in Nat \ {0}

VARIABLES
    count,         \* object -> m_Count
    waitingCount,  \* object -> m_WaitingThreadCount
    mutex,         \* object -> the thread that keeps m_Mutex, or NULL
    owningThread,  \* mutex -> m_OwningThread
    recursion,     \* mutex -> m_RecursionCount
    destroyed,     \* objects that have been deleted
    deletionLock,  \* the thread that keeps s_WaitObjectDeletionLock, or NULL
    pc,            \* thread -> where it stands
    object,        \* thread -> the object of its current call
    limit,         \* thread -> the timeout of its wait
    interruptible, \* thread -> may APCs interrupt its wait?
    timedOut,      \* thread -> is its local variable waitStatus a timeout?
    waitObject,    \* thread -> m_CurrentWaitObject
    pendingAPCs,   \* thread -> length of m_PendingAPCs
    target,        \* thread -> the thread it queues an APC on
    depth          \* thread -> mutex -> locks its caller takes it to hold

objectVars == <<count, waitingCount, mutex, owningThread, recursion, destroyed>>
callVars == <<object, limit, interruptible, timedOut>>
apcVars == <<deletionLock, waitObject, pendingAPCs, target>>
vars == <<objectVars, callVars, apcVars, pc, depth>>

PCs == {"idle", "upFront", "lock", "registered", "loop", "blocked", "woken",
        "check", "leave", "lastCheck", "finish", "queue", "interrupt"}

\* In Wait, between locking m_Mutex and the end.
InWait(t) ==
    pc[t] \in {"registered", "loop", "blocked", "woken", "check", "leave",
               "lastCheck", "finish"}

\* The count an object is created with.
FreshCounts(o) ==
    IF o \in Mutexes THEN {1} ELSE IF o \in Semaphores THEN {InitialCount} ELSE {0, 1}

-----------------------------------------------------------------------------
Init ==
    /\ count \in {f \in [WaitObjects -> 0 .. MaximumValue + 1] :
                    \A o \in WaitObjects : f[o] \in FreshCounts(o)}
    /\ waitingCount = [o \in WaitObjects |-> 0]
    /\ mutex = [o \in WaitObjects |-> NULL]
    /\ owningThread = [o \in Mutexes |-> NULL]
    /\ recursion = [o \in Mutexes |-> 0]
    /\ destroyed = {}
    /\ deletionLock = NULL
    /\ pc = [t \in Threads |-> "idle"]
    /\ object = [t \in Threads |-> NULL]
    /\ limit = [t \in Threads |-> "infinite"]
    /\ interruptible = [t \in Threads |-> FALSE]
    /\ timedOut = [t \in Threads |-> FALSE]
    /\ waitObject = [t \in Threads |-> NULL]
    /\ pendingAPCs = [t \in Threads |-> 0]
    /\ target = [t \in Threads |-> NULL]
    /\ depth = [t \in Threads |-> [o \in Mutexes |-> 0]]

\* t goes on at a label, and the threads in "awake" return from their
\* pthread_cond_wait.
Move(t, label, awake) ==
    pc' = [u \in Threads |-> IF u \in awake THEN "woken"
                             ELSE IF u = t THEN label ELSE pc[u]]

Goto(t, label) == Move(t, label, {})

Blocked(o) == {t \in Threads : pc[t] = "blocked" /\ object[t] = o}

\* The threads one pthread_cond_signal may wake.
Signalled(o) ==
    IF Blocked(o) = {} THEN {{}} ELSE {{t} : t \in Blocked(o)}

\* The current call of t is over.
EndCall(t, awake) ==
    /\ Move(t, "idle", awake)
    /\ object' = [object EXCEPT ![t] = NULL]
    /\ limit' = [limit EXCEPT ![t] = "infinite"]
    /\ interruptible' = [interruptible EXCEPT ![t] = FALSE]
    /\ timedOut' = [timedOut EXCEPT ![t] = FALSE]

-----------------------------------------------------------------------------
(* ThreadImpl::CheckForUserAPCAndHandle, at its four calls in Wait *)

APCPoints == {"upFront", "registered", "check", "lastCheck"}

NoMoreAPCs(t) ==
    /\ pc[t] \in APCPoints
    /\ pendingAPCs[t] = 0
    /\ Goto(t, CASE pc[t] = "upFront" -> "lock"
                 [] pc[t] = "lastCheck" -> "finish"
                 [] OTHER -> "loop")
    /\ UNCHANGED <<objectVars, callVars, apcVars, depth>>

HandleAPC(t) ==
    /\ pc[t] \in APCPoints
    /\ pendingAPCs[t] > 0
    /\ pendingAPCs' = [pendingAPCs EXCEPT ![t] = @ - 1]
    /\ UNCHANGED <<objectVars, callVars, pc, deletionLock, waitObject, target,
                   depth>>

\* The APC throws: Wait's handler unties the thread, and the lock goes.
APCThrows(t) ==
    /\ Throws
    /\ pc[t] \in APCPoints
    /\ pendingAPCs[t] > 0
    /\ pendingAPCs' = [pendingAPCs EXCEPT ![t] = @ - 1]
    /\ waitObject' = [waitObject EXCEPT ![t] = NULL]
    /\ mutex' = IF InWait(t) THEN [mutex EXCEPT ![object[t]] = NULL] ELSE mutex
    /\ EndCall(t, {})
    /\ UNCHANGED <<count, waitingCount, owningThread, recursion, destroyed,
                   deletionLock, target, depth>>

-----------------------------------------------------------------------------
(* PosixWaitObject::Wait, and MutexImpl::TryLock around it *)

Idle(t, o) == pc[t] = "idle" /\ o \notin destroyed

LockRecursively(t, o) ==
    /\ Idle(t, o)
    /\ o \in Mutexes
    /\ owningThread[o] = t
    /\ depth[t][o] < MaxDepth
    /\ recursion' = [recursion EXCEPT ![o] = @ + 1]
    /\ depth' = [depth EXCEPT ![t][o] = @ + 1]
    /\ UNCHANGED <<count, waitingCount, mutex, owningThread, destroyed, callVars,
                   apcVars, pc>>

Wait(t, o, time, alertable) ==
    /\ Idle(t, o)
    /\ o \in Mutexes => owningThread[o] # t
    /\ Goto(t, IF alertable /\ time # "zero" THEN "upFront" ELSE "lock")
    /\ object' = [object EXCEPT ![t] = o]
    /\ limit' = [limit EXCEPT ![t] = time]
    /\ interruptible' = [interruptible EXCEPT ![t] = alertable]
    /\ UNCHANGED <<objectVars, timedOut, apcVars, depth>>

\* Mutant: no thread is signalled when a semaphore has more releases.
AcquireWithoutChain(t, o) ==
    /\ count' = IF o \in ManualEvents THEN count
                ELSE [count EXCEPT ![o] = IF o \in Semaphores THEN @ - 1 ELSE 0]
    /\ EndCall(t, {})

\* The object is free: t takes it and returns.
Acquire(t, o) ==
    \/ /\ o \in ManualEvents
       /\ UNCHANGED count
       /\ EndCall(t, {})
    \/ /\ o \in Mutexes \cup AutoEvents
       /\ count' = [count EXCEPT ![o] = 0]
       /\ EndCall(t, {})
    \/ /\ o \in Semaphores
       /\ count' = [count EXCEPT ![o] = @ - 1]
       /\ \E awake \in IF count[o] > 1 /\ waitingCount[o] # 0 THEN Signalled(o) ELSE {{}} :
            EndCall(t, awake)

\* TryLock after a successful Wait.
Own(t, o) ==
    IF o \in Mutexes
    THEN /\ owningThread' = [owningThread EXCEPT ![o] = t]
         /\ recursion' = [recursion EXCEPT ![o] = 1]
         /\ depth' = [depth EXCEPT ![t][o] = 1]
    ELSE UNCHANGED <<owningThread, recursion, depth>>

AcquireAtOnce(t) ==
    /\ pc[t] = "lock"
    /\ mutex[object[t]] = NULL
    /\ count[object[t]] > 0
    /\ Acquire(t, object[t])
    /\ Own(t, object[t])
    /\ UNCHANGED <<waitingCount, mutex, destroyed, apcVars>>

RefuseAtOnce(t) ==
    /\ pc[t] = "lock"
    /\ mutex[object[t]] = NULL
    /\ count[object[t]] = 0
    /\ limit[t] = "zero"
    /\ EndCall(t, {})
    /\ UNCHANGED <<objectVars, apcVars, depth>>

\* m_Mutex is locked and stays so until the thread blocks; SetWaitObject(this).
StartWaiting(t) ==
    /\ pc[t] = "lock"
    /\ mutex[object[t]] = NULL
    /\ count[object[t]] = 0
    /\ limit[t] # "zero"
    /\ mutex' = [mutex EXCEPT ![object[t]] = t]
    /\ IF interruptible[t]
       THEN /\ waitObject' = [waitObject EXCEPT ![t] = object[t]]
            /\ Goto(t, "registered")
       ELSE /\ UNCHANGED waitObject
            /\ Goto(t, "loop")
    /\ UNCHANGED <<count, waitingCount, owningThread, recursion, destroyed,
                   callVars, deletionLock, pendingAPCs, target, depth>>

\* pthread_cond_wait gives m_Mutex away and blocks in one step.
Block(t) ==
    /\ pc[t] = "loop"
    /\ count[object[t]] = 0
    /\ waitingCount' = [waitingCount EXCEPT ![object[t]] = @ + 1]
    /\ mutex' = [mutex EXCEPT ![object[t]] = NULL]
    /\ Goto(t, "blocked")
    /\ UNCHANGED <<count, owningThread, recursion, destroyed, callVars, apcVars,
                   depth>>

\* ... and comes back with m_Mutex.
Reacquire(t) ==
    /\ pc[t] = "woken"
    /\ mutex[object[t]] = NULL
    /\ mutex' = [mutex EXCEPT ![object[t]] = t]
    /\ waitingCount' = [waitingCount EXCEPT ![object[t]] = @ - 1]
    /\ Goto(t, IF timedOut[t] THEN "leave"
               ELSE IF interruptible[t] THEN "check" ELSE "loop")
    /\ UNCHANGED <<count, owningThread, recursion, destroyed, callVars, apcVars,
                   depth>>

\* Mutant: "if" in place of "while".
LeaveUnchecked(t) ==
    /\ pc[t] = "loop"
    /\ Goto(t, "leave")
    /\ UNCHANGED <<objectVars, callVars, apcVars, depth>>

LeaveLoop(t) ==
    /\ pc[t] = "loop"
    /\ count[object[t]] > 0
    /\ Goto(t, "leave")
    /\ UNCHANGED <<objectVars, callVars, apcVars, depth>>

\* Mutant: there is no last look at the APCs.
UntieBlindly(t) ==
    /\ pc[t] = "leave"
    /\ waitObject' = [waitObject EXCEPT ![t] = NULL]
    /\ Goto(t, "finish")
    /\ UNCHANGED <<objectVars, callVars, deletionLock, pendingAPCs, target, depth>>

\* SetWaitObject(NULL).
Untie(t) ==
    /\ pc[t] = "leave"
    /\ waitObject' = [waitObject EXCEPT ![t] = NULL]
    /\ Goto(t, IF interruptible[t] THEN "lastCheck" ELSE "finish")
    /\ UNCHANGED <<objectVars, callVars, deletionLock, pendingAPCs, target, depth>>

AcquireAfterWait(t) ==
    /\ pc[t] = "finish"
    /\ ~timedOut[t]
    /\ mutex' = [mutex EXCEPT ![object[t]] = NULL]
    /\ Acquire(t, object[t])
    /\ Own(t, object[t])
    /\ UNCHANGED <<waitingCount, destroyed, apcVars>>

ReturnTimeout(t) ==
    /\ pc[t] = "finish"
    /\ timedOut[t]
    /\ mutex' = [mutex EXCEPT ![object[t]] = NULL]
    /\ EndCall(t, {})
    /\ UNCHANGED <<count, waitingCount, owningThread, recursion, destroyed,
                   apcVars, depth>>

\* pthread_cond_timedwait gives up, or either wait returns without a reason.
TimesOut(t) ==
    /\ pc[t] = "blocked"
    /\ limit[t] = "timed"
    /\ Goto(t, "woken")
    /\ timedOut' = [timedOut EXCEPT ![t] = TRUE]
    /\ UNCHANGED <<objectVars, object, limit, interruptible, apcVars, depth>>

WakesSpuriously(t) ==
    /\ pc[t] = "blocked"
    /\ Goto(t, "woken")
    /\ UNCHANGED <<objectVars, callVars, apcVars, depth>>

-----------------------------------------------------------------------------
(* The operations that release an object.  Each locks m_Mutex throughout. *)

\* An idle thread gets m_Mutex for the length of one step.
Free(t, o) == Idle(t, o) /\ mutex[o] = NULL

\* Mutant: the last level unlocks nothing.
UnlockQuietly(t, o) ==
    /\ Free(t, o)
    /\ owningThread[o] = t
    /\ recursion[o] = 1
    /\ recursion' = [recursion EXCEPT ![o] = 0]
    /\ owningThread' = [owningThread EXCEPT ![o] = NULL]
    /\ count' = [count EXCEPT ![o] = 1]
    /\ depth' = [depth EXCEPT ![t][o] = @ - 1]
    /\ UNCHANGED <<waitingCount, mutex, destroyed, callVars, apcVars, pc>>

\* Mutant: a recursive lock is released as a whole.
UnlockAllLevels(t, o) ==
    /\ Free(t, o)
    /\ owningThread[o] = t
    /\ recursion[o] > 1
    /\ recursion' = [recursion EXCEPT ![o] = @ - 1]
    /\ count' = [count EXCEPT ![o] = 1]
    /\ depth' = [depth EXCEPT ![t][o] = @ - 1]
    /\ UNCHANGED <<waitingCount, mutex, owningThread, destroyed, callVars, apcVars,
                   pc>>

UnlockRecursion(t, o) ==
    /\ Idle(t, o)
    /\ owningThread[o] = t
    /\ recursion[o] > 1
    /\ recursion' = [recursion EXCEPT ![o] = @ - 1]
    /\ depth' = [depth EXCEPT ![t][o] = @ - 1]
    /\ UNCHANGED <<count, waitingCount, mutex, owningThread, destroyed, callVars,
                   apcVars, pc>>

Unlock(t, o) ==
    /\ Free(t, o)
    /\ owningThread[o] = t
    /\ recursion[o] = 1
    /\ recursion' = [recursion EXCEPT ![o] = 0]
    /\ owningThread' = [owningThread EXCEPT ![o] = NULL]
    /\ count' = [count EXCEPT ![o] = 1]
    /\ \E awake \in IF waitingCount[o] # 0 THEN Signalled(o) ELSE {{}} :
         Move(t, "idle", awake)
    /\ depth' = [depth EXCEPT ![t][o] = @ - 1]
    /\ UNCHANGED <<waitingCount, mutex, destroyed, callVars, apcVars>>

\* Mutant: the maximum is not looked at.
PostUnbounded(t, o, releases) ==
    /\ Free(t, o)
    /\ count[o] <= MaximumValue
    /\ count' = [count EXCEPT ![o] = @ + releases]
    /\ \E awake \in Signalled(o) : Move(t, "idle", awake)
    /\ UNCHANGED <<waitingCount, mutex, owningThread, recursion, destroyed,
                   callVars, apcVars, depth>>

Post(t, o, releases) ==
    /\ Free(t, o)
    /\ count[o] + releases <= MaximumValue
    /\ count' = [count EXCEPT ![o] = @ + releases]
    /\ \E awake \in Signalled(o) : Move(t, "idle", awake)
    /\ UNCHANGED <<waitingCount, mutex, owningThread, recursion, destroyed,
                   callVars, apcVars, depth>>

\* Mutant: an event is set for one thread only.
SetForOne(t, o) ==
    /\ Free(t, o)
    /\ count' = [count EXCEPT ![o] = 1]
    /\ \E awake \in IF waitingCount[o] # 0 THEN Signalled(o) ELSE {{}} :
         Move(t, "idle", awake)
    /\ UNCHANGED <<waitingCount, mutex, owningThread, recursion, destroyed,
                   callVars, apcVars, depth>>

Set(t, o) ==
    /\ Free(t, o)
    /\ count' = [count EXCEPT ![o] = 1]
    /\ Move(t, "idle", IF waitingCount[o] # 0 THEN Blocked(o) ELSE {})
    /\ UNCHANGED <<waitingCount, mutex, owningThread, recursion, destroyed,
                   callVars, apcVars, depth>>

Reset(t, o) ==
    /\ Free(t, o)
    /\ count' = [count EXCEPT ![o] = 0]
    /\ UNCHANGED <<waitingCount, mutex, owningThread, recursion, destroyed,
                   callVars, apcVars, pc, depth>>

-----------------------------------------------------------------------------
(* ThreadImpl::QueueUserAPC and PosixWaitObject::~PosixWaitObject *)

QueueUserAPC(t, u) ==
    /\ pc[t] = "idle"
    /\ t # u
    /\ pendingAPCs[u] < MaxAPCs    \* bound
    /\ pendingAPCs' = [pendingAPCs EXCEPT ![u] = @ + 1]
    /\ target' = [target EXCEPT ![t] = u]
    /\ Goto(t, "queue")
    /\ UNCHANGED <<objectVars, callVars, deletionLock, waitObject, depth>>

FindWaitObject(t) ==
    /\ pc[t] = "queue"
    /\ deletionLock = NULL
    /\ target' = [target EXCEPT ![t] = NULL]
    /\ IF waitObject[target[t]] = NULL
       THEN Goto(t, "idle") /\ UNCHANGED <<deletionLock, object>>
       ELSE /\ deletionLock' = t
            /\ object' = [object EXCEPT ![t] = waitObject[target[t]]]
            /\ Goto(t, "interrupt")
    /\ UNCHANGED <<objectVars, limit, interruptible, timedOut, waitObject,
                   pendingAPCs, depth>>

InterruptWait(t) ==
    /\ pc[t] = "interrupt"
    /\ deletionLock' = NULL
    /\ EndCall(t, Blocked(object[t]))
    /\ UNCHANGED <<objectVars, waitObject, pendingAPCs, target, depth>>

\* No thread is in an operation on o or holds it: its owner may delete it.
Unused(o) ==
    /\ \A t \in Threads : object[t] = o => pc[t] = "interrupt"
    /\ o \in Mutexes => owningThread[o] = NULL

\* Mutant: the deletion does not take the lock.
DestroyUnlocked(o) ==
    /\ o \notin destroyed
    /\ Unused(o)
    /\ destroyed' = destroyed \cup {o}
    /\ UNCHANGED <<count, waitingCount, mutex, owningThread, recursion, callVars,
                   apcVars, pc, depth>>

Destroy(o) ==
    /\ o \notin destroyed
    /\ Unused(o)
    /\ deletionLock = NULL
    /\ destroyed' = destroyed \cup {o}
    /\ UNCHANGED <<count, waitingCount, mutex, owningThread, recursion, callVars,
                   apcVars, pc, depth>>

Create(o) ==
    /\ o \in destroyed
    /\ destroyed' = destroyed \ {o}
    /\ \E c \in FreshCounts(o) : count' = [count EXCEPT ![o] = c]
    /\ UNCHANGED <<waitingCount, mutex, owningThread, recursion, callVars,
                   apcVars, pc, depth>>

-----------------------------------------------------------------------------
\* Steps a running thread takes on its own inside a call.
Step(t) ==
    \/ NoMoreAPCs(t) \/ HandleAPC(t) \/ APCThrows(t)
    \/ AcquireAtOnce(t) \/ RefuseAtOnce(t) \/ StartWaiting(t) \/ Block(t)
    \/ Reacquire(t) \/ LeaveLoop(t) \/ Untie(t) \/ AcquireAfterWait(t)
    \/ ReturnTimeout(t) \/ FindWaitObject(t) \/ InterruptWait(t)

\* What the program running on the threads may ask for.
Call(t) ==
    \/ \E o \in WaitObjects :
         \/ \E time \in Limits, alertable \in Interruptibles :
              Wait(t, o, time, alertable)
         \/ o \in Mutexes /\
              (LockRecursively(t, o) \/ UnlockRecursion(t, o) \/ Unlock(t, o))
         \/ o \in Semaphores /\ \E releases \in 1 .. MaximumValue : Post(t, o, releases)
         \/ o \in Events /\ (Set(t, o) \/ Reset(t, o))
    \/ \E u \in Threads : QueueUserAPC(t, u)

Next ==
    \/ \E t \in Threads : Step(t) \/ TimesOut(t) \/ WakesSpuriously(t) \/ Call(t)
    \/ \E o \in WaitObjects : Destroy(o) \/ Create(o)

Spec == Init /\ [][Next]_vars

\* A thread that can run again and again does, also when others compete with it
\* for a lock; and time runs out.
FairSpec ==
    /\ Spec
    /\ \A t \in Threads : SF_vars(Step(t)) /\ WF_vars(TimesOut(t))
-----------------------------------------------------------------------------
(* What the wait objects promise *)

\* Every variable holds a value of its kind.
TypeOK ==
    /\ count \in [WaitObjects -> Nat]
    /\ \A o \in WaitObjects :
         count[o] <= IF o \in Semaphores THEN MaximumValue ELSE 1
    /\ waitingCount \in [WaitObjects -> Nat]
    /\ mutex \in [WaitObjects -> Threads \cup {NULL}]
    /\ owningThread \in [Mutexes -> Threads \cup {NULL}]
    /\ recursion \in [Mutexes -> Nat]
    /\ destroyed \in SUBSET WaitObjects
    /\ deletionLock \in Threads \cup {NULL}
    /\ pc \in [Threads -> PCs]
    /\ object \in [Threads -> WaitObjects \cup {NULL}]
    /\ limit \in [Threads -> {"zero", "timed", "infinite"}]
    /\ interruptible \in [Threads -> BOOLEAN]
    /\ timedOut \in [Threads -> BOOLEAN]
    /\ waitObject \in [Threads -> WaitObjects \cup {NULL}]
    /\ pendingAPCs \in [Threads -> Nat]
    /\ target \in [Threads -> Threads \cup {NULL}]
    /\ depth \in [Threads -> [Mutexes -> Nat]]

\* A thread whose TryLock has returned true owns the mutex, as deep as it has
\* locked it, and nobody can take it; a mutex nobody holds can be taken.  No
\* interleaving of time-outs, APCs and spurious wake-ups gives it to two.
HolderOwnsMutex ==
    \A o \in Mutexes :
        /\ \A t \in Threads :
             depth[t][o] > 0 =>
                 owningThread[o] = t /\ recursion[o] = depth[t][o] /\ count[o] = 0
        /\ count[o] = 0 => owningThread[o] # NULL /\ depth[owningThread[o]][o] > 0

\* An interrupter never touches a wait object that has been deleted
\* (PosixWaitObject.cpp lines 187-190).
NoUseAfterDeletion ==
    \A t \in Threads : pc[t] = "interrupt" => object[t] \notin destroyed

\* A thread on o that will take o or pass the wake-up on.
Comes(t, o) == object[t] = o /\ InWait(t) /\ pc[t] # "blocked" /\ ~timedOut[t]

\* While an object is free and a thread is blocked on it, somebody is awake in
\* Wait and will take the object or pass the wake-up on.
NoLostWakeup ==
    \A o \in WaitObjects :
        count[o] > 0 /\ Blocked(o) # {} => \E t \in Threads : Comes(t, o)

\* Only t comes for an object that is free and has threads blocked on it.
HasLastWakeup(t) ==
    LET o == object[t] IN
        /\ o \in WaitObjects /\ count[o] > 0 /\ Blocked(o) # {}
        /\ \A u \in Threads \ {t} : ~Comes(u, o)

\* The steps in which no APC throws out of the wait that was woken last: such an
\* exception takes the wake-up along, as nothing in Wait passes it on.
SparingNext == Next /\ \A t \in Threads : APCThrows(t) => ~HasLastWakeup(t)

SparingSpec == Init /\ [][SparingNext]_vars

\* A wait with a time-out runs the APCs that are pending while it blocks, also
\* those whose interrupt came too early: it looks at the queue a last time after
\* it has untied itself from the object (PosixWaitObject.cpp line 195).
TimedWaitRunsAPCs ==
    \A t \in Threads :
        (pc[t] = "blocked" /\ interruptible[t] /\ limit[t] = "timed" /\ pendingAPCs[t] > 0)
            ~> pendingAPCs[t] = 0

\* A thread blocked on an object that is free does not stay blocked.
FreeObjectIsTaken ==
    \A t \in Threads, o \in WaitObjects :
        (pc[t] = "blocked" /\ object[t] = o /\ count[o] > 0)
            ~> (pc[t] # "blocked" \/ count[o] = 0)

\* The code implements the contract its callers rely on: every Wait takes effect
\* in the one step in which it ends.
Contract == INSTANCE WaitContract WITH
    held <- depth,
    units <- [o \in WaitObjects \ Mutexes |-> count[o]],
    call <- [t \in Threads |->
               IF InWait(t) \/ pc[t] \in {"upFront", "lock"}
               THEN [object |-> object[t], limit |-> limit[t], alertable |-> interruptible[t]]
               ELSE NULL],
    apcs <- pendingAPCs
ImplementsContract == Contract!Spec
=============================================================================
