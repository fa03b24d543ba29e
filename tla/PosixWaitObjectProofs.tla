------------------------ MODULE PosixWaitObjectProofs ------------------------
(***************************************************************************)
(* Proofs about PosixWaitObject, for any threads, wait objects and limits: *)
(* who holds a mutex, that a wait object is not touched by an interrupter  *)
(* after its deletion, that the objects implement WaitContract, and that   *)
(* no wake-up is lost but by one kind of exception.                        *)
(***************************************************************************)
EXTENDS PosixWaitObject, FiniteSetTheorems, TLAPS

-----------------------------------------------------------------------------
(* The inductive invariant *)

\* Where a thread in Wait keeps m_Mutex.
Keeping == {"registered", "loop", "check", "leave", "lastCheck", "finish"}

\* Where a thread is inside pthread_cond_wait.
Waiting == {"blocked", "woken"}

\* A call is about an object that exists; others are about none.
CallShape ==
    \A t \in Threads :
        /\ pc[t] \in {"idle", "queue"} => object[t] = NULL
        /\ pc[t] \notin {"idle", "queue"} => object[t] \in WaitObjects \ destroyed
        /\ pc[t] = "queue" => target[t] \in Threads

\* m_Mutex belongs to the thread inside Wait that has locked it.
MutexKept ==
    \A t \in Threads : pc[t] \in Keeping => mutex[object[t]] = t

\* A thread that is not going to report a timeout has found the object free.
FoundFree ==
    \A t \in Threads :
        pc[t] \in {"leave", "lastCheck", "finish"} /\ ~timedOut[t] => count[object[t]] > 0

\* Between SetWaitObject(this) and SetWaitObject(NULL).
Tied == {"registered", "loop", "blocked", "woken", "check", "leave"}

\* Only there a thread can be interrupted, and an interrupter has the lock.
Interrupters ==
    \A t \in Threads :
        /\ waitObject[t] # NULL => pc[t] \in Tied /\ waitObject[t] = object[t]
        /\ pc[t] = "interrupt" => deletionLock = t

\* m_OwningThread and m_RecursionCount say what the callers of TryLock know, and
\* m_Count whether there is an owner.
OwnerHolds ==
    \A o \in Mutexes :
        /\ \A t \in Threads : depth[t][o] = IF owningThread[o] = t THEN recursion[o] ELSE 0
        /\ count[o] = 0 <=> owningThread[o] # NULL
        /\ owningThread[o] # NULL => recursion[o] > 0
        /\ o \in destroyed => owningThread[o] = NULL

WaitingOn(o) == {t \in Threads : pc[t] \in Waiting /\ object[t] = o}

\* m_WaitingThreadCount counts the threads inside pthread_cond_wait.
WaitersCounted == \A o \in WaitObjects : waitingCount[o] = Cardinality(WaitingOn(o))

IInv ==
    /\ TypeOK
    /\ CallShape
    /\ MutexKept
    /\ FoundFree
    /\ Interrupters
    /\ OwnerHolds
    /\ WaitersCounted

-----------------------------------------------------------------------------
(* What a step of one thread does to the others *)

\* To others it may at most say that their pthread_cond_wait returns.
OthersStay(t) ==
    \A u \in Threads \ {t} :
        /\ pc'[u] = pc[u] \/ (pc[u] = "blocked" /\ pc'[u] = "woken")
        /\ object'[u] = object[u] /\ timedOut'[u] = timedOut[u]
        /\ waitObject'[u] = waitObject[u] /\ target'[u] = target[u]

\* A step of t moves t where it goes, and of the others only those it wakes.
LEMMA MoveMoves ==
    ASSUME NEW t \in Threads, NEW label, NEW awake, Move(t, label, awake),
           \A u \in awake : pc[u] = "blocked", t \notin awake
    PROVE  /\ pc'[t] = label
           /\ \A u \in Threads \ {t} : pc'[u] = pc[u] \/ (pc[u] = "blocked" /\ pc'[u] = "woken")
  BY DEF Move

\* A thread wakes only threads that are blocked.
LEMMA SignalledBlocked ==
    ASSUME NEW o, NEW awake \in Signalled(o)
    PROVE  \A u \in awake : u \in Threads /\ pc[u] = "blocked" /\ object[u] = o
  BY DEF Signalled, Blocked

\* The end of a call, and its effect on the thread itself.
LEMMA EndCallMoves ==
    ASSUME TypeOK, NEW t \in Threads, NEW awake, EndCall(t, awake),
           \A u \in awake : pc[u] = "blocked", t \notin awake
    PROVE  /\ pc'[t] = "idle" /\ object'[t] = NULL
           /\ \A u \in Threads \ {t} :
                /\ pc'[u] = pc[u] \/ (pc[u] = "blocked" /\ pc'[u] = "woken")
                /\ object'[u] = object[u] /\ timedOut'[u] = timedOut[u]
  BY MoveMoves DEF EndCall, TypeOK

\* So does the end of a wait that succeeds.
LEMMA AcquireMoves ==
    ASSUME TypeOK, NEW t \in Threads, NEW o, pc[t] \in {"lock", "finish"}, Acquire(t, o)
    PROVE  /\ pc'[t] = "idle" /\ object'[t] = NULL
           /\ \A u \in Threads \ {t} :
                /\ pc'[u] = pc[u] \/ (pc[u] = "blocked" /\ pc'[u] = "woken")
                /\ object'[u] = object[u] /\ timedOut'[u] = timedOut[u]
<1>1. PICK awake \in Signalled(o) \cup {{}} : EndCall(t, awake)
  BY DEF Acquire
<1>2. \A u \in awake : pc[u] = "blocked"
  BY SignalledBlocked
<1> QED
  BY <1>1, <1>2, EndCallMoves

\* The steps of Wait and QueueUserAPC leave the calls of other threads alone.
LEMMA StepOthers ==
    ASSUME IInv, NEW t \in Threads, Step(t) \/ TimesOut(t) \/ WakesSpuriously(t)
    PROVE  OthersStay(t)
<1> USE DEF IInv
<1>1. CASE NoMoreAPCs(t) \/ HandleAPC(t) \/ Block(t) \/ Reacquire(t) \/ LeaveLoop(t)
           \/ WakesSpuriously(t)
  BY <1>1 DEF OthersStay, NoMoreAPCs, HandleAPC, Block, Reacquire, LeaveLoop, WakesSpuriously,
              Goto, Move, callVars, apcVars
<1>2. CASE StartWaiting(t) \/ Untie(t) \/ TimesOut(t)
  BY <1>2 DEF OthersStay, StartWaiting, Untie, TimesOut, Goto, Move, callVars, apcVars, TypeOK
<1>3. CASE APCThrows(t) \/ RefuseAtOnce(t) \/ ReturnTimeout(t)
  <2>1. EndCall(t, {}) /\ TypeOK
    BY <1>3 DEF APCThrows, RefuseAtOnce, ReturnTimeout
  <2>2. \A u \in Threads \ {t} :
          pc'[u] = pc[u] /\ object'[u] = object[u] /\ timedOut'[u] = timedOut[u]
    BY <2>1 DEF EndCall, Move, TypeOK
  <2> QED
    BY <1>3, <2>2 DEF OthersStay, APCThrows, RefuseAtOnce, ReturnTimeout, apcVars, TypeOK
<1>4. CASE AcquireAtOnce(t) \/ AcquireAfterWait(t)
  BY <1>4, AcquireMoves DEF OthersStay, AcquireAtOnce, AcquireAfterWait, apcVars
<1>5. CASE FindWaitObject(t)
  BY <1>5 DEF OthersStay, FindWaitObject, Goto, Move, TypeOK
<1>6. CASE InterruptWait(t)
  <2>1. t \notin Blocked(object[t]) /\ \A u \in Blocked(object[t]) : pc[u] = "blocked"
    BY <1>6 DEF InterruptWait, Blocked
  <2> QED
    BY <1>6, <2>1, EndCallMoves DEF OthersStay, InterruptWait
<1> QED
  BY <1>1, <1>2, <1>3, <1>4, <1>5, <1>6 DEF Step

\* Unlock, Post and Set leave an idle thread idle.
Releases(t, o) ==
    \/ o \in Mutexes /\ Unlock(t, o)
    \/ o \in Semaphores /\ \E releases \in 1 .. MaximumValue : Post(t, o, releases)
    \/ o \in Events /\ (Set(t, o) \/ Reset(t, o))

\* An operation that releases an object returns at once.
LEMMA ReleaseOthers ==
    ASSUME IInv, NEW t \in Threads, NEW o \in WaitObjects, Releases(t, o)
    PROVE  OthersStay(t) /\ pc[t] = "idle" /\ pc'[t] = "idle" /\ UNCHANGED callVars
<1>1. pc[t] = "idle" /\ UNCHANGED <<callVars, apcVars>>
  BY DEF Releases, Unlock, Post, Set, Reset, Free, Idle
<1>2. CASE Reset(t, o)
  BY <1>1, <1>2 DEF Reset, OthersStay, callVars, apcVars
<1>3. ASSUME NEW awake \in Signalled(o) \cup {{}, Blocked(o)}, Move(t, "idle", awake)
      PROVE  OthersStay(t) /\ pc'[t] = "idle"
  <2>1. \A u \in awake : pc[u] = "blocked"
    BY SignalledBlocked DEF Blocked
  <2> QED
    BY <1>1, <1>3, <2>1, MoveMoves DEF OthersStay, callVars, apcVars
<1>4. Reset(t, o) \/ \E awake \in Signalled(o) \cup {{}, Blocked(o)} : Move(t, "idle", awake)
  BY DEF Releases, Unlock, Post, Set
<1> QED
  BY <1>1, <1>2, <1>3, <1>4

\* What a thread asks for leaves the calls of other threads alone.
LEMMA CallOthers ==
    ASSUME IInv, NEW t \in Threads, Call(t)
    PROVE  OthersStay(t)
<1> USE DEF IInv
<1>1. ASSUME NEW o \in WaitObjects, NEW time \in Limits, NEW alertable \in Interruptibles,
             Wait(t, o, time, alertable)
      PROVE  OthersStay(t)
  BY <1>1 DEF OthersStay, Wait, Goto, Move, apcVars, TypeOK
<1>2. ASSUME NEW o \in WaitObjects, LockRecursively(t, o) \/ UnlockRecursion(t, o)
      PROVE  OthersStay(t)
  BY <1>2 DEF OthersStay, LockRecursively, UnlockRecursion, callVars, apcVars
<1>3. ASSUME NEW u \in Threads, QueueUserAPC(t, u)
      PROVE  OthersStay(t)
  BY <1>3 DEF OthersStay, QueueUserAPC, Goto, Move, callVars, TypeOK
<1> QED
  BY <1>1, <1>2, <1>3, ReleaseOthers DEF Call, Releases

-----------------------------------------------------------------------------
(* Calls and their objects *)

\* An object is deleted when no call is about it, but for an interrupter's, which
\* has the deletion lock.
LEMMA ShapeKept ==
    ASSUME IInv, Next
    PROVE  CallShape'
<1> USE DEF IInv
<1> DEFINE Here(t) == /\ pc'[t] \in {"idle", "queue"} => object'[t] = NULL
                      /\ pc'[t] \notin {"idle", "queue"} => object'[t] \in WaitObjects \ destroyed
                      /\ pc'[t] = "queue" => target'[t] \in Threads
<1>1. ASSUME NEW t \in Threads, OthersStay(t), Here(t), UNCHANGED destroyed
      PROVE  CallShape'
  BY <1>1 DEF CallShape, OthersStay
<1>2. ASSUME NEW t \in Threads, Step(t) \/ TimesOut(t) \/ WakesSpuriously(t)
      PROVE  CallShape'
  <2>1. UNCHANGED destroyed
    BY <1>2 DEF Step, NoMoreAPCs, HandleAPC, APCThrows, AcquireAtOnce, RefuseAtOnce, StartWaiting,
                Block, Reacquire, LeaveLoop, Untie, AcquireAfterWait, ReturnTimeout,
                FindWaitObject, InterruptWait, TimesOut, WakesSpuriously, objectVars
  <2>2. ASSUME NoMoreAPCs(t) \/ HandleAPC(t) \/ StartWaiting(t) \/ Block(t) \/ Reacquire(t)
             \/ LeaveLoop(t) \/ Untie(t) \/ TimesOut(t) \/ WakesSpuriously(t)
        PROVE  Here(t)
    BY <2>2 DEF CallShape, NoMoreAPCs, HandleAPC, StartWaiting, Block, Reacquire, LeaveLoop,
                Untie, TimesOut, WakesSpuriously, Goto, Move, callVars, apcVars, APCPoints
  <2>3. ASSUME APCThrows(t) \/ RefuseAtOnce(t) \/ ReturnTimeout(t)
        PROVE  Here(t)
    BY <2>3 DEF APCThrows, RefuseAtOnce, ReturnTimeout, EndCall, Move, TypeOK
  <2>4. ASSUME AcquireAtOnce(t) \/ AcquireAfterWait(t)
        PROVE  Here(t)
    BY <2>4, AcquireMoves DEF AcquireAtOnce, AcquireAfterWait
  <2>5. ASSUME FindWaitObject(t)
        PROVE  Here(t)
    <3>1. target[t] \in Threads /\ object[t] = NULL
      BY <2>5 DEF CallShape, FindWaitObject
    <3>2. waitObject[target[t]] # NULL => waitObject[target[t]] \in WaitObjects \ destroyed
      BY <3>1 DEF CallShape, Interrupters, Tied
    <3> QED
      BY <2>5, <3>1, <3>2 DEF FindWaitObject, Goto, Move, TypeOK
  <2>6. ASSUME InterruptWait(t)
        PROVE  Here(t)
    <3>1. t \notin Blocked(object[t]) /\ \A u \in Blocked(object[t]) : pc[u] = "blocked"
      BY <2>6 DEF InterruptWait, Blocked
    <3> QED
      BY <2>6, <3>1, EndCallMoves DEF InterruptWait
  <2>7. Here(t)
    BY <1>2, <2>2, <2>3, <2>4, <2>5, <2>6 DEF Step
  <2> QED
    BY <1>1, <1>2, <2>1, <2>7, StepOthers
<1>3. ASSUME NEW t \in Threads, Call(t)
      PROVE  CallShape'
  <2>1. CASE \E o \in WaitObjects, time \in Limits, alertable \in Interruptibles :
               Wait(t, o, time, alertable)
    BY <1>1, <1>3, <2>1, CallOthers DEF Wait, Idle, Goto, Move, objectVars, TypeOK
  <2>2. CASE \E o \in WaitObjects : LockRecursively(t, o) \/ UnlockRecursion(t, o)
    BY <2>2 DEF CallShape, LockRecursively, UnlockRecursion, callVars, apcVars
  <2>3. CASE \E o \in WaitObjects : Releases(t, o)
    <3>1. Here(t)
      BY <2>3, ReleaseOthers DEF CallShape, callVars
    <3>2. UNCHANGED destroyed
      BY <2>3 DEF Releases, Unlock, Post, Set, Reset
    <3> QED
      BY <1>1, <1>3, <3>1, <3>2, CallOthers
  <2>4. CASE \E u \in Threads : QueueUserAPC(t, u)
    <3>1. Here(t) /\ UNCHANGED destroyed
      BY <2>4 DEF CallShape, QueueUserAPC, Goto, Move, callVars, objectVars, TypeOK
    <3> QED
      BY <1>1, <1>3, <3>1, CallOthers
  <2> QED
    BY <1>3, <2>1, <2>2, <2>3, <2>4 DEF Call, Releases
<1>4. ASSUME NEW o \in WaitObjects, Destroy(o)
      PROVE  CallShape'
  BY <1>4, WaitObjectAssumption
     DEF Destroy, Unused, CallShape, Interrupters, callVars, apcVars
<1>5. ASSUME NEW o \in WaitObjects, Create(o)
      PROVE  CallShape'
  BY <1>5 DEF Create, CallShape, callVars, apcVars
<1> QED
  BY <1>2, <1>3, <1>4, <1>5 DEF Next

-----------------------------------------------------------------------------
(* m_Mutex and m_Count *)

\* A step changes m_Mutex and m_Count only of an object whose m_Mutex is free or
\* belongs to its thread.
LockedMoves(t) ==
    \A o \in WaitObjects :
        mutex[o] \notin {NULL, t} => mutex'[o] = mutex[o] /\ count'[o] = count[o]

\* The steps of Wait work on an object with its m_Mutex in their hands.
LEMMA StepLocked ==
    ASSUME IInv, NEW t \in Threads, Step(t) \/ TimesOut(t) \/ WakesSpuriously(t)
    PROVE  LockedMoves(t)
<1> USE DEF IInv
<1>1. CASE UNCHANGED objectVars
  BY <1>1 DEF objectVars, LockedMoves
<1>2. CASE APCThrows(t) \/ StartWaiting(t) \/ Block(t) \/ Reacquire(t) \/ ReturnTimeout(t)
  <2>1. UNCHANGED count
    BY <1>2 DEF APCThrows, StartWaiting, Block, Reacquire, ReturnTimeout
  <2>2. CASE StartWaiting(t) \/ Block(t) \/ Reacquire(t) \/ ReturnTimeout(t)
    <3>1. object[t] \in WaitObjects /\ mutex[object[t]] \in {NULL, t}
      BY <2>2 DEF CallShape, MutexKept, Keeping, StartWaiting, Block, Reacquire, ReturnTimeout
    <3>2. \A o \in WaitObjects : o # object[t] => mutex'[o] = mutex[o]
      BY <2>2 DEF StartWaiting, Block, Reacquire, ReturnTimeout, TypeOK
    <3> QED
      BY <2>1, <3>1, <3>2 DEF LockedMoves
  <2>3. CASE APCThrows(t)
    <3>1. InWait(t) => object[t] \in WaitObjects /\ mutex[object[t]] = t
      BY <2>3 DEF CallShape, MutexKept, Keeping, InWait, APCPoints, APCThrows
    <3>2. \A o \in WaitObjects : o # object[t] \/ ~InWait(t) => mutex'[o] = mutex[o]
      BY <2>3 DEF APCThrows, TypeOK
    <3> QED
      BY <2>1, <3>1, <3>2 DEF LockedMoves
  <2> QED
    BY <1>2, <2>2, <2>3
<1>3. CASE AcquireAtOnce(t) \/ AcquireAfterWait(t)
  <2>1. object[t] \in WaitObjects /\ mutex[object[t]] \in {NULL, t}
    BY <1>3 DEF CallShape, MutexKept, Keeping, AcquireAtOnce, AcquireAfterWait
  <2>2. /\ \A o \in WaitObjects : o # object[t] => count'[o] = count[o]
        /\ \A o \in WaitObjects : o # object[t] => mutex'[o] = mutex[o]
    BY <1>3 DEF AcquireAtOnce, AcquireAfterWait, Acquire, TypeOK
  <2> QED
    BY <2>1, <2>2 DEF LockedMoves
<1> QED
  BY <1>1, <1>2, <1>3
     DEF Step, NoMoreAPCs, HandleAPC, RefuseAtOnce, LeaveLoop, Untie, FindWaitObject,
         InterruptWait, TimesOut, WakesSpuriously

\* So do the operations that release an object.
LEMMA CallLocked ==
    ASSUME IInv, NEW t \in Threads, Call(t)
    PROVE  LockedMoves(t)
<1>1. CASE UNCHANGED <<mutex, count>>
  BY <1>1 DEF LockedMoves
<1>2. ASSUME NEW o \in WaitObjects, Releases(t, o)
      PROVE  LockedMoves(t)
  BY <1>2 DEF Releases, Unlock, Post, Set, Reset, Free, LockedMoves, IInv, TypeOK
<1> QED
  BY <1>1, <1>2 DEF Call, Releases, Wait, LockRecursively, UnlockRecursion, QueueUserAPC, objectVars

\* What another thread keeps is left to it.
LEMMA OthersKeep ==
    ASSUME IInv, NEW t \in Threads, OthersStay(t), LockedMoves(t), NEW u \in Threads \ {t}
    PROVE  /\ pc'[u] \in Keeping => mutex'[object'[u]] = u
           /\ pc'[u] \in {"leave", "lastCheck", "finish"} /\ ~timedOut'[u] => count'[object'[u]] > 0
<1>1. SUFFICES ASSUME pc'[u] \in Keeping
               PROVE  mutex'[object[u]] = mutex[object[u]] /\ count'[object[u]] = count[object[u]]
                      /\ mutex[object[u]] = u
  BY DEF OthersStay, IInv, FoundFree, Keeping
<1>2. pc[u] \in Keeping
  BY <1>1 DEF OthersStay, Keeping
<1>3. object[u] \in WaitObjects /\ mutex[object[u]] = u
  BY <1>2 DEF IInv, CallShape, MutexKept, Keeping
<1> QED
  BY <1>3, WaitObjectAssumption DEF LockedMoves

\* A thread enters pthread_cond_wait without m_Mutex and comes back with it, and a
\* thread that leaves the loop has found the object free.
LEMMA MutexesKept ==
    ASSUME IInv, Next
    PROVE  MutexKept' /\ FoundFree'
<1> USE DEF IInv
<1> DEFINE Here(t) == /\ pc'[t] \in Keeping => mutex'[object'[t]] = t
                      /\ pc'[t] \in {"leave", "lastCheck", "finish"} /\ ~timedOut'[t]
                           => count'[object'[t]] > 0
<1>1. ASSUME NEW t \in Threads, OthersStay(t), LockedMoves(t), Here(t)
      PROVE  MutexKept' /\ FoundFree'
  BY <1>1, OthersKeep DEF MutexKept, FoundFree
<1>2. ASSUME NEW t \in Threads, Step(t) \/ TimesOut(t) \/ WakesSpuriously(t)
      PROVE  Here(t)
  <2>1. ASSUME NoMoreAPCs(t) \/ HandleAPC(t) \/ LeaveLoop(t) \/ Untie(t)
        PROVE  Here(t)
    BY <2>1 DEF MutexKept, FoundFree, Keeping, NoMoreAPCs, HandleAPC, LeaveLoop, Untie,
                Goto, Move, callVars, objectVars, APCPoints, CallShape, TypeOK
  <2>2. ASSUME StartWaiting(t) \/ Reacquire(t)
        PROVE  Here(t)
    BY <2>2 DEF StartWaiting, Reacquire, Goto, Move, callVars, CallShape, TypeOK
  <2>3. ASSUME pc'[t] \notin Keeping
        PROVE  Here(t)
    BY <2>3 DEF Keeping
  <2>4. ASSUME Block(t) \/ TimesOut(t) \/ WakesSpuriously(t) \/ FindWaitObject(t)
        PROVE  pc'[t] \notin Keeping
    BY <2>4 DEF Block, TimesOut, WakesSpuriously, FindWaitObject, Goto, Move, Keeping
  <2>5. ASSUME APCThrows(t) \/ RefuseAtOnce(t) \/ ReturnTimeout(t)
        PROVE  pc'[t] \notin Keeping
    BY <2>5 DEF APCThrows, RefuseAtOnce, ReturnTimeout, EndCall, Move, Keeping
  <2>6. ASSUME AcquireAtOnce(t) \/ AcquireAfterWait(t)
        PROVE  pc'[t] \notin Keeping
    BY <2>6, AcquireMoves DEF AcquireAtOnce, AcquireAfterWait, Keeping
  <2>7. ASSUME InterruptWait(t)
        PROVE  pc'[t] \notin Keeping
    <3>1. t \notin Blocked(object[t]) /\ \A u \in Blocked(object[t]) : pc[u] = "blocked"
      BY <2>7 DEF InterruptWait, Blocked
    <3> QED
      BY <2>7, <3>1, EndCallMoves DEF InterruptWait, Keeping
  <2> QED
    BY <1>2, <2>1, <2>2, <2>3, <2>4, <2>5, <2>6, <2>7 DEF Step
<1>3. ASSUME NEW t \in Threads, Call(t)
      PROVE  Here(t)
  <2>1. pc'[t] \notin Keeping
    <3>1. ASSUME NEW o \in WaitObjects, Releases(t, o) PROVE pc'[t] \notin Keeping
      BY <3>1, ReleaseOthers DEF Keeping
    <3> QED
      BY <1>3, <3>1 DEF Call, Releases, Wait, LockRecursively, UnlockRecursion, QueueUserAPC,
                        Idle, Goto, Move, Keeping
  <2> QED
    BY <2>1 DEF Keeping
<1>4. ASSUME NEW o \in WaitObjects, Destroy(o) \/ Create(o)
      PROVE  MutexKept' /\ FoundFree'
  BY <1>4 DEF Destroy, Create, MutexKept, FoundFree, CallShape, callVars, TypeOK
<1> QED
  BY <1>1, <1>2, <1>3, <1>4, StepOthers, CallOthers, StepLocked, CallLocked DEF Next

-----------------------------------------------------------------------------
(* The lock against deletion *)

\* SetWaitObject(NULL) comes before every end of a wait, and the interrupter finds
\* the wait object of a thread with the deletion lock in its hands.
LEMMA InterruptersKept ==
    ASSUME IInv, Next
    PROVE  Interrupters'
<1> USE DEF IInv
<1> DEFINE Here(t) == /\ waitObject'[t] # NULL => pc'[t] \in Tied /\ waitObject'[t] = object'[t]
                      /\ pc'[t] = "interrupt" => deletionLock' = t
                      /\ deletionLock' = deletionLock \/ deletionLock \in {NULL, t}
<1>1. ASSUME NEW t \in Threads, OthersStay(t), Here(t)
      PROVE  Interrupters'
  <2>1. ASSUME NEW u \in Threads, u # t
        PROVE  /\ waitObject'[u] # NULL => pc'[u] \in Tied /\ waitObject'[u] = object'[u]
               /\ pc'[u] = "interrupt" => deletionLock' = u
    BY <1>1, <2>1, WaitObjectAssumption DEF Interrupters, OthersStay, Tied
  <2> QED
    BY <1>1, <2>1 DEF Interrupters
<1>2. ASSUME NEW t \in Threads, Step(t) \/ TimesOut(t) \/ WakesSpuriously(t)
      PROVE  Here(t)
  <2>1. ASSUME NoMoreAPCs(t) \/ HandleAPC(t) \/ Block(t) \/ Reacquire(t) \/ LeaveLoop(t)
               \/ TimesOut(t) \/ WakesSpuriously(t)
        PROVE  Here(t)
    BY <2>1 DEF Interrupters, NoMoreAPCs, HandleAPC, Block, Reacquire, LeaveLoop, TimesOut,
                WakesSpuriously, Goto, Move, callVars, apcVars, APCPoints, Tied
  <2>2. ASSUME StartWaiting(t) \/ Untie(t)
        PROVE  Here(t)
    BY <2>2 DEF Interrupters, StartWaiting, Untie, Goto, Move, callVars, Tied, TypeOK
  <2>3. ASSUME APCThrows(t) \/ RefuseAtOnce(t) \/ ReturnTimeout(t)
        PROVE  Here(t)
    <3>1. waitObject'[t] = NULL
      BY <2>3 DEF Interrupters, APCThrows, RefuseAtOnce, ReturnTimeout, apcVars, Tied, TypeOK
    <3> QED
      BY <2>3, <3>1 DEF APCThrows, RefuseAtOnce, ReturnTimeout, EndCall, Move, apcVars
  <2>4. ASSUME AcquireAtOnce(t) \/ AcquireAfterWait(t)
        PROVE  Here(t)
    <3>1. waitObject[t] = NULL /\ UNCHANGED apcVars
      BY <2>4 DEF Interrupters, AcquireAtOnce, AcquireAfterWait, Tied
    <3>2. pc'[t] = "idle"
      BY <2>4, AcquireMoves DEF AcquireAtOnce, AcquireAfterWait
    <3> QED
      BY <3>1, <3>2 DEF apcVars
  <2>5. ASSUME FindWaitObject(t)
        PROVE  Here(t)
    BY <2>5 DEF Interrupters, FindWaitObject, Goto, Move, Tied
  <2>6. ASSUME InterruptWait(t)
        PROVE  Here(t)
    <3>1. t \notin Blocked(object[t]) /\ \A u \in Blocked(object[t]) : pc[u] = "blocked"
      BY <2>6 DEF InterruptWait, Blocked
    <3>2. pc'[t] = "idle" /\ waitObject'[t] = NULL
      BY <2>6, <3>1, EndCallMoves DEF Interrupters, InterruptWait, Tied
    <3> QED
      BY <2>6, <3>2 DEF Interrupters, InterruptWait
  <2> QED
    BY <1>2, <2>1, <2>2, <2>3, <2>4, <2>5, <2>6 DEF Step
<1>3. ASSUME NEW t \in Threads, Call(t)
      PROVE  Here(t)
  <2>1. pc[t] = "idle" /\ pc'[t] # "interrupt" /\ UNCHANGED <<deletionLock, waitObject>>
    <3>1. ASSUME NEW o \in WaitObjects, Releases(t, o)
          PROVE  pc[t] = "idle" /\ pc'[t] # "interrupt" /\ UNCHANGED <<deletionLock, waitObject>>
      BY <3>1, ReleaseOthers DEF Releases, Unlock, Post, Set, Reset, apcVars
    <3> QED
      BY <1>3, <3>1 DEF Call, Releases, Wait, LockRecursively, UnlockRecursion, QueueUserAPC,
                        Idle, Goto, Move, apcVars
  <2>2. waitObject[t] = NULL
    BY <2>1 DEF Interrupters, Tied
  <2> QED
    BY <2>1, <2>2
<1>4. ASSUME NEW o \in WaitObjects, Destroy(o) \/ Create(o)
      PROVE  Interrupters'
  BY <1>4 DEF Destroy, Create, Interrupters, Tied, callVars, apcVars
<1> QED
  BY <1>1, <1>2, <1>3, <1>4, StepOthers, CallOthers DEF Next

-----------------------------------------------------------------------------
(* Who holds a mutex *)

\* The variables a mutex consists of, but for m_Mutex and its waiters.
MutexAlone(o) ==
    /\ count'[o] = count[o] /\ owningThread'[o] = owningThread[o]
    /\ recursion'[o] = recursion[o]
    /\ \A t \in Threads : depth'[t][o] = depth[t][o]

HolderOf(o) ==
    /\ \A t \in Threads : depth[t][o] = IF owningThread[o] = t THEN recursion[o] ELSE 0
    /\ count[o] = 0 <=> owningThread[o] # NULL
    /\ owningThread[o] # NULL => recursion[o] > 0
    /\ o \in destroyed => owningThread[o] = NULL

\* Only one entry of depth changes at a time.
LEMMA DepthElsewhere ==
    ASSUME TypeOK, NEW t \in Threads, NEW o \in Mutexes, NEW d \in Nat,
           depth' = [depth EXCEPT ![t][o] = d]
    PROVE  /\ \A u \in Threads, m \in Mutexes : u # t \/ m # o => depth'[u][m] = depth[u][m]
           /\ depth'[t][o] = d
<1>1. ASSUME NEW u \in Threads, u # t PROVE depth'[u] = depth[u]
  BY <1>1 DEF TypeOK
<1>2. depth'[t] = [depth[t] EXCEPT ![o] = d] /\ depth[t] \in [Mutexes -> Nat]
  BY DEF TypeOK
<1> QED
  BY <1>1, <1>2

\* A wait that succeeds on another object leaves mutexes alone; one on a mutex makes
\* its thread the owner.
LEMMA AcquireHolds ==
    ASSUME IInv, NEW t \in Threads, NEW m \in WaitObjects \ destroyed, count[m] > 0,
           Acquire(t, m), Own(t, m), UNCHANGED destroyed
    PROVE  OwnerHolds'
<1> USE DEF IInv
<1>1. ASSUME NEW o \in Mutexes, o # m
      PROVE  HolderOf(o)'
  <2>1. o \in WaitObjects /\ count'[o] = count[o]
    BY <1>1 DEF Acquire, TypeOK, WaitObjects
  <2>2. ASSUME m \in Mutexes PROVE MutexAlone(o)
    <3>1. \A u \in Threads : depth'[u][o] = depth[u][o]
      <4>1. depth' = [depth EXCEPT ![t][m] = 1] /\ 1 \in Nat
        BY <2>2 DEF Own
      <4> QED
        BY <1>1, <2>2, <4>1, DepthElsewhere
    <3>2. owningThread'[o] = owningThread[o] /\ recursion'[o] = recursion[o]
      BY <1>1, <2>2 DEF Own, TypeOK
    <3> QED
      BY <2>1, <3>1, <3>2 DEF MutexAlone
  <2>3. ASSUME m \notin Mutexes PROVE MutexAlone(o)
    BY <2>1, <2>3 DEF Own, MutexAlone
  <2>4. MutexAlone(o)
    BY <2>2, <2>3
  <2> QED
    BY <2>4 DEF MutexAlone, HolderOf, OwnerHolds
<1>2. ASSUME m \in Mutexes
      PROVE  HolderOf(m)'
  <2>1. owningThread[m] = NULL /\ \A u \in Threads : depth[u][m] = 0
    BY <1>2, WaitObjectAssumption DEF OwnerHolds, TypeOK
  <2>2. count'[m] = 0
    BY <1>2, WaitObjectAssumption DEF Acquire, TypeOK, Events
  <2>3. /\ owningThread'[m] = t /\ recursion'[m] = 1 /\ depth'[t][m] = 1
        /\ \A u \in Threads \ {t} : depth'[u][m] = depth[u][m]
    BY <1>2 DEF Own, TypeOK
  <2> QED
    BY <2>1, <2>2, <2>3, WaitObjectAssumption DEF HolderOf
<1> QED
  BY <1>1, <1>2 DEF OwnerHolds, HolderOf

\* An owner and its count change together, on every path that locks or unlocks.
LEMMA OwnersKept ==
    ASSUME IInv, Next
    PROVE  OwnerHolds'
<1> USE DEF IInv
<1>1. CASE UNCHANGED <<count, owningThread, recursion, destroyed, depth>>
  BY <1>1 DEF OwnerHolds
<1>2. ASSUME NEW t \in Threads, AcquireAtOnce(t)
      PROVE  OwnerHolds'
  BY <1>2, AcquireHolds DEF AcquireAtOnce, CallShape
<1>3. ASSUME NEW t \in Threads, AcquireAfterWait(t)
      PROVE  OwnerHolds'
  BY <1>3, AcquireHolds DEF AcquireAfterWait, FoundFree, CallShape
<1>4. ASSUME NEW t \in Threads, NEW o \in WaitObjects \ Mutexes, Releases(t, o)
      PROVE  OwnerHolds'
  <2>1. UNCHANGED <<owningThread, recursion, destroyed, depth>>
        /\ \A m \in Mutexes : count'[m] = count[m]
    BY <1>4 DEF Releases, Post, Set, Reset, TypeOK, WaitObjects
  <2> QED
    BY <2>1 DEF OwnerHolds
<1>5. ASSUME NEW t \in Threads, NEW o \in Mutexes,
             LockRecursively(t, o) \/ UnlockRecursion(t, o) \/ Unlock(t, o)
      PROVE  OwnerHolds'
  <2>1. ASSUME NEW m \in Mutexes, m # o
        PROVE  HolderOf(m)'
    <3>1. MutexAlone(m) /\ UNCHANGED destroyed
      <4>1. PICK d \in Nat : depth' = [depth EXCEPT ![t][o] = d]
        <5>1. depth[t][o] \in Nat /\ owningThread[o] = t /\ recursion[o] = depth[t][o]
              /\ recursion[o] > 0
          BY <1>5, WaitObjectAssumption
             DEF LockRecursively, UnlockRecursion, Unlock, OwnerHolds, TypeOK
        <5>2. depth[t][o] + 1 \in Nat /\ depth[t][o] - 1 \in Nat
          BY <5>1
        <5>3. \/ depth' = [depth EXCEPT ![t][o] = depth[t][o] + 1]
              \/ depth' = [depth EXCEPT ![t][o] = depth[t][o] - 1]
          BY <1>5 DEF LockRecursively, UnlockRecursion, Unlock
        <5> QED
          BY <5>2, <5>3
      <4>2. count'[m] = count[m] /\ owningThread'[m] = owningThread[m]
            /\ recursion'[m] = recursion[m] /\ UNCHANGED destroyed
        BY <1>5, <2>1 DEF LockRecursively, UnlockRecursion, Unlock, TypeOK, WaitObjects
      <4> QED
        BY <2>1, <4>1, <4>2, DepthElsewhere DEF MutexAlone
    <3> QED
      BY <3>1 DEF MutexAlone, HolderOf, OwnerHolds
  <2>2. /\ owningThread[o] = t /\ recursion[o] \in Nat /\ recursion[o] > 0 /\ count[o] = 0
        /\ depth[t][o] = recursion[o] /\ \A u \in Threads \ {t} : depth[u][o] = 0
        /\ o \notin destroyed
        /\ UNCHANGED destroyed
        /\ \A u \in Threads \ {t} : depth'[u][o] = depth[u][o]
    BY <1>5, WaitObjectAssumption
       DEF LockRecursively, UnlockRecursion, Unlock, Free, Idle, OwnerHolds, TypeOK
  <2>3. CASE LockRecursively(t, o) \/ UnlockRecursion(t, o)
    <3>1. /\ UNCHANGED <<count, owningThread>>
          /\ recursion'[o] = depth'[t][o] /\ recursion'[o] > 0
      BY <2>2, <2>3 DEF LockRecursively, UnlockRecursion, TypeOK
    <3>2. HolderOf(o)'
      BY <2>2, <3>1, WaitObjectAssumption DEF HolderOf
    <3> QED
      BY <2>1, <3>2 DEF OwnerHolds, HolderOf
  <2>4. CASE Unlock(t, o)
    <3>1. count'[o] = 1 /\ owningThread'[o] = NULL /\ depth'[t][o] = 0
      BY <2>2, <2>4 DEF Unlock, TypeOK, WaitObjects
    <3>2. HolderOf(o)'
      BY <2>2, <3>1, WaitObjectAssumption DEF HolderOf
    <3> QED
      BY <2>1, <3>2 DEF OwnerHolds, HolderOf
  <2> QED
    BY <1>5, <2>3, <2>4
<1>6. ASSUME NEW o \in WaitObjects, Destroy(o)
      PROVE  OwnerHolds'
  BY <1>6 DEF Destroy, Unused, OwnerHolds
<1>7. ASSUME NEW o \in WaitObjects, Create(o)
      PROVE  OwnerHolds'
  <2>1. /\ UNCHANGED <<owningThread, recursion, depth>>
        /\ destroyed' \subseteq destroyed
        /\ \A m \in Mutexes : count'[m] = count[m] \/ (count'[m] = 1 /\ owningThread[m] = NULL)
    BY <1>7 DEF Create, FreshCounts, OwnerHolds, TypeOK, WaitObjects
  <2> QED
    BY <2>1 DEF OwnerHolds
<1> QED
  BY <1>1, <1>2, <1>3, <1>4, <1>5, <1>6, <1>7, WaitObjectAssumption
     DEF Next, Step, Call, Releases, NoMoreAPCs, HandleAPC, APCThrows, RefuseAtOnce, StartWaiting,
         Block, Reacquire, LeaveLoop, Untie, ReturnTimeout, FindWaitObject, InterruptWait,
         TimesOut, WakesSpuriously, Wait, QueueUserAPC, objectVars

-----------------------------------------------------------------------------
(* The threads inside pthread_cond_wait *)

\* No step of t changes who waits on what, and none is counted.
WaitersStay(t) ==
    /\ waitingCount' = waitingCount
    /\ pc[t] \in Waiting <=> pc'[t] \in Waiting
    /\ pc[t] \in Waiting => object'[t] = object[t]

\* Another thread does not get into pthread_cond_wait or out of it.
LEMMA WaitingElsewhere ==
    ASSUME NEW t \in Threads, OthersStay(t)
    PROVE  \A u \in Threads \ {t} :
             object'[u] = object[u] /\ (pc'[u] \in Waiting <=> pc[u] \in Waiting)
  BY DEF OthersStay, Waiting

\* A thread gets into pthread_cond_wait by Block, and out of it by Reacquire.
LEMMA StepWaiters ==
    ASSUME IInv, NEW t \in Threads, Step(t) \/ TimesOut(t) \/ WakesSpuriously(t)
    PROVE  WaitersStay(t) \/ Block(t) \/ Reacquire(t)
<1> USE DEF IInv
<1>1. ASSUME NoMoreAPCs(t) \/ HandleAPC(t) \/ LeaveLoop(t) \/ Untie(t) \/ StartWaiting(t)
      PROVE  WaitersStay(t)
  BY <1>1 DEF WaitersStay, Waiting, NoMoreAPCs, HandleAPC, LeaveLoop, Untie, StartWaiting,
              Goto, Move, callVars, objectVars, APCPoints
<1>2. ASSUME TimesOut(t) \/ WakesSpuriously(t)
      PROVE  WaitersStay(t)
  BY <1>2 DEF WaitersStay, Waiting, TimesOut, WakesSpuriously, Goto, Move, callVars, objectVars
<1>3. ASSUME pc[t] \notin Waiting, pc'[t] \notin Waiting, waitingCount' = waitingCount
      PROVE  WaitersStay(t)
  BY <1>3 DEF WaitersStay
<1>4. ASSUME APCThrows(t) \/ RefuseAtOnce(t) \/ ReturnTimeout(t) \/ FindWaitObject(t)
      PROVE  WaitersStay(t)
  BY <1>3, <1>4 DEF APCThrows, RefuseAtOnce, ReturnTimeout, FindWaitObject, EndCall, Goto, Move,
                    Waiting, APCPoints, objectVars
<1>5. ASSUME AcquireAtOnce(t) \/ AcquireAfterWait(t)
      PROVE  WaitersStay(t)
  BY <1>3, <1>5, AcquireMoves DEF AcquireAtOnce, AcquireAfterWait, Waiting
<1>6. ASSUME InterruptWait(t)
      PROVE  WaitersStay(t)
  <2>1. t \notin Blocked(object[t]) /\ \A u \in Blocked(object[t]) : pc[u] = "blocked"
    BY <1>6 DEF InterruptWait, Blocked
  <2> QED
    BY <1>3, <1>6, <2>1, EndCallMoves DEF InterruptWait, Waiting, objectVars
<1> QED
  BY <1>1, <1>2, <1>4, <1>5, <1>6 DEF Step

\* No call begins or ends inside pthread_cond_wait.
LEMMA CallWaiters ==
    ASSUME IInv, NEW t \in Threads, Call(t)
    PROVE  WaitersStay(t)
<1>1. ASSUME NEW o \in WaitObjects, Releases(t, o)
      PROVE  WaitersStay(t)
  BY <1>1, ReleaseOthers DEF WaitersStay, Waiting, Releases, Unlock, Post, Set, Reset
<1> QED
  BY <1>1 DEF Call, Releases, Wait, LockRecursively, UnlockRecursion, QueueUserAPC, Idle, Goto,
              Move, WaitersStay, Waiting, objectVars

\* Block counts its thread, Reacquire takes it off again, and nothing else does.
LEMMA CountKept ==
    ASSUME IInv, Next
    PROVE  WaitersCounted'
<1> USE DEF IInv
<1>1. ASSUME NEW o \in WaitObjects
      PROVE  IsFiniteSet(WaitingOn(o)) /\ waitingCount[o] = Cardinality(WaitingOn(o))
  BY FS_Subset, WaitObjectAssumption DEF WaitingOn, WaitersCounted
<1>2. ASSUME NEW t \in Threads, OthersStay(t), WaitersStay(t)
      PROVE  WaitersCounted'
  <2>1. \A o \in WaitObjects : WaitingOn(o)' = WaitingOn(o)
    BY <1>2, WaitingElsewhere DEF WaitersStay, WaitingOn
  <2> QED
    BY <1>1, <1>2, <2>1 DEF WaitersStay, WaitersCounted
<1>3. ASSUME NEW t \in Threads, OthersStay(t), Block(t)
      PROVE  WaitersCounted'
  <2>1. PICK m \in WaitObjects : m = object[t] /\ object'[t] = m
    BY <1>3 DEF Block, CallShape, callVars
  <2>2. pc[t] = "loop" /\ pc'[t] = "blocked" /\ waitingCount' = [waitingCount EXCEPT ![m] = @ + 1]
    BY <1>3, <2>1 DEF Block, Goto, Move
  <2>3. \A o \in WaitObjects \ {m} :
          WaitingOn(o)' = WaitingOn(o) /\ waitingCount'[o] = waitingCount[o]
    BY <1>3, <2>1, <2>2, WaitingElsewhere DEF WaitingOn, Waiting, TypeOK
  <2>4. WaitingOn(m)' = WaitingOn(m) \cup {t} /\ t \notin WaitingOn(m)
    BY <1>3, <2>1, <2>2, WaitingElsewhere DEF WaitingOn, Waiting
  <2>5. Cardinality(WaitingOn(m)') = Cardinality(WaitingOn(m)) + 1
    BY <1>1, <2>4, FS_AddElement
  <2>6. waitingCount'[m] = Cardinality(WaitingOn(m)')
    BY <1>1, <2>2, <2>5 DEF TypeOK
  <2> QED
    BY <1>1, <2>3, <2>6 DEF WaitersCounted
<1>4. ASSUME NEW t \in Threads, OthersStay(t), Reacquire(t)
      PROVE  WaitersCounted'
  <2>1. PICK m \in WaitObjects : m = object[t] /\ object'[t] = m
    BY <1>4 DEF Reacquire, CallShape, callVars
  <2>2. /\ pc[t] = "woken" /\ pc'[t] \notin Waiting
        /\ waitingCount' = [waitingCount EXCEPT ![m] = @ - 1]
    BY <1>4, <2>1 DEF Reacquire, Goto, Move, Waiting
  <2>3. \A o \in WaitObjects \ {m} :
          WaitingOn(o)' = WaitingOn(o) /\ waitingCount'[o] = waitingCount[o]
    BY <1>4, <2>1, <2>2, WaitingElsewhere DEF WaitingOn, Waiting, TypeOK
  <2>4. WaitingOn(m)' = WaitingOn(m) \ {t} /\ t \in WaitingOn(m)
    BY <1>4, <2>1, <2>2, WaitingElsewhere DEF WaitingOn, Waiting
  <2>5. Cardinality(WaitingOn(m)') = Cardinality(WaitingOn(m)) - 1
    BY <1>1, <2>4, FS_RemoveElement
  <2>6. waitingCount'[m] = Cardinality(WaitingOn(m)')
    BY <1>1, <2>2, <2>5 DEF TypeOK
  <2> QED
    BY <1>1, <2>3, <2>6 DEF WaitersCounted
<1>5. ASSUME NEW o \in WaitObjects, Destroy(o) \/ Create(o)
      PROVE  WaitersCounted'
  BY <1>5 DEF Destroy, Create, WaitersCounted, WaitingOn, callVars
<1> QED
  BY <1>2, <1>3, <1>4, <1>5, StepOthers, CallOthers, StepWaiters, CallWaiters DEF Next

-----------------------------------------------------------------------------
(* The kinds of the variables *)

ObjectTypes ==
    /\ count \in [WaitObjects -> Nat]
    /\ \A o \in WaitObjects :
         count[o] <= IF o \in Semaphores THEN MaximumValue ELSE 1
    /\ mutex \in [WaitObjects -> Threads \cup {NULL}]
    /\ owningThread \in [Mutexes -> Threads \cup {NULL}]
    /\ recursion \in [Mutexes -> Nat]
    /\ destroyed \in SUBSET WaitObjects
    /\ depth \in [Threads -> [Mutexes -> Nat]]

CallTypes ==
    /\ pc \in [Threads -> PCs]
    /\ object \in [Threads -> WaitObjects \cup {NULL}]
    /\ limit \in [Threads -> {"zero", "timed", "infinite"}]
    /\ interruptible \in [Threads -> BOOLEAN]
    /\ timedOut \in [Threads -> BOOLEAN]

APCTypes ==
    /\ deletionLock \in Threads \cup {NULL}
    /\ waitObject \in [Threads -> WaitObjects \cup {NULL}]
    /\ pendingAPCs \in [Threads -> Nat]
    /\ target \in [Threads -> Threads \cup {NULL}]

\* TypeOK falls into the types of the objects, of the calls and of the APCs.
LEMMA TypeParts ==
    TypeOK <=> ObjectTypes /\ CallTypes /\ APCTypes /\ waitingCount \in [WaitObjects -> Nat]
  BY DEF TypeOK, ObjectTypes, CallTypes, APCTypes

\* The end of a call keeps the types of the calls.
LEMMA EndCallTypes ==
    ASSUME CallTypes, NEW t \in Threads, NEW awake, EndCall(t, awake)
    PROVE  CallTypes'
  BY DEF CallTypes, EndCall, Move, PCs

\* So does the end of a wait that succeeds.
LEMMA AcquireTypes ==
    ASSUME CallTypes, NEW t \in Threads, NEW o, Acquire(t, o)
    PROVE  CallTypes'
  BY EndCallTypes DEF Acquire

\* Every step leaves a thread at a place of the code, in a call of its kind.
LEMMA CallsTyped ==
    ASSUME IInv, Next
    PROVE  CallTypes'
<1> USE DEF IInv
<1>0. CallTypes
  BY TypeParts
<1>1. CASE UNCHANGED <<callVars, pc>>
  BY <1>0, <1>1 DEF CallTypes, callVars
<1>2. ASSUME NEW label \in PCs, NEW t \in Threads, NEW awake, Move(t, label, awake)
      PROVE  pc' \in [Threads -> PCs]
  BY <1>0, <1>2 DEF Move, CallTypes, PCs
<1>3. ASSUME NEW t \in Threads, Step(t)
      PROVE  CallTypes'
  <2>1. CASE NoMoreAPCs(t) \/ StartWaiting(t) \/ Block(t) \/ Reacquire(t)
             \/ LeaveLoop(t) \/ Untie(t)
    <3>1. PICK label \in PCs : Move(t, label, {})
      BY <2>1 DEF NoMoreAPCs, StartWaiting, Block, Reacquire, LeaveLoop, Untie, Goto, PCs
    <3>2. UNCHANGED callVars
      BY <2>1 DEF NoMoreAPCs, StartWaiting, Block, Reacquire, LeaveLoop, Untie
    <3> QED
      BY <1>0, <1>2, <3>1, <3>2 DEF CallTypes, callVars
  <2>2. CASE APCThrows(t) \/ RefuseAtOnce(t) \/ ReturnTimeout(t) \/ InterruptWait(t)
    BY <1>0, <2>2, EndCallTypes DEF APCThrows, RefuseAtOnce, ReturnTimeout, InterruptWait
  <2>3. CASE AcquireAtOnce(t) \/ AcquireAfterWait(t)
    BY <1>0, <2>3, AcquireTypes DEF AcquireAtOnce, AcquireAfterWait
  <2>4. CASE FindWaitObject(t)
    <3>1. pc' \in [Threads -> PCs]
      <4>1. PICK label \in PCs : Move(t, label, {})
        BY <2>4 DEF FindWaitObject, Goto, PCs
      <4> QED
        BY <1>2, <4>1
    <3>2. target[t] \in Threads /\ waitObject[target[t]] \in WaitObjects \cup {NULL}
      BY <2>4 DEF FindWaitObject, CallShape, TypeOK
    <3> QED
      BY <1>0, <2>4, <3>1, <3>2 DEF FindWaitObject, CallTypes
  <2> QED
    BY <1>1, <1>3, <2>1, <2>2, <2>3, <2>4 DEF Step, HandleAPC
<1>4. ASSUME NEW t \in Threads, TimesOut(t) \/ WakesSpuriously(t)
      PROVE  CallTypes'
  <2>1. pc' \in [Threads -> PCs]
    BY <1>2, <1>4 DEF TimesOut, WakesSpuriously, Goto, PCs
  <2> QED
    BY <1>0, <1>4, <2>1 DEF TimesOut, WakesSpuriously, CallTypes, callVars
<1>5. ASSUME NEW t \in Threads, Call(t)
      PROVE  CallTypes'
  <2>2. ASSUME NEW o \in WaitObjects, NEW time \in Limits, NEW alertable \in Interruptibles,
               Wait(t, o, time, alertable)
        PROVE  CallTypes'
    <3>1. pc' \in [Threads -> PCs]
      <4>1. PICK label \in PCs : Move(t, label, {})
        BY <2>2 DEF Wait, Goto, PCs
      <4> QED
        BY <1>2, <4>1
    <3> QED
      BY <1>0, <2>2, <3>1, WaitObjectAssumption DEF Wait, CallTypes
  <2>3. ASSUME NEW o \in WaitObjects,
               Unlock(t, o) \/ Set(t, o) \/ \E releases : Post(t, o, releases)
        PROVE  CallTypes'
    <3>1. UNCHANGED callVars /\ \E awake : Move(t, "idle", awake)
      BY <2>3 DEF Unlock, Set, Post
    <3> QED
      BY <1>0, <1>2, <3>1 DEF CallTypes, callVars, PCs
  <2>4. ASSUME NEW u \in Threads, QueueUserAPC(t, u)
        PROVE  CallTypes'
    BY <1>0, <1>2, <2>4 DEF QueueUserAPC, Goto, CallTypes, callVars, PCs
  <2> QED
    BY <1>1, <1>5, <2>2, <2>3, <2>4 DEF Call, LockRecursively, UnlockRecursion, Reset
<1> QED
  BY <1>1, <1>3, <1>4, <1>5 DEF Next, Destroy, Create

\* An APC is taken off a queue only when there is one.
LEMMA APCsTyped ==
    ASSUME IInv, Next
    PROVE  APCTypes'
<1> USE DEF IInv
<1>0. APCTypes /\ object \in [Threads -> WaitObjects \cup {NULL}]
  BY TypeParts DEF TypeOK
<1>1. CASE UNCHANGED apcVars
  BY <1>0, <1>1 DEF APCTypes, apcVars
<1>2. ASSUME NEW t \in Threads, Step(t)
      PROVE  APCTypes'
  <2>1. CASE HandleAPC(t) \/ APCThrows(t)
    <3>1. pendingAPCs[t] - 1 \in Nat
      BY <1>0, <2>1 DEF HandleAPC, APCThrows, APCTypes
    <3> QED
      BY <1>0, <2>1, <3>1 DEF HandleAPC, APCThrows, APCTypes
  <2>2. CASE StartWaiting(t) \/ Untie(t) \/ FindWaitObject(t) \/ InterruptWait(t)
    BY <1>0, <2>2 DEF StartWaiting, Untie, FindWaitObject, InterruptWait, APCTypes
  <2> QED
    BY <1>1, <1>2, <2>1, <2>2
       DEF Step, NoMoreAPCs, AcquireAtOnce, RefuseAtOnce, Block, Reacquire, LeaveLoop,
           AcquireAfterWait, ReturnTimeout
<1>3. ASSUME NEW t \in Threads, NEW u \in Threads, QueueUserAPC(t, u)
      PROVE  APCTypes'
  BY <1>0, <1>3 DEF QueueUserAPC, APCTypes
<1> QED
  BY <1>1, <1>2, <1>3
     DEF Next, Call, TimesOut, WakesSpuriously, Wait, LockRecursively, UnlockRecursion, Unlock,
         Post, Set, Reset, Destroy, Create

\* The count of an object t takes; only a semaphore can be left with some.
LEMMA TakenCount ==
    ASSUME ObjectTypes, NEW t, NEW o \in WaitObjects, count[o] > 0, Acquire(t, o)
    PROVE  /\ count' \in [WaitObjects -> Nat]
           /\ \A p \in WaitObjects : count'[p] <= count[p]
<1>1. PICK n \in Nat : count' = [count EXCEPT ![o] = n] /\ n <= count[o]
  <2>1. count[o] \in Nat /\ count[o] - 1 \in Nat /\ count = [count EXCEPT ![o] = count[o]]
    BY DEF ObjectTypes
  <2> QED
    BY <2>1 DEF Acquire
<1> QED
  BY <1>1 DEF ObjectTypes

\* A new owner of a mutex.
LEMMA OwnTypes ==
    ASSUME ObjectTypes, NEW t \in Threads, NEW o \in WaitObjects, Own(t, o)
    PROVE  /\ owningThread' \in [Mutexes -> Threads \cup {NULL}]
           /\ recursion' \in [Mutexes -> Nat]
           /\ depth' \in [Threads -> [Mutexes -> Nat]]
<1>1. CASE o \notin Mutexes
  BY <1>1 DEF Own, ObjectTypes
<1>2. CASE o \in Mutexes
  <2>1. depth' = [depth EXCEPT ![t][o] = 1]
    BY <1>2 DEF Own
  <2>2. depth' \in [Threads -> [Mutexes -> Nat]]
    BY <2>1 DEF ObjectTypes
  <2> QED
    BY <1>2, <2>2 DEF Own, ObjectTypes
<1> QED
  BY <1>1, <1>2

\* A count stays between zero and the maximum of its object.
LEMMA ObjectsTyped ==
    ASSUME IInv, Next
    PROVE  ObjectTypes'
<1> USE DEF IInv
<1>0. ObjectTypes
  BY TypeParts
<1>1. CASE UNCHANGED <<objectVars, depth>>
  BY <1>0, <1>1 DEF ObjectTypes, objectVars
<1>2. ASSUME NEW t \in Threads, Step(t)
      PROVE  ObjectTypes'
  <2>1. CASE APCThrows(t) \/ StartWaiting(t) \/ Block(t) \/ Reacquire(t) \/ ReturnTimeout(t)
    <3>1. mutex' \in [WaitObjects -> Threads \cup {NULL}]
      BY <1>0, <2>1 DEF APCThrows, StartWaiting, Block, Reacquire, ReturnTimeout, ObjectTypes
    <3> QED
      BY <1>0, <2>1, <3>1 DEF APCThrows, StartWaiting, Block, Reacquire, ReturnTimeout, ObjectTypes
  <2>2. CASE AcquireAtOnce(t) \/ AcquireAfterWait(t)
    <3>1. PICK o \in WaitObjects : count[o] > 0 /\ Acquire(t, o) /\ Own(t, o)
      BY <2>2 DEF AcquireAtOnce, AcquireAfterWait, CallShape, FoundFree
    <3>2. /\ count' \in [WaitObjects -> Nat]
          /\ \A p \in WaitObjects : count'[p] <= count[p]
      BY <1>0, <3>1, TakenCount
    <3>3. \A p \in WaitObjects : count'[p] <= IF p \in Semaphores THEN MaximumValue ELSE 1
      <4>1. TAKE p \in WaitObjects
      <4>2. /\ count[p] \in Nat /\ count'[p] \in Nat /\ count'[p] <= count[p]
            /\ count[p] <= IF p \in Semaphores THEN MaximumValue ELSE 1
        BY <1>0, <3>2 DEF ObjectTypes
      <4> QED
        BY <4>2, WaitObjectAssumption
    <3>4. mutex' \in [WaitObjects -> Threads \cup {NULL}] /\ UNCHANGED destroyed
      BY <1>0, <2>2 DEF AcquireAtOnce, AcquireAfterWait, ObjectTypes
    <3> QED
      BY <1>0, <3>1, <3>2, <3>3, <3>4, OwnTypes DEF ObjectTypes
  <2> QED
    BY <1>1, <1>2, <2>1, <2>2
       DEF Step, NoMoreAPCs, HandleAPC, RefuseAtOnce, LeaveLoop, Untie, FindWaitObject,
           InterruptWait
<1>3. ASSUME NEW t \in Threads, NEW o \in Mutexes,
             LockRecursively(t, o) \/ UnlockRecursion(t, o) \/ Unlock(t, o)
      PROVE  ObjectTypes'
  <2>1. /\ owningThread[o] = t /\ depth[t][o] = recursion[o]
        /\ recursion[o] \in Nat /\ recursion[o] > 0
    BY <1>3, WaitObjectAssumption
       DEF LockRecursively, UnlockRecursion, Unlock, OwnerHolds, TypeOK
  <2>2. PICK d \in Nat : /\ depth' = [depth EXCEPT ![t][o] = d]
                         /\ recursion' = [recursion EXCEPT ![o] = d]
    <3>1. recursion[o] + 1 \in Nat /\ recursion[o] - 1 \in Nat
      BY <2>1
    <3>2. \/ /\ depth' = [depth EXCEPT ![t][o] = depth[t][o] + 1]
             /\ recursion' = [recursion EXCEPT ![o] = recursion[o] + 1]
          \/ /\ depth' = [depth EXCEPT ![t][o] = depth[t][o] - 1]
             /\ recursion' = [recursion EXCEPT ![o] = recursion[o] - 1]
      <4>1. recursion[o] = 1 => recursion[o] - 1 = 0
        OBVIOUS
      <4> QED
        BY <1>3, <4>1 DEF LockRecursively, UnlockRecursion, Unlock
    <3> QED
      BY <2>1, <3>1, <3>2
  <2>3. depth' \in [Threads -> [Mutexes -> Nat]] /\ recursion' \in [Mutexes -> Nat]
    BY <1>0, <2>2 DEF ObjectTypes
  <2>4. /\ count' \in [WaitObjects -> Nat]
        /\ \A p \in WaitObjects : count'[p] <= IF p \in Semaphores THEN MaximumValue ELSE 1
    BY <1>0, <1>3, WaitObjectAssumption
       DEF LockRecursively, UnlockRecursion, Unlock, ObjectTypes, WaitObjects
  <2> QED
    BY <1>0, <1>3, <2>3, <2>4 DEF LockRecursively, UnlockRecursion, Unlock, ObjectTypes
<1>4. ASSUME NEW t \in Threads, NEW o \in WaitObjects \ Mutexes, Releases(t, o)
      PROVE  ObjectTypes'
  <2>1. PICK n \in Nat : /\ count' = [count EXCEPT ![o] = n]
                         /\ n <= IF o \in Semaphores THEN MaximumValue ELSE 1
    <3>1. CASE o \in Semaphores /\ \E releases \in 1 .. MaximumValue : Post(t, o, releases)
      <4>1. PICK releases \in 1 .. MaximumValue : Post(t, o, releases)
        BY <3>1
      <4>2. count[o] \in Nat /\ count[o] + releases \in Nat /\ count[o] + releases <= MaximumValue
        BY <1>0, <4>1, WaitObjectAssumption DEF Post, ObjectTypes
      <4> QED
        BY <3>1, <4>1, <4>2 DEF Post
    <3>2. CASE o \in Events /\ (Set(t, o) \/ Reset(t, o))
      BY <3>2, WaitObjectAssumption DEF Set, Reset
    <3> QED
      BY <1>4, <3>1, <3>2 DEF Releases
  <2>2. UNCHANGED <<mutex, owningThread, recursion, destroyed, depth>>
    BY <1>4 DEF Releases, Post, Set, Reset
  <2> QED
    BY <1>0, <2>1, <2>2 DEF ObjectTypes
<1>5. ASSUME NEW o \in WaitObjects, Destroy(o)
      PROVE  ObjectTypes'
  BY <1>0, <1>5 DEF Destroy, ObjectTypes
<1>6. ASSUME NEW o \in WaitObjects, Create(o)
      PROVE  ObjectTypes'
  <2>1. PICK n \in Nat : /\ count' = [count EXCEPT ![o] = n]
                         /\ n <= IF o \in Semaphores THEN MaximumValue ELSE 1
    <3>1. PICK n \in FreshCounts(o) : count' = [count EXCEPT ![o] = n]
      BY <1>6 DEF Create
    <3>2. n \in Nat /\ n <= IF o \in Semaphores THEN MaximumValue ELSE 1
      BY WaitObjectAssumption DEF FreshCounts
    <3> QED
      BY <3>1, <3>2
  <2> QED
    BY <1>0, <1>6, <2>1 DEF Create, ObjectTypes
<1> QED
  BY <1>1, <1>2, <1>3, <1>4, <1>5, <1>6, WaitObjectAssumption
     DEF Next, Call, Releases, TimesOut, WakesSpuriously, Wait, QueueUserAPC, WaitObjects

\* The types; m_WaitingThreadCount is not decremented at zero, for its thread is counted.
LEMMA TypesKept ==
    ASSUME IInv, Next
    PROVE  TypeOK'
<1>1. waitingCount' \in [WaitObjects -> Nat]
  <2>1. CASE UNCHANGED waitingCount
    BY <2>1 DEF IInv, TypeOK
  <2>2. ASSUME NEW t \in Threads, Block(t)
        PROVE  waitingCount' \in [WaitObjects -> Nat]
    <3>1. PICK m \in WaitObjects : m = object[t]
      BY <2>2 DEF Block, IInv, CallShape
    <3>2. waitingCount[m] + 1 \in Nat
      BY DEF IInv, TypeOK
    <3> QED
      BY <2>2, <3>1, <3>2 DEF Block, IInv, TypeOK
  <2>3. ASSUME NEW t \in Threads, Reacquire(t)
        PROVE  waitingCount' \in [WaitObjects -> Nat]
    <3>1. PICK m \in WaitObjects : m = object[t]
      BY <2>3 DEF Reacquire, IInv, CallShape
    <3>2. t \in WaitingOn(m) /\ IsFiniteSet(WaitingOn(m))
      BY <2>3, <3>1, FS_Subset, WaitObjectAssumption DEF Reacquire, WaitingOn, Waiting
    <3>3. Cardinality(WaitingOn(m)) \in Nat /\ Cardinality(WaitingOn(m)) # 0
      BY <3>2, FS_CardinalityType, FS_EmptySet
    <3>4. waitingCount[m] - 1 \in Nat
      BY <3>3 DEF IInv, WaitersCounted
    <3> QED
      BY <2>3, <3>1, <3>4 DEF Reacquire, IInv, TypeOK
  <2> QED
    BY <2>1, <2>2, <2>3
       DEF Next, Step, Call, NoMoreAPCs, HandleAPC, APCThrows, AcquireAtOnce, RefuseAtOnce,
           StartWaiting, LeaveLoop, Untie, AcquireAfterWait, ReturnTimeout, FindWaitObject,
           InterruptWait, TimesOut, WakesSpuriously, Wait, LockRecursively, UnlockRecursion, Unlock,
           Post, Set, Reset, QueueUserAPC, Destroy, Create, objectVars
<1> QED
  BY <1>1, ObjectsTyped, CallsTyped, APCsTyped DEF TypeOK, ObjectTypes, CallTypes, APCTypes

\* Nobody waits and nobody owns a mutex at the start.
LEMMA InitInv ==
    ASSUME Init
    PROVE  IInv
<1>1. TypeOK
  <2>1. count \in [WaitObjects -> Nat]
    BY WaitObjectAssumption DEF Init
  <2>2. \A o \in WaitObjects : count[o] <= IF o \in Semaphores THEN MaximumValue ELSE 1
    BY WaitObjectAssumption DEF Init, FreshCounts
  <2> QED
    BY <2>1, <2>2 DEF Init, TypeOK, PCs
<1>2. CallShape /\ MutexKept /\ FoundFree /\ Interrupters
  BY DEF Init, CallShape, MutexKept, FoundFree, Interrupters, Keeping
<1>3. OwnerHolds
  <2>1. \A o \in Mutexes : count[o] = 1
    BY DEF Init, FreshCounts, WaitObjects
  <2> QED
    BY <2>1, WaitObjectAssumption DEF Init, OwnerHolds
<1>4. WaitersCounted
  <2>1. \A o \in WaitObjects : WaitingOn(o) = {} /\ waitingCount[o] = 0
    BY DEF Init, WaitingOn, Waiting
  <2> QED
    BY <2>1, FS_EmptySet DEF WaitersCounted
<1> QED
  BY <1>1, <1>2, <1>3, <1>4 DEF IInv

\* No step breaks the invariant.
LEMMA NextInv == IInv /\ [Next]_vars => IInv'
<1>1. ASSUME IInv, UNCHANGED vars
      PROVE  IInv'
  BY <1>1 DEF vars, objectVars, callVars, apcVars, IInv, TypeOK, CallShape, MutexKept, FoundFree,
              Interrupters, OwnerHolds, WaitersCounted, WaitingOn
<1>2. ASSUME IInv, Next
      PROVE  IInv'
  BY <1>2, TypesKept, ShapeKept, MutexesKept, InterruptersKept, OwnersKept, CountKept DEF IInv
<1> QED
  BY <1>1, <1>2

-----------------------------------------------------------------------------
(* Wake-ups *)

\* A wait is on its way out once it has timed out.
TimeoutsLeave ==
    \A t \in Threads : timedOut[t] => pc[t] \in {"woken", "leave", "lastCheck", "finish"}

\* Set wakes everybody, so nobody is blocked on an event that is set.
SetWakesAll == \A o \in Events : count[o] > 0 => Blocked(o) = {}

WInv ==
    /\ IInv
    /\ TimeoutsLeave
    /\ SetWakesAll
    /\ NoLostWakeup

\* A wait that has timed out does not go back into the loop.
LEMMA TimeoutsKept ==
    ASSUME WInv, Next
    PROVE  TimeoutsLeave'
<1> USE DEF WInv, IInv
<1> DEFINE Here(t) == timedOut'[t] => pc'[t] \in {"woken", "leave", "lastCheck", "finish"}
<1>1. ASSUME NEW t \in Threads, OthersStay(t), Here(t)
      PROVE  TimeoutsLeave'
  BY <1>1 DEF OthersStay, TimeoutsLeave
<1>2. ASSUME NEW t \in Threads, NEW awake, EndCall(t, awake)
      PROVE  ~timedOut'[t]
  BY <1>2 DEF EndCall, TypeOK
<1>3. ASSUME NEW t \in Threads, Step(t) \/ TimesOut(t) \/ WakesSpuriously(t)
      PROVE  Here(t)
  <2>1. ASSUME NoMoreAPCs(t) \/ HandleAPC(t) \/ StartWaiting(t) \/ Block(t) \/ Reacquire(t)
               \/ LeaveLoop(t) \/ Untie(t) \/ WakesSpuriously(t) \/ FindWaitObject(t)
        PROVE  Here(t)
    BY <2>1 DEF TimeoutsLeave, NoMoreAPCs, HandleAPC, StartWaiting, Block, Reacquire, LeaveLoop,
                Untie, WakesSpuriously, FindWaitObject, Goto, Move, callVars, APCPoints
  <2>2. ASSUME TimesOut(t)
        PROVE  Here(t)
    BY <2>2 DEF TimesOut, Goto, Move
  <2>3. ASSUME APCThrows(t) \/ RefuseAtOnce(t) \/ ReturnTimeout(t) \/ InterruptWait(t)
               \/ AcquireAtOnce(t) \/ AcquireAfterWait(t)
        PROVE  Here(t)
    BY <1>2, <2>3 DEF APCThrows, RefuseAtOnce, ReturnTimeout, InterruptWait, AcquireAtOnce,
                      AcquireAfterWait, Acquire
  <2> QED
    BY <1>3, <2>1, <2>2, <2>3 DEF Step
<1>4. ASSUME NEW t \in Threads, Call(t)
      PROVE  Here(t)
  <2>1. pc[t] = "idle" /\ timedOut' = timedOut
    BY <1>4 DEF Call, Wait, LockRecursively, UnlockRecursion, Unlock, Post, Set, Reset,
                QueueUserAPC, Free, Idle, callVars
  <2> QED
    BY <2>1 DEF TimeoutsLeave
<1>5. ASSUME NEW o \in WaitObjects, Destroy(o) \/ Create(o)
      PROVE  TimeoutsLeave'
  BY <1>5 DEF Destroy, Create, TimeoutsLeave, callVars
<1> QED
  BY <1>1, <1>3, <1>4, <1>5, StepOthers, CallOthers DEF Next

\* Only Block blocks a thread, on an object that is not free.
LEMMA BlockedBefore ==
    ASSUME IInv, Next, NEW o \in WaitObjects, NEW u \in Blocked(o)', u \notin Blocked(o)
    PROVE  Block(u) /\ object[u] = o
<1> USE DEF IInv
<1>1. u \in Threads /\ pc'[u] = "blocked" /\ object'[u] = o
  BY DEF Blocked
<1>2. ASSUME NEW t \in Threads, OthersStay(t)
      PROVE  t = u
  BY <1>1, <1>2 DEF OthersStay, Blocked
<1>3. CASE Step(u) \/ TimesOut(u) \/ WakesSpuriously(u)
  <2>1. ASSUME NoMoreAPCs(u) \/ HandleAPC(u) \/ StartWaiting(u) \/ Reacquire(u) \/ LeaveLoop(u)
               \/ Untie(u) \/ WakesSpuriously(u) \/ TimesOut(u) \/ FindWaitObject(u)
               \/ APCThrows(u) \/ RefuseAtOnce(u) \/ ReturnTimeout(u)
        PROVE  FALSE
    BY <1>1, <2>1 DEF NoMoreAPCs, HandleAPC, StartWaiting, Reacquire, LeaveLoop, Untie,
         WakesSpuriously, TimesOut, FindWaitObject, APCThrows, RefuseAtOnce, ReturnTimeout,
         EndCall, Goto, Move, APCPoints
  <2>2. ASSUME AcquireAtOnce(u) \/ AcquireAfterWait(u)
        PROVE  FALSE
    BY <1>1, <2>2, AcquireMoves DEF AcquireAtOnce, AcquireAfterWait
  <2>3. ASSUME InterruptWait(u)
        PROVE  FALSE
    <3>1. u \notin Blocked(object[u]) /\ \A v \in Blocked(object[u]) : pc[v] = "blocked"
      BY <2>3 DEF InterruptWait, Blocked
    <3> QED
      BY <1>1, <2>3, <3>1, EndCallMoves DEF InterruptWait
  <2>4. Block(u)
    BY <1>3, <2>1, <2>2, <2>3 DEF Step
  <2> QED
    BY <1>1, <2>4 DEF Block, callVars
<1>4. CASE Call(u)
  <2>1. ASSUME NEW p \in WaitObjects, Releases(u, p)
        PROVE  FALSE
    BY <1>1, <2>1, ReleaseOthers
  <2> QED
    BY <1>1, <1>4, <2>1 DEF Call, Releases, Wait, LockRecursively, UnlockRecursion, QueueUserAPC,
                            Idle, Goto, Move
<1>5. ASSUME NEW p \in WaitObjects, Destroy(p) \/ Create(p)
      PROVE  FALSE
  BY <1>1, <1>5 DEF Destroy, Create, Blocked, callVars
<1> QED
  BY <1>2, <1>3, <1>4, <1>5, StepOthers, CallOthers DEF Next

\* Who is blocked on o after a step was so before it, unless o is not free.
LEMMA BlockedOnFree ==
    ASSUME IInv, Next, NEW o \in WaitObjects, count'[o] > 0, NEW u \in Blocked(o)'
    PROVE  u \in Blocked(o)
<1>1. SUFFICES ASSUME u \notin Blocked(o)
               PROVE  FALSE
  OBVIOUS
<1>2. Block(u) /\ object[u] = o
  BY <1>1, BlockedBefore
<1> QED
  BY <1>2 DEF Block

\* What makes an object free.
LEMMA CountRises ==
    ASSUME IInv, Next, NEW o \in WaitObjects, count[o] = 0, count'[o] > 0
    PROVE  \/ Create(o)
           \/ \E t \in Threads : \/ o \in Mutexes /\ Unlock(t, o)
                                 \/ o \in Semaphores /\ \E releases \in Nat : Post(t, o, releases)
                                 \/ o \in Events /\ Set(t, o)
<1> USE DEF IInv
<1>1. ASSUME UNCHANGED count
      PROVE  FALSE
  BY <1>1
<1>2. ASSUME NEW t \in Threads, AcquireAtOnce(t) \/ AcquireAfterWait(t)
      PROVE  FALSE
  <2>1. PICK p \in WaitObjects : count[p] > 0 /\ Acquire(t, p)
    BY <1>2 DEF AcquireAtOnce, AcquireAfterWait, CallShape, FoundFree
  <2>2. count'[o] <= count[o] /\ count'[o] \in Nat
    BY <2>1, TakenCount, TypeParts
  <2> QED
    BY <2>2
<1>3. ASSUME NEW t \in Threads, NEW p \in WaitObjects, p # o,
             \/ Unlock(t, p) \/ Set(t, p) \/ Reset(t, p)
             \/ \E releases \in Nat : Post(t, p, releases)
      PROVE  FALSE
  BY <1>3 DEF Unlock, Set, Reset, Post, TypeOK
<1>4. ASSUME NEW t \in Threads, Reset(t, o)
      PROVE  FALSE
  BY <1>4 DEF Reset, TypeOK
<1>5. CASE \E t \in Threads : Step(t) \/ TimesOut(t) \/ WakesSpuriously(t)
  BY <1>1, <1>2, <1>5
     DEF Step, NoMoreAPCs, HandleAPC, APCThrows, RefuseAtOnce, StartWaiting, Block, Reacquire,
         LeaveLoop, Untie, ReturnTimeout, FindWaitObject, InterruptWait, TimesOut,
         WakesSpuriously, objectVars
<1>6. ASSUME NEW t \in Threads, Call(t)
      PROVE  \/ o \in Mutexes /\ Unlock(t, o)
             \/ o \in Semaphores /\ \E releases \in Nat : Post(t, o, releases)
             \/ o \in Events /\ Set(t, o)
  <2>1. ASSUME NEW p \in WaitObjects, Releases(t, p)
        PROVE  p = o /\ ~Reset(t, p)
    BY <1>3, <1>4, <2>1, WaitObjectAssumption DEF Releases
  <2>2. \E p \in WaitObjects : Releases(t, p)
    BY <1>1, <1>6 DEF Call, Releases, Wait, LockRecursively, UnlockRecursion, QueueUserAPC,
                      objectVars
  <2>3. Releases(t, o) /\ ~Reset(t, o)
    BY <2>1, <2>2
  <2> QED
    BY <2>3, WaitObjectAssumption DEF Releases
<1>7. ASSUME NEW p \in WaitObjects, Destroy(p) \/ Create(p)
      PROVE  p = o /\ Create(o)
  <2>1. Create(p)
    BY <1>1, <1>7 DEF Destroy
  <2>2. PICK c : count' = [count EXCEPT ![p] = c]
    BY <2>1 DEF Create
  <2>3. p = o
    BY <2>2 DEF TypeOK
  <2> QED
    BY <2>1, <2>3
<1> QED
  BY <1>5, <1>6, <1>7 DEF Next

\* Set wakes all, and a thread blocks only on an event that is not set.
LEMMA SetKept ==
    ASSUME WInv, Next
    PROVE  SetWakesAll'
<1> USE DEF WInv, IInv
<1>1. SUFFICES ASSUME NEW o \in Events, count'[o] > 0, NEW u \in Blocked(o)'
               PROVE  FALSE
  BY DEF SetWakesAll
<1>2. o \in WaitObjects /\ u \in Blocked(o) /\ u \in Threads
  BY <1>1, BlockedOnFree DEF Events, WaitObjects, Blocked
<1>3. count[o] = 0
  BY <1>2 DEF SetWakesAll, TypeOK
<1>4. o \notin destroyed
  BY <1>2 DEF Blocked, CallShape
<1>5. PICK t \in Threads : Set(t, o)
  BY <1>1, <1>2, <1>3, <1>4, CountRises, WaitObjectAssumption DEF Create
<1>6. waitingCount[o] # 0
  <2>1. u \in WaitingOn(o) /\ IsFiniteSet(WaitingOn(o))
    BY <1>2, FS_Subset, WaitObjectAssumption DEF WaitingOn, Waiting, Blocked
  <2> QED
    BY <1>2, <2>1, FS_EmptySet DEF WaitersCounted
<1>7. pc'[u] = "woken"
  BY <1>2, <1>5, <1>6 DEF Set, Move
<1> QED
  BY <1>1, <1>7 DEF Blocked

\* A thread that was blocked on o, and is woken, comes.
LEMMA WokenComes ==
    ASSUME WInv, NEW t \in Threads, OthersStay(t), pc[t] # "blocked",
           NEW o \in WaitObjects, Blocked(o) # {}, NEW awake \in Signalled(o), NEW label,
           Move(t, label, awake)
    PROVE  \E w \in Threads : Comes(w, o)'
<1>1. PICK w \in Blocked(o) : awake = {w}
  BY DEF Signalled
<1>2. w \in Threads /\ w # t /\ pc[w] = "blocked" /\ object[w] = o /\ ~timedOut[w]
  BY <1>1 DEF Blocked, WInv, TimeoutsLeave
<1>3. pc'[w] = "woken" /\ object'[w] = o /\ ~timedOut'[w]
  BY <1>1, <1>2 DEF OthersStay, Move
<1> QED
  BY <1>2, <1>3 DEF Comes, InWait

\* A thread that comes goes on, until it takes the object.
LEMMA ComesOn ==
    ASSUME WInv, NEW o \in WaitObjects, count[o] > 0, NEW w \in Threads, Comes(w, o), Next,
           ~APCThrows(w)
    PROVE  Comes(w, o)' \/ AcquireAfterWait(w)
<1> USE DEF WInv, IInv
<1>1. ASSUME NEW t \in Threads, t # w, OthersStay(t)
      PROVE  Comes(w, o)'
  BY <1>1 DEF OthersStay, Comes, InWait
<1>2. object[w] = o /\ ~timedOut[w]
      /\ pc[w] \in {"registered", "loop", "woken", "check", "leave", "lastCheck", "finish"}
  BY DEF Comes, InWait
<1>3. CASE Step(w) \/ TimesOut(w) \/ WakesSpuriously(w)
  <2>1. ASSUME NoMoreAPCs(w) \/ HandleAPC(w) \/ Reacquire(w) \/ LeaveLoop(w) \/ Untie(w)
        PROVE  Comes(w, o)'
    BY <1>2, <2>1 DEF NoMoreAPCs, HandleAPC, Reacquire, LeaveLoop, Untie, Goto, Move, callVars,
                      Comes, InWait
  <2> QED
    BY <1>2, <1>3, <2>1 DEF Step, AcquireAtOnce, RefuseAtOnce, StartWaiting, Block,
                            ReturnTimeout, FindWaitObject, InterruptWait, TimesOut,
                            WakesSpuriously
<1>4. ~Call(w)
  BY <1>2 DEF Call, Wait, LockRecursively, UnlockRecursion, Unlock, Post, Set, Reset,
              QueueUserAPC, Free, Idle
<1>5. ASSUME NEW p \in WaitObjects, Destroy(p) \/ Create(p)
      PROVE  Comes(w, o)'
  BY <1>5 DEF Destroy, Create, Comes, InWait, callVars
<1> QED
  BY <1>1, <1>3, <1>4, <1>5, StepOthers, CallOthers DEF Next

\* An object becomes free with a wake-up, and a thread that takes a part of a semaphore
\* passes one on.
LEMMA WakeupsKept ==
    ASSUME WInv, SparingNext
    PROVE  NoLostWakeup'
<1> USE DEF WInv, IInv, SparingNext
<1>1. SUFFICES ASSUME NEW o \in WaitObjects, count'[o] > 0, NEW u \in Blocked(o)'
               PROVE  \E w \in Threads : Comes(w, o)'
  BY DEF NoLostWakeup, Comes
<1>2. u \in Blocked(o) /\ u \in Threads /\ o \notin destroyed
  BY <1>1, BlockedOnFree DEF Blocked, CallShape
<1>3. waitingCount[o] # 0
  <2>1. u \in WaitingOn(o) /\ IsFiniteSet(WaitingOn(o))
    BY <1>2, FS_Subset, WaitObjectAssumption DEF WaitingOn, Waiting, Blocked
  <2> QED
    BY <2>1, FS_EmptySet DEF WaitersCounted
<1>4. CASE count[o] = 0
  <2>1. o \notin Events
    BY <1>1, SetKept DEF SetWakesAll
  <2>2. PICK t \in Threads : \/ o \in Mutexes /\ Unlock(t, o)
                             \/ o \in Semaphores /\ \E releases \in Nat : Post(t, o, releases)
    BY <1>1, <1>2, <1>4, <2>1, CountRises DEF Create
  <2>3. PICK awake \in Signalled(o) : Move(t, "idle", awake)
    BY <1>3, <2>2 DEF Unlock, Post
  <2>4. OthersStay(t) /\ pc[t] = "idle"
    <3>1. \A v \in awake : pc[v] = "blocked"
      BY SignalledBlocked
    <3>2. pc[t] = "idle" /\ UNCHANGED <<callVars, apcVars>>
      BY <2>2 DEF Unlock, Post, Free, Idle
    <3> QED
      BY <2>3, <3>1, <3>2, MoveMoves DEF OthersStay, callVars, apcVars
  <2> QED
    BY <1>2, <2>3, <2>4, WokenComes
<1>5. CASE count[o] > 0
  <2>1. o \notin Events
    BY <1>2, <1>5 DEF SetWakesAll
  <2>2. PICK w \in Threads : Comes(w, o)
    BY <1>2, <1>5 DEF NoLostWakeup, Comes
  <2>3. ASSUME AcquireAfterWait(w)
        PROVE  \E x \in Threads : Comes(x, o)'
    <3>1. object[w] = o /\ pc[w] = "finish" /\ Acquire(w, o)
      BY <2>2, <2>3 DEF Comes, AcquireAfterWait
    <3>2. o \in Semaphores /\ count[o] > 1
      BY <1>1, <2>1, <3>1, WaitObjectAssumption DEF Acquire, TypeOK, WaitObjects, Events
    <3>3. PICK awake \in Signalled(o) : EndCall(w, awake)
      BY <1>3, <2>1, <3>1, <3>2, WaitObjectAssumption DEF Acquire, Events
    <3> QED
      BY <1>2, <2>3, <3>1, <3>3, StepOthers, WokenComes DEF Step, EndCall
  <2>4. CASE APCThrows(w)
    <3>1. PICK x \in Threads \ {w} : Comes(x, o)
      BY <1>2, <1>5, <2>2, <2>4 DEF HasLastWakeup, Comes
    <3>2. OthersStay(w)
      BY <2>4, StepOthers DEF Step
    <3> QED
      BY <3>1, <3>2 DEF OthersStay, Comes, InWait
  <2> QED
    BY <1>5, <2>2, <2>3, <2>4, ComesOn
<1> QED
  BY <1>4, <1>5 DEF TypeOK

\* Nobody is blocked at the start.
LEMMA InitWInv ==
    ASSUME Init
    PROVE  WInv
<1>1. IInv
  BY InitInv
<1>2. \A o \in WaitObjects : Blocked(o) = {}
  BY DEF Init, Blocked
<1> QED
  BY <1>1, <1>2 DEF WInv, Init, TimeoutsLeave, SetWakesAll, NoLostWakeup, Events, WaitObjects

\* No step breaks the stronger invariant, unless an exception takes the last wake-up.
LEMMA NextWInv == WInv /\ [SparingNext]_vars => WInv'
<1>1. ASSUME WInv, UNCHANGED vars
      PROVE  WInv'
  <2>1. IInv'
    BY <1>1, NextInv DEF WInv
  <2> QED
    BY <1>1, <2>1 DEF vars, objectVars, callVars, WInv, TimeoutsLeave, SetWakesAll, NoLostWakeup,
                      Blocked, Comes, InWait
<1>2. ASSUME WInv, SparingNext
      PROVE  WInv'
  BY <1>2, NextInv, TimeoutsKept, SetKept, WakeupsKept DEF WInv, SparingNext
<1> QED
  BY <1>1, <1>2

-----------------------------------------------------------------------------
(* The contract *)

\* A call of Wait as the contract sees it.
InCall(t) == InWait(t) \/ pc[t] \in {"upFront", "lock"}
CallOf(t) ==
    IF InCall(t)
    THEN [object |-> object[t], limit |-> limit[t], alertable |-> interruptible[t]]
    ELSE NULL
Calls == [t \in Threads |-> CallOf(t)]
Units == [o \in WaitObjects \ Mutexes |-> count[o]]

\* Only an interruptible wait that may block looks at its APCs, and only one with a
\* time-out times out.
LimitsKept ==
    \A t \in Threads :
        /\ pc[t] \in APCPoints => interruptible[t] /\ limit[t] # "zero"
        /\ InWait(t) => limit[t] # "zero"
        /\ timedOut[t] => InWait(t) /\ limit[t] = "timed"

CInv == IInv /\ LimitsKept

\* A step leaves the arguments of other threads alone.
LEMMA ArgumentsStay ==
    ASSUME IInv, NEW t \in Threads, Step(t) \/ TimesOut(t) \/ WakesSpuriously(t) \/ Call(t)
    PROVE  \A u \in Threads \ {t} :
             limit'[u] = limit[u] /\ interruptible'[u] = interruptible[u]
<1>1. CASE UNCHANGED <<limit, interruptible>>
  BY <1>1
<1>2. ASSUME NEW awake, EndCall(t, awake)
      PROVE  \A u \in Threads \ {t} :
               limit'[u] = limit[u] /\ interruptible'[u] = interruptible[u]
  BY <1>2 DEF EndCall, IInv, TypeOK
<1>3. ASSUME NEW o \in WaitObjects, NEW time \in Limits, NEW alertable \in Interruptibles,
             Wait(t, o, time, alertable)
      PROVE  \A u \in Threads \ {t} :
               limit'[u] = limit[u] /\ interruptible'[u] = interruptible[u]
  BY <1>3 DEF Wait, IInv, TypeOK
<1>4. ASSUME APCThrows(t) \/ RefuseAtOnce(t) \/ ReturnTimeout(t) \/ InterruptWait(t)
             \/ AcquireAtOnce(t) \/ AcquireAfterWait(t)
      PROVE  \E awake \in SUBSET Threads : EndCall(t, awake)
  <2>1. \A o : Signalled(o) \subseteq SUBSET Threads /\ Blocked(o) \subseteq Threads
    BY DEF Signalled, Blocked
  <2> QED
    BY <1>4, <2>1 DEF APCThrows, RefuseAtOnce, ReturnTimeout, InterruptWait, AcquireAtOnce,
                      AcquireAfterWait, Acquire
<1>5. ASSUME \/ NoMoreAPCs(t) \/ HandleAPC(t) \/ StartWaiting(t) \/ Block(t) \/ Reacquire(t)
             \/ LeaveLoop(t) \/ Untie(t) \/ FindWaitObject(t) \/ TimesOut(t)
             \/ WakesSpuriously(t) \/ \E u \in Threads : QueueUserAPC(t, u)
             \/ \E o \in WaitObjects : LockRecursively(t, o) \/ UnlockRecursion(t, o)
             \/ \E o \in WaitObjects : Releases(t, o)
      PROVE  UNCHANGED <<limit, interruptible>>
  BY <1>5 DEF NoMoreAPCs, HandleAPC, StartWaiting, Block, Reacquire, LeaveLoop, Untie,
              FindWaitObject, TimesOut, WakesSpuriously, QueueUserAPC, LockRecursively,
              UnlockRecursion, Releases, Unlock, Post, Set, Reset, callVars
<1> QED
  BY <1>1, <1>2, <1>3, <1>4, <1>5 DEF Step, Call, Releases

\* So their calls are what they were.
LEMMA CallsStay ==
    ASSUME NEW t \in Threads, OthersStay(t),
           \A u \in Threads \ {t} : limit'[u] = limit[u] /\ interruptible'[u] = interruptible[u]
    PROVE  /\ \A u \in Threads \ {t} : CallOf(u)' = CallOf(u)
           /\ CallOf(t)' = CallOf(t) => Calls' = Calls
           /\ Calls' = [Calls EXCEPT ![t] = CallOf(t)']
<1>1. ASSUME NEW u \in Threads \ {t} PROVE CallOf(u)' = CallOf(u)
  <2>1. InCall(u)' <=> InCall(u)
    BY DEF OthersStay, InCall, InWait
  <2> QED
    BY <2>1 DEF OthersStay, CallOf
<1>2. Calls' = [u \in Threads |-> IF u = t THEN CallOf(t)' ELSE CallOf(u)]
  BY <1>1 DEF Calls
<1> QED
  BY <1>1, <1>2 DEF Calls

\* The limits of a call are kept.
LEMMA LimitsStay ==
    ASSUME CInv, Next
    PROVE  LimitsKept'
<1> USE DEF CInv, IInv
<1> DEFINE Here(t) == /\ pc'[t] \in APCPoints => interruptible'[t] /\ limit'[t] # "zero"
                      /\ InWait(t)' => limit'[t] # "zero"
                      /\ timedOut'[t] => InWait(t)' /\ limit'[t] = "timed"
<1>1. ASSUME NEW t \in Threads, OthersStay(t), Here(t),
             \A u \in Threads \ {t} :
               limit'[u] = limit[u] /\ interruptible'[u] = interruptible[u]
      PROVE  LimitsKept'
  BY <1>1 DEF OthersStay, LimitsKept, InWait, APCPoints
<1>2. ASSUME NEW t \in Threads, NEW awake, EndCall(t, awake), pc'[t] = "idle"
      PROVE  Here(t)
  BY <1>2 DEF EndCall, TypeOK, APCPoints, InWait
<1>3. ASSUME NEW t \in Threads, Step(t) \/ TimesOut(t) \/ WakesSpuriously(t)
      PROVE  Here(t)
  <2>1. ASSUME NoMoreAPCs(t) \/ HandleAPC(t) \/ Block(t) \/ Reacquire(t)
               \/ LeaveLoop(t) \/ WakesSpuriously(t)
        PROVE  Here(t)
    BY <2>1 DEF LimitsKept, NoMoreAPCs, HandleAPC, Block, Reacquire, LeaveLoop,
                WakesSpuriously, Goto, Move, callVars, APCPoints, InWait
  <2>2. ASSUME StartWaiting(t) \/ Untie(t) \/ FindWaitObject(t)
        PROVE  Here(t)
    BY <2>2 DEF LimitsKept, StartWaiting, Untie, FindWaitObject, Goto, Move, callVars,
                APCPoints, InWait
  <2>3. ASSUME TimesOut(t)
        PROVE  Here(t)
    BY <2>3 DEF LimitsKept, TimesOut, Goto, Move, APCPoints, InWait, TypeOK
  <2>4. ASSUME APCThrows(t) \/ RefuseAtOnce(t) \/ ReturnTimeout(t)
        PROVE  Here(t)
    <3>1. EndCall(t, {}) /\ TypeOK
      BY <2>4 DEF APCThrows, RefuseAtOnce, ReturnTimeout
    <3> QED
      BY <1>2, <3>1, EndCallMoves
  <2>5. ASSUME AcquireAtOnce(t) \/ AcquireAfterWait(t)
        PROVE  Here(t)
    BY <1>2, <2>5, AcquireMoves DEF AcquireAtOnce, AcquireAfterWait, Acquire
  <2>6. ASSUME InterruptWait(t)
        PROVE  Here(t)
    <3>1. t \notin Blocked(object[t]) /\ \A u \in Blocked(object[t]) : pc[u] = "blocked"
      BY <2>6 DEF InterruptWait, Blocked
    <3> QED
      BY <1>2, <2>6, <3>1, EndCallMoves DEF InterruptWait
  <2> QED
    BY <1>3, <2>1, <2>2, <2>3, <2>4, <2>5, <2>6 DEF Step
<1>4. ASSUME NEW t \in Threads, Call(t)
      PROVE  Here(t)
  <2>1. CASE \E o \in WaitObjects, time \in Limits, alertable \in Interruptibles :
               Wait(t, o, time, alertable)
    <3>1. ~timedOut[t] /\ timedOut' = timedOut
      BY <2>1 DEF Wait, Idle, LimitsKept, InWait
    <3>2. /\ pc'[t] \in {"upFront", "lock"}
          /\ pc'[t] = "upFront" => interruptible'[t] /\ limit'[t] # "zero"
      BY <2>1 DEF Wait, Goto, Move, TypeOK
    <3> QED
      BY <3>1, <3>2 DEF APCPoints, InWait
  <2>2. CASE \E o \in WaitObjects : LockRecursively(t, o) \/ UnlockRecursion(t, o)
    BY <2>2 DEF LimitsKept, LockRecursively, UnlockRecursion, callVars, InWait
  <2>3. CASE \E o \in WaitObjects : Releases(t, o)
    BY <2>3, ReleaseOthers DEF LimitsKept, callVars, InWait
  <2>4. CASE \E u \in Threads : QueueUserAPC(t, u)
    BY <2>4 DEF LimitsKept, QueueUserAPC, Goto, Move, callVars, APCPoints, InWait
  <2> QED
    BY <1>4, <2>1, <2>2, <2>3, <2>4 DEF Call, Releases
<1>5. ASSUME NEW o \in WaitObjects, Destroy(o) \/ Create(o)
      PROVE  LimitsKept'
  BY <1>5 DEF Destroy, Create, LimitsKept, callVars, InWait
<1> QED
  BY <1>1, <1>3, <1>4, <1>5, StepOthers, CallOthers, ArgumentsStay DEF Next

\* Semaphores and events are what is not a mutex.
LEMMA CountedObjects == Contract!Counted = WaitObjects \ Mutexes
BY WaitObjectAssumption DEF Contract!Counted, WaitObjects, Events

\* A call that is under way is not null, and says what the thread has asked for.
LEMMA CallIsPlaced ==
    ASSUME CInv, NEW t \in Threads, InCall(t)
    PROVE  /\ CallOf(t) # NULL /\ Calls[t] = CallOf(t) /\ object[t] \in WaitObjects
           /\ CallOf(t).object = object[t] /\ CallOf(t).limit = limit[t]
           /\ CallOf(t).alertable = interruptible[t]
<1>1. object[t] \in WaitObjects
  BY DEF CInv, IInv, CallShape, InCall, InWait
<1>2. CallOf(t) = [object |-> object[t], limit |-> limit[t], alertable |-> interruptible[t]]
  BY DEF CallOf
<1>3. CallOf(t) \in [object : WaitObjects, limit : {"zero", "timed", "infinite"},
                     alertable : BOOLEAN]
  BY <1>1, <1>2 DEF CInv, IInv, TypeOK
<1> QED
  BY <1>1, <1>2, <1>3, WaitObjectAssumption DEF Calls

\* The steps of which the contract does not speak.
LEMMA Stutters ==
    ASSUME Calls' = Calls, UNCHANGED <<depth, count, pendingAPCs>>
    PROVE  UNCHANGED Contract!vars
BY DEF Contract!vars, Calls, CallOf, InCall

\* A Wait gets the object at its end.
LEMMA AcquireRefines ==
    ASSUME CInv, NEW t \in Threads, AcquireAtOnce(t) \/ AcquireAfterWait(t)
    PROVE  Contract!Succeed(t)
<1> USE DEF CInv, IInv
<1>1. PICK o \in WaitObjects : o = object[t]
  BY DEF AcquireAtOnce, AcquireAfterWait, CallShape
<1>2. pc[t] \in {"lock", "finish"} /\ Acquire(t, o) /\ Own(t, o) /\ UNCHANGED pendingAPCs
  BY <1>1 DEF AcquireAtOnce, AcquireAfterWait, apcVars
<1>3. count[o] > 0
  BY <1>1 DEF AcquireAtOnce, AcquireAfterWait, FoundFree
<1>4. InCall(t) /\ Calls[t] # NULL /\ Calls[t].object = o
  BY <1>1, <1>2, CallIsPlaced DEF InCall, InWait
<1>5. pc'[t] = "idle"
  BY <1>2, AcquireMoves
<1>6. Calls' = [Calls EXCEPT ![t] = NULL]
  <2>1. CallOf(t)' = NULL
    BY <1>5 DEF CallOf, InCall, InWait
  <2> QED
    BY <2>1, StepOthers, ArgumentsStay, CallsStay DEF Step
<1>7. CASE o \in Mutexes
  <2>1. \A u \in Threads : depth[u][o] = 0
    BY <1>3, <1>7, WaitObjectAssumption DEF OwnerHolds
  <2>2. depth' = [depth EXCEPT ![t][o] = 1]
    BY <1>2, <1>7 DEF Own
  <2>3. Units' = Units
    <3>1. count' = [count EXCEPT ![o] = 0]
      BY <1>2, <1>7, WaitObjectAssumption DEF Acquire, Events
    <3>2. \A p \in WaitObjects \ Mutexes : count'[p] = count[p]
      BY <1>7, <3>1 DEF TypeOK
    <3> QED
      BY <3>2 DEF Units
  <2> QED
    BY <1>2, <1>4, <1>6, <1>7, <2>1, <2>2, <2>3
       DEF Contract!Succeed, Contract!EndWait, Calls, CallOf, InCall, Units
<1>8. CASE o \notin Mutexes
  <2>1. o \in Contract!Counted /\ Units[o] > 0
    BY <1>1, <1>3, <1>8, CountedObjects DEF Units
  <2>2. UNCHANGED depth
    BY <1>2, <1>8 DEF Own
  <2>3. Units' = IF o \in ManualEvents THEN Units ELSE [Units EXCEPT ![o] = @ - 1]
    <3>1. CASE o \in ManualEvents
      BY <1>2, <3>1, WaitObjectAssumption DEF Acquire, Events, Units
    <3>2. CASE o \notin ManualEvents
      <4>1. count' = [count EXCEPT ![o] = count[o] - 1]
        <5>1. CASE o \in AutoEvents
          <6>1. count[o] = 1
            BY <1>1, <1>3, <5>1, WaitObjectAssumption DEF TypeOK, Events
          <6>2. count' = [count EXCEPT ![o] = 0]
            BY <1>2, <3>2, <5>1, WaitObjectAssumption DEF Acquire, Events
          <6> QED
            BY <6>1, <6>2
        <5>2. CASE o \in Semaphores
          BY <1>2, <1>8, <3>2, <5>2, WaitObjectAssumption DEF Acquire, Events
        <5> QED
          BY <1>1, <1>8, <3>2, <5>1, <5>2 DEF WaitObjects
      <4> QED
        BY <1>1, <1>8, <3>2, <4>1 DEF Units, TypeOK
    <3> QED
      BY <3>1, <3>2
  <2> QED
    BY <1>2, <1>4, <1>6, <2>1, <2>2, <2>3
       DEF Contract!Succeed, Contract!EndWait, Calls, CallOf, InCall, Units
<1> QED
  BY <1>7, <1>8

\* It fails only with a time-out that its caller has asked for.
LEMMA TimeoutRefines ==
    ASSUME CInv, NEW t \in Threads, RefuseAtOnce(t) \/ ReturnTimeout(t)
    PROVE  Contract!TimeOut(t)
<1> USE DEF CInv, IInv
<1>1. InCall(t) /\ limit[t] # "infinite"
  BY DEF RefuseAtOnce, ReturnTimeout, LimitsKept, InCall, InWait
<1>2. Calls[t] # NULL /\ Calls[t].limit = limit[t]
  BY <1>1, CallIsPlaced
<1>3. EndCall(t, {}) /\ TypeOK /\ UNCHANGED <<count, depth, pendingAPCs>>
  BY DEF RefuseAtOnce, ReturnTimeout, objectVars, apcVars
<1>4. pc'[t] = "idle"
  BY <1>3, EndCallMoves
<1>5. Calls' = [Calls EXCEPT ![t] = NULL]
  <2>1. CallOf(t)' = NULL
    BY <1>4 DEF CallOf, InCall, InWait
  <2> QED
    BY <2>1, StepOthers, ArgumentsStay, CallsStay DEF Step
<1> QED
  BY <1>1, <1>2, <1>3, <1>5 DEF Contract!TimeOut, Contract!EndWait, Calls, CallOf, InCall

\* An APC runs in a thread that waits for it, and may end its Wait.
LEMMA APCRefines ==
    ASSUME CInv, NEW t \in Threads, HandleAPC(t) \/ APCThrows(t)
    PROVE  Contract!RunAPC(t)
<1> USE DEF CInv, IInv
<1>1. /\ InCall(t) /\ interruptible[t] /\ limit[t] # "zero" /\ pendingAPCs[t] > 0
      /\ pendingAPCs' = [pendingAPCs EXCEPT ![t] = @ - 1] /\ UNCHANGED <<count, depth>>
  BY DEF HandleAPC, APCThrows, LimitsKept, InCall, InWait, APCPoints, objectVars
<1>2. Calls[t] # NULL /\ Calls[t].alertable = interruptible[t] /\ Calls[t].limit = limit[t]
  BY <1>1, CallIsPlaced
<1>3. Calls' = [Calls EXCEPT ![t] = CallOf(t)'] /\ (CallOf(t)' = CallOf(t) => Calls' = Calls)
  BY StepOthers, ArgumentsStay, CallsStay DEF Step
<1>4. Calls' = Calls \/ (Throws /\ Calls' = [Calls EXCEPT ![t] = NULL])
  <2>1. CASE HandleAPC(t)
    BY <1>3, <2>1 DEF HandleAPC, CallOf, InCall, InWait, callVars
  <2>2. CASE APCThrows(t)
    <3>1. EndCall(t, {}) /\ Throws /\ TypeOK
      BY <2>2 DEF APCThrows
    <3>2. pc'[t] = "idle"
      BY <3>1, EndCallMoves
    <3>3. CallOf(t)' = NULL
      BY <3>2 DEF CallOf, InCall, InWait
    <3> QED
      BY <1>3, <3>1, <3>3
  <2> QED
    BY <2>1, <2>2
<1> QED
  BY <1>1, <1>2, <1>4 DEF Contract!RunAPC, Contract!EndWait, Calls, CallOf, InCall, Units

\* The other steps inside Wait, and those of an interrupter, change no call.
LEMMA OtherStepsStutter ==
    ASSUME CInv, NEW t \in Threads,
           \/ NoMoreAPCs(t) \/ StartWaiting(t) \/ Block(t) \/ Reacquire(t) \/ LeaveLoop(t)
           \/ Untie(t) \/ FindWaitObject(t) \/ InterruptWait(t) \/ TimesOut(t)
           \/ WakesSpuriously(t)
    PROVE  UNCHANGED Contract!vars
<1> USE DEF CInv, IInv
<1>1. UNCHANGED <<depth, count, pendingAPCs>>
  BY DEF NoMoreAPCs, StartWaiting, Block, Reacquire, LeaveLoop, Untie, FindWaitObject,
         InterruptWait, TimesOut, WakesSpuriously, objectVars, apcVars
<1>2. CallOf(t)' = CallOf(t)
  <2>1. CASE NoMoreAPCs(t) \/ StartWaiting(t) \/ Block(t) \/ Reacquire(t) \/ LeaveLoop(t)
             \/ Untie(t) \/ TimesOut(t) \/ WakesSpuriously(t)
    <3>1. InCall(t) /\ InCall(t)' /\ UNCHANGED <<object, limit, interruptible>>
      BY <2>1 DEF NoMoreAPCs, StartWaiting, Block, Reacquire, LeaveLoop, Untie, TimesOut,
                  WakesSpuriously, Goto, Move, InCall, InWait, APCPoints, callVars
    <3> QED
      BY <3>1 DEF CallOf
  <2>2. CASE FindWaitObject(t)
    BY <2>2 DEF FindWaitObject, Goto, Move, CallOf, InCall, InWait
  <2>3. CASE InterruptWait(t)
    <3>1. t \notin Blocked(object[t]) /\ \A u \in Blocked(object[t]) : pc[u] = "blocked"
      BY <2>3 DEF InterruptWait, Blocked
    <3>2. pc[t] = "interrupt" /\ pc'[t] = "idle"
      BY <2>3, <3>1, EndCallMoves DEF InterruptWait
    <3> QED
      BY <3>2 DEF CallOf, InCall, InWait
  <2> QED
    BY <2>1, <2>2, <2>3
<1>3. Calls' = Calls
  BY <1>2, StepOthers, ArgumentsStay, CallsStay DEF Step
<1> QED
  BY <1>1, <1>3, Stutters

\* A thread that calls nothing or calls Wait.
LEMMA IdleCalls ==
    ASSUME IInv, NEW t \in Threads, Call(t), pc'[t] \in {"idle", "queue"}
    PROVE  Calls' = Calls
<1>1. pc[t] = "idle"
  BY DEF Call, Wait, LockRecursively, UnlockRecursion, Unlock, Post, Set, Reset, QueueUserAPC,
         Free, Idle
<1>2. CallOf(t)' = CallOf(t)
  BY <1>1 DEF CallOf, InCall, InWait
<1> QED
  BY <1>2, CallOthers, ArgumentsStay, CallsStay

\* A release puts at most the maximum there, and takes nothing from a semaphore.
LEMMA RefillRefines ==
    ASSUME IInv, NEW o \in WaitObjects, NEW n \in Nat, Calls' = Calls,
           count' = [count EXCEPT ![o] = n], UNCHANGED <<depth, pendingAPCs>>,
           o \in Mutexes \/ n <= MaximumValue,
           n < count[o] => o \notin Semaphores \/ \A t \in Threads : object[t] # o
    PROVE  [Contract!Next]_(Contract!vars)
<1>1. CASE o \in Mutexes
  <2>1. Units' = Units
    BY <1>1 DEF Units, IInv, TypeOK
  <2> QED
    BY <2>1 DEF Contract!vars, Units, Calls, CallOf, InCall
<1>2. CASE o \notin Mutexes
  <2>1. o \in Contract!Counted /\ n \in 0 .. MaximumValue
    BY <1>2, CountedObjects, WaitObjectAssumption
  <2>2. Units' = [Units EXCEPT ![o] = n] /\ Units[o] = count[o]
    BY <1>2 DEF Units, IInv, TypeOK
  <2>3. ASSUME n < Units[o]
        PROVE  \/ o \in AutoEvents \cup ManualEvents
               \/ \A t \in Threads : Calls[t] # NULL => Calls[t].object # o
    <3>1. CASE o \notin Semaphores
      BY <1>2, <3>1 DEF WaitObjects
    <3>2. CASE \A t \in Threads : object[t] # o
      BY <3>2 DEF Calls, CallOf
    <3> QED
      BY <2>2, <2>3, <3>1, <3>2
  <2>4. Contract!Refill(o)
    BY <2>1, <2>2, <2>3 DEF Contract!Refill, Calls, CallOf, InCall, Units
  <2> QED
    BY <2>1, <2>4 DEF Contract!Next
<1> QED
  BY <1>1, <1>2

\* What a thread calls is a step of the contract.
LEMMA CallRefines ==
    ASSUME CInv, NEW t \in Threads, Call(t)
    PROVE  [Contract!Next]_(Contract!vars)
<1> USE DEF CInv, IInv
<1>1. ASSUME NEW o \in WaitObjects, NEW time \in Limits, NEW alertable \in Interruptibles,
             Wait(t, o, time, alertable)
      PROVE  [Contract!Next]_(Contract!vars)
  <2>1. /\ pc[t] = "idle" /\ pc'[t] \in {"upFront", "lock"}
        /\ object'[t] = o /\ limit'[t] = time /\ interruptible'[t] = alertable
        /\ UNCHANGED <<count, depth, pendingAPCs>>
    BY <1>1 DEF Wait, Idle, Goto, Move, objectVars, apcVars, TypeOK
  <2>2. /\ CallOf(t) = NULL /\ Calls[t] = NULL
        /\ CallOf(t)' = [object |-> o, limit |-> time, alertable |-> alertable]
    BY <2>1 DEF CallOf, InCall, InWait, Calls
  <2>3. Calls' = [Calls EXCEPT ![t] = CallOf(t)']
    BY CallOthers, ArgumentsStay, CallsStay
  <2>4. Contract!StartWait(t, o, time, alertable)
    BY <2>1, <2>2, <2>3 DEF Contract!StartWait, Calls, CallOf, InCall
  <2>5. /\ o \in Mutexes \cup Contract!Counted /\ time \in {"zero", "timed", "infinite"}
        /\ alertable \in BOOLEAN
    BY CountedObjects, WaitObjectAssumption
  <2> QED
    BY <2>4, <2>5 DEF Contract!Next
<1>2. ASSUME NEW o \in Mutexes, LockRecursively(t, o)
      PROVE  Contract!Relock(t, o)
  <2>1. depth[t][o] > 0
    BY <1>2, WaitObjectAssumption DEF LockRecursively, OwnerHolds
  <2>2. Calls' = Calls
    BY <1>2, IdleCalls DEF LockRecursively, Idle, Call, WaitObjects
  <2>3. depth' = [depth EXCEPT ![t][o] = @ + 1] /\ UNCHANGED <<count, pendingAPCs>>
    BY <1>2 DEF LockRecursively, apcVars
  <2> QED
    BY <2>1, <2>2, <2>3 DEF Contract!Relock, Calls, CallOf, InCall
<1>3. ASSUME NEW o \in Mutexes, UnlockRecursion(t, o) \/ Unlock(t, o)
      PROVE  Contract!Unlock(t, o)
  <2>1. depth[t][o] > 0
    BY <1>3, WaitObjectAssumption DEF UnlockRecursion, Unlock, OwnerHolds
  <2>2. Calls' = Calls
    <3>1. pc'[t] = "idle"
      BY <1>3, ReleaseOthers DEF UnlockRecursion, Idle, Releases, WaitObjects
    <3> QED
      BY <3>1, IdleCalls
  <2>3. depth' = [depth EXCEPT ![t][o] = @ - 1] /\ UNCHANGED pendingAPCs
    BY <1>3 DEF UnlockRecursion, Unlock, apcVars
  <2>4. Units' = Units
    <3>1. \A p \in WaitObjects \ Mutexes : count'[p] = count[p]
      BY <1>3 DEF UnlockRecursion, Unlock, TypeOK
    <3> QED
      BY <3>1 DEF Units
  <2> QED
    BY <2>1, <2>2, <2>3, <2>4 DEF Contract!Unlock, Calls, CallOf, InCall, Units
<1>4. ASSUME NEW o \in WaitObjects \ Mutexes, Releases(t, o)
      PROVE  [Contract!Next]_(Contract!vars)
  <2>1. Calls' = Calls
    BY <1>4, ReleaseOthers, IdleCalls
  <2>2. UNCHANGED <<depth, pendingAPCs>>
    BY <1>4 DEF Releases, Post, Set, Reset, apcVars
  <2>3. PICK n \in Nat : /\ count' = [count EXCEPT ![o] = n] /\ n <= MaximumValue
                         /\ n < count[o] => o \notin Semaphores
    <3>1. CASE o \in Semaphores
      <4>1. PICK releases \in 1 .. MaximumValue : Post(t, o, releases)
        BY <1>4, <3>1, WaitObjectAssumption DEF Releases
      <4>2. count[o] \in Nat /\ count[o] + releases \in Nat /\ ~(count[o] + releases < count[o])
        BY WaitObjectAssumption DEF TypeOK
      <4>3. /\ count' = [count EXCEPT ![o] = count[o] + releases]
            /\ count[o] + releases <= MaximumValue
        BY <4>1 DEF Post
      <4> QED
        BY <4>2, <4>3
    <3>2. CASE o \in Events
      BY <1>4, <3>2, WaitObjectAssumption DEF Releases, Set, Reset
    <3> QED
      BY <3>1, <3>2 DEF WaitObjects, Events
  <2> QED
    BY <2>1, <2>2, <2>3, RefillRefines
<1>5. ASSUME NEW u \in Threads, QueueUserAPC(t, u)
      PROVE  Contract!QueueAPC(u)
  <2>1. Calls' = Calls
    BY <1>5, IdleCalls DEF QueueUserAPC, Goto, Move
  <2> QED
    BY <1>5, <2>1 DEF QueueUserAPC, Contract!QueueAPC, Calls, CallOf, InCall, objectVars
<1>6. \/ \E o \in WaitObjects, time \in Limits, alertable \in Interruptibles :
           Wait(t, o, time, alertable)
      \/ \E o \in Mutexes : LockRecursively(t, o) \/ UnlockRecursion(t, o) \/ Unlock(t, o)
      \/ \E o \in WaitObjects \ Mutexes : Releases(t, o)
      \/ \E u \in Threads : QueueUserAPC(t, u)
  BY WaitObjectAssumption DEF Call, Releases
<1> QED
  BY <1>1, <1>2, <1>3, <1>4, <1>5, <1>6 DEF Contract!Next

\* So is every other step.
LEMMA NextRefines ==
    ASSUME CInv, Next
    PROVE  [Contract!Next]_(Contract!vars)
<1>1. ASSUME NEW t \in Threads, Step(t) \/ TimesOut(t) \/ WakesSpuriously(t)
      PROVE  [Contract!Next]_(Contract!vars)
  BY <1>1, AcquireRefines, TimeoutRefines, APCRefines, OtherStepsStutter DEF Step, Contract!Next
<1>2. ASSUME NEW o \in WaitObjects, Destroy(o)
      PROVE  UNCHANGED Contract!vars
  <2>1. Calls' = Calls /\ UNCHANGED <<depth, count, pendingAPCs>>
    BY <1>2 DEF Destroy, Calls, CallOf, InCall, InWait, callVars, apcVars
  <2> QED
    BY <2>1, Stutters
<1>3. ASSUME NEW o \in WaitObjects, Create(o)
      PROVE  [Contract!Next]_(Contract!vars)
  <2>1. Calls' = Calls /\ UNCHANGED <<depth, pendingAPCs>> /\ o \in destroyed
    BY <1>3 DEF Create, Calls, CallOf, InCall, InWait, callVars, apcVars
  <2>2. PICK n \in Nat : count' = [count EXCEPT ![o] = n] /\ n <= MaximumValue
    <3>1. PICK n \in FreshCounts(o) : count' = [count EXCEPT ![o] = n]
      BY <1>3 DEF Create
    <3>2. n \in Nat /\ n <= MaximumValue
      BY WaitObjectAssumption DEF FreshCounts
    <3> QED
      BY <3>1, <3>2
  <2>3. \A t \in Threads : object[t] # o
    BY <2>1, WaitObjectAssumption DEF CInv, IInv, CallShape
  <2> QED
    BY <2>1, <2>2, <2>3, RefillRefines DEF CInv
<1> QED
  BY <1>1, <1>2, <1>3, CallRefines DEF Next

\* The contract's initial states.
LEMMA InitRefines == Init => CInv /\ Contract!Init
<1> SUFFICES ASSUME Init
             PROVE  CInv /\ Contract!Init
  OBVIOUS
<1>1. CInv
  BY InitInv DEF CInv, Init, LimitsKept, APCPoints, InWait
<1>2. Calls = [t \in Threads |-> NULL]
  BY DEF Init, Calls, CallOf, InCall, InWait
<1>3. Units \in [Contract!Counted -> 0 .. MaximumValue]
  <2>1. \A o \in WaitObjects \ Mutexes : count[o] \in 0 .. MaximumValue
    BY WaitObjectAssumption DEF Init, FreshCounts
  <2> QED
    BY <2>1, CountedObjects DEF Units
<1>4. Contract!Init
  BY <1>2, <1>3 DEF Init, Contract!Init, Calls, CallOf, InCall, Units
<1> QED
  BY <1>1, <1>4

-----------------------------------------------------------------------------
(* The theorems *)

\* The conjuncts of IInv hold in every state of every behaviour.
THEOREM Invariance == Spec => []IInv
  BY InitInv, NextInv, PTL DEF Spec

\* Every variable of the wait objects' model holds a value of its kind: in particular
\* no semaphore exceeds its maximum, and no count of waiting threads drops below zero.
THEOREM WaitTypes == Spec => []TypeOK
<1>1. IInv => TypeOK
  BY DEF IInv
<1> QED
  BY <1>1, Invariance, PTL

\* Whatever time-outs, APCs, exceptions and spurious wake-ups do, a thread whose TryLock
\* returned true owns the mutex until it unlocks it, alone.
THEOREM MutexHeld == Spec => []HolderOwnsMutex
<1>1. ASSUME IInv
      PROVE  HolderOwnsMutex
  <2>1. SUFFICES ASSUME NEW o \in Mutexes
                 PROVE  /\ \A t \in Threads :
                             depth[t][o] > 0 => /\ owningThread[o] = t
                                                /\ recursion[o] = depth[t][o] /\ count[o] = 0
                        /\ count[o] = 0 => /\ owningThread[o] # NULL
                                           /\ depth[owningThread[o]][o] > 0
    BY DEF HolderOwnsMutex
  <2>2. ASSUME NEW t \in Threads, depth[t][o] > 0
        PROVE  owningThread[o] = t /\ recursion[o] = depth[t][o] /\ count[o] = 0
    BY <1>1, <2>2, WaitObjectAssumption DEF IInv, OwnerHolds
  <2>3. ASSUME count[o] = 0
        PROVE  owningThread[o] # NULL /\ depth[owningThread[o]][o] > 0
    BY <1>1, <2>3 DEF IInv, OwnerHolds, TypeOK
  <2> QED
    BY <2>2, <2>3
<1> QED
  BY <1>1, Invariance, PTL

\* An interrupter that has found a wait object to signal finds it alive: its deletion
\* waits for s_WaitObjectDeletionLock, and nobody starts to wait on a deleted object.
THEOREM NoTouchAfterDeletion == Spec => []NoUseAfterDeletion
<1>1. IInv => NoUseAfterDeletion
  BY DEF IInv, CallShape, NoUseAfterDeletion
<1> QED
  BY <1>1, Invariance, PTL

\* A wake-up gets lost in one way only.  Whatever is queued, thrown, timed out, deleted
\* and posted, while an object is free and a thread is blocked on it, another thread is
\* on its way to it, as long as no APC throws out of the wait that was woken last.
THEOREM WakeupsArrive == SparingSpec => []NoLostWakeup
<1>1. WInv => NoLostWakeup
  BY DEF WInv
<1> QED
  BY <1>1, InitWInv, NextWInv, PTL DEF SparingSpec

\* Mutexes, semaphores and events implement the contract of their callers, for any
\* number of them, of threads and of APCs, thrown or not: each Wait takes effect in
\* the one step in which it ends, and ends with the object, with a time-out it asked
\* for, or with the exception of an APC.
THEOREM WaitObjectsRefine == Spec => ImplementsContract
<1>1. CInv /\ [Next]_vars => CInv' /\ [Contract!Next]_(Contract!vars)
  <2>1. ASSUME CInv, UNCHANGED vars
        PROVE  CInv' /\ UNCHANGED Contract!vars
    <3>1. IInv'
      BY <2>1, NextInv DEF CInv
    <3>2. LimitsKept'
      BY <2>1 DEF CInv, LimitsKept, vars, callVars, APCPoints, InWait
    <3>3. Calls' = Calls /\ UNCHANGED <<depth, count, pendingAPCs>>
      BY <2>1 DEF Calls, CallOf, InCall, InWait, vars, objectVars, callVars, apcVars
    <3> QED
      BY <3>1, <3>2, <3>3, Stutters DEF CInv
  <2>2. ASSUME CInv, Next
        PROVE  CInv' /\ [Contract!Next]_(Contract!vars)
    <3>1. IInv'
      BY <2>2, NextInv DEF CInv
    <3> QED
      BY <2>2, <3>1, LimitsStay, NextRefines DEF CInv
  <2> QED
    BY <2>1, <2>2
<1> QED
  BY <1>1, InitRefines, PTL DEF Spec, ImplementsContract, Contract!Spec

=============================================================================
