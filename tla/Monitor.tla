------------------------------- MODULE Monitor -------------------------------
(***************************************************************************)
(* The relaxed-lock monitors of IL2CPP/libil2cpp/vm/Monitor.cpp, one step  *)
(* per access to shared memory.                                            *)
(*                                                                         *)
(* A MonitorData is installed on an object by the first thread that locks  *)
(* it ("inflation") and taken off again by the last one that leaves it     *)
(* ("deflation"), after which it goes back to a free list and may be       *)
(* installed on any other object, while threads that read the pointer      *)
(* before are still holding on to it.                                      *)
(*                                                                         *)
(* Abstractions.  The order of the two free lists and of the pulse list is *)
(* left out (an allocation and a Pulse take any element, which includes    *)
(* the one the code takes).  flushAcknowledged is left out: it is only     *)
(* ever waited for with a timeout of 1 ms inside a loop that re-reads the  *)
(* counter, so it can shorten a wait and never decide anything.  A step    *)
(* that reads a location only its own thread can change at that moment is  *)
(* merged with the step it precedes.                                       *)
(***************************************************************************)
EXTENDS Naturals, FiniteSets

CONSTANTS
    Threads,        \* managed threads
    Objects,        \* the objects they lock
    Monitors,       \* all the MonitorData there can be (bound)
    Nodes,          \* all the PulseWaitingListNode there can be (bound)
    EnterTimeouts,  \* kinds of timeout callers give TryEnter
    WaitTimeouts,   \* kinds of timeout callers give TryWait
    Interrupts,     \* may a user APC throw out of an interruptible wait?
    MaxDepth,       \* bound: locks one thread holds, counting recursion
    MaxTokens,      \* bound: count of a monitor's semaphore
    NULL            \* the null pointer

Timeouts == {"zero", "timed", "infinite"}

\* The two special values of owningThreadId.
CanBeAcquired == "kCanBeAcquiredByOtherThread"
OnFreeList == "kHasBeenReturnedToFreeList"

ASSUME MonitorAssumption ==
    /\ IsFiniteSet(Threads)
    /\ NULL \notin Threads \cup Objects \cup Monitors \cup Nodes
    /\ {CanBeAcquired, OnFreeList} \cap Threads = {}
    /\ EnterTimeouts \subseteq Timeouts
    /\ WaitTimeouts \subseteq Timeouts
    /\ Interrupts \in BOOLEAN
    /\ MaxDepth \in Nat \ {0}
    /\ MaxTokens \in Nat \ {0}

VARIABLES
    monitor,      \* object -> the monitor installed on it (obj->monitor)
    owner,        \* monitor -> owningThreadId
    recursion,    \* monitor -> recursiveLockingCount
    numWaiting,   \* monitor -> numThreadsWaitingForSemaphore
    tokens,       \* monitor -> count of its semaphore
    pulseList,    \* monitor -> nodes on threadsWaitingForPulse
    freeMonitors, \* MonitorData::s_FreeList
    freeNodes,    \* PulseWaitingListNode::s_FreeList
    signaled,     \* nodes whose signalWaitingThread event is set
    pc,           \* thread -> where it stands
    object,       \* thread -> object of its current call
    local,        \* thread -> its local variable installedMonitor or monitor
    timeout,      \* thread -> timeout of its current TryEnter
    waiting,      \* thread -> timeout of the TryWait it is in, "none" if in none
    waitNode,     \* thread -> its local variable waitNode
    oldCount,     \* thread -> its local variable oldLockingCount
    depth         \* thread -> object -> locks its caller takes it to hold

lockVars == <<monitor, owner, recursion, numWaiting, tokens, freeMonitors>>
nodeVars == <<pulseList, freeNodes, signaled>>
waitVars == <<waiting, waitNode, oldCount>>
callVars == <<object, timeout>>
frameVars == <<callVars, waitVars, depth>>
vars == <<lockVars, nodeVars, pc, local, frameVars>>

PCs == {"idle", "read", "alloc", "install", "try", "check", "ready", "loop",
        "grab", "leave", "sleep", "lastCheck", "lastGrab", "vacate",
        "decide", "handoff", "post", "unlock", "repost", "deflate", "flush",
        "pulseWait", "restore"}

-----------------------------------------------------------------------------
Init ==
    /\ monitor = [o \in Objects |-> NULL]
    /\ owner = [m \in Monitors |-> OnFreeList]
    /\ recursion = [m \in Monitors |-> 1]
    /\ numWaiting = [m \in Monitors |-> 0]
    /\ tokens = [m \in Monitors |-> 0]
    /\ pulseList = [m \in Monitors |-> {}]
    /\ freeMonitors = Monitors
    /\ freeNodes = Nodes
    /\ signaled = {}
    /\ pc = [t \in Threads |-> "idle"]
    /\ object = [t \in Threads |-> NULL]
    /\ local = [t \in Threads |-> NULL]
    /\ timeout = [t \in Threads |-> "infinite"]
    /\ waiting = [t \in Threads |-> "none"]
    /\ waitNode = [t \in Threads |-> NULL]
    /\ oldCount = [t \in Threads |-> 0]
    /\ depth = [t \in Threads |-> [o \in Objects |-> 0]]

Goto(t, label) == pc' = [pc EXCEPT ![t] = label]

\* The locks t's caller takes it to hold, over all objects.
Holds(t) == {o \in Objects : depth[t][o] > 0}

\* The monitor installed on o, when t owns it: what
\* GetMonitorAndThrowIfNotLockedByCurrentThread returns without throwing.
LockedByCurrentThread(t, o) ==
    /\ monitor[o] # NULL
    /\ owner[monitor[o]] = t

\* A call returns to t's caller.
EndCall(t) ==
    /\ Goto(t, "idle")
    /\ object' = [object EXCEPT ![t] = NULL]
    /\ local' = [local EXCEPT ![t] = NULL]
    /\ timeout' = [timeout EXCEPT ![t] = "infinite"]

\* TryEnter returns true: to its caller, or to TryWait which called it.
ReturnLocked(t) ==
    \/ /\ waiting[t] = "none"
       /\ EndCall(t)
       /\ depth' = [depth EXCEPT ![t][object[t]] = @ + 1]
    \/ /\ waiting[t] # "none"
       /\ Goto(t, "restore")
       /\ local' = [local EXCEPT ![t] = NULL]
       /\ UNCHANGED <<callVars, depth>>

\* TryEnter returns false (never to TryWait, which waits without a timeout).
ReturnTimedOut(t) == EndCall(t) /\ UNCHANGED depth

\* TryEnter goes round its outer loop again.
Retry(t) ==
    /\ Goto(t, "read")
    /\ local' = [local EXCEPT ![t] = NULL]
    /\ UNCHANGED <<callVars, depth>>

\* Exit returns: to its caller, or to TryWait which goes on to wait for a pulse.
ReturnUnlocked(t) ==
    \/ /\ waiting[t] = "none"
       /\ EndCall(t)
    \/ /\ waiting[t] # "none"
       /\ Goto(t, IF waiting[t] = "zero" THEN "read" ELSE "pulseWait")
       /\ local' = [local EXCEPT ![t] = NULL]
       /\ UNCHANGED callVars

-----------------------------------------------------------------------------
(* Monitor::TryEnter *)

Enter(t, o, limit) ==
    /\ pc[t] = "idle"
    /\ \A p \in Holds(t) : p = o    \* bound: locks of two objects do not nest
    /\ depth[t][o] < MaxDepth
    /\ Goto(t, "read")
    /\ object' = [object EXCEPT ![t] = o]
    /\ timeout' = [timeout EXCEPT ![t] = limit]
    /\ UNCHANGED <<lockVars, nodeVars, local, waitVars, depth>>

ReadMonitor(t) ==
    /\ pc[t] = "read"
    /\ local' = [local EXCEPT ![t] = monitor[object[t]]]
    /\ Goto(t, IF monitor[object[t]] = NULL THEN "alloc" ELSE "try")
    /\ UNCHANGED <<lockVars, nodeVars, frameVars>>

AllocateMonitor(t) ==
    /\ pc[t] = "alloc"
    /\ \E m \in freeMonitors :
         /\ freeMonitors' = freeMonitors \ {m}
         /\ owner' = [owner EXCEPT ![m] = t]
         /\ local' = [local EXCEPT ![t] = m]
    /\ Goto(t, "install")
    /\ UNCHANGED <<monitor, recursion, numWaiting, tokens, nodeVars,
                   frameVars>>

\* Mutant: the pointer is stored, not compared and exchanged.
InstallUnchecked(t) ==
    /\ pc[t] = "install"
    /\ monitor' = [monitor EXCEPT ![object[t]] = local[t]]
    /\ ReturnLocked(t)
    /\ UNCHANGED <<owner, recursion, numWaiting, tokens, freeMonitors, nodeVars,
                   waitVars>>

InstallMonitor(t) ==
    /\ pc[t] = "install"
    /\ monitor[object[t]] = NULL
    /\ monitor' = [monitor EXCEPT ![object[t]] = local[t]]
    /\ ReturnLocked(t)
    /\ UNCHANGED <<owner, recursion, numWaiting, tokens, freeMonitors,
                   nodeVars, waitVars>>

\* Mutant: the monitor that lost the race is forgotten.
LeakLosingMonitor(t) ==
    /\ pc[t] = "install"
    /\ monitor[object[t]] # NULL
    /\ Retry(t)
    /\ UNCHANGED <<lockVars, nodeVars, waitVars>>

LoseInstallRace(t) ==
    /\ pc[t] = "install"
    /\ monitor[object[t]] # NULL
    /\ owner' = [owner EXCEPT ![local[t]] = OnFreeList]
    /\ freeMonitors' = freeMonitors \cup {local[t]}
    /\ Retry(t)
    /\ UNCHANGED <<monitor, recursion, numWaiting, tokens, nodeVars, waitVars>>

EnterRecursively(t) ==
    /\ pc[t] = "try"
    /\ owner[local[t]] = t
    /\ recursion' = [recursion EXCEPT ![local[t]] = @ + 1]
    /\ ReturnLocked(t)
    /\ UNCHANGED <<monitor, owner, numWaiting, tokens, freeMonitors, nodeVars,
                   waitVars>>

\* Mutant: an exchange in place of the compare-and-exchange.
SeizeMonitor(t) ==
    /\ owner' = [owner EXCEPT ![local[t]] = t]
    /\ UNCHANGED <<monitor, recursion, numWaiting, tokens, freeMonitors, nodeVars>>

TryAcquire(t) ==
    /\ owner[local[t]] = CanBeAcquired
    /\ owner' = [owner EXCEPT ![local[t]] = t]
    /\ UNCHANGED <<monitor, recursion, numWaiting, tokens, freeMonitors,
                   nodeVars>>

TryAcquireFails(t) == owner[local[t]] # CanBeAcquired

AcquireInstalled(t) ==
    /\ pc[t] = "try"
    /\ TryAcquire(t)
    /\ Goto(t, "check")
    /\ UNCHANGED <<local, frameVars>>

Contend(t) ==
    /\ pc[t] = "try"
    /\ owner[local[t]] # t
    /\ TryAcquireFails(t)
    /\ \/ /\ timeout[t] = "zero"
          /\ ReturnTimedOut(t)
       \/ /\ timeout[t] # "zero"
          /\ Goto(t, "ready")
          /\ UNCHANGED <<local, callVars, depth>>
    /\ UNCHANGED <<lockVars, nodeVars, waitVars>>

\* The test for a null obj->monitor after the monitor was acquired.
KeepAcquired(t) ==
    /\ pc[t] = "check"
    /\ monitor[object[t]] # NULL
    /\ ReturnLocked(t)
    /\ UNCHANGED <<lockVars, nodeVars, waitVars>>

UnacquireStale(t) ==
    /\ pc[t] = "check"
    /\ monitor[object[t]] = NULL
    /\ owner' = [owner EXCEPT ![local[t]] = CanBeAcquired]
    /\ Retry(t)
    /\ UNCHANGED <<monitor, recursion, numWaiting, tokens, freeMonitors,
                   nodeVars, waitVars>>

\* Mutant: the count is not raised.
WaitUncounted(t) ==
    /\ pc[t] = "ready"
    /\ Goto(t, "loop")
    /\ UNCHANGED <<lockVars, nodeVars, local, frameVars>>

AddToReadyList(t) ==
    /\ pc[t] = "ready"
    /\ numWaiting' = [numWaiting EXCEPT ![local[t]] = @ + 1]
    /\ Goto(t, "loop")
    /\ UNCHANGED <<monitor, owner, recursion, tokens, freeMonitors, nodeVars,
                   local, frameVars>>

RemoveFromReadyList(t) ==
    /\ numWaiting' = [numWaiting EXCEPT ![local[t]] = @ - 1]
    /\ UNCHANGED <<monitor, owner, recursion, tokens, freeMonitors, pulseList>>

\* Both the test right after AddCurrentThreadToReadyList and the condition of
\* the inner loop: either way a monitor that is gone is vacated.
StillInstalled(t) ==
    /\ pc[t] = "loop"
    /\ Goto(t, IF monitor[object[t]] = local[t] THEN "grab" ELSE "vacate")
    /\ UNCHANGED <<lockVars, nodeVars, local, frameVars>>

VacateDyingMonitor(t) ==
    /\ pc[t] = "vacate"
    /\ RemoveFromReadyList(t)
    /\ Retry(t)
    /\ UNCHANGED <<freeNodes, signaled, waitVars>>

AcquireReady(t) ==
    /\ pc[t] = "grab"
    /\ TryAcquire(t)
    /\ Goto(t, "leave")
    /\ UNCHANGED <<local, frameVars>>

FallAsleep(t) ==
    /\ pc[t] = "grab"
    /\ TryAcquireFails(t)
    /\ Goto(t, "sleep")
    /\ UNCHANGED <<lockVars, nodeVars, local, frameVars>>

LeaveReadyList(t) ==
    /\ pc[t] = "leave"
    /\ RemoveFromReadyList(t)
    /\ ReturnLocked(t)
    /\ UNCHANGED <<freeNodes, signaled, waitVars>>

\* semaphore.Wait: success, timeout, or an APC's exception.
Wake(t) ==
    /\ pc[t] = "sleep"
    /\ tokens[local[t]] > 0
    /\ tokens' = [tokens EXCEPT ![local[t]] = @ - 1]
    /\ Goto(t, "loop")
    /\ UNCHANGED <<monitor, owner, recursion, numWaiting, freeMonitors,
                   nodeVars, local, frameVars>>

SleepTimesOut(t) ==
    /\ pc[t] = "sleep"
    /\ timeout[t] = "timed"
    /\ RemoveFromReadyList(t)
    /\ \/ /\ numWaiting[local[t]] = 1
          /\ Goto(t, "lastCheck")
          /\ UNCHANGED <<local, callVars, depth>>
       \/ /\ numWaiting[local[t]] # 1
          /\ ReturnTimedOut(t)
    /\ UNCHANGED <<freeNodes, signaled, waitVars>>

\* The last waiter that gives up tries to take the lock after all.
LastWaiterCheck(t) ==
    /\ pc[t] = "lastCheck"
    /\ \/ /\ monitor[object[t]] = local[t]
          /\ Goto(t, "lastGrab")
          /\ UNCHANGED <<local, callVars, depth>>
       \/ /\ monitor[object[t]] # local[t]
          /\ ReturnTimedOut(t)
    /\ UNCHANGED <<lockVars, nodeVars, waitVars>>

LastWaiterAcquires(t) ==
    /\ pc[t] = "lastGrab"
    /\ TryAcquire(t)
    /\ ReturnLocked(t)
    /\ UNCHANGED waitVars

\* Mutant: the outcome of the last attempt is not looked at.
LastWaiterAssumesLock(t) ==
    /\ pc[t] = "lastGrab"
    /\ TryAcquireFails(t)
    /\ ReturnLocked(t)
    /\ UNCHANGED <<lockVars, nodeVars, waitVars>>

LastWaiterGivesUp(t) ==
    /\ pc[t] = "lastGrab"
    /\ TryAcquireFails(t)
    /\ ReturnTimedOut(t)
    /\ UNCHANGED <<lockVars, nodeVars, waitVars>>

\* The exception leaves TryEnter, and TryWait too if that is the caller: the
\* wait node is then neither taken off the pulse list nor released.
SleepInterrupted(t) ==
    /\ Interrupts
    /\ pc[t] = "sleep"
    /\ RemoveFromReadyList(t)
    /\ EndCall(t)
    /\ waiting' = [waiting EXCEPT ![t] = "none"]
    /\ waitNode' = [waitNode EXCEPT ![t] = NULL]
    /\ oldCount' = [oldCount EXCEPT ![t] = 0]
    /\ UNCHANGED <<freeNodes, signaled, depth>>

-----------------------------------------------------------------------------
(* Monitor::Exit *)

\* Exit, Pulse and TryWait raise a SynchronizationLockException, and t's
\* caller unwinds one level.
RaiseNotLocked(t, o) ==
    /\ pc[t] = "idle"
    /\ depth[t][o] > 0
    /\ ~LockedByCurrentThread(t, o)
    /\ depth' = [depth EXCEPT ![t][o] = @ - 1]
    /\ UNCHANGED <<lockVars, nodeVars, pc, local, callVars, waitVars>>

ExitRecursive(t, o) ==
    /\ pc[t] = "idle"
    /\ depth[t][o] > 0
    /\ LockedByCurrentThread(t, o)
    /\ recursion[monitor[o]] > 1
    /\ recursion' = [recursion EXCEPT ![monitor[o]] = @ - 1]
    /\ depth' = [depth EXCEPT ![t][o] = @ - 1]
    /\ UNCHANGED <<monitor, owner, numWaiting, tokens, freeMonitors, nodeVars,
                   pc, local, callVars, waitVars>>

Exit(t, o) ==
    /\ pc[t] = "idle"
    /\ depth[t][o] > 0
    /\ LockedByCurrentThread(t, o)
    /\ recursion[monitor[o]] <= 1
    /\ Goto(t, "decide")
    /\ object' = [object EXCEPT ![t] = o]
    /\ local' = [local EXCEPT ![t] = monitor[o]]
    /\ depth' = [depth EXCEPT ![t][o] = @ - 1]
    /\ UNCHANGED <<lockVars, nodeVars, timeout, waitVars>>

\* Which way to leave: threads are ready, threads wait for a pulse, or neither.
Decide(t) ==
    /\ pc[t] = "decide"
    /\ Goto(t, IF numWaiting[local[t]] # 0 THEN "handoff"
               ELSE IF pulseList[local[t]] # {} THEN "unlock"
               ELSE "deflate")
    /\ UNCHANGED <<lockVars, nodeVars, local, frameVars>>

Unacquire(t) ==
    /\ \/ pc[t] = "handoff" /\ Goto(t, "post")
       \/ pc[t] = "unlock" /\ Goto(t, "repost")
    /\ owner' = [owner EXCEPT ![local[t]] = CanBeAcquired]
    /\ UNCHANGED <<monitor, recursion, numWaiting, tokens, freeMonitors,
                   nodeVars, local, frameVars>>

AddTokens(m, n) ==
    tokens' = [tokens EXCEPT ![m] = IF @ + n < MaxTokens THEN @ + n ELSE MaxTokens]

\* Mutant: nobody is woken.
LeaveSilently(t) ==
    /\ pc[t] = "post"
    /\ ReturnUnlocked(t)
    /\ UNCHANGED <<lockVars, nodeVars, waitVars, depth>>

Post(t) ==
    /\ pc[t] = "post"
    /\ AddTokens(local[t], 1)
    /\ ReturnUnlocked(t)
    /\ UNCHANGED <<monitor, owner, recursion, numWaiting, freeMonitors,
                   nodeVars, waitVars, depth>>

\* Mutant: there is no second look.
LeaveWithoutSecondLook(t) ==
    /\ pc[t] = "repost"
    /\ ReturnUnlocked(t)
    /\ UNCHANGED <<lockVars, nodeVars, waitVars, depth>>

\* The second look at the ready list after the monitor was let go.
PostIfContended(t) ==
    /\ pc[t] = "repost"
    /\ AddTokens(local[t], IF numWaiting[local[t]] # 0 THEN 1 ELSE 0)
    /\ ReturnUnlocked(t)
    /\ UNCHANGED <<monitor, owner, recursion, numWaiting, freeMonitors,
                   nodeVars, waitVars, depth>>

Deflate(t) ==
    /\ pc[t] = "deflate"
    /\ monitor' = [monitor EXCEPT ![object[t]] = NULL]
    /\ Goto(t, "flush")
    /\ UNCHANGED <<owner, recursion, numWaiting, tokens, freeMonitors,
                   nodeVars, local, frameVars>>

\* Mutant: the ready threads are waited for but not woken.
FlushWithoutPost(t) ==
    /\ pc[t] = "flush"
    /\ numWaiting[local[t]] # 0
    /\ UNCHANGED vars

FlushReadyList(t) ==
    /\ pc[t] = "flush"
    /\ numWaiting[local[t]] # 0
    /\ AddTokens(local[t], numWaiting[local[t]])
    /\ UNCHANGED <<monitor, owner, recursion, numWaiting, freeMonitors,
                   nodeVars, pc, local, frameVars>>

\* Mutant: the ready threads are not waited for.
ReleaseWithoutFlush(t) ==
    /\ pc[t] = "flush"
    /\ owner' = [owner EXCEPT ![local[t]] = OnFreeList]
    /\ freeMonitors' = freeMonitors \cup {local[t]}
    /\ ReturnUnlocked(t)
    /\ UNCHANGED <<monitor, recursion, numWaiting, tokens, nodeVars, waitVars,
                   depth>>

ReleaseMonitor(t) ==
    /\ pc[t] = "flush"
    /\ numWaiting[local[t]] = 0
    /\ owner' = [owner EXCEPT ![local[t]] = OnFreeList]
    /\ freeMonitors' = freeMonitors \cup {local[t]}
    /\ ReturnUnlocked(t)
    /\ UNCHANGED <<monitor, recursion, numWaiting, tokens, nodeVars, waitVars,
                   depth>>

-----------------------------------------------------------------------------
(* Monitor::Pulse, Monitor::PulseAll and Monitor::TryWait *)

Pulse(t, o) ==
    /\ pc[t] = "idle"
    /\ depth[t][o] > 0
    /\ LockedByCurrentThread(t, o)
    /\ \E n \in pulseList[monitor[o]] :
         /\ pulseList' = [pulseList EXCEPT ![monitor[o]] = @ \ {n}]
         /\ signaled' = signaled \cup {n}
    /\ UNCHANGED <<lockVars, freeNodes, pc, local, frameVars>>

PulseAll(t, o) ==
    /\ pc[t] = "idle"
    /\ depth[t][o] > 0
    /\ LockedByCurrentThread(t, o)
    /\ pulseList' = [pulseList EXCEPT ![monitor[o]] = {}]
    /\ signaled' = signaled \cup pulseList[monitor[o]]
    /\ UNCHANGED <<lockVars, freeNodes, pc, local, frameVars>>

SaveCount(t, m) ==
    /\ oldCount' = [oldCount EXCEPT ![t] = recursion[m]]
    /\ recursion' = [recursion EXCEPT ![m] = 1]

\* TryWait up to its call of Exit, which finds the count at 1.
Wait(t, o, limit) ==
    /\ pc[t] = "idle"
    /\ depth[t][o] > 0
    /\ LockedByCurrentThread(t, o)
    /\ SaveCount(t, monitor[o])
    /\ waiting' = [waiting EXCEPT ![t] = limit]
    /\ \/ /\ limit = "zero"
          /\ UNCHANGED <<pulseList, freeNodes, waitNode>>
       \/ /\ limit # "zero"
          /\ \E n \in freeNodes :
               /\ freeNodes' = freeNodes \ {n}
               /\ waitNode' = [waitNode EXCEPT ![t] = n]
               /\ pulseList' = [pulseList EXCEPT ![monitor[o]] = @ \cup {n}]
    /\ Goto(t, "decide")
    /\ object' = [object EXCEPT ![t] = o]
    /\ local' = [local EXCEPT ![t] = monitor[o]]
    /\ UNCHANGED <<monitor, owner, numWaiting, tokens, freeMonitors, signaled,
                   timeout, depth>>

\* signalWaitingThread.Wait returns, whatever its status, and TryWait calls
\* Enter.  The event resets itself when the wait succeeds.
Pulsed(t) ==
    /\ pc[t] = "pulseWait"
    /\ waitNode[t] \in signaled
    /\ signaled' = signaled \ {waitNode[t]}
    /\ Goto(t, "read")
    /\ UNCHANGED <<lockVars, pulseList, freeNodes, local, frameVars>>

\* Mutant: the wait may return by itself.
SpuriousPulse(t) ==
    /\ pc[t] = "pulseWait"
    /\ Goto(t, "read")
    /\ UNCHANGED <<lockVars, nodeVars, local, frameVars>>

PulseWaitEnds(t) ==
    /\ pc[t] = "pulseWait"
    /\ waiting[t] = "timed" \/ Interrupts
    /\ Goto(t, "read")
    /\ UNCHANGED <<lockVars, nodeVars, local, frameVars>>

\* Mutant: the recursion count is not restored.
KeepCount(t, m) == UNCHANGED recursion

RestoreCount(t, m) == recursion' = [recursion EXCEPT ![m] = oldCount[t]]

\* Mutant: the event is not reset.
ReleaseSignaledNode(t, m) ==
    /\ pulseList' = [pulseList EXCEPT ![m] = @ \ {waitNode[t]}]
    /\ freeNodes' = freeNodes \cup ({waitNode[t]} \ {NULL})
    /\ UNCHANGED signaled

ReleaseNode(t, m) ==
    /\ pulseList' = [pulseList EXCEPT ![m] = @ \ {waitNode[t]}]
    /\ signaled' = signaled \ {waitNode[t]}
    /\ freeNodes' = freeNodes \cup ({waitNode[t]} \ {NULL})

\* TryWait after Enter has returned.  There is no step when object->monitor is
\* null: the program ends there.
RestoreAfterWait(t) ==
    /\ pc[t] = "restore"
    /\ monitor[object[t]] # NULL
    /\ RestoreCount(t, monitor[object[t]])
    /\ ReleaseNode(t, monitor[object[t]])
    /\ waiting' = [waiting EXCEPT ![t] = "none"]
    /\ waitNode' = [waitNode EXCEPT ![t] = NULL]
    /\ oldCount' = [oldCount EXCEPT ![t] = 0]
    /\ EndCall(t)
    /\ UNCHANGED <<monitor, owner, numWaiting, tokens, freeMonitors, depth>>

-----------------------------------------------------------------------------
\* Steps a running thread takes on its own inside a call.
EnterStep(t) ==
    \/ ReadMonitor(t) \/ AllocateMonitor(t) \/ InstallMonitor(t)
    \/ LoseInstallRace(t) \/ EnterRecursively(t) \/ AcquireInstalled(t)
    \/ Contend(t) \/ KeepAcquired(t) \/ UnacquireStale(t)
    \/ AddToReadyList(t) \/ StillInstalled(t) \/ VacateDyingMonitor(t)
    \/ AcquireReady(t) \/ FallAsleep(t) \/ LeaveReadyList(t) \/ Wake(t)
    \/ LastWaiterCheck(t) \/ LastWaiterAcquires(t) \/ LastWaiterGivesUp(t)

ExitStep(t) ==
    \/ Decide(t) \/ Unacquire(t) \/ Post(t) \/ PostIfContended(t)
    \/ Deflate(t) \/ FlushReadyList(t) \/ ReleaseMonitor(t)

WaitStep(t) == Pulsed(t) \/ RestoreAfterWait(t)

Step(t) == EnterStep(t) \/ ExitStep(t) \/ WaitStep(t)

\* What the clock and other threads' interrupts do to a thread.
Disturb(t) == SleepTimesOut(t) \/ SleepInterrupted(t) \/ PulseWaitEnds(t)

\* What the program running on the threads may ask for.
Call(t) ==
    \E o \in Objects :
        \/ \E limit \in EnterTimeouts : Enter(t, o, limit)
        \/ RaiseNotLocked(t, o)
        \/ ExitRecursive(t, o)
        \/ Exit(t, o)
        \/ Pulse(t, o)
        \/ PulseAll(t, o)
        \/ \E limit \in WaitTimeouts : Wait(t, o, limit)

Next == \E t \in Threads : Step(t) \/ Disturb(t) \/ Call(t)

Spec == Init /\ [][Next]_vars

\* A thread that can take a step inside a call takes it sooner or later: the
\* scheduler runs every runnable thread.  Callers need not call, time need not
\* run out, and nobody need interrupt.
FairSpec == Spec /\ \A t \in Threads : WF_vars(Step(t))
-----------------------------------------------------------------------------
(* What the monitors promise *)

\* Every variable holds a value of its kind.
TypeOK ==
    /\ monitor \in [Objects -> Monitors \cup {NULL}]
    /\ owner \in [Monitors -> Threads \cup {CanBeAcquired, OnFreeList}]
    /\ recursion \in [Monitors -> Nat]
    /\ numWaiting \in [Monitors -> Nat]
    /\ tokens \in [Monitors -> 0 .. MaxTokens]
    /\ pulseList \in [Monitors -> SUBSET Nodes]
    /\ freeMonitors \in SUBSET Monitors
    /\ freeNodes \in SUBSET Nodes
    /\ signaled \in SUBSET Nodes
    /\ pc \in [Threads -> PCs]
    /\ object \in [Threads -> Objects \cup {NULL}]
    /\ local \in [Threads -> Monitors \cup {NULL}]
    /\ timeout \in [Threads -> Timeouts]
    /\ waiting \in [Threads -> Timeouts \cup {"none"}]
    /\ waitNode \in [Threads -> Nodes \cup {NULL}]
    /\ oldCount \in [Threads -> Nat]
    /\ depth \in [Threads -> [Objects -> Nat]]

Installed(m) == \E o \in Objects : monitor[o] = m

\* t has a monitor for itself that is on no object: it has just allocated it,
\* or it is throwing the others off before it releases it.
Private(t, m) == pc[t] \in {"install", "flush"} /\ local[t] = m

\* Every MonitorData is in exactly one place: on the free list, on one object,
\* or in the hands of one thread that is about to install or to release it; and
\* owningThreadId says which of the three states of lines 41-48 it is in.
MonitorAccounting ==
    /\ \A m \in Monitors :
         /\ m \in freeMonitors <=> owner[m] = OnFreeList
         /\ m \in freeMonitors => ~Installed(m)
         /\ owner[m] = CanBeAcquired => Installed(m)
         /\ m \in freeMonitors \/ Installed(m) \/ \E t \in Threads : Private(t, m)
    /\ \A o, p \in Objects : monitor[o] = monitor[p] => o = p \/ monitor[o] = NULL
    /\ \A t \in Threads, m \in Monitors :
         Private(t, m) => owner[m] = t /\ ~Installed(m)

\* t is on the ready list of its monitor.
Ready(t) == pc[t] \in {"loop", "grab", "leave", "sleep", "vacate"}

\* A monitor a thread has found installed after it had put itself on the ready
\* list does not go back to the free list, nor to another object, before that
\* thread has taken itself off the list again: it stays on the object or in the
\* hands of the thread that is flushing it.
PinnedWhileReady ==
    \A t \in Threads :
        pc[t] \in {"grab", "leave", "sleep"} =>
            \/ monitor[object[t]] = local[t]
            \/ \E u \in Threads : pc[u] = "flush" /\ local[u] = local[t]

\* t's caller is between an Enter and the matching Exit, and not in a Wait.
Inside(t, o) == depth[t][o] > 0 /\ ~(waiting[t] # "none" /\ object[t] = o)

\* At most one thread is inside a lock of an object.
MutualExclusion ==
    \A o \in Objects : \A t, u \in Threads :
        Inside(t, o) /\ Inside(u, o) => t = u

\* A thread whose call of Enter or Wait has returned owns the monitor that is
\* on the object, with the recursion count of its nested calls: neither
\* another thread's entry nor the way through Wait has changed it.
HolderOwnsMonitor ==
    \A t \in Threads, o \in Objects :
        Inside(t, o) =>
            /\ LockedByCurrentThread(t, o)
            /\ recursion[monitor[o]] = depth[t][o]

\* While a monitor can be acquired and a thread sleeps on its semaphore, the
\* wake-up is on its way: the semaphore has a token, the thread that let go of
\* it is about to post one, or a ready thread is awake and will try to acquire.
NoLostWakeup ==
    \A t \in Threads :
        pc[t] = "sleep" /\ owner[local[t]] = CanBeAcquired =>
            \/ tokens[local[t]] > 0
            \/ \E u \in Threads :
                 /\ local[u] = local[t]
                 /\ pc[u] \in {"post", "repost", "loop", "grab"}

\* A wait node is on the free list, or one thread that is in Wait holds it, and
\* only then it is on a pulse list or signalled: no pulse reaches a later Wait
\* and no node is left behind (line 75).
NodeAccounting ==
    /\ \A n \in Nodes :
         \/ n \in freeNodes
         \/ \E t \in Threads : waiting[t] # "none" /\ waitNode[t] = n
    /\ \A t, u \in Threads :
         waitNode[t] = waitNode[u] => t = u \/ waitNode[t] = NULL
    /\ \A n \in freeNodes : n \notin signaled /\ \A m \in Monitors : n \notin pulseList[m]
    /\ \A m \in Monitors : pulseList[m] \cap signaled = {}

\* The assert of line 351: a thread that has acquired the monitor it had read
\* from the object, and has seen that the object has a monitor, has acquired the
\* monitor that is on the object.
AcquiredIsInstalled ==
    \A t \in Threads :
        pc[t] = "check" /\ monitor[object[t]] # NULL => monitor[object[t]] = local[t]

\* Whoever owns a monitor keeps it until a step of its own lets go of it
\* (line 42: "only that thread can change the value of this field").
OwnersLetGo ==
    \A m \in Monitors, t \in Threads :
        owner[m] = t /\ owner'[m] # t =>
            pc[t] \in {"install", "check", "handoff", "unlock", "flush"} /\ local[t] = m

OnlyOwnerLetsGo == [][OwnersLetGo]_vars

\* The monitors implement the contract their callers rely on: a call of Enter
\* takes effect when it returns, Exit and Wait when they start, and a pulse is
\* spent on a waiter when its node leaves the pulse list.
Contract == INSTANCE LockContract WITH
    held <- depth,
    waitsOn <- [t \in Threads |-> IF waiting[t] = "none" THEN NULL ELSE object[t]],
    limit <- waiting,
    pulsed <- {t \in Threads : waitNode[t] # NULL /\
                 \A m \in Monitors : waitNode[t] \notin pulseList[m]}
ImplementsContract == Contract!Spec

\* A thread that sleeps for a lock is not left asleep beside a free lock: sooner
\* or later it is awake, or somebody is inside.
LockIsTaken ==
    \A t \in Threads, o \in Objects :
        (pc[t] = "sleep" /\ object[t] = o)
            ~> (pc[t] # "sleep" \/ \E u \in Threads : Inside(u, o))

\* The loop that throws the ready threads off a dying monitor ends.
FlushEnds ==
    \A t \in Threads : pc[t] = "flush" ~> pc[t] # "flush"
=============================================================================
