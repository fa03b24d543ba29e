---------------------------- MODULE ManagedThreads ----------------------------
(***************************************************************************)
(* vm/Thread.cpp and the Thread icalls: how a managed thread is started,   *)
(* registered, given its thread statics, aborted, interrupted and ended,   *)
(* and how the main thread ends all others when the runtime shuts down.    *)
(* A thread of the program that attaches itself goes through the same      *)
(* steps.  A critical section of synch_cs or s_ThreadMutex is one step.    *)
(*                                                                         *)
(* The main and the finalizer thread, which shutdown leaves alone, have no *)
(* state here.  kThreadStateUnstarted is place = "new".  m_PendingAPCs is  *)
(* a set: a second copy of a callback finds nothing to do.  abort_exc is   *)
(* left out: it only decides whether ResetAbort raises an exception of its *)
(* own.                                                                    *)
(***************************************************************************)
EXTENDS Naturals, Sequences

CONSTANTS
    Threads,   \* threads other than main and finalizer thread
    Foreign,   \* those that attach themselves; nobody sends them an APC
    MaxSlots   \* bound: thread statics that are allocated

ASSUME ThreadAssumption == Foreign \subseteq Threads /\ MaxSlots \in Nat

VARIABLES
    place,       \* where a thread stands
    state,       \* the flags of its ThreadState
    interruptionRequested, \* its interruption_requested
    apcs,        \* its m_PendingAPCs
    sleeping,    \* the threads whose wait has set WaitSleepJoin
    swallowed,   \* observer: its interrupt was looked at outside WaitSleepJoin
    net40,       \* the build: is NET_4_0 defined?  It never changes
    discarded,   \* observer: the threads whose start threw an abort's APC away
    attached,    \* s_AttachedThreads
    slots,       \* the slots of its static_data that have been allocated
    sizes,       \* the length of s_ThreadStaticSizes
    shutdown,    \* where KillAllBackgroundThreadsAndWaitForForegroundThreads is
    copy,        \* its attachedThreadsCopy
    background,  \* its backgroundThreads
    foreground   \* its foregroundThreads

startVars == <<net40, discarded>>
requestVars == <<state, interruptionRequested, apcs, sleeping, swallowed, startVars>>
staticVars == <<slots, sizes>>
killVars == <<shutdown, copy, background, foreground>>
elsewhere == <<attached, staticVars, killVars>>
vars == <<place, requestVars, elsewhere>>

Flags == {"Background", "WaitSleepJoin", "AbortRequested", "Aborted", "Stopped"}
Callbacks == {"abort", "interrupt", "terminate"}
Waiting == {"wait", "entering", "blocked"}
Places == Waiting \cup Callbacks \cup
    {"new", "created", "registered", "adjusted", "user", "stopped",
     "unregistered", "freed", "exited", "detached", "thrown"}

\* Inside the try block of ThreadStart, in the program's code or called by it.
InUserCode(t) == place[t] \in {"user", "abort", "interrupt", "terminate"} \cup Waiting

\* s_BlockNewThreads
BlockNewThreads == shutdown # "running"

Init ==
    /\ place = [t \in Threads |-> "new"]
    /\ state = [t \in Threads |-> {}]
    /\ interruptionRequested = [t \in Threads |-> FALSE]
    /\ apcs = [t \in Threads |-> {}]
    /\ sleeping = {}
    /\ swallowed = [t \in Threads |-> FALSE]
    /\ net40 \in BOOLEAN
    /\ discarded = {}
    /\ attached = {}
    /\ slots = [t \in Threads |-> {}]
    /\ sizes = 0
    /\ shutdown = "running"
    /\ copy = {}
    /\ background = <<>>
    /\ foreground = {}

\* Code of the program runs that can call into the runtime.
SomeoneRuns == shutdown = "running" \/ \E t \in Threads : place[t] = "user"

\* A managed thread that is thrown out of Initialize, outside of the try block
\* of ThreadStart, ends the process.
Crashed == \E t \in Threads \ Foreign : place[t] = "thrown"

Goto(t, p) == place' = [place EXCEPT ![t] = p]
SetState(t, flags) == state' = [state EXCEPT ![t] = @ \cup flags]
ClrState(t, flags) == state' = [state EXCEPT ![t] = @ \ flags]

\* ThreadImpl::QueueUserAPC.  It interrupts a thread that blocks; one that has
\* looked at its queue and not blocked yet does not notice.
QueueUserAPC(t, callback) ==
    /\ apcs' = [apcs EXCEPT ![t] = @ \cup {callback}]
    /\ place' = IF place[t] = "blocked" THEN [place EXCEPT ![t] = "wait"] ELSE place

-----------------------------------------------------------------------------
(* Starting a thread, and attaching one. *)

\* handle # NULL.  ConstructInternalThread of NET_4_0 makes an os::Thread for a
\* thread that has not started; otherwise Thread_internal makes the first.
HasHandle(t) == place[t] # "new" \/ net40

\* The new os::Thread takes the place of the one there was, and an APC that waits
\* on that one is never run.
NewHandle(t) ==
    /\ apcs' = [apcs EXCEPT ![t] = {}]
    /\ discarded' = discarded \cup {u \in {t} : "abort" \in apcs[u]}

\* Mutant: it is not looked at whether the thread has been aborted.
StartAborted(t) ==
    /\ place[t] = "new" /\ t \notin Foreign /\ SomeoneRuns
    /\ NewHandle(t)
    /\ Goto(t, "created")
    /\ UNCHANGED <<state, interruptionRequested, sleeping, swallowed, net40, elsewhere>>

\* Thread_internal, up to the Post of the semaphore ThreadStart waits for.
ThreadInternal(t) ==
    /\ place[t] = "new" /\ t \notin Foreign /\ SomeoneRuns
    /\ "Aborted" \notin state[t]
    /\ NewHandle(t)
    /\ Goto(t, "created")
    /\ UNCHANGED <<state, interruptionRequested, sleeping, swallowed, net40, elsewhere>>

\* Attach, up to its call of Initialize.
Attach(t) ==
    /\ place[t] = "new" /\ t \in Foreign
    /\ Goto(t, "created")
    /\ UNCHANGED <<requestVars, elsewhere>>

\* Mutant: threads are registered during shutdown too.
RegisterAnyway(t) ==
    /\ place[t] = "created"
    /\ attached' = attached \cup {t}
    /\ Goto(t, "registered")
    /\ UNCHANGED <<requestVars, staticVars, killVars>>

\* Register
Register(t) ==
    /\ place[t] = "created"
    /\ IF BlockNewThreads
       THEN Goto(t, "thrown") /\ UNCHANGED attached
       ELSE Goto(t, "registered") /\ attached' = attached \cup {t}
    /\ UNCHANGED <<requestVars, staticVars, killVars>>

\* AdjustStaticData
AdjustStaticData(t) ==
    /\ place[t] = "registered"
    /\ slots' = [slots EXCEPT ![t] = 1 .. sizes]
    /\ Goto(t, "adjusted")
    /\ UNCHANGED <<requestVars, attached, sizes, killVars>>

\* Mutant: an interrupt from before the start is forgotten.
InitializeForgets(t) ==
    /\ place[t] = "adjusted"
    /\ Goto(t, "user")
    /\ UNCHANGED <<requestVars, elsewhere>>

\* The end of Initialize, which requests an early interrupt again.
Initialize(t) ==
    /\ place[t] = "adjusted"
    /\ apcs' = IF interruptionRequested[t]
               THEN [apcs EXCEPT ![t] = @ \cup {"interrupt"}] ELSE apcs
    /\ Goto(t, "user")
    /\ UNCHANGED <<state, interruptionRequested, sleeping, swallowed, startVars, elsewhere>>

-----------------------------------------------------------------------------
(* What the program asks of a thread. *)

\* Thread.IsBackground
SetBackground(t) ==
    /\ SomeoneRuns /\ t \notin Foreign /\ "Stopped" \notin state[t]
    /\ SetState(t, {"Background"}) \/ ClrState(t, {"Background"})
    /\ UNCHANGED <<place, interruptionRequested, apcs, sleeping, swallowed,
                   startVars, elsewhere>>

\* RequestInterrupt
RequestInterrupt(t) ==
    /\ SomeoneRuns /\ t \notin Foreign
    /\ interruptionRequested' = [interruptionRequested EXCEPT ![t] = TRUE]
    /\ IF HasHandle(t)
       THEN QueueUserAPC(t, "interrupt")
       ELSE UNCHANGED <<place, apcs>>
    /\ swallowed' = [swallowed EXCEPT ![t] = FALSE]
    /\ UNCHANGED <<state, sleeping, startVars, elsewhere>>

\* RequestAbort
RequestAbort(t) ==
    /\ SomeoneRuns /\ t \notin Foreign
    /\ state[t] \cap {"AbortRequested", "Stopped"} = {}
    /\ IF HasHandle(t)
       THEN SetState(t, {"AbortRequested"}) /\ QueueUserAPC(t, "abort")
       ELSE SetState(t, {"Aborted"}) /\ UNCHANGED <<place, apcs>>
    /\ UNCHANGED <<interruptionRequested, sleeping, swallowed, startVars, elsewhere>>

\* ResetAbort, which NET_4_0 has not implemented
ResetAbort(t) ==
    /\ place[t] = "user" /\ ~net40
    /\ ClrState(t, {"AbortRequested"})
    /\ UNCHANGED <<place, interruptionRequested, apcs, sleeping, swallowed,
                   startVars, elsewhere>>

\* Mutant: the table of a thread may overflow.
AllocUnchecked ==
    /\ SomeoneRuns /\ sizes <= MaxSlots
    /\ sizes' = sizes + 1
    /\ UNCHANGED <<place, requestVars, attached, slots, killVars>>

\* AllocThreadStaticData
AllocThreadStaticData ==
    /\ SomeoneRuns /\ sizes < MaxSlots
    /\ sizes' = sizes + 1
    /\ slots' = [t \in Threads |->
                   IF t \in attached THEN slots[t] \cup {sizes + 1} ELSE slots[t]]
    /\ UNCHANGED <<place, requestVars, attached, killVars>>

-----------------------------------------------------------------------------
(* Interruptible waits.  Sleep, Join and the waits for handles and monitors *)
(* set WaitSleepJoin; the wait of EndInvoke does not.                       *)

\* WaitOne looks for an interrupt itself before it waits.
BeginWait(t) ==
    /\ place[t] = "user" /\ t \notin Foreign
    /\ \/ /\ Goto(t, "wait") \/ Goto(t, "interrupt")
          /\ SetState(t, {"WaitSleepJoin"}) /\ sleeping' = sleeping \cup {t}
       \/ Goto(t, "wait") /\ UNCHANGED <<state, sleeping>>
    /\ UNCHANGED <<interruptionRequested, apcs, swallowed, startVars, elsewhere>>

\* CheckForUserAPCAndHandle takes a callback off the queue and calls it; what
\* the callback does is the next step.
RunAPC(t, callback) ==
    /\ place[t] = "wait" /\ callback \in apcs[t]
    /\ apcs' = [apcs EXCEPT ![t] = @ \ {callback}]
    /\ Goto(t, callback)
    /\ UNCHANGED <<state, interruptionRequested, sleeping, swallowed, startVars, elsewhere>>

\* With no APC left the thread blocks, in two steps.
Block(t) ==
    /\ \/ place[t] = "wait" /\ apcs[t] = {} /\ Goto(t, "entering")
       \/ place[t] = "entering" /\ Goto(t, "blocked")
    /\ UNCHANGED <<requestVars, elsewhere>>

\* A wait ends with the object it is for, or with its time.
EndWait(t) ==
    /\ place[t] = "blocked"
    /\ Goto(t, "user")
    /\ sleeping' = sleeping \ {t}
    /\ IF t \in sleeping THEN ClrState(t, {"WaitSleepJoin"}) ELSE UNCHANGED state
    /\ UNCHANGED <<interruptionRequested, apcs, swallowed, startVars, elsewhere>>

\* CheckCurrentThreadForAbortAndThrowIfNecessary.  The exception ends the wait;
\* a wait for a handle or a monitor clears WaitSleepJoin, Sleep and Join leave it.
CheckForAbort(t) ==
    /\ place[t] = "abort"
    /\ IF "AbortRequested" \in state[t]
       THEN /\ Goto(t, "user")
            /\ \/ ClrState(t, {"AbortRequested"})
               \/ t \in sleeping /\ ClrState(t, {"AbortRequested", "WaitSleepJoin"})
            /\ sleeping' = sleeping \ {t}
       ELSE Goto(t, "wait") /\ UNCHANGED <<state, sleeping>>
    /\ UNCHANGED <<interruptionRequested, apcs, swallowed, startVars, elsewhere>>

\* CheckCurrentThreadForInterruptAndThrowIfNecessary
CheckForInterrupt(t) ==
    /\ place[t] = "interrupt"
    /\ IF interruptionRequested[t] /\ "WaitSleepJoin" \in state[t]
       THEN /\ Goto(t, "user")
            /\ interruptionRequested' = [interruptionRequested EXCEPT ![t] = FALSE]
            /\ ClrState(t, {"WaitSleepJoin"})
            /\ sleeping' = sleeping \ {t}
            /\ UNCHANGED swallowed
       ELSE /\ Goto(t, "wait")
            /\ swallowed' = [swallowed EXCEPT ![t] = interruptionRequested[t]]
            /\ UNCHANGED <<state, interruptionRequested, sleeping>>
    /\ UNCHANGED <<apcs, startVars, elsewhere>>

-----------------------------------------------------------------------------
(* The end of a thread. *)

\* TerminateBackgroundThread throws a NativeThreadAbortException, which only
\* ThreadStart catches.
Terminate(t) ==
    /\ place[t] = "terminate"
    /\ Goto(t, "stopped")
    /\ SetState(t, {"Aborted", "Stopped"})
    /\ sleeping' = sleeping \ {t}
    /\ UNCHANGED <<interruptionRequested, apcs, swallowed, startVars, elsewhere>>

\* The delegate returns, or throws; a thread of the program begins to detach.
Leave(t) ==
    /\ place[t] = "user"
    /\ Goto(t, "stopped")
    /\ IF t \in Foreign THEN UNCHANGED state ELSE SetState(t, {"Stopped"})
    /\ UNCHANGED <<interruptionRequested, apcs, sleeping, swallowed, startVars, elsewhere>>

\* Mutant: the thread stays on the list.
UnregisterLater(t) ==
    /\ place[t] = "stopped"
    /\ Goto(t, "unregistered")
    /\ UNCHANGED <<requestVars, elsewhere>>

\* Unregister
Unregister(t) ==
    /\ place[t] = "stopped"
    /\ attached' = attached \ {t}
    /\ Goto(t, "unregistered")
    /\ UNCHANGED <<requestVars, staticVars, killVars>>

\* FreeThreadStaticData
FreeThreadStaticData(t) ==
    /\ place[t] = "unregistered"
    /\ slots' = [slots EXCEPT ![t] = {}]
    /\ Goto(t, "freed")
    /\ UNCHANGED <<requestVars, attached, sizes, killVars>>

\* The rest of Uninitialize, and the Set of m_ThreadExitedEvent by RunWrapper, or by
\* the clean-up of a thread that attached itself and ended without Detach.  After a
\* Detach of its own nobody sets the event.
Exit(t) ==
    /\ place[t] = "freed"
    /\ Goto(t, "exited") \/ (t \in Foreign /\ Goto(t, "detached"))
    /\ UNCHANGED <<requestVars, elsewhere>>

\* m_ThreadExitedEvent is set.
ThreadExited(t) == place[t] = "exited"

-----------------------------------------------------------------------------
(* KillAllBackgroundThreadsAndWaitForForegroundThreads, on the main thread. *)

\* New threads are blocked and the list is copied.
BlockAndCopy ==
    /\ shutdown = "running"
    /\ shutdown' = "classify"
    /\ copy' = attached
    /\ UNCHANGED <<place, requestVars, attached, staticVars, background, foreground>>

\* One thread of the copy.
Classify(t) ==
    /\ shutdown = "classify" /\ t \in copy
    /\ copy' = copy \ {t}
    /\ IF "Background" \in state[t]
       THEN /\ QueueUserAPC(t, "terminate")
            /\ background' = Append(background, t)
            /\ UNCHANGED foreground
       ELSE /\ foreground' = foreground \cup {t}
            /\ UNCHANGED <<place, apcs, background>>
    /\ UNCHANGED <<state, interruptionRequested, sleeping, swallowed, startVars, attached,
                   staticVars, shutdown>>

\* Mutant: a background thread is asked only once.
JoinBackgroundOnce ==
    /\ shutdown = "classify" /\ copy = {} /\ background # <<>>
    /\ ThreadExited(background[Len(background)])
    /\ background' = SubSeq(background, 1, Len(background) - 1)
    /\ UNCHANGED <<place, requestVars, attached, staticVars, shutdown, copy, foreground>>

\* Join(10) of the last background thread, and another APC if it times out.
JoinBackground ==
    /\ shutdown = "classify" /\ copy = {} /\ background # <<>>
    /\ LET t == background[Len(background)] IN
         IF ThreadExited(t)
         THEN /\ background' = SubSeq(background, 1, Len(background) - 1)
              /\ UNCHANGED <<place, apcs>>
         ELSE QueueUserAPC(t, "terminate") /\ UNCHANGED background
    /\ UNCHANGED <<state, interruptionRequested, sleeping, swallowed, startVars, attached,
                   staticVars, shutdown, copy, foreground>>

\* Join of the foreground threads, without a limit.
JoinForeground(t) ==
    /\ shutdown = "classify" /\ copy = {} /\ background = <<>>
    /\ t \in foreground /\ ThreadExited(t)
    /\ foreground' = foreground \ {t}
    /\ UNCHANGED <<place, requestVars, attached, staticVars, shutdown, copy, background>>

\* s_AttachedThreads is cleared.
ClearAttached ==
    /\ shutdown = "classify" /\ copy = {} /\ background = <<>> /\ foreground = {}
    /\ shutdown' = "done"
    /\ attached' = {}
    /\ UNCHANGED <<place, requestVars, staticVars, copy, background, foreground>>

-----------------------------------------------------------------------------
Begin(t) == ThreadInternal(t) \/ Attach(t) \/ BeginWait(t)

Program(t) ==
    SetBackground(t) \/ RequestInterrupt(t) \/ RequestAbort(t) \/ ResetAbort(t)

\* What a thread does without the program having a choice.
Runtime(t) ==
    \/ Register(t) \/ AdjustStaticData(t) \/ Initialize(t)
    \/ \E callback \in Callbacks : RunAPC(t, callback)
    \/ Block(t) \/ CheckForAbort(t) \/ CheckForInterrupt(t) \/ Terminate(t)
    \/ Unregister(t) \/ FreeThreadStaticData(t) \/ Exit(t)

KillAll ==
    BlockAndCopy \/ JoinBackground \/ ClearAttached
    \/ \E t \in Threads : Classify(t) \/ JoinForeground(t)

Next ==
    /\ ~Crashed
    /\ \/ \E t \in Threads : Begin(t) \/ Program(t) \/ Runtime(t) \/ EndWait(t) \/ Leave(t)
       \/ AllocThreadStaticData
       \/ KillAll

Spec == Init /\ [][Next]_vars

\* What the code of the program does in the end: it lets a foreground thread that
\* is left at shutdown come to its end, and the others wait again and again, not
\* only in waits that a pending interrupt ends before they begin.
GoesOn(t) ==
    IF t \in foreground THEN Leave(t) ELSE BeginWait(t) /\ place'[t] = "wait"

\* The scheduler is fair and APCs are run in the order they were queued.
Fairness ==
    /\ WF_vars(~Crashed /\ BlockNewThreads /\ KillAll)
    /\ \A t \in Threads :
         /\ WF_vars(~Crashed /\ (Runtime(t) \/ (t \in foreground /\ EndWait(t))))
         /\ SF_vars(~Crashed /\ GoesOn(t))
    /\ \A t \in Threads \ Foreign : SF_vars(~Crashed /\ RunAPC(t, "terminate"))

FairSpec == Spec /\ Fairness

-----------------------------------------------------------------------------
\* The variables have the types of the code's.
TypeOK ==
    /\ place \in [Threads -> Places]
    /\ state \in [Threads -> SUBSET Flags]
    /\ interruptionRequested \in [Threads -> BOOLEAN]
    /\ apcs \in [Threads -> SUBSET Callbacks]
    /\ sleeping \subseteq Threads
    /\ swallowed \in [Threads -> BOOLEAN]
    /\ net40 \in BOOLEAN
    /\ discarded \subseteq Threads
    /\ attached \subseteq Threads
    /\ slots \in [Threads -> SUBSET (1 .. MaxSlots)]
    /\ sizes \in 0 .. MaxSlots
    /\ shutdown \in {"running", "classify", "done"}
    /\ copy \subseteq Threads
    /\ background \in Seq(Threads)
    /\ foreground \subseteq Threads

\* A request is not forgotten: the APC of an abort or an interrupt that has not
\* been thrown is queued or about to be looked at, unless a wait that does not
\* count as one has thrown the interrupt away.  A thread that was aborted before
\* its start never starts; with NET_4_0 it does, and that abort is lost.
RequestsPending ==
    \A t \in Threads :
      /\ "AbortRequested" \in state[t] /\ InUserCode(t)
           => \/ "abort" \in apcs[t] \/ place[t] = "abort"
              \/ net40 /\ t \in discarded
      /\ interruptionRequested[t] /\ InUserCode(t)
           => "interrupt" \in apcs[t] \/ place[t] = "interrupt" \/ swallowed[t]
      /\ "Aborted" \in state[t] => ~InUserCode(t)

\* A thread in the program's code has a slot for every thread static, whichever
\* of the two was there first, and one that has ended holds none.
ThreadStatics ==
    \A t \in Threads :
      /\ InUserCode(t) => slots[t] = 1 .. sizes
      /\ place[t] \in {"freed", "exited", "detached"} => slots[t] = {}

\* After shutdown no thread runs code of the program, or ever will: all that had
\* been registered have unregistered.  (One that was past Unregister when the
\* list was copied may still be freeing what it has.)
NothingRunsAfterShutdown ==
    shutdown = "done" =>
      \A t \in Threads :
        place[t] \in {"new", "created", "thrown", "unregistered", "freed", "exited",
                      "detached"}

\* Shutdown comes to an end, although a thread may miss an APC and may catch an
\* abort: unless a thread is started meanwhile and crashes, or one is waited for
\* that had attached itself and has detached, which no event tells.
ShutdownEnds ==
    shutdown = "classify" ~>
      shutdown = "done" \/ Crashed \/ \E t \in foreground : place[t] = "detached"

=============================================================================
