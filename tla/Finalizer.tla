------------------------------ MODULE Finalizer ------------------------------
(***************************************************************************)
(* gc/GarbageCollector.cpp: the finalizer thread, the calls that wait for  *)
(* it, and the cache of COM callable wrappers, whose entries stand in for  *)
(* the finalizers of their objects.  Of the collector there is what        *)
(* boehmgc/finalize.c does for them: it keeps one callback for an object,  *)
(* hands the object over when it finds it unreachable, and calls the       *)
(* notifier later, once for a collection.  Which objects are unreachable   *)
(* is open.                                                                *)
(***************************************************************************)
EXTENDS Naturals

CONSTANTS
  Objects,     \* the managed objects
  Waiters,     \* threads that call WaitForPendingFinalizers
  None,        \* no object
  MaxPosts     \* the maximum of s_FinalizerSemaphore (32767 in the code)

ASSUME FinalizerAssumption == None \notin Objects /\ MaxPosts \in Nat \ {0}

VARIABLES
  live,        \* the objects that have been allocated and not collected
  callback,    \* the callback the collector would call for an object
  due,         \* GC_finalize_now: the callback of an object it found unreachable
  told,        \* last_finalizer_notification = GC_gc_no
  cache,       \* s_CCWCache: whether an object has a wrapper, and hasFinalizer
  wanted,      \* observer: the program has asked for the object's finalizer
  semaphore,   \* s_FinalizerSemaphore
  completed,   \* s_FinalizersCompletedEvent
  stop,        \* s_StopFinalizer
  place,       \* where the finalizer thread stands in FinalizerThread
  current,     \* the object it is finalizing
  waiter       \* where a thread stands in WaitForPendingFinalizers

objectVars == <<live, callback, due, cache, wanted>>
threadVars == <<semaphore, completed, stop, place, current, waiter>>
vars == <<objectVars, told, threadVars>>

Callbacks == {"none", "RunFinalizer", "CleanupCCW"}
Places == {"wait", "invoke", "cleanup", "finalizer", "completed", "exited"}

\* InitializeFinalizer, which comes back when the thread has started.
Init ==
  /\ live = {}
  /\ callback = [o \in Objects |-> "none"]
  /\ due = [o \in Objects |-> "none"]
  /\ told = TRUE
  /\ cache = [o \in Objects |-> "absent"]
  /\ wanted = [o \in Objects |-> FALSE]
  /\ semaphore = 0
  /\ completed = FALSE
  /\ stop = FALSE
  /\ place = "wait"
  /\ current = None
  /\ waiter = [w \in Waiters |-> "out"]

\* Mutant: the semaphore has no maximum.
PostUnbounded == semaphore' = semaphore + 1

\* A Post at the maximum fails, and nobody looks at that.
NotifyFinalizers ==
  semaphore' = IF semaphore < MaxPosts THEN semaphore + 1 ELSE semaphore

HasPendingFinalizers == \E o \in Objects : due[o] # "none"

-----------------------------------------------------------------------------
(* The program.  It can only use objects that have not been handed over.   *)

Usable(o) == o \in live /\ due[o] = "none" /\ ~(current = o /\ place = "cleanup")

\* A new object, of a class with a finalizer or without.
RegisterFinalizerForNewObject(o) ==
  /\ o \notin live
  /\ live' = live \union {o}
  /\ \E finalizable \in BOOLEAN :
       /\ wanted' = [wanted EXCEPT ![o] = finalizable]
       /\ callback' = [callback EXCEPT ![o] = IF finalizable THEN "RunFinalizer" ELSE "none"]
  /\ UNCHANGED <<due, cache, told, threadVars>>

\* Mutants: the cache is not looked at.
RegisterWithCollector(o) ==
  /\ Usable(o)
  /\ wanted' = [wanted EXCEPT ![o] = TRUE]
  /\ callback' = [callback EXCEPT ![o] = "RunFinalizer"]
  /\ UNCHANGED <<live, due, cache, told, threadVars>>
SuppressWithCollector(o) ==
  /\ Usable(o)
  /\ wanted' = [wanted EXCEPT ![o] = FALSE]
  /\ callback' = [callback EXCEPT ![o] = "none"]
  /\ UNCHANGED <<live, due, cache, told, threadVars>>

\* GC.ReRegisterForFinalize
RegisterFinalizer(o) ==
  /\ Usable(o)
  /\ wanted' = [wanted EXCEPT ![o] = TRUE]
  /\ IF cache[o] # "absent"
     THEN cache' = [cache EXCEPT ![o] = "hasFinalizer"] /\ UNCHANGED callback
     ELSE callback' = [callback EXCEPT ![o] = "RunFinalizer"] /\ UNCHANGED cache
  /\ UNCHANGED <<live, due, told, threadVars>>

\* GC.SuppressFinalize
SuppressFinalizer(o) ==
  /\ Usable(o)
  /\ wanted' = [wanted EXCEPT ![o] = FALSE]
  /\ IF cache[o] # "absent"
     THEN cache' = [cache EXCEPT ![o] = "noFinalizer"] /\ UNCHANGED callback
     ELSE callback' = [callback EXCEPT ![o] = "none"] /\ UNCHANGED cache
  /\ UNCHANGED <<live, due, told, threadVars>>

\* The object's first wrapper takes the place of its finalizer.
GetOrCreateCCW(o) ==
  /\ Usable(o)
  /\ cache[o] = "absent"
  /\ cache' = [cache EXCEPT ![o] =
                 IF callback[o] = "none" THEN "noFinalizer" ELSE "hasFinalizer"]
  /\ callback' = [callback EXCEPT ![o] = "CleanupCCW"]
  /\ UNCHANGED <<live, due, wanted, told, threadVars>>

\* GC_finalize: the collector finds an object unreachable and frees it, or hands it
\* over.  The object whose finalizer runs is reachable.
Collect(o) ==
  /\ o \in live
  /\ due[o] = "none"
  /\ current # o
  /\ \/ /\ callback[o] = "none"
        /\ live' = live \ {o}
        /\ UNCHANGED <<callback, due>>
     \/ /\ callback[o] # "none"
        /\ due' = [due EXCEPT ![o] = callback[o]]
        /\ callback' = [callback EXCEPT ![o] = "none"]
        /\ UNCHANGED live
  /\ told' = FALSE
  /\ UNCHANGED <<cache, wanted, threadVars>>

\* Mutant: a thread that is at work is not notified.
NotifyIdle ==
  /\ HasPendingFinalizers /\ ~told
  /\ told' = TRUE
  /\ IF place = "wait" THEN NotifyFinalizers ELSE UNCHANGED semaphore
  /\ UNCHANGED <<objectVars, completed, stop, place, current, waiter>>

\* GC_notify_or_invoke_finalizers, at the end of a collection the program asks for
\* and otherwise at the next allocation.
NotifyOrInvokeFinalizers ==
  /\ HasPendingFinalizers /\ ~told
  /\ told' = TRUE
  /\ NotifyFinalizers
  /\ UNCHANGED <<objectVars, completed, stop, place, current, waiter>>

-----------------------------------------------------------------------------
(* The finalizer thread.                                                   *)

WakeUp ==
  /\ place = "wait"
  /\ semaphore > 0
  /\ semaphore' = semaphore - 1
  /\ place' = "invoke"
  /\ UNCHANGED <<objectVars, told, completed, stop, current, waiter>>

\* InvokeFinalizers takes the objects that were handed over, one by one.
TakeObject(o) ==
  /\ place = "invoke"
  /\ due[o] # "none"
  /\ due' = [due EXCEPT ![o] = "none"]
  /\ current' = o
  /\ place' = IF due[o] = "CleanupCCW" THEN "cleanup" ELSE "finalizer"
  /\ wanted' = [wanted EXCEPT ![o] = @ /\ due[o] = "CleanupCCW"]
  /\ UNCHANGED <<live, callback, cache, told, semaphore, completed, stop, waiter>>

\* The wrapper goes before the finalizer runs, which may revive the object.
CleanupCCW ==
  /\ place = "cleanup"
  /\ cache' = [cache EXCEPT ![current] = "absent"]
  /\ IF cache[current] = "hasFinalizer"
     THEN /\ place' = "finalizer"
          /\ wanted' = [wanted EXCEPT ![current] = FALSE]
          /\ UNCHANGED current
     ELSE /\ place' = "invoke"
          /\ current' = None
          /\ UNCHANGED wanted
  /\ UNCHANGED <<live, callback, due, told, semaphore, completed, stop, waiter>>

\* The finalizer has returned.
RunFinalizer ==
  /\ place = "finalizer"
  /\ place' = "invoke"
  /\ current' = None
  /\ UNCHANGED <<objectVars, told, semaphore, completed, stop, waiter>>

InvokeFinalizersReturns ==
  /\ place = "invoke"
  /\ ~HasPendingFinalizers
  /\ place' = "completed"
  /\ UNCHANGED <<objectVars, told, semaphore, completed, stop, current, waiter>>

\* The event is set, and the loop is left when s_StopFinalizer is found set.
SetCompleted ==
  /\ place = "completed"
  /\ completed' = TRUE
  /\ place' = IF stop THEN "exited" ELSE "wait"
  /\ UNCHANGED <<objectVars, told, semaphore, stop, current, waiter>>

FinalizerThread ==
  \/ WakeUp
  \/ \E o \in Objects : TakeObject(o)
  \/ CleanupCCW
  \/ RunFinalizer
  \/ InvokeFinalizersReturns
  \/ SetCompleted

-----------------------------------------------------------------------------
(* Threads that wait, and the end.                                         *)

\* Runtime::Shutdown has ended the other threads before it stops this one.
WaitForPendingFinalizers(w) ==
  /\ ~stop
  /\ waiter[w] = "out"
  /\ HasPendingFinalizers
  /\ waiter' = [waiter EXCEPT ![w] = "reset"]
  /\ UNCHANGED <<objectVars, told, semaphore, completed, stop, place, current>>

\* Mutant: nobody is notified, as the collector has done that.
ResetOnly(w) ==
  /\ waiter[w] = "reset"
  /\ completed' = FALSE
  /\ waiter' = [waiter EXCEPT ![w] = "wait"]
  /\ UNCHANGED <<objectVars, told, semaphore, stop, place, current>>

ResetCompleted(w) ==
  /\ waiter[w] = "reset"
  /\ completed' = FALSE
  /\ waiter' = [waiter EXCEPT ![w] = "notify"]
  /\ UNCHANGED <<objectVars, told, semaphore, stop, place, current>>

Notify(w) ==
  /\ waiter[w] = "notify"
  /\ NotifyFinalizers
  /\ waiter' = [waiter EXCEPT ![w] = "wait"]
  /\ UNCHANGED <<objectVars, told, completed, stop, place, current>>

WaitReturns(w) ==
  /\ waiter[w] = "wait"
  /\ completed
  /\ waiter' = [waiter EXCEPT ![w] = "out"]
  /\ UNCHANGED <<objectVars, told, semaphore, completed, stop, place, current>>

UninitializeFinalizers ==
  /\ ~stop
  /\ \A w \in Waiters : waiter[w] = "out"
  /\ stop' = TRUE
  /\ NotifyFinalizers
  /\ UNCHANGED <<objectVars, told, completed, place, current, waiter>>

Program ==
  \E o \in Objects :
    \/ RegisterFinalizerForNewObject(o)
    \/ RegisterFinalizer(o)
    \/ SuppressFinalizer(o)
    \/ GetOrCreateCCW(o)

Wait(w) == WaitForPendingFinalizers(w) \/ ResetCompleted(w) \/ Notify(w) \/ WaitReturns(w)

Next ==
  \/ Program
  \/ \E o \in Objects : Collect(o)
  \/ NotifyOrInvokeFinalizers
  \/ FinalizerThread
  \/ \E w \in Waiters : Wait(w)
  \/ UninitializeFinalizers

Spec == Init /\ [][Next]_vars

\* The finalizer thread runs and finalizers end, and the program allocates again
\* and again; a waiter that the event lets go again and again gets hold of the
\* event's mutex before another resets it.
FairSpec ==
  /\ Spec
  /\ WF_vars(FinalizerThread)
  /\ WF_vars(NotifyOrInvokeFinalizers)
  /\ \A w \in Waiters : WF_vars(ResetCompleted(w)) /\ WF_vars(Notify(w))
                        /\ SF_vars(WaitReturns(w))

-----------------------------------------------------------------------------
TypeOK ==
  /\ live \subseteq Objects
  /\ callback \in [Objects -> Callbacks]
  /\ due \in [Objects -> Callbacks]
  /\ told \in BOOLEAN
  /\ cache \in [Objects -> {"absent", "hasFinalizer", "noFinalizer"}]
  /\ wanted \in [Objects -> BOOLEAN]
  /\ semaphore \in 0..MaxPosts
  /\ completed \in BOOLEAN
  /\ stop \in BOOLEAN
  /\ place \in Places
  /\ current \in Objects \union {None}
  /\ waiter \in [Waiters -> {"out", "reset", "notify", "wait"}]

\* An object is in the cache of wrappers exactly as long as the collector is
\* going to call CleanupCCW for it: the assertion in CleanupCCW holds, and no
\* wrapper outlives its object.
CacheMatchesCallback ==
  \A o \in Objects :
    cache[o] # "absent" <=>
      \/ "CleanupCCW" \in {callback[o], due[o]}
      \/ current = o /\ place = "cleanup"

\* A finalizer is going to run exactly when the program asked for it last,
\* whether the object has had a wrapper or not; nothing the program wants to
\* have finalized is freed.
FinalizedAsRegistered ==
  \A o \in Objects :
    wanted[o] <=>
      /\ o \in live
      /\ "RunFinalizer" \in {callback[o], due[o]} \/ cache[o] = "hasFinalizer"

\* Whoever waits for the finalizers comes back, and so does the shutdown,
\* unless the collector finds more work for ever.
EveryoneComesBack ==
  \/ /\ \A w \in Waiters : waiter[w] # "out" ~> waiter[w] = "out"
     /\ stop ~> place = "exited"
  \/ []<><<\E o \in Objects : Collect(o)>>_vars

\* An object that is handed over while the finalizer thread is at work, or about to
\* wait, is not left until the next collection: it is taken, unless the runtime ends
\* or the collector goes on for ever to find objects, which are taken before it.
HandedOverIsTaken ==
  \/ \A o \in Objects : due[o] # "none" ~> due[o] = "none" \/ stop
  \/ []<><<\E o \in Objects : Collect(o)>>_vars

=============================================================================
