--------------------------- MODULE FinalizerProofs ---------------------------
(***************************************************************************)
(* Proofs about Finalizer, for any number of objects and waiters and any   *)
(* maximum of the semaphore: type correctness, the agreement of the cache  *)
(* of wrappers with the collector's callbacks, and the finalizers that     *)
(* run.                                                                    *)
(***************************************************************************)
EXTENDS Finalizer, TLAPS

-----------------------------------------------------------------------------
(* The inductive invariant *)

\* An object that was handed over has no callback left with the collector.
HandedOverOnce == \A o \in Objects : due[o] # "none" => callback[o] = "none"

\* Nothing is left of an object that was freed.
NothingOfTheDead ==
  \A o \in Objects \ live :
    /\ callback[o] = "none" /\ due[o] = "none"
    /\ cache[o] = "absent" /\ ~wanted[o]
    /\ current # o

\* The thread has an object exactly in the two steps that are about one, and
\* nobody else knows an object whose wrapper is being cleaned up.
Finalizing ==
  /\ current # None <=> place \in {"cleanup", "finalizer"}
  /\ \A o \in Objects :
       current = o /\ place = "cleanup" => callback[o] = "none" /\ due[o] = "none"

IInv ==
  /\ TypeOK
  /\ HandedOverOnce
  /\ NothingOfTheDead
  /\ Finalizing
  /\ CacheMatchesCallback
  /\ FinalizedAsRegistered

-----------------------------------------------------------------------------
(* Every action keeps it *)

\* A Post leaves the semaphore within its maximum.
LEMMA PostBounded ==
  ASSUME semaphore \in 0 .. MaxPosts, NotifyFinalizers
  PROVE  semaphore' \in 0 .. MaxPosts
  BY FinalizerAssumption DEF NotifyFinalizers

\* A new object is known to the collector alone.
LEMMA NewObjectKeeps ==
  ASSUME IInv, NEW o \in Objects, RegisterFinalizerForNewObject(o)
  PROVE  IInv'
<1>1. TypeOK'
  BY DEF IInv, TypeOK, Callbacks, RegisterFinalizerForNewObject, threadVars
<1>2. HandedOverOnce'
  BY DEF IInv, HandedOverOnce, NothingOfTheDead, RegisterFinalizerForNewObject
<1>3. NothingOfTheDead'
  BY DEF IInv, NothingOfTheDead, RegisterFinalizerForNewObject, threadVars
<1>4. Finalizing'
  BY DEF IInv, Finalizing, NothingOfTheDead, RegisterFinalizerForNewObject, threadVars
<1>5. CacheMatchesCallback'
  BY DEF IInv, CacheMatchesCallback, NothingOfTheDead, RegisterFinalizerForNewObject, threadVars
<1>6. FinalizedAsRegistered'
  BY DEF IInv, FinalizedAsRegistered, TypeOK, NothingOfTheDead, RegisterFinalizerForNewObject
<1> QED
  BY <1>1, <1>2, <1>3, <1>4, <1>5, <1>6 DEF IInv

\* Asking for a finalizer goes to the cache or to the collector, whichever has the
\* object.
LEMMA RegisterKeeps ==
  ASSUME IInv, NEW o \in Objects, RegisterFinalizer(o)
  PROVE  IInv'
<1>1. TypeOK'
  BY DEF IInv, TypeOK, Callbacks, RegisterFinalizer, threadVars
<1>2. HandedOverOnce'
  BY DEF IInv, HandedOverOnce, TypeOK, RegisterFinalizer, Usable
<1>3. NothingOfTheDead'
  BY DEF IInv, NothingOfTheDead, TypeOK, RegisterFinalizer, Usable, threadVars
<1>4. Finalizing'
  BY DEF IInv, Finalizing, TypeOK, RegisterFinalizer, Usable, threadVars
<1>5. CacheMatchesCallback'
  BY DEF IInv, CacheMatchesCallback, TypeOK, RegisterFinalizer, threadVars
<1>6. FinalizedAsRegistered'
  BY DEF IInv, FinalizedAsRegistered, TypeOK, RegisterFinalizer, Usable
<1> QED
  BY <1>1, <1>2, <1>3, <1>4, <1>5, <1>6 DEF IInv

\* So does taking it back.
LEMMA SuppressKeeps ==
  ASSUME IInv, NEW o \in Objects, SuppressFinalizer(o)
  PROVE  IInv'
<1>1. TypeOK'
  BY DEF IInv, TypeOK, SuppressFinalizer, Usable, threadVars
<1>2. HandedOverOnce'
  BY DEF IInv, HandedOverOnce, TypeOK, SuppressFinalizer
<1>3. NothingOfTheDead'
  BY DEF IInv, NothingOfTheDead, TypeOK, SuppressFinalizer, threadVars
<1>4. Finalizing'
  BY DEF IInv, Finalizing, TypeOK, SuppressFinalizer, threadVars
<1>5. CacheMatchesCallback'
  BY DEF IInv, CacheMatchesCallback, TypeOK, SuppressFinalizer, threadVars
<1>6. FinalizedAsRegistered'
  BY DEF IInv, FinalizedAsRegistered, TypeOK, CacheMatchesCallback, SuppressFinalizer, Usable
<1> QED
  BY <1>1, <1>2, <1>3, <1>4, <1>5, <1>6 DEF IInv

\* The first wrapper takes over whether there is a finalizer.
LEMMA WrapperKeeps ==
  ASSUME IInv, NEW o \in Objects, GetOrCreateCCW(o)
  PROVE  IInv'
<1>1. TypeOK'
  BY DEF IInv, TypeOK, Callbacks, GetOrCreateCCW, threadVars
<1>2. HandedOverOnce'
  BY DEF IInv, HandedOverOnce, GetOrCreateCCW, Usable
<1>3. NothingOfTheDead'
  BY DEF IInv, NothingOfTheDead, GetOrCreateCCW, Usable, threadVars
<1>4. Finalizing'
  BY DEF IInv, Finalizing, GetOrCreateCCW, Usable, threadVars
<1>5. CacheMatchesCallback'
  BY DEF IInv, CacheMatchesCallback, TypeOK, GetOrCreateCCW, threadVars
<1>6. FinalizedAsRegistered'
  BY DEF IInv, FinalizedAsRegistered, TypeOK, CacheMatchesCallback, Callbacks, GetOrCreateCCW
<1> QED
  BY <1>1, <1>2, <1>3, <1>4, <1>5, <1>6 DEF IInv

\* The collector frees what nobody wants finalized, and hands over the rest.
LEMMA CollectKeeps ==
  ASSUME IInv, NEW o \in Objects, Collect(o)
  PROVE  IInv'
<1>1. TypeOK'
  BY DEF IInv, TypeOK, Collect, threadVars
<1>2. HandedOverOnce'
  BY DEF IInv, HandedOverOnce, TypeOK, Collect, threadVars
<1>3. NothingOfTheDead'
  BY DEF IInv, NothingOfTheDead, TypeOK, CacheMatchesCallback, FinalizedAsRegistered,
    Collect, threadVars
<1>4. Finalizing'
  BY DEF IInv, Finalizing, TypeOK, Collect, threadVars
<1>5. CacheMatchesCallback'
  BY DEF IInv, CacheMatchesCallback, TypeOK, Collect, threadVars
<1>6. FinalizedAsRegistered'
  BY DEF IInv, FinalizedAsRegistered, TypeOK, CacheMatchesCallback, Collect, threadVars
<1> QED
  BY <1>1, <1>2, <1>3, <1>4, <1>5, <1>6 DEF IInv

\* The thread takes a callback from the objects handed over.
LEMMA TakeKeeps ==
  ASSUME IInv, NEW o \in Objects, TakeObject(o)
  PROVE  IInv'
<1>1. TypeOK'
  BY DEF IInv, TypeOK, Callbacks, Places, TakeObject
<1>2. HandedOverOnce'
  BY DEF IInv, HandedOverOnce, TakeObject
<1>3. NothingOfTheDead'
  BY DEF IInv, NothingOfTheDead, TakeObject
<1>4. Finalizing'
  BY FinalizerAssumption DEF IInv, Finalizing, TypeOK, HandedOverOnce, TakeObject
<1>5. CacheMatchesCallback'
  BY DEF IInv, CacheMatchesCallback, TakeObject
<1>6. FinalizedAsRegistered'
  BY DEF IInv, FinalizedAsRegistered, TypeOK, HandedOverOnce, CacheMatchesCallback, TakeObject
<1> QED
  BY <1>1, <1>2, <1>3, <1>4, <1>5, <1>6 DEF IInv

\* The wrapper goes, and what the cache knew decides on the finalizer.
LEMMA CleanupKeeps ==
  ASSUME IInv, CleanupCCW
  PROVE  IInv'
<1>1. TypeOK'
  BY DEF IInv, TypeOK, Places, CleanupCCW
<1>2. HandedOverOnce'
  BY DEF IInv, HandedOverOnce, CleanupCCW
<1>3. NothingOfTheDead'
  BY FinalizerAssumption DEF IInv, NothingOfTheDead, TypeOK, CleanupCCW
<1>4. Finalizing'
  BY DEF IInv, Finalizing, CleanupCCW
<1>5. CacheMatchesCallback'
  BY DEF IInv, CacheMatchesCallback, TypeOK, Finalizing, CleanupCCW
<1>6. FinalizedAsRegistered'
  BY DEF IInv, FinalizedAsRegistered, TypeOK, Finalizing, CleanupCCW
<1> QED
  BY <1>1, <1>2, <1>3, <1>4, <1>5, <1>6 DEF IInv

\* The steps that are about no object move the thread, the event or a waiter.
LEMMA QuietKeeps ==
  ASSUME IInv,
         \/ WakeUp \/ RunFinalizer \/ InvokeFinalizersReturns \/ SetCompleted
         \/ \E w \in Waiters : Wait(w)
         \/ UninitializeFinalizers \/ NotifyOrInvokeFinalizers
         \/ UNCHANGED vars
  PROVE  IInv'
<1>1. /\ UNCHANGED objectVars
      /\ \/ UNCHANGED <<place, current>>
         \/ /\ place # "cleanup" /\ place' \in {"wait", "invoke", "completed", "exited"}
            /\ current' = None
  BY DEF IInv, TypeOK, Places, Finalizing, WakeUp, RunFinalizer, InvokeFinalizersReturns,
         SetCompleted, Wait, WaitForPendingFinalizers, ResetCompleted, Notify, WaitReturns,
         UninitializeFinalizers, NotifyOrInvokeFinalizers, vars, threadVars
<1>2. TypeOK'
  <2>1. semaphore' \in 0 .. MaxPosts
    BY PostBounded, FinalizerAssumption
       DEF IInv, TypeOK, WakeUp, RunFinalizer, InvokeFinalizersReturns, SetCompleted,
         Wait, WaitForPendingFinalizers, ResetCompleted, Notify, WaitReturns,
         UninitializeFinalizers, NotifyOrInvokeFinalizers, vars, threadVars
  <2>2. /\ completed' \in BOOLEAN
        /\ stop' \in BOOLEAN /\ told' \in BOOLEAN
        /\ waiter' \in [Waiters -> {"out", "reset", "notify", "wait"}]
    BY DEF IInv, TypeOK, WakeUp, RunFinalizer, InvokeFinalizersReturns, SetCompleted,
         Wait, WaitForPendingFinalizers, ResetCompleted, Notify, WaitReturns,
         UninitializeFinalizers, NotifyOrInvokeFinalizers, vars, threadVars
  <2>3. QED
    BY <1>1, <2>1, <2>2 DEF IInv, TypeOK, Places, objectVars
<1>3. HandedOverOnce'
  BY <1>1 DEF IInv, HandedOverOnce, objectVars
<1>4. NothingOfTheDead'
  BY <1>1, FinalizerAssumption DEF IInv, NothingOfTheDead, objectVars
<1>5. Finalizing'
  BY <1>1 DEF IInv, Finalizing, objectVars
<1>6. CacheMatchesCallback'
  BY <1>1, FinalizerAssumption DEF IInv, CacheMatchesCallback, objectVars
<1>7. FinalizedAsRegistered'
  BY <1>1 DEF IInv, FinalizedAsRegistered, objectVars
<1> QED
  BY <1>2, <1>3, <1>4, <1>5, <1>6, <1>7 DEF IInv

-----------------------------------------------------------------------------
(* The theorems *)

\* At the start there is no object, and no step breaks the invariant.
LEMMA Inductive ==
  /\ Init => IInv
  /\ IInv /\ [Next]_vars => IInv'
<1>1. Init => IInv
  <2> SUFFICES ASSUME Init
               PROVE  IInv
    OBVIOUS
  <2>1. TypeOK
    <3>1. semaphore \in 0 .. MaxPosts
      BY FinalizerAssumption DEF Init
    <3>2. /\ callback \in [Objects -> Callbacks] /\ due \in [Objects -> Callbacks]
          /\ cache \in [Objects -> {"absent", "hasFinalizer", "noFinalizer"}]
      BY DEF Init, Callbacks
    <3>3. wanted \in [Objects -> BOOLEAN] /\ completed \in BOOLEAN /\ stop \in BOOLEAN
      BY DEF Init
    <3>4. waiter \in [Waiters -> {"out", "reset", "notify", "wait"}]
      BY DEF Init
    <3> QED
      BY <3>1, <3>2, <3>3, <3>4 DEF Init, TypeOK, Places
  <2>2. HandedOverOnce /\ Finalizing
    BY DEF Init, HandedOverOnce, Finalizing
  <2>3. NothingOfTheDead
    BY FinalizerAssumption DEF Init, NothingOfTheDead
  <2>4. CacheMatchesCallback
    BY DEF Init, CacheMatchesCallback
  <2>5. FinalizedAsRegistered
    BY FinalizerAssumption DEF Init, FinalizedAsRegistered
  <2> QED
    BY <2>1, <2>2, <2>3, <2>4, <2>5 DEF IInv
<1>2. IInv /\ [Next]_vars => IInv'
  <2> SUFFICES ASSUME IInv, [Next]_vars
               PROVE  IInv'
    OBVIOUS
  <2>1. CASE Program
    BY <2>1, NewObjectKeeps, RegisterKeeps, SuppressKeeps, WrapperKeeps DEF Program
  <2>2. CASE \E o \in Objects : Collect(o)
    BY <2>2, CollectKeeps
  <2>3. CASE FinalizerThread
    BY <2>3, TakeKeeps, CleanupKeeps, QuietKeeps DEF FinalizerThread
  <2>4. CASE \/ \E w \in Waiters : Wait(w)
             \/ UninitializeFinalizers \/ NotifyOrInvokeFinalizers \/ UNCHANGED vars
    BY <2>4, QuietKeeps
  <2> QED
    BY <2>1, <2>2, <2>3, <2>4 DEF Next
<1> QED
  BY <1>1, <1>2

\* The variables of gc/GarbageCollector.cpp keep their types; among others, no
\* Post leaves the finalizer semaphore above its maximum.
THEOREM FinalizerTypes == Spec => []TypeOK
<1>1. IInv => TypeOK
  BY DEF IInv
<1> QED
  BY Inductive, <1>1, PTL DEF Spec

\* However the program, the collector and the finalizer thread interleave, an
\* object has an entry in s_CCWCache exactly while its CleanupCCW is to come.
THEOREM WrapperLife == Spec => []CacheMatchesCallback
<1>1. IInv => CacheMatchesCallback
  BY DEF IInv
<1> QED
  BY Inductive, <1>1, PTL DEF Spec

\* ReRegisterForFinalize and SuppressFinalize are obeyed, whether they find the
\* object with the collector, with a wrapper, or already handed over.
THEOREM FinalizersObey == Spec => []FinalizedAsRegistered
<1>1. IInv => FinalizedAsRegistered
  BY DEF IInv
<1> QED
  BY Inductive, <1>1, PTL DEF Spec

=============================================================================
