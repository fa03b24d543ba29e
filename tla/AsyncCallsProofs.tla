--------------------------- MODULE AsyncCallsProofs ---------------------------
(***************************************************************************)
(* Proofs about ThreadPool and SocketPolling, for any number of calls,     *)
(* threads and sockets: the types, the count of idle threads, no call left *)
(* in the queue with nobody to look, and what EndInvoke finds.             *)
(***************************************************************************)
EXTENDS MCAsyncCalls, FiniteSetTheorems, TLAPS

-----------------------------------------------------------------------------
(* The inductive invariant of the pool *)

\* The threads that count themselves as idle, and those that have or never will again.
Idle == {w \in Workers : place[w] \in {"wait", "woken"}}
Counted == {w \in Workers : place[w] \in {"wait", "woken", "leave", "gone"}}

\* numIdleThreads counts the threads that wait, and at most those that were aborted
\* while they did.
IdleCounted ==
    /\ numIdleThreads \in Nat
    /\ Cardinality(Idle) <= numIdleThreads
    /\ numIdleThreads <= Cardinality(Counted)

\* A thread is in the compartment from its start to its end.
ThreadsPlaced ==
    threads = {w \in Workers : place[w] \notin {"unused", "spawned", "gone"}}

Spawned == {w \in Workers : place[w] # "unused"}
Dispatched == {i \in Items : call[i] \notin {"none", "queue"}}

\* A call that has been dispatched has added one thread at most.
SpawnsCounted == Cardinality(Spawned) <= Cardinality(Dispatched)

\* What is known of a call that a worker has, by where the worker stands.
ItemsPlaced ==
    \A w \in Workers :
        /\ place[w] \in {"invoke", "callback", "signal"} => item[w] \in Items
        /\ place[w] = "callback" => item[w] \in Callbacks
        /\ place[w] \in {"callback", "signal"} => msg[item[w]] # "none"

\* What EndInvoke may find, and has found.
AnswersReady ==
    \A i \in Items :
        /\ msg[i] = "callback" => i \in Callbacks
        /\ handle[i] = "set" => msg[i] # "none"
        /\ call[i] = "result" => msg[i] # "none"
        /\ call[i] = "returned" =>
             answer[i] # "none" /\ (answer[i] = "callback" => i \in Callbacks)

\* The call at the head of the queue is still to be dispatched, and then a thread
\* will look: a new one, or one that waits.
HeadPending ==
    \/ pushed[Head(queue)] = "force"
    \/ pushed[Head(queue)] = "calm" /\ \E w \in Workers : place[w] = "wait"

Attended ==
    queue # <<>> =>
        \/ \E w \in Workers : WillLook(w)
        \/ HeadPending
        \/ Head(queue) \in missed
        \/ Miscounted

PoolInv ==
    /\ PoolTypeOK
    /\ IdleCounted
    /\ ThreadsPlaced
    /\ SpawnsCounted
    /\ ItemsPlaced
    /\ AnswersReady
    /\ Attended

-----------------------------------------------------------------------------
(* The steps *)

\* A step of a caller or a worker, and not of the clock or an interrupt.
PoolStep ==
    \/ \E i \in Items : Queue(i) \/ Caller(i)
    \/ \E w \in Workers : Worker(w) \/ Timeout(w) \/ Abort(w)

\* Every step of the pool keeps the types, but for the range of the idle count.
LEMMA TypesKept ==
    ASSUME PoolTypeOK, ItemsPlaced, PoolStep, numIdleThreads' \in 0 .. Cardinality(Workers)
    PROVE  PoolTypeOK'
<1> USE DEF PoolTypeOK, poolVars, workerVars, callVars, resultVars, Places, Goto
<1>1. ASSUME NEW i \in Items, Queue(i) PROVE PoolTypeOK'
  BY <1>1 DEF Queue, Push
<1>2. ASSUME NEW i \in Items, Queued(i) PROVE PoolTypeOK'
  <2>1. ASSUME SpawnNewWorkerThread PROVE place' \in [Workers -> Places] /\ missed' \subseteq Items
    BY <2>1 DEF SpawnNewWorkerThread
  <2>2. signalThreads' \in Nat
    BY <1>2 DEF Queued, Dispatch, SpawnNewWorkerThread, SignalThread
  <2>3. ASSUME SignalThread(i) PROVE place' \in [Workers -> Places] /\ missed' \subseteq Items
    BY <2>3 DEF SignalThread
  <2>4. QED
    BY <1>2, <2>1, <2>2, <2>3 DEF Queued, Dispatch
<1>3. ASSUME NEW i \in Items, EndInvoke(i) \/ HandleIsSet(i) \/ Return(i) PROVE PoolTypeOK'
  BY <1>3 DEF EndInvoke, HandleIsSet, Return
<1>4. ASSUME NEW w \in Workers, AttachThread(w) \/ DecideWhatToDo(w) PROVE PoolTypeOK'
  BY <1>4 DEF AttachThread, DecideWhatToDo
<1>5. ASSUME NEW w \in Workers, DequeueNextWorkItem(w) PROVE PoolTypeOK'
  <2>1. queue # <<>> => Head(queue) \in Items /\ Tail(queue) \in Seq(Items)
    OBVIOUS
  <2>2. QED
    BY <1>5, <2>1 DEF DequeueNextWorkItem
<1>6. ASSUME NEW w \in Workers,
             BecomeIdle(w) \/ TakeSignal(w) \/ StopBeingIdle(w) \/ Timeout(w) \/ Abort(w)
      PROVE  PoolTypeOK'
  BY <1>6 DEF BecomeIdle, TakeSignal, StopBeingIdle, Timeout, Abort
<1>7. ASSUME NEW w \in Workers,
             Complete(w) \/ CallbackReturns(w) \/ Signal(w) \/ DetachThread(w)
      PROVE  PoolTypeOK'
  BY <1>7 DEF Complete, CallbackReturns, Signal, DetachThread
<1>8. QED
  BY <1>1, <1>2, <1>3, <1>4, <1>5, <1>6, <1>7 DEF PoolStep, Caller, Worker

\* Where a worker was and where it goes.
Moves(w, from, to) == place[w] \in from /\ place' = [place EXCEPT ![w] = to]

\* A call that is being dispatched leaves a worker for it.
LEMMA WorkerLeft ==
    ASSUME SpawnsCounted, NEW i \in Items, i \notin Dispatched
    PROVE  \E w \in Workers : place[w] = "unused"
<1>1. SUFFICES ASSUME Spawned = Workers PROVE FALSE
  BY DEF Spawned
<1>2. /\ IsFiniteSet(Items) /\ IsFiniteSet(Workers)
      /\ Cardinality(Workers) >= Cardinality(Items)
  BY PoolAssumption
<1>3. IsFiniteSet(Dispatched \cup {i}) /\ Cardinality(Dispatched \cup {i}) <= Cardinality(Items)
  BY <1>2, FS_Subset DEF Dispatched
<1>4. IsFiniteSet(Dispatched) /\ Cardinality(Dispatched \cup {i}) = Cardinality(Dispatched) + 1
  BY <1>2, FS_Subset, FS_AddElement DEF Dispatched
<1>5. /\ Cardinality(Dispatched) \in Nat /\ Cardinality(Items) \in Nat
      /\ Cardinality(Workers) \in Nat
  BY <1>2, <1>4, FS_CardinalityType
<1>6. Cardinality(Workers) <= Cardinality(Dispatched)
  BY <1>1 DEF SpawnsCounted
<1>7. QED
  BY <1>2, <1>3, <1>4, <1>5, <1>6

\* A new thread is one that was unused.
LEMMA NewThread ==
    ASSUME SpawnNewWorkerThread, \E w \in Workers : place[w] = "unused"
    PROVE  \E w \in Workers : Moves(w, {"unused"}, "spawned")
<1>1. PICK w \in Workers : place[w] = "unused" /\ w = CHOOSE v \in Workers : place[v] = "unused"
  OBVIOUS
<1>2. place' = [place EXCEPT ![w] = "spawned"]
  BY <1>1 DEF SpawnNewWorkerThread, Goto
<1>3. QED
  BY <1>1, <1>2 DEF Moves

\* The ways of a thread through the pool, with what the pool counts of it.
PoolMove(w) ==
    \/ Moves(w, {"unused"}, "spawned") /\ UNCHANGED <<threads, numIdleThreads>>
    \/ Moves(w, {"spawned"}, "loop") /\ threads' = threads \cup {w} /\ UNCHANGED numIdleThreads
    \/ Moves(w, {"idle"}, "wait") /\ numIdleThreads' = numIdleThreads + 1 /\ UNCHANGED threads
    \/ Moves(w, {"wait"}, "woken") /\ UNCHANGED <<threads, numIdleThreads>>
    \/ Moves(w, {"woken"}, "loop") /\ numIdleThreads' = numIdleThreads - 1 /\ UNCHANGED threads
    \/ Moves(w, {"leave"}, "gone") /\ threads' = threads \ {w} /\ UNCHANGED numIdleThreads
    \/ Moves(w, {"wait"}, "leave") /\ UNCHANGED <<threads, numIdleThreads>>
    \/ /\ \E to \in {"loop", "empty", "idle", "invoke", "callback", "signal", "leave"} :
            Moves(w, {"loop", "empty", "invoke", "callback", "signal"}, to)
       /\ UNCHANGED <<threads, numIdleThreads>>

PoolStays == UNCHANGED <<place, threads, numIdleThreads>>

\* A step moves one thread at most.
LEMMA PoolMoves ==
    ASSUME PoolTypeOK, SpawnsCounted, PoolStep
    PROVE  PoolStays \/ \E w \in Workers : PoolMove(w)
<1> USE DEF poolVars, workerVars, Goto, Moves, PoolMove, PoolStays
<1>1. ASSUME NEW i \in Items, Queue(i) \/ EndInvoke(i) \/ HandleIsSet(i) \/ Return(i)
      PROVE  PoolStays
  BY <1>1 DEF Queue, Push, EndInvoke, HandleIsSet, Return
<1>2. ASSUME NEW i \in Items, Queued(i)
      PROVE  PoolStays \/ \E w \in Workers : PoolMove(w)
  <2>1. /\ UNCHANGED <<threads, numIdleThreads>>
        /\ SpawnNewWorkerThread \/ UNCHANGED place
        /\ i \notin Dispatched
    BY <1>2 DEF Queued, Dispatch, SignalThread, Dispatched
  <2>2. ASSUME SpawnNewWorkerThread PROVE \E w \in Workers : PoolMove(w)
    BY <2>1, <2>2, WorkerLeft, NewThread
  <2>3. QED
    BY <2>1, <2>2
<1>3. ASSUME NEW w \in Workers, DequeueNextWorkItem(w) \/ DecideWhatToDo(w)
      PROVE  PoolMove(w)
  BY <1>3 DEF DequeueNextWorkItem, DecideWhatToDo
<1>4. ASSUME NEW w \in Workers,
             \/ AttachThread(w) \/ BecomeIdle(w) \/ TakeSignal(w) \/ StopBeingIdle(w)
             \/ Timeout(w) \/ Abort(w) \/ DetachThread(w)
      PROVE  PoolMove(w)
  BY <1>4 DEF AttachThread, BecomeIdle, TakeSignal, StopBeingIdle, Timeout, Abort, DetachThread
<1>5. ASSUME NEW w \in Workers, Complete(w) \/ CallbackReturns(w) \/ Signal(w)
      PROVE  PoolMove(w)
  BY <1>5 DEF Complete, CallbackReturns, Signal
<1>6. QED
  BY <1>1, <1>2, <1>3, <1>4, <1>5 DEF PoolStep, Caller, Worker

\* A set of workers grows or shrinks by the one that moves.
LEMMA OneMore ==
    ASSUME NEW S, S \subseteq Workers, NEW w
    PROVE  /\ IsFiniteSet(S) /\ Cardinality(S) \in Nat
           /\ w \in Workers \ S => Cardinality(S \cup {w}) = Cardinality(S) + 1
           /\ w \in S => Cardinality(S \ {w}) = Cardinality(S) - 1
<1>1. IsFiniteSet(S)
  BY FS_Subset, PoolAssumption
<1>2. QED
  BY <1>1, FS_CardinalityType, FS_AddElement, FS_RemoveElement

\* The threads that count as idle are those that wait, and perhaps some that were
\* aborted; and once the count is wrong it stays wrong.
LEMMA IdleKept ==
    ASSUME PoolTypeOK, SpawnsCounted, IdleCounted, PoolStep
    PROVE  IdleCounted' /\ (Miscounted => Miscounted')
<1> DEFINE n == numIdleThreads
<1>1. /\ Idle \subseteq Workers /\ Counted \subseteq Workers /\ Idle \subseteq Counted
      /\ place \in [Workers -> Places]
  BY DEF Idle, Counted, PoolTypeOK
<1>2. /\ n \in Nat /\ Cardinality(Idle) <= n /\ n <= Cardinality(Counted)
      /\ Cardinality(Idle) \in Nat /\ Cardinality(Counted) \in Nat
      /\ Miscounted <=> n # Cardinality(Idle)
  BY <1>1, OneMore DEF IdleCounted, Miscounted, Idle
<1>3. SUFFICES /\ n' \in Nat
               /\ Cardinality(Idle') <= n' /\ n' <= Cardinality(Counted')
               /\ n # Cardinality(Idle) => n' # Cardinality(Idle')
  BY <1>2 DEF IdleCounted, Miscounted, Idle
<1>4. CASE PoolStays
  BY <1>2, <1>4 DEF PoolStays, Idle, Counted
<1>5. CASE \E w \in Workers : PoolMove(w)
  <2>1. PICK w \in Workers : PoolMove(w)
    BY <1>5
  <2>2. CASE \/ Moves(w, {"unused"}, "spawned") \/ Moves(w, {"spawned"}, "loop")
             \/ Moves(w, {"wait"}, "woken") \/ Moves(w, {"leave"}, "gone")
    <3>1. Idle' = Idle /\ Counted' = Counted /\ n' = n
      BY <1>1, <2>1, <2>2 DEF PoolMove, Moves, Idle, Counted
    <3>2. QED
      BY <1>2, <3>1
  <2>3. CASE Moves(w, {"idle"}, "wait")
    <3>1. /\ Idle' = Idle \cup {w} /\ Counted' = Counted \cup {w} /\ n' = n + 1
          /\ w \notin Counted
      BY <1>1, <2>1, <2>3 DEF PoolMove, Moves, Idle, Counted
    <3>2. /\ Cardinality(Idle \cup {w}) = Cardinality(Idle) + 1
          /\ Cardinality(Counted \cup {w}) = Cardinality(Counted) + 1
      BY <1>1, <3>1, OneMore
    <3>3. QED
      BY <1>2, <3>1, <3>2
  <2>4. CASE Moves(w, {"woken"}, "loop")
    <3>1. /\ Idle' = Idle \ {w} /\ Counted' = Counted \ {w} /\ n' = n - 1
          /\ w \in Idle /\ w \in Counted
      BY <1>1, <2>1, <2>4 DEF PoolMove, Moves, Idle, Counted
    <3>2. /\ Cardinality(Idle \ {w}) = Cardinality(Idle) - 1
          /\ Cardinality(Counted \ {w}) = Cardinality(Counted) - 1
          /\ Cardinality(Idle \ {w}) \in Nat
      BY <1>1, <3>1, OneMore
    <3>3. QED
      BY <1>2, <3>1, <3>2
  <2>5. CASE Moves(w, {"wait"}, "leave")
    <3>1. /\ Idle' = Idle \ {w} /\ Counted' = Counted /\ n' = n /\ w \in Idle
      BY <1>1, <2>1, <2>5 DEF PoolMove, Moves, Idle, Counted
    <3>2. Cardinality(Idle \ {w}) = Cardinality(Idle) - 1
      BY <1>1, <3>1, OneMore
    <3>3. QED
      BY <1>2, <3>1, <3>2
  <2>6. CASE \E to \in {"loop", "empty", "idle", "invoke", "callback", "signal", "leave"} :
               Moves(w, {"loop", "empty", "invoke", "callback", "signal"}, to)
    <3>1. Idle' = Idle /\ n' = n /\ (Counted' = Counted \/ Counted' = Counted \cup {w})
      BY <1>1, <2>1, <2>6 DEF PoolMove, Moves, Idle, Counted
    <3>2. w \notin Counted
      BY <2>6 DEF Moves, Counted
    <3>3. Cardinality(Counted \cup {w}) = Cardinality(Counted) + 1
      BY <1>1, <3>2, OneMore
    <3>4. Cardinality(Counted) <= Cardinality(Counted')
      <4>1. CASE Counted' = Counted
        BY <1>2, <4>1
      <4>2. CASE Counted' = Counted \cup {w}
        BY <1>2, <3>3, <4>2
      <4>3. QED
        BY <3>1, <4>1, <4>2
    <3>5. Cardinality(Counted') \in Nat
      BY OneMore DEF Counted
    <3>6. QED
      BY <1>2, <3>1, <3>4, <3>5
  <2>7. QED
    BY <2>1, <2>2, <2>3, <2>4, <2>5, <2>6 DEF PoolMove
<1>6. QED
  BY <1>4, <1>5, PoolMoves

IdleInRange == numIdleThreads \in 0 .. Cardinality(Workers)

\* The idle count is not below zero, nor above the number of workers.
LEMMA IdleBounded == IdleCounted => IdleInRange
<1>1. Cardinality(Counted) <= Cardinality(Workers)
  BY FS_Subset, PoolAssumption DEF Counted
<1>2. Cardinality(Counted) \in Nat /\ Cardinality(Workers) \in Nat
  BY FS_Subset, FS_CardinalityType, PoolAssumption DEF Counted
<1>3. QED
  BY <1>1, <1>2 DEF IdleCounted, IdleInRange

\* The list of the threads is kept.
LEMMA ThreadsKept ==
    ASSUME PoolTypeOK, SpawnsCounted, ThreadsPlaced, PoolStep
    PROVE  ThreadsPlaced'
<1>1. place \in [Workers -> Places]
  BY DEF PoolTypeOK
<1>2. CASE PoolStays
  BY <1>2 DEF PoolStays, ThreadsPlaced
<1>3. ASSUME NEW w \in Workers, PoolMove(w) PROVE ThreadsPlaced'
  <2>1. \A v \in Workers \ {w} : place'[v] = place[v] /\ (v \in threads' <=> v \in threads)
    BY <1>1, <1>3 DEF PoolMove, Moves
  <2>2. w \in threads' <=> place'[w] \notin {"unused", "spawned", "gone"}
    BY <1>1, <1>3 DEF PoolMove, Moves, ThreadsPlaced
  <2>3. threads' \subseteq Workers
    BY <1>3 DEF PoolMove, ThreadsPlaced
  <2>4. QED
    BY <2>1, <2>2, <2>3 DEF ThreadsPlaced
<1>4. QED
  BY <1>2, <1>3, PoolMoves

\* The count of the threads that have been spawned is kept.
LEMMA SpawnsKept ==
    ASSUME PoolTypeOK, SpawnsCounted, PoolStep
    PROVE  SpawnsCounted'
<1>1. /\ Spawned \subseteq Workers /\ Dispatched \subseteq Items
      /\ IsFiniteSet(Dispatched) /\ Cardinality(Dispatched) \in Nat
      /\ IsFiniteSet(Dispatched') /\ Cardinality(Dispatched') \in Nat
      /\ Cardinality(Spawned) \in Nat /\ place \in [Workers -> Places]
  BY FS_Subset, FS_CardinalityType, PoolAssumption DEF Spawned, Dispatched, PoolTypeOK
<1>2. Dispatched \subseteq Dispatched'
  BY DEF PoolStep, Caller, Worker, Queue, Queued, EndInvoke, HandleIsSet, Return,
     AttachThread, DequeueNextWorkItem, DecideWhatToDo, BecomeIdle, TakeSignal,
     StopBeingIdle, Timeout, Abort, Complete, CallbackReturns, Signal, DetachThread,
     callVars, Dispatched, PoolTypeOK
<1>3. CASE Spawned' = Spawned
  BY <1>1, <1>2, <1>3, FS_Subset DEF SpawnsCounted
<1>4. CASE Spawned' # Spawned
  <2>1. PICK i \in Items : Queued(i)
    BY <1>4 DEF PoolStep, Caller, Worker, Queue, Push, EndInvoke, HandleIsSet, Return,
       AttachThread, DequeueNextWorkItem, DecideWhatToDo, BecomeIdle, TakeSignal,
       StopBeingIdle, Timeout, Abort, Complete, CallbackReturns, Signal, DetachThread,
       workerVars, Spawned, PoolTypeOK, Goto
  <2>2. Dispatched' = Dispatched \cup {i} /\ i \notin Dispatched
    BY <2>1 DEF Queued, Dispatched, PoolTypeOK
  <2>3. Cardinality(Dispatched') = Cardinality(Dispatched) + 1
    BY <1>1, <2>2, FS_AddElement
  <2>4. PICK w \in Workers : PoolMove(w)
    BY <1>4, PoolMoves DEF PoolStays, Spawned
  <2>5. Spawned' = Spawned \cup {w} /\ w \notin Spawned
    BY <1>1, <1>4, <2>4 DEF PoolMove, Moves, Spawned
  <2>6. Cardinality(Spawned') = Cardinality(Spawned) + 1
    BY <1>1, <2>5, OneMore
  <2>7. QED
    BY <1>1, <2>3, <2>6 DEF SpawnsCounted
<1>5. QED
  BY <1>3, <1>4

-----------------------------------------------------------------------------
(* What the calls find *)

\* The message of a call is that of its delegate or of its callback, and is there
\* before its handle is set and before EndInvoke looks at it.
LEMMA AnswersKept ==
    ASSUME PoolTypeOK, ItemsPlaced, AnswersReady, SpawnsCounted, PoolStep
    PROVE  ItemsPlaced' /\ AnswersReady'
<1> USE DEF PoolTypeOK, ItemsPlaced, AnswersReady, poolVars, workerVars, callVars,
        resultVars, Goto, Places
<1>1. ASSUME NEW i \in Items, Queue(i) PROVE ItemsPlaced' /\ AnswersReady'
  BY <1>1 DEF Queue, Push
<1>2. ASSUME NEW i \in Items, Queued(i) PROVE ItemsPlaced' /\ AnswersReady'
  <2>1. /\ UNCHANGED <<item, msg, handle, answer>>
        /\ call' = [call EXCEPT ![i] = "begun"]
        /\ PoolStays \/ \E w \in Workers : Moves(w, {"unused"}, "spawned")
    <3>1. ASSUME SpawnNewWorkerThread
          PROVE  \E w \in Workers : Moves(w, {"unused"}, "spawned")
      BY <1>2, <3>1, WorkerLeft, NewThread DEF Queued, Dispatched
    <3>2. QED
      BY <1>2, <3>1 DEF Queued, Dispatch, SignalThread, PoolStays
  <2>2. \A w \in Workers : place'[w] # place[w] => place'[w] = "spawned"
    BY <2>1 DEF PoolStays, Moves
  <2>3. QED
    BY <2>1, <2>2
<1>3. ASSUME NEW i \in Items, EndInvoke(i) \/ HandleIsSet(i) \/ Return(i)
      PROVE  ItemsPlaced' /\ AnswersReady'
  BY <1>3 DEF EndInvoke, HandleIsSet, Return
<1>4. ASSUME NEW w \in Workers, AttachThread(w) \/ DecideWhatToDo(w)
      PROVE  ItemsPlaced' /\ AnswersReady'
  BY <1>4 DEF AttachThread, DecideWhatToDo
<1>5. ASSUME NEW w \in Workers, DequeueNextWorkItem(w) PROVE ItemsPlaced' /\ AnswersReady'
  <2>1. queue # <<>> => Head(queue) \in Items
    OBVIOUS
  <2>2. QED
    BY <1>5, <2>1 DEF DequeueNextWorkItem
<1>6. ASSUME NEW w \in Workers,
             BecomeIdle(w) \/ TakeSignal(w) \/ StopBeingIdle(w) \/ Timeout(w) \/ Abort(w)
      PROVE  ItemsPlaced' /\ AnswersReady'
  BY <1>6 DEF BecomeIdle, TakeSignal, StopBeingIdle, Timeout, Abort
<1>7. ASSUME NEW w \in Workers, Complete(w) PROVE ItemsPlaced' /\ AnswersReady'
  <2>1. /\ item[w] \in Items /\ UNCHANGED <<item, call, handle, answer>>
        /\ msg' = [msg EXCEPT ![item[w]] = "delegate"]
        /\ \A v \in Workers \ {w} : place'[v] = place[v]
        /\ place'[w] \in {"callback", "signal"}
        /\ place'[w] = "callback" => item[w] \in Callbacks
    BY <1>7 DEF Complete
  <2>2. \A i \in Items : msg'[i] = msg[i] \/ msg'[i] = "delegate"
    BY <2>1
  <2>3. ItemsPlaced'
    BY <2>1, <2>2
  <2>4. AnswersReady'
    BY <2>1, <2>2
  <2>5. QED
    BY <2>3, <2>4
<1>8. ASSUME NEW w \in Workers, CallbackReturns(w) PROVE ItemsPlaced' /\ AnswersReady'
  <2>1. /\ item[w] \in Items /\ item[w] \in Callbacks
        /\ UNCHANGED <<item, call, handle, answer>>
        /\ msg' = [msg EXCEPT ![item[w]] = "callback"]
        /\ \A v \in Workers \ {w} : place'[v] = place[v]
        /\ place'[w] = "signal"
    BY <1>8 DEF CallbackReturns
  <2>2. \A i \in Items : msg'[i] = msg[i] \/ (msg'[i] = "callback" /\ i \in Callbacks)
    BY <2>1
  <2>3. ItemsPlaced'
    BY <2>1, <2>2
  <2>4. AnswersReady'
    BY <2>1, <2>2
  <2>5. QED
    BY <2>3, <2>4
<1>9. ASSUME NEW w \in Workers, Signal(w) PROVE ItemsPlaced' /\ AnswersReady'
  <2>1. /\ item[w] \in Items /\ msg[item[w]] # "none"
        /\ item' = [item EXCEPT ![w] = None] /\ UNCHANGED <<msg, call, answer>>
        /\ handle' = [handle EXCEPT ![item[w]] = IF @ = "unset" THEN "set" ELSE @]
        /\ place' = [place EXCEPT ![w] = "loop"]
    BY <1>9 DEF Signal
  <2>2. QED
    BY <2>1
<1>10. ASSUME NEW w \in Workers, DetachThread(w) PROVE ItemsPlaced' /\ AnswersReady'
  BY <1>10 DEF DetachThread
<1>11. QED
  BY <1>1, <1>2, <1>3, <1>4, <1>5, <1>6, <1>7, <1>8, <1>9, <1>10 DEF PoolStep, Caller, Worker

-----------------------------------------------------------------------------
(* Who looks at the queue *)

\* A thread that will look goes on to do so, or leaves it to one that has its
\* signal, unless it is aborted.
LEMMA LookersStay ==
    ASSUME PoolTypeOK, SpawnsCounted, PoolStep, NEW w \in Workers, WillLook(w),
           queue' # <<>>
    PROVE  (\E v \in Workers : WillLook(v)') \/ \E v \in Workers : Abort(v)
<1> USE DEF PoolTypeOK, poolVars, workerVars, Goto, Places, WillLook, GaveUp
<1>1. ASSUME NEW i \in Items, Queue(i) \/ EndInvoke(i) \/ HandleIsSet(i) \/ Return(i)
      PROVE  WillLook(w)'
  BY <1>1 DEF Queue, Push, EndInvoke, HandleIsSet, Return
<1>2. ASSUME NEW i \in Items, Queued(i) PROVE WillLook(w)'
  <2>1. /\ signalThreads' \in Nat /\ signalThreads' >= signalThreads
        /\ UNCHANGED waitingToTerminate
    BY <1>2 DEF Queued, Dispatch, SpawnNewWorkerThread, SignalThread
  <2>2. place'[w] = place[w]
    <3>1. ASSUME SpawnNewWorkerThread PROVE place'[w] = place[w]
      BY <1>2, <3>1, WorkerLeft, NewThread DEF Queued, Dispatched, Moves
    <3>2. QED
      BY <1>2, <3>1 DEF Queued, Dispatch, SignalThread
  <2>3. QED
    BY <2>1, <2>2
<1>3. ASSUME NEW v \in Workers, DequeueNextWorkItem(v) PROVE \E u \in Workers : WillLook(u)'
  <2>1. queue # <<>>
    BY <1>3 DEF DequeueNextWorkItem
  <2>2. place'[v] = "invoke"
    BY <1>3, <2>1 DEF DequeueNextWorkItem
  <2>3. QED
    BY <2>2
<1>4. ASSUME NEW v \in Workers,
             \/ AttachThread(v) \/ DecideWhatToDo(v) \/ BecomeIdle(v) \/ StopBeingIdle(v)
             \/ Timeout(v) \/ Complete(v) \/ CallbackReturns(v) \/ Signal(v) \/ DetachThread(v)
      PROVE  WillLook(w)'
  BY <1>4 DEF AttachThread, DecideWhatToDo, BecomeIdle, StopBeingIdle, Timeout, Complete,
     CallbackReturns, Signal, DetachThread
<1>5. ASSUME NEW v \in Workers, TakeSignal(v) PROVE WillLook(v)'
  BY <1>5 DEF TakeSignal
<1>6. QED
  BY <1>1, <1>2, <1>3, <1>4, <1>5 DEF PoolStep, Caller, Worker

\* An aborted thread still counts as idle.
LEMMA AbortMiscounts ==
    ASSUME PoolTypeOK, IdleCounted, NEW w \in Workers, Abort(w)
    PROVE  Miscounted'
<1>1. Idle' = Idle \ {w} /\ w \in Idle /\ UNCHANGED numIdleThreads
  BY DEF Abort, Goto, Idle, PoolTypeOK, poolVars
<1>2. Idle \subseteq Workers
  BY DEF Idle
<1>3. Cardinality(Idle \ {w}) = Cardinality(Idle) - 1 /\ Cardinality(Idle) \in Nat
  BY <1>1, <1>2, OneMore
<1>4. numIdleThreads' # Cardinality(Idle')
  BY <1>1, <1>3 DEF IdleCounted
<1>5. QED
  BY <1>4 DEF Miscounted, Idle

\* A call that adds no thread is queued when a thread is idle, if those are counted
\* right.
LEMMA CalmHasIdle ==
    ASSUME PoolTypeOK, ~Miscounted, NEW i \in Items, Queue(i)
    PROVE  \/ pushed'[i] = "force"
           \/ pushed'[i] = "calm" /\ \E w \in Workers : place'[w] \in {"wait", "woken"}
<1>1. /\ queue' = Append(queue, i) /\ UNCHANGED place
      /\ pushed' = [pushed EXCEPT ![i] =
                      IF Len(queue') > numIdleThreads THEN "force" ELSE "calm"]
  BY DEF Queue, Push, workerVars
<1>2. Len(queue') = Len(queue) + 1 /\ Len(queue) \in Nat
  BY <1>1 DEF PoolTypeOK
<1>3. CASE Len(queue') > numIdleThreads
  BY <1>1, <1>3 DEF PoolTypeOK
<1>4. CASE ~(Len(queue') > numIdleThreads)
  <2>1. numIdleThreads # 0
    BY <1>2, <1>4
  <2>2. Cardinality(Idle) # 0
    BY <2>1 DEF Miscounted, Idle
  <2>3. Idle # {}
    BY <2>2, FS_EmptySet
  <2>4. pushed'[i] = "calm"
    BY <1>1, <1>4 DEF PoolTypeOK
  <2>5. QED
    BY <1>1, <2>3, <2>4 DEF Idle
<1>5. QED
  BY <1>3, <1>4

\* A thread of the pool that has not given up looks again when there is a signal.
LEMMA SignalReaches ==
    ASSUME PoolTypeOK, ThreadsPlaced, NEW i \in Items, SignalThread(i),
           UNCHANGED waitingToTerminate,
           NEW w \in Workers, place[w] = "wait" \/ (w \in threads /\ ~GaveUp(w))
    PROVE  WillLook(w)'
<1>1. signalThreads' > 0 /\ UNCHANGED place
  BY DEF SignalThread, PoolTypeOK
<1>2. place[w] \in Places
  BY DEF PoolTypeOK
<1>3. place[w] \notin {"unused", "spawned", "gone"} /\ ~GaveUp(w)
  BY DEF ThreadsPlaced, GaveUp
<1>4. QED
  BY <1>1, <1>2, <1>3 DEF WillLook, GaveUp, Places

\* The call at the head of the queue is attended to, whatever step is taken.
LEMMA AttendedKept ==
    ASSUME PoolTypeOK, SpawnsCounted, IdleCounted, ThreadsPlaced, Attended, PoolStep
    PROVE  Attended'
<1>1. SUFFICES ASSUME queue' # <<>>, ~\E w \in Workers : WillLook(w)', ~Miscounted'
               PROVE  HeadPending' \/ Head(queue') \in missed'
  BY DEF Attended
<1>2. ~Miscounted /\ \A w \in Workers : ~Abort(w)
  BY <1>1, IdleKept, AbortMiscounts
<1>3. ~\E w \in Workers : WillLook(w)
  BY <1>1, <1>2, LookersStay
<1>4. queue # <<>> => HeadPending \/ Head(queue) \in missed
  BY <1>2, <1>3 DEF Attended
<1>5. ASSUME NEW i \in Items, Queue(i) PROVE HeadPending' \/ Head(queue') \in missed'
  <2>1. /\ queue' = Append(queue, i) /\ UNCHANGED <<place, missed>>
        /\ \A h \in Items : h # i => pushed'[h] = pushed[h]
        /\ queue \in Seq(Items)
    BY <1>5 DEF Queue, Push, workerVars, PoolTypeOK
  <2>2. ASSUME Head(queue') = i PROVE HeadPending'
    <3>1. \A w \in Workers : place'[w] # "woken"
      BY <1>1 DEF WillLook
    <3>2. QED
      BY <1>2, <1>5, <2>2, <3>1, CalmHasIdle DEF HeadPending
  <2>3. ASSUME Head(queue') # i PROVE HeadPending' \/ Head(queue') \in missed'
    <3>1. queue # <<>> /\ Head(queue') = Head(queue) /\ Head(queue) \in Items
      BY <2>1, <2>3
    <3>2. QED
      BY <1>4, <2>1, <2>3, <3>1 DEF HeadPending
  <2>4. QED
    BY <2>2, <2>3
<1>6. ASSUME NEW i \in Items, Queued(i) PROVE HeadPending' \/ Head(queue') \in missed'
  <2>1. /\ UNCHANGED <<queue, threads, waitingToTerminate>> /\ i \notin Dispatched
        /\ pushed' = [pushed EXCEPT ![i] = "no"]
        /\ IF pushed[i] = "force" /\ (Cardinality(threads) < MaxThreads \/ Parent[i] # None)
           THEN SpawnNewWorkerThread ELSE SignalThread(i)
    BY <1>6 DEF Queued, Dispatch, Dispatched
  <2>2. ~SpawnNewWorkerThread
    <3>1. SUFFICES ASSUME SpawnNewWorkerThread PROVE FALSE
      OBVIOUS
    <3>2. PICK w \in Workers : Moves(w, {"unused"}, "spawned")
      BY <2>1, <3>1, WorkerLeft, NewThread
    <3>3. WillLook(w)'
      BY <3>2 DEF WillLook, Moves, PoolTypeOK
    <3>4. QED
      BY <1>1, <3>3
  <2>3. SignalThread(i) /\ UNCHANGED place
    BY <2>1, <2>2 DEF SignalThread
  <2>4. missed \subseteq missed'
    BY <2>3 DEF SignalThread
  <2>5. \A w \in Workers : place[w] # "wait" /\ (w \in threads => GaveUp(w))
    BY <1>1, <2>1, <2>3, SignalReaches
  <2>6. Head(queue) \in missed \/ pushed[Head(queue)] = "force"
    BY <1>1, <1>4, <2>1, <2>5 DEF HeadPending
  <2>7. CASE Head(queue) # i
    <3>1. Head(queue) \in Items
      BY <1>1, <2>1 DEF PoolTypeOK
    <3>2. QED
      BY <2>1, <2>4, <2>6, <2>7, <3>1 DEF HeadPending, PoolTypeOK
  <2>8. CASE Head(queue) = i /\ pushed[i] = "force"
    <3>1. Cardinality(threads) \in Nat
      BY FS_Subset, FS_CardinalityType, PoolAssumption DEF PoolTypeOK
    <3>2. Cardinality(threads) >= MaxThreads
      BY <2>1, <2>2, <2>8, <3>1, PoolAssumption
    <3>3. i \in missed'
      BY <2>3, <2>5, <3>2 DEF SignalThread, PoolTypeOK
    <3>4. QED
      BY <2>1, <2>8, <3>3
  <2>9. QED
    BY <2>1, <2>4, <2>6, <2>7, <2>8
<1>7. ASSUME UNCHANGED <<queue, pushed, missed>>,
             \A w \in Workers : place[w] = "wait" => place'[w] = "wait"
      PROVE  HeadPending' \/ Head(queue') \in missed'
  BY <1>1, <1>4, <1>7 DEF HeadPending
<1>8. ASSUME NEW i \in Items, EndInvoke(i) \/ HandleIsSet(i) \/ Return(i)
      PROVE  HeadPending' \/ Head(queue') \in missed'
  BY <1>7, <1>8 DEF EndInvoke, HandleIsSet, Return, poolVars, workerVars
<1>9. ASSUME NEW v \in Workers, DequeueNextWorkItem(v) PROVE FALSE
  <2>1. queue # <<>>
    BY <1>1, <1>9 DEF DequeueNextWorkItem
  <2>2. place'[v] = "invoke"
    BY <1>9, <2>1 DEF DequeueNextWorkItem, Goto, PoolTypeOK
  <2>3. QED
    BY <1>1, <2>2 DEF WillLook
<1>10. ASSUME NEW v \in Workers, TakeSignal(v) \/ Timeout(v) PROVE FALSE
  <2>1. place'[v] = "woken"
    BY <1>10 DEF TakeSignal, Timeout, Goto, PoolTypeOK
  <2>2. QED
    BY <1>1, <2>1 DEF WillLook
<1>11. ASSUME NEW v \in Workers,
              \/ AttachThread(v) \/ DecideWhatToDo(v) \/ BecomeIdle(v) \/ StopBeingIdle(v)
              \/ Complete(v) \/ CallbackReturns(v) \/ Signal(v) \/ DetachThread(v)
       PROVE  HeadPending' \/ Head(queue') \in missed'
  <2>1. UNCHANGED <<queue, pushed, missed>>
    BY <1>11 DEF AttachThread, DecideWhatToDo, BecomeIdle, StopBeingIdle, Complete,
       CallbackReturns, Signal, DetachThread, poolVars
  <2>2. \A w \in Workers : place[w] = "wait" => place'[w] = "wait"
    BY <1>11 DEF AttachThread, DecideWhatToDo, BecomeIdle, StopBeingIdle, Complete,
       CallbackReturns, Signal, DetachThread, Goto, PoolTypeOK
  <2>3. QED
    BY <1>7, <2>1, <2>2
<1>12. QED
  BY <1>2, <1>5, <1>6, <1>8, <1>9, <1>10, <1>11 DEF PoolStep, Caller, Worker

-----------------------------------------------------------------------------
(* The theorems about the pool *)

\* The invariant holds at the start.
LEMMA InitPool == Init => PoolInv
<1> SUFFICES ASSUME Init PROVE PoolInv
  OBVIOUS
<1> USE DEF Init
<1>2. Idle = {} /\ Counted = {} /\ Spawned = {} /\ Dispatched = {} /\ threads = {}
  BY DEF Idle, Counted, Spawned, Dispatched
<1>3. Cardinality({}) = 0 /\ Cardinality(Workers) \in Nat
  BY FS_EmptySet, FS_CardinalityType, PoolAssumption
<1>4. IdleCounted /\ SpawnsCounted
  BY <1>2, <1>3 DEF IdleCounted, SpawnsCounted
<1>5. PoolTypeOK
  BY <1>3 DEF PoolTypeOK, Places
<1>6. ThreadsPlaced /\ ItemsPlaced /\ AnswersReady /\ Attended
  BY DEF ThreadsPlaced, ItemsPlaced, AnswersReady, Attended
<1>7. QED
  BY <1>4, <1>5, <1>6 DEF PoolInv

\* Every step keeps the invariant.
LEMMA NextPool == PoolInv /\ [Next]_vars => PoolInv'
<1>1. ASSUME PoolInv, Next PROVE PoolInv'
  <2>1. PoolStep
    BY <1>1 DEF Next, PoolStep
  <2>2. IdleCounted' /\ ThreadsPlaced' /\ SpawnsCounted' /\ Attended'
    BY <1>1, <2>1, IdleKept, ThreadsKept, SpawnsKept, AttendedKept DEF PoolInv
  <2>3. ItemsPlaced' /\ AnswersReady'
    BY <1>1, <2>1, AnswersKept DEF PoolInv
  <2>4. IdleInRange'
    BY <2>2, IdleBounded, PTL
  <2>5. PoolTypeOK'
    BY <1>1, <2>1, <2>4, TypesKept DEF PoolInv, IdleInRange
  <2>6. QED
    BY <2>2, <2>3, <2>5 DEF PoolInv
<1>2. ASSUME PoolInv, UNCHANGED vars PROVE PoolInv'
  BY <1>2 DEF vars, poolVars, workerVars, callVars, resultVars, PoolInv, PoolTypeOK,
     IdleCounted, ThreadsPlaced, SpawnsCounted, ItemsPlaced, AnswersReady, Attended,
     Idle, Counted, Spawned, Dispatched, WillLook, GaveUp, HeadPending, Miscounted
<1>3. QED
  BY <1>1, <1>2

\* What the invariant is for.
LEMMA PoolInvImplies == PoolInv => PoolTypeOK /\ QueueAttended /\ AnswersAreFinal
<1>1. SUFFICES ASSUME PoolInv PROVE QueueAttended /\ AnswersAreFinal
  BY DEF PoolInv
<1>2. QueueAttended
  <2>1. SUFFICES ASSUME queue # <<>>, \A i \in Items : pushed[i] = "no"
                 PROVE  \/ \E w \in Workers : WillLook(w)
                        \/ Head(queue) \in missed
                        \/ Miscounted
    BY DEF QueueAttended
  <2>2. Head(queue) \in Items
    BY <1>1, <2>1 DEF PoolInv, PoolTypeOK
  <2>3. QED
    BY <1>1, <2>1, <2>2 DEF PoolInv, Attended, HeadPending
<1>3. AnswersAreFinal
  BY <1>1 DEF PoolInv, PoolTypeOK, AnswersReady, AnswersAreFinal
<1>4. QED
  BY <1>2, <1>3

\* The variables of the pool have their types, and QueueWorkItem's assertion that
\* there are not fewer than no idle threads holds, with any number of calls and
\* threads and whoever is aborted.
THEOREM PoolTypes == Spec => []PoolTypeOK
BY InitPool, NextPool, PoolInvImplies, PTL DEF Spec

\* No call is left in the queue with nobody to look at it, but for the two known
\* exceptions.
THEOREM CallsAreAttended == Spec => []QueueAttended
BY InitPool, NextPool, PoolInvImplies, PTL DEF Spec

\* EndInvoke never returns before the delegate has, and its message is that of the
\* delegate where there is no callback.
THEOREM AnswersHold == Spec => []AnswersAreFinal
BY InitPool, NextPool, PoolInvImplies, PTL DEF Spec

-----------------------------------------------------------------------------
(* The requests of the polling thread *)

Elements(s) == {s[k] : k \in DOMAIN s}
Distinct(s) == \A j, k \in DOMAIN s : s[j] = s[k] => j = k

\* A call on a socket that has made its request is in one of three places, once:
\* the queue of the polling thread, its list, or the pool.
RequestsPlaced ==
    /\ Distinct(requests) /\ Distinct(pollRequests)
    /\ Elements(requests) \cap Elements(pollRequests) = {}
    /\ (Elements(requests) \cup Elements(pollRequests)) \cap forwarded = {}
    /\ \A i \in Sockets : stage[i] \in {"interrupt", "queued"} <=>
         i \in Elements(requests) \cup Elements(pollRequests) \cup forwarded

PollInv == PollTypeOK /\ RequestsPlaced

\* What a queue holds when one more comes.
LEMMA AppendHolds ==
    ASSUME NEW s \in Seq(Sockets), NEW i \in Sockets
    PROVE  /\ Append(s, i) \in Seq(Sockets)
           /\ Elements(Append(s, i)) = Elements(s) \cup {i}
           /\ Distinct(s) /\ i \notin Elements(s) => Distinct(Append(s, i))
<1>1. /\ Append(s, i) \in Seq(Sockets) /\ Len(Append(s, i)) = Len(s) + 1
      /\ \A k \in 1 .. Len(s) : Append(s, i)[k] = s[k]
      /\ Append(s, i)[Len(s) + 1] = i
      /\ DOMAIN Append(s, i) = 1 .. Len(s) + 1 /\ DOMAIN s = 1 .. Len(s) /\ Len(s) \in Nat
  OBVIOUS
<1>2. DOMAIN Append(s, i) = DOMAIN s \cup {Len(s) + 1}
  BY <1>1
<1>3. Elements(Append(s, i)) = Elements(s) \cup {i}
  BY <1>1, <1>2 DEF Elements
<1>4. Distinct(s) /\ i \notin Elements(s) => Distinct(Append(s, i))
  BY <1>1, <1>2 DEF Elements, Distinct
<1>5. QED
  BY <1>1, <1>3, <1>4

\* What a queue holds when its first is gone.
LEMMA TailHolds ==
    ASSUME NEW s \in Seq(Sockets), s # <<>>, Distinct(s)
    PROVE  /\ Tail(s) \in Seq(Sockets) /\ Distinct(Tail(s))
           /\ Head(s) \in Elements(s)
           /\ Elements(Tail(s)) = Elements(s) \ {Head(s)}
<1>1. /\ Tail(s) \in Seq(Sockets) /\ Len(Tail(s)) = Len(s) - 1 /\ Len(s) \in Nat \ {0}
      /\ DOMAIN Tail(s) = 1 .. Len(s) - 1 /\ DOMAIN s = 1 .. Len(s) /\ Head(s) = s[1]
      /\ \A k \in 1 .. Len(s) - 1 : Tail(s)[k] = s[k + 1]
  OBVIOUS
<1>2. Distinct(Tail(s))
  BY <1>1 DEF Distinct
<1>3. Head(s) \in Elements(s)
  BY <1>1 DEF Elements
<1>4. ASSUME NEW x \in Elements(Tail(s)) PROVE x \in Elements(s) \ {Head(s)}
  <2>1. PICK k \in 1 .. Len(s) - 1 : x = s[k + 1]
    BY <1>1, <1>4 DEF Elements
  <2>2. k + 1 \in 1 .. Len(s) /\ 1 \in 1 .. Len(s) /\ k + 1 # 1
    BY <1>1
  <2>3. QED
    BY <1>1, <2>1, <2>2 DEF Elements, Distinct
<1>5. ASSUME NEW x \in Elements(s) \ {Head(s)} PROVE x \in Elements(Tail(s))
  <2>1. PICK k \in 1 .. Len(s) : x = s[k] /\ k # 1
    BY <1>1, <1>5 DEF Elements
  <2>2. k - 1 \in 1 .. Len(s) - 1 /\ Tail(s)[k - 1] = s[(k - 1) + 1] /\ (k - 1) + 1 = k
    BY <1>1, <2>1
  <2>3. QED
    BY <1>1, <2>1, <2>2 DEF Elements
<1>6. QED
  BY <1>1, <1>2, <1>3, <1>4, <1>5

\* What a list holds when its k-th is gone.
LEMMA RemovalHolds ==
    ASSUME NEW s \in Seq(Sockets), NEW k \in DOMAIN s, Distinct(s)
    PROVE  LET r == SubSeq(s, 1, k - 1) \o SubSeq(s, k + 1, Len(s)) IN
             /\ r \in Seq(Sockets) /\ Distinct(r)
             /\ Elements(r) = Elements(s) \ {s[k]}
<1> DEFINE p == SubSeq(s, 1, k - 1)
           q == SubSeq(s, k + 1, Len(s))
           r == p \o q
           n == Len(s)
<1>1. n \in Nat /\ k \in 1 .. n /\ DOMAIN s = 1 .. n
  OBVIOUS
<1>2. p \in Seq(Sockets) /\ Len(p) = k - 1 /\ (\A j \in 1 .. k - 1 : p[j] = s[j])
  BY <1>1
<1>3. q \in Seq(Sockets) /\ Len(q) = n - k /\ (\A j \in 1 .. n - k : q[j] = s[k + j])
  BY <1>1
<1>4. /\ r \in Seq(Sockets) /\ Len(r) = n - 1 /\ DOMAIN r = 1 .. n - 1
      /\ \A j \in 1 .. n - 1 : r[j] = IF j < k THEN s[j] ELSE s[j + 1]
  <2> HIDE DEF p, q, n
  <2>1. r \in Seq(Sockets) /\ Len(r) = n - 1 /\ DOMAIN r = 1 .. n - 1
    <3>1. p \in Seq(Sockets) /\ q \in Seq(Sockets)
      BY <1>2, <1>3
    <3>2. r \in Seq(Sockets) /\ Len(r) = Len(p) + Len(q)
      BY <3>1
    <3>3. DOMAIN r = 1 .. Len(r)
      BY <3>2
    <3>4. (k - 1) + (n - k) = n - 1
      BY <1>1
    <3>5. QED
      BY <1>2, <1>3, <3>2, <3>3, <3>4
  <2>2. ASSUME NEW j \in 1 .. n - 1 PROVE r[j] = IF j < k THEN s[j] ELSE s[j + 1]
    <3>1. CASE j < k
      <4>1. j \in 1 .. k - 1
        BY <1>1, <3>1
      <4>2. r[j] = p[j]
        BY <1>1, <1>2, <1>3, <4>1
      <4>3. QED
        BY <1>2, <3>1, <4>1, <4>2
    <3>2. CASE ~(j < k)
      <4>1. j - Len(p) \in 1 .. n - k /\ k + (j - Len(p)) = j + 1 /\ j > Len(p)
        BY <1>1, <1>2, <3>2
      <4>2. r[j] = q[j - Len(p)]
        BY <1>1, <1>2, <1>3, <4>1
      <4>3. QED
        BY <1>3, <3>2, <4>1, <4>2
    <3>3. QED
      BY <3>1, <3>2
  <2>3. QED
    BY <2>1, <2>2
<1> HIDE DEF p, q, r, n
<1>5. Distinct(r)
  <2>1. SUFFICES ASSUME NEW i \in 1 .. n - 1, NEW j \in 1 .. n - 1, r[i] = r[j]
                 PROVE  i = j
    BY <1>4 DEF Distinct
  <2>2. /\ i \in 1 .. n /\ i + 1 \in 1 .. n /\ j \in 1 .. n /\ j + 1 \in 1 .. n
        /\ i \in Int /\ j \in Int /\ k \in Int
    BY <1>1
  <2>3. \A u, v \in 1 .. n : s[u] = s[v] => u = v
    BY <1>1 DEF Distinct
  <2>4. CASE i < k /\ j < k
    BY <1>4, <2>1, <2>2, <2>3, <2>4
  <2>5. CASE ~(i < k) /\ ~(j < k)
    <3>1. s[i + 1] = s[j + 1]
      BY <1>4, <2>1, <2>5
    <3>2. i + 1 = j + 1
      BY <2>2, <2>3, <3>1
    <3>3. QED
      BY <2>2, <3>2
  <2>6. CASE i < k /\ ~(j < k)
    <3>1. s[i] = s[j + 1]
      BY <1>4, <2>1, <2>6
    <3>2. i = j + 1
      BY <2>2, <2>3, <3>1
    <3>3. QED
      BY <2>2, <2>6, <3>2
  <2>7. CASE ~(i < k) /\ j < k
    <3>1. s[i + 1] = s[j]
      BY <1>4, <2>1, <2>7
    <3>2. i + 1 = j
      BY <2>2, <2>3, <3>1
    <3>3. QED
      BY <2>2, <2>7, <3>2
  <2>8. QED
    BY <2>4, <2>5, <2>6, <2>7
<1>6. ASSUME NEW x \in Elements(r) PROVE x \in Elements(s) \ {s[k]}
  <2>1. PICK j \in 1 .. n - 1 : x = r[j]
    BY <1>4, <1>6 DEF Elements
  <2>2. PICK m \in 1 .. n : x = s[m] /\ m # k
    <3>1. CASE j < k
      BY <1>1, <1>4, <2>1, <3>1
    <3>2. CASE ~(j < k)
      <4>1. j + 1 \in 1 .. n /\ j + 1 # k /\ x = s[j + 1]
        BY <1>1, <1>4, <2>1, <3>2
      <4>2. QED
        BY <4>1
    <3>3. QED
      BY <3>1, <3>2
  <2>3. QED
    BY <1>1, <2>2 DEF Elements, Distinct
<1>7. ASSUME NEW x \in Elements(s) \ {s[k]} PROVE x \in Elements(r)
  <2>1. PICK m \in 1 .. n : x = s[m] /\ m # k
    BY <1>1, <1>7 DEF Elements
  <2>2. CASE m < k
    BY <1>1, <1>4, <2>1, <2>2 DEF Elements
  <2>3. CASE ~(m < k)
    <3>1. m - 1 \in 1 .. n - 1 /\ ~(m - 1 < k) /\ (m - 1) + 1 = m
      BY <1>1, <2>1, <2>3
    <3>2. r[m - 1] = x
      BY <1>4, <2>1, <3>1
    <3>3. QED
      BY <1>4, <3>1, <3>2 DEF Elements
  <2>4. QED
    BY <2>2, <2>3
<1>8. Elements(r) = Elements(s) \ {s[k]}
  BY <1>6, <1>7
<1>9. QED
  BY <1>4, <1>5, <1>8 DEF r, p, q, n

\* No call has made a request at the start.
LEMMA InitPoll == PollInit => PollInv
<1> SUFFICES ASSUME PollInit PROVE PollInv
  OBVIOUS
<1> USE DEF PollInit
<1>1. <<>> \in Seq(Sockets) /\ DOMAIN <<>> = {}
  OBVIOUS
<1>2. Elements(<<>>) = {} /\ Distinct(<<>>)
  BY <1>1 DEF Elements, Distinct
<1>3. PollTypeOK
  BY <1>1 DEF PollTypeOK, Elements
<1>4. RequestsPlaced
  BY <1>2 DEF RequestsPlaced
<1>5. QED
  BY <1>3, <1>4 DEF PollInv

\* A step of a caller, of the polling thread or of another host moves a request from
\* one place to the next.
LEMMA PollStepKeeps ==
    ASSUME PollInv, PollNext
    PROVE  PollInv'
<1> USE DEF PollInv, PollTypeOK, RequestsPlaced, StageGoes, PollerGoes, listVars
<1>1. ASSUME NEW i \in Sockets, SpawnIfNeeded(i) \/ StartupAcknowledged(i) PROVE PollInv'
  <2>1. /\ UNCHANGED <<requests, listVars, registered, active, aborted, acknowledged>>
        /\ stage[i] \in {"none", "spawn"}
        /\ stage' = [stage EXCEPT ![i] = "spawn"] \/ stage' = [stage EXCEPT ![i] = "request"]
        /\ poller' \in {"none", "started", "queue", "add", "wait", "forward"}
    BY <1>1 DEF SpawnIfNeeded, StartupAcknowledged
  <2>2. PollTypeOK'
    BY <2>1
  <2>3. \A j \in Sockets :
          stage'[j] \in {"interrupt", "queued"} <=> stage[j] \in {"interrupt", "queued"}
    BY <2>1
  <2>4. QED
    BY <2>1, <2>2, <2>3
<1>2. ASSUME NEW i \in Sockets, QueueRequest(i) PROVE PollInv'
  <2>1. i \notin Elements(requests) \cup Elements(pollRequests) \cup forwarded
    BY <1>2 DEF QueueRequest
  <2>2. /\ requests' \in Seq(Sockets) /\ Distinct(requests')
        /\ Elements(requests') = Elements(requests) \cup {i}
    BY <1>2, <2>1, AppendHolds DEF QueueRequest
  <2>3. PollTypeOK'
    BY <1>2, <2>2 DEF QueueRequest
  <2>4. \A j \in Sockets : stage'[j] \in {"interrupt", "queued"} <=>
                           (stage[j] \in {"interrupt", "queued"} \/ j = i)
    BY <1>2 DEF QueueRequest
  <2>5. UNCHANGED <<pollRequests, forwarded>>
    BY <1>2 DEF QueueRequest
  <2>6. RequestsPlaced'
    BY <2>1, <2>2, <2>4, <2>5
  <2>7. QED
    BY <2>3, <2>6
<1>3. ASSUME NEW i \in Sockets, InterruptPoll(i) \/ Activity(i) PROVE PollInv'
  <2>1. UNCHANGED <<requests, listVars, registered, poller, acknowledged>>
    BY <1>3 DEF InterruptPoll, Activity
  <2>2. PollTypeOK'
    BY <1>3 DEF InterruptPoll, Activity
  <2>3. \A j \in Sockets :
          stage'[j] \in {"interrupt", "queued"} <=> stage[j] \in {"interrupt", "queued"}
    BY <1>3 DEF InterruptPoll, Activity
  <2>4. RequestsPlaced'
    BY <2>1, <2>3
  <2>5. QED
    BY <2>2, <2>4
<1>4. ASSUME AcknowledgeStartup \/ NoMoreRequests \/ AllForwarded PROVE PollInv'
  <2>1. UNCHANGED <<stage, requests, listVars, registered, active, aborted>>
    BY <1>4 DEF AcknowledgeStartup, NoMoreRequests, AllForwarded
  <2>2. PollTypeOK'
    BY <1>4, <2>1 DEF AcknowledgeStartup, NoMoreRequests, AllForwarded
  <2>3. QED
    BY <2>1, <2>2
<1>5. ASSUME DequeueRequest PROVE PollInv'
  <2> DEFINE h == Head(requests)
  <2>1. /\ Tail(requests) \in Seq(Sockets) /\ Distinct(Tail(requests))
        /\ h \in Elements(requests) /\ h \in Sockets
        /\ Elements(Tail(requests)) = Elements(requests) \ {h}
    BY <1>5, TailHolds DEF DequeueRequest
  <2>2. /\ Append(pollRequests, h) \in Seq(Sockets) /\ Distinct(Append(pollRequests, h))
        /\ Elements(Append(pollRequests, h)) = Elements(pollRequests) \cup {h}
    BY <2>1, AppendHolds
  <2>3. /\ requests' = Tail(requests) /\ pollRequests' = Append(pollRequests, h)
        /\ UNCHANGED <<stage, acknowledged, poller, registered, ready, forwarded, active, aborted>>
    BY <1>5 DEF DequeueRequest
  <2> HIDE DEF h
  <2>4. ready' \subseteq Elements(pollRequests')
    BY <2>2, <2>3 DEF Elements
  <2>5. PollTypeOK'
    BY <2>1, <2>2, <2>3, <2>4 DEF Elements
  <2>6. RequestsPlaced'
    BY <2>1, <2>2, <2>3
  <2>7. QED
    BY <2>5, <2>6
<1>6. ASSUME AddRequests \/ EndPoll PROVE PollInv'
  <2>1. UNCHANGED <<stage, requests, pollRequests, forwarded, acknowledged, active>>
    BY <1>6 DEF AddRequests, EndPoll
  <2>2. registered' \subseteq Sockets
    BY <1>6 DEF AddRequests, EndPoll
  <2>3. ready' \subseteq {pollRequests[k] : k \in DOMAIN pollRequests}
    BY <1>6 DEF AddRequests, EndPoll
  <2>4. poller' \in {"wait", "forward"} /\ aborted' \in BOOLEAN
    BY <1>6 DEF AddRequests, EndPoll
  <2>5. PollTypeOK'
    BY <2>1, <2>2, <2>3, <2>4
  <2>6. QED
    BY <2>1, <2>5
<1>7. ASSUME Forward PROVE PollInv'
  <2>1. PICK k \in DOMAIN pollRequests :
          /\ pollRequests[k] \in ready
          /\ forwarded' = forwarded \cup {pollRequests[k]}
          /\ ready' = ready \ {pollRequests[k]}
          /\ pollRequests' = SubSeq(pollRequests, 1, k - 1)
                               \o SubSeq(pollRequests, k + 1, Len(pollRequests))
    BY <1>7 DEF Forward
  <2>2. PICK i \in Sockets : i = pollRequests[k] /\ i \in Elements(pollRequests)
    BY DEF Elements
  <2>3. /\ pollRequests' \in Seq(Sockets) /\ Distinct(pollRequests')
        /\ Elements(pollRequests') = Elements(pollRequests) \ {i}
    BY <2>1, <2>2, RemovalHolds
  <2>4. UNCHANGED <<stage, requests, acknowledged, poller, registered, active, aborted>>
    BY <1>7 DEF Forward
  <2>5. forwarded' = forwarded \cup {i} /\ ready' = ready \ {i}
    BY <2>1, <2>2
  <2>6. ready' \subseteq Elements(pollRequests')
    BY <2>3, <2>5 DEF Elements
  <2>7. PollTypeOK'
    BY <2>3, <2>4, <2>5, <2>6 DEF Elements
  <2>8. RequestsPlaced'
    BY <2>2, <2>3, <2>4, <2>5
  <2>9. QED
    BY <2>7, <2>8
<1>8. QED
  BY <1>1, <1>2, <1>3, <1>4, <1>5, <1>6, <1>7 DEF PollNext, Requester, Poller

\* Every step keeps the invariant of the requests.
LEMMA NextPoll == PollInv /\ [PollNext]_pollVars => PollInv'
<1>1. ASSUME PollInv, UNCHANGED pollVars PROVE PollInv'
  BY <1>1 DEF PollInv, PollTypeOK, RequestsPlaced, pollVars, listVars
<1>2. QED
  BY <1>1, PollStepKeeps

-----------------------------------------------------------------------------
(* The theorems about the requests, and about both *)

\* A call on a socket that has made its request is never lost between the queue of
\* the polling thread, its list and the pool, and never in two of them.
THEOREM RequestsAreKept == PollSpec => []RequestsPlaced
<1>1. PollInv => RequestsPlaced
  BY DEF PollInv
<1>2. QED
  BY <1>1, InitPoll, NextPoll, PTL DEF PollSpec

\* The variables of the pool and of the polling thread have their types, in either
\* program.
THEOREM BothHaveTypes == MCSpec => []TypeOK
<1>1. MCInit => PoolInv /\ PollInv
  BY InitPool, InitPoll DEF MCInit
<1>2. [MCNext]_MCVars => [Next]_vars /\ [PollNext]_pollVars
  BY DEF MCNext, MCVars
<1>3. PoolInv /\ PollInv => TypeOK
  BY DEF PoolInv, PollInv, TypeOK
<1>4. QED
  BY <1>1, <1>2, <1>3, NextPool, NextPoll, PTL DEF MCSpec
===============================================================================
