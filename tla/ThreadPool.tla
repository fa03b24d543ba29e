------------------------------ MODULE ThreadPool ------------------------------
(***************************************************************************)
(* vm/ThreadPool.cpp (.NET 2.0 profile): one compartment of the pool, its  *)
(* worker threads that come and go, and the asynchronous calls it serves,  *)
(* from BeginInvoke (ThreadPool::Queue) to EndInvoke (ThreadPool::Wait).   *)
(* A critical section is one step; numIdleThreads, the number of threads   *)
(* and minThreads are read without the lock, and so in steps of their own. *)
(* The delegate of a call may itself make a call and wait for it.          *)
(***************************************************************************)
EXTENDS Integers, Sequences, FiniteSets

CONSTANTS
    Items,      \* the calls, with their AsyncResults
    None,       \* no call
    Parent,     \* call -> the call whose delegate makes it, or None
    Callbacks,  \* the calls that have a callback
    Workers,    \* worker threads; every call adds one at most
    MinThreads, MaxThreads,
    Aborts      \* may a worker that waits be aborted?

ASSUME PoolAssumption ==
    /\ IsFiniteSet(Items) /\ IsFiniteSet(Workers)
    /\ Cardinality(Workers) >= Cardinality(Items)
    /\ None \notin Items /\ Parent \in [Items -> Items \cup {None}]
    /\ Callbacks \subseteq Items
    /\ MinThreads \in Nat \ {0} /\ MaxThreads \in Nat /\ MinThreads <= MaxThreads
    /\ Aborts \in BOOLEAN

VARIABLES
    queue,              \* the queue of the compartment
    threads,            \* its threads
    numIdleThreads,
    signalThreads,      \* the count of the semaphore
    place,              \* where a worker stands
    item,               \* the call it works on
    waitingToTerminate, \* its local variable
    pushed,             \* call -> "force", "calm": forceNewThread, while its
                        \*   QueueWorkItem is under way; or "no"
    call,               \* where the caller of a call stands
    msg,                \* call -> whose exception its msg is; completed says
                        \*   that there is one
    handle,             \* call -> its wait handle
    answer,             \* call -> the msg that EndInvoke has found
    missed              \* observer: calls queued when the pool was full of
                        \*   threads that had given up

poolVars == <<queue, threads, numIdleThreads, signalThreads>>
workerVars == <<place, item, waitingToTerminate>>
callVars == <<call, answer>>
resultVars == <<msg, handle>>
vars == <<poolVars, workerVars, callVars, resultVars, pushed, missed>>

Places == {"unused", "spawned", "loop", "empty", "idle", "wait", "woken", "invoke",
           "callback", "signal", "leave", "gone"}

Init ==
    /\ queue = <<>> /\ threads = {} /\ numIdleThreads = 0 /\ signalThreads = 0
    /\ place = [w \in Workers |-> "unused"]
    /\ item = [w \in Workers |-> None]
    /\ waitingToTerminate = [w \in Workers |-> FALSE]
    /\ pushed = [i \in Items |-> "no"]
    /\ call = [i \in Items |-> "none"]
    /\ msg = [i \in Items |-> "none"]
    /\ handle = [i \in Items |-> "none"]
    /\ answer = [i \in Items |-> "none"]
    /\ missed = {}

Goto(w, p) == place' = [place EXCEPT ![w] = p]

\* Whoever makes a call can go on with it.
CallerRuns(i) ==
    Parent[i] = None \/ \E w \in Workers : place[w] = "invoke" /\ item[w] = Parent[i]

\* The worker has looked for work for the last time.
GaveUp(w) == place[w] = "leave" \/ (place[w] = "empty" /\ waitingToTerminate[w])

-----------------------------------------------------------------------------
(* QueueWorkItem *)

\* Mutant: one call more than there are idle threads does not count.
PushCalmly(i) ==
    /\ queue' = Append(queue, i)
    /\ pushed' = [pushed EXCEPT ![i] =
                    IF Len(queue') > numIdleThreads + 1 THEN "force" ELSE "calm"]
    /\ UNCHANGED <<threads, numIdleThreads, signalThreads, workerVars, resultVars,
                   answer, missed>>

Push(i) ==
    /\ queue' = Append(queue, i)
    /\ pushed' = [pushed EXCEPT ![i] =
                    IF Len(queue') > numIdleThreads THEN "force" ELSE "calm"]
    /\ UNCHANGED <<threads, numIdleThreads, signalThreads, workerVars, resultVars,
                   answer, missed>>

SpawnNewWorkerThread ==
    /\ LET w == CHOOSE w \in Workers : place[w] = "unused" IN Goto(w, "spawned")
    /\ UNCHANGED <<signalThreads, missed>>

SignalThread(i) ==
    /\ signalThreads' = signalThreads + 1
    /\ missed' = IF Cardinality(threads) >= MaxThreads /\ \A w \in threads : GaveUp(w)
                 THEN missed \cup {i} ELSE missed
    /\ UNCHANGED place

\* Mutant: no thread is added to a full pool, whoever asks.
DispatchWithinLimit(i, fromWorker) ==
    /\ pushed[i] # "no"
    /\ pushed' = [pushed EXCEPT ![i] = "no"]
    /\ IF pushed[i] = "force" /\ Cardinality(threads) < MaxThreads
       THEN SpawnNewWorkerThread ELSE SignalThread(i)
    /\ UNCHANGED <<queue, threads, numIdleThreads, item, waitingToTerminate,
                   resultVars, answer>>

Dispatch(i, fromWorker) ==
    /\ pushed[i] # "no"
    /\ pushed' = [pushed EXCEPT ![i] = "no"]
    /\ IF pushed[i] = "force" /\ (Cardinality(threads) < MaxThreads \/ fromWorker)
       THEN SpawnNewWorkerThread ELSE SignalThread(i)
    /\ UNCHANGED <<queue, threads, numIdleThreads, item, waitingToTerminate,
                   resultVars, answer>>

-----------------------------------------------------------------------------
(* The caller: ThreadPool::Queue, and later ThreadPool::Wait. *)

Queue(i) ==
    /\ call[i] = "none" /\ CallerRuns(i)
    /\ Push(i)
    /\ call' = [call EXCEPT ![i] = "queue"]

Queued(i) ==
    /\ call[i] = "queue"
    /\ Dispatch(i, Parent[i] # None)
    /\ call' = [call EXCEPT ![i] = "begun"]

\* The monitor of the AsyncResult is held from the look at endinvoke_called.
EndInvoke(i) ==
    /\ call[i] = "begun"
    /\ IF msg[i] = "none"
       THEN /\ call' = [call EXCEPT ![i] = "wait"]
            /\ handle' = [handle EXCEPT ![i] = "unset"]
       ELSE call' = [call EXCEPT ![i] = "result"] /\ UNCHANGED handle
    /\ UNCHANGED <<poolVars, workerVars, pushed, msg, answer, missed>>

HandleIsSet(i) ==
    /\ call[i] = "wait" /\ handle[i] = "set"
    /\ call' = [call EXCEPT ![i] = "result"]
    /\ UNCHANGED <<poolVars, workerVars, pushed, resultVars, answer, missed>>

\* EndInvoke raises the exception, or returns the result.
Return(i) ==
    /\ call[i] = "result"
    /\ call' = [call EXCEPT ![i] = "returned"]
    /\ answer' = [answer EXCEPT ![i] = msg[i]]
    /\ UNCHANGED <<poolVars, workerVars, pushed, resultVars, missed>>

-----------------------------------------------------------------------------
(* WorkerThreadEntryPoint and WorkerThreadRunLoop *)

AttachThread(w) ==
    /\ place[w] = "spawned"
    /\ threads' = threads \cup {w}
    /\ Goto(w, "loop")
    /\ UNCHANGED <<queue, numIdleThreads, signalThreads, item, waitingToTerminate,
                   pushed, callVars, resultVars, missed>>

DequeueNextWorkItem(w) ==
    /\ place[w] = "loop"
    /\ IF queue = <<>>
       THEN Goto(w, "empty") /\ UNCHANGED <<queue, item, waitingToTerminate>>
       ELSE /\ Goto(w, "invoke")
            /\ queue' = Tail(queue)
            /\ item' = [item EXCEPT ![w] = Head(queue)]
            /\ waitingToTerminate' = [waitingToTerminate EXCEPT ![w] = FALSE]
    /\ UNCHANGED <<threads, numIdleThreads, signalThreads, pushed, callVars,
                   resultVars, missed>>

\* There is no work: is this thread one too many, and for how long?
DecideWhatToDo(w) ==
    /\ place[w] = "empty"
    /\ LET tooMany == Cardinality(threads) > MinThreads IN
         /\ Goto(w, IF tooMany /\ waitingToTerminate[w] THEN "leave" ELSE "idle")
         /\ waitingToTerminate' = [waitingToTerminate EXCEPT ![w] = @ \/ tooMany]
    /\ UNCHANGED <<poolVars, item, pushed, callVars, resultVars, missed>>

\* Mutant: a thread that is about to terminate does not count as idle.
BecomeIdleUnlessLeaving(w) ==
    /\ place[w] = "idle"
    /\ numIdleThreads' = IF waitingToTerminate[w] THEN numIdleThreads ELSE numIdleThreads + 1
    /\ Goto(w, "wait")
    /\ UNCHANGED <<queue, threads, signalThreads, item, waitingToTerminate, pushed,
                   callVars, resultVars, missed>>

BecomeIdle(w) ==
    /\ place[w] = "idle"
    /\ numIdleThreads' = numIdleThreads + 1
    /\ Goto(w, "wait")
    /\ UNCHANGED <<queue, threads, signalThreads, item, waitingToTerminate, pushed,
                   callVars, resultVars, missed>>

TakeSignal(w) ==
    /\ place[w] = "wait" /\ signalThreads > 0
    /\ signalThreads' = signalThreads - 1
    /\ Goto(w, "woken")
    /\ UNCHANGED <<queue, threads, numIdleThreads, item, waitingToTerminate, pushed,
                   callVars, resultVars, missed>>

\* The grace period is over.
Timeout(w) ==
    /\ place[w] = "wait" /\ waitingToTerminate[w]
    /\ Goto(w, "woken")
    /\ UNCHANGED <<poolVars, item, waitingToTerminate, pushed, callVars, resultVars, missed>>

StopBeingIdle(w) ==
    /\ place[w] = "woken"
    /\ numIdleThreads' = numIdleThreads - 1
    /\ Goto(w, "loop")
    /\ UNCHANGED <<queue, threads, signalThreads, item, waitingToTerminate, pushed,
                   callVars, resultVars, missed>>

\* An APC that throws takes the thread out of its wait, and out of the pool.
Abort(w) ==
    /\ Aborts
    /\ place[w] = "wait"
    /\ Goto(w, "leave")
    /\ UNCHANGED <<poolVars, item, waitingToTerminate, pushed, callVars, resultVars, missed>>

\* The delegate has returned: its exception, or that it has none, and completed.
Complete(w) ==
    /\ place[w] = "invoke"
    /\ \A i \in Items : Parent[i] = item[w] => call[i] = "returned"
    /\ msg' = [msg EXCEPT ![item[w]] = "delegate"]
    /\ Goto(w, IF item[w] \in Callbacks THEN "callback" ELSE "signal")
    /\ UNCHANGED <<poolVars, item, waitingToTerminate, pushed, callVars, handle, missed>>

\* The callback has returned, and its exception replaces that of the delegate.
CallbackReturns(w) ==
    /\ place[w] = "callback"
    /\ msg' = [msg EXCEPT ![item[w]] = "callback"]
    /\ Goto(w, "signal")
    /\ UNCHANGED <<poolVars, item, waitingToTerminate, pushed, callVars, handle, missed>>

\* The handle is signalled, with the monitor of the AsyncResult held.
Signal(w) ==
    /\ place[w] = "signal"
    /\ handle' = [handle EXCEPT ![item[w]] = IF @ = "unset" THEN "set" ELSE @]
    /\ item' = [item EXCEPT ![w] = None]
    /\ Goto(w, "loop")
    /\ UNCHANGED <<poolVars, waitingToTerminate, pushed, callVars, msg, missed>>

DetachThread(w) ==
    /\ place[w] = "leave"
    /\ threads' = threads \ {w}
    /\ Goto(w, "gone")
    /\ UNCHANGED <<queue, numIdleThreads, signalThreads, item, waitingToTerminate,
                   pushed, callVars, resultVars, missed>>

-----------------------------------------------------------------------------
Caller(i) == Queued(i) \/ EndInvoke(i) \/ HandleIsSet(i) \/ Return(i)

Worker(w) ==
    \/ AttachThread(w) \/ DequeueNextWorkItem(w) \/ DecideWhatToDo(w) \/ BecomeIdle(w)
    \/ TakeSignal(w) \/ StopBeingIdle(w) \/ Complete(w) \/ CallbackReturns(w)
    \/ Signal(w) \/ DetachThread(w)

Next ==
    \/ \E i \in Items : Queue(i) \/ Caller(i)
    \/ \E w \in Workers : Worker(w) \/ Timeout(w) \/ Abort(w)

\* All threads are scheduled; a delegate makes the calls it is there to make.  A
\* caller takes finitely many steps, so that what is fair to all of them together
\* is fair to each.
Fairness ==
    /\ WF_vars(\E i \in Items : Caller(i) \/ (Parent[i] # None /\ Queue(i)))
    /\ \A w \in Workers : WF_vars(Worker(w))

Spec == Init /\ [][Next]_vars /\ Fairness

-----------------------------------------------------------------------------
\* The variables have the types of the code's, and there are never fewer than no
\* idle threads, as QueueWorkItem asserts.
PoolTypeOK ==
    /\ queue \in Seq(Items)
    /\ threads \subseteq Workers
    /\ numIdleThreads \in 0 .. Cardinality(Workers)
    /\ signalThreads \in Nat
    /\ place \in [Workers -> Places]
    /\ item \in [Workers -> Items \cup {None}]
    /\ waitingToTerminate \in [Workers -> BOOLEAN]
    /\ pushed \in [Items -> {"no", "force", "calm"}]
    /\ call \in [Items -> {"none", "queue", "begun", "wait", "result", "returned"}]
    /\ msg \in [Items -> {"none", "delegate", "callback"}]
    /\ handle \in [Items -> {"none", "unset", "set"}]
    /\ answer \in [Items -> {"none", "delegate", "callback"}]
    /\ missed \subseteq Items

\* The count of idle threads is wrong, for a thread was aborted while it was one.
Miscounted ==
    numIdleThreads # Cardinality({w \in Workers : place[w] \in {"wait", "woken"}})

\* A thread that will look at the queue again, now or when it has its signal.
WillLook(w) ==
    \/ place[w] \in {"spawned", "loop", "woken", "invoke", "callback", "signal"}
    \/ place[w] \in {"empty", "idle", "wait"} /\ signalThreads > 0 /\ ~GaveUp(w)

\* No call is left in the queue with every thread gone or asleep: whenever one is
\* queued and no QueueWorkItem under way, some thread will look at the queue
\* again.  Known exceptions: the pool was full, but of threads that had given up
\* at once; and an aborted thread that still counts as idle.
QueueAttended ==
    queue # <<>> /\ (\A i \in Items : pushed[i] = "no")
      => (\E w \in Workers : WillLook(w)) \/ Head(queue) \in missed \/ Miscounted

\* EndInvoke has waited for the delegate, and finds what the delegate has left,
\* if there is no callback to replace it.
AnswersAreFinal ==
    \A i \in Items : call[i] = "returned" =>
      answer[i] \in IF i \in Callbacks THEN {"delegate", "callback"} ELSE {"delegate"}

\* The pool has been given the call.
InPool(i) ==
    msg[i] # "none" \/ (\E w \in Workers : item[w] = i) \/ \E k \in DOMAIN queue : queue[k] = i

\* Every call that is given to the pool is served and its EndInvoke returns, also
\* if a delegate waits for a call of its own while the pool is full: there are
\* finitely many calls, and in the end none waits.  But for the exceptions of
\* QueueAttended.
EndInvokeReturns ==
    <>[](\/ \A i \in Items : InPool(i) => call[i] \notin {"begun", "wait"}
         \/ missed # {} \/ Miscounted)

=============================================================================
