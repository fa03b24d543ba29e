# Verification of the IL2CPP runtime for PlayStation Vita

This directory holds TLA+ models of the concurrent core of the IL2CPP runtime in
`src/IL2CPP/libil2cpp` and of its console layer in
`src/INSTDIR/Tools/il2cpp/libil2cpp/os/PSP2`, the TLC configurations that check
them on small instances, and proofs that TLAPS checks for instances of any size.

The console build is a POSIX one: pthreads, relative timed waits on condition
variables (`COND_TIMEDWAIT_REL`), its own thread-local values and its own socket
polling. Paths below are relative to `src/IL2CPP/libil2cpp` unless they begin
with `PSP2/`, which stands for `src/INSTDIR/Tools/il2cpp/libil2cpp/os/PSP2/`.

    tlc -config MonitorOneObject.cfg MCMonitor      check one run
    tlapm MonitorProofs.tla                         check the proofs of one module

`PROJECT.json` lists components, runs, mutants, hazards and theorems, and maps
every definition to the lines it models.

## 1. The system

| Component | State | Operations | Interacts with | Hard because |
|---|---|---|---|---|
| Object monitors, `vm/Monitor.cpp` | per object a pointer to a `MonitorData`; per monitor owner, recursion count, waiting count, semaphore, pulse list; two free lists | Enter, TryEnter, Exit, Wait, TryWait, Pulse, PulseAll | waits on a semaphore and an event (wait objects); APCs throw out of its waits | lock-free fast path; monitors are recycled between objects while threads still hold their address |
| Wait objects, `os/Posix/PosixWaitObject.cpp`, `MutexImpl`, `SemaphoreImpl`, `EventImpl` | `m_Count`, `m_WaitingThreadCount`, a pthread mutex and a condition | Wait with a timeout, interruptible or not; Unlock, Post, Set, Reset; creation, deletion | the APC queue of the waiting thread | signals are edges, an interrupter does not take the mutex, an APC may throw at five places |
| Thread implementation, `os/Posix/ThreadImpl.cpp` | APC queue, current wait object, one global deletion lock | QueueUserAPC, CheckForUserAPCAndHandle, SetWaitObject | wait objects | the wait object may end its life while it is being interrupted |
| Thread-local values, `PSP2/ThreadLocalValueImpl.cpp` | a table of 48 keys with counts; per thread one slot per key | KeyCreate, KeyDelete, SetValue, GetValue | every thread of the runtime | the counts are shared and unlocked |
| OS threads, `os/Thread.cpp` | exit event, list of live threads | Run, Join, Shutdown | wait objects, thread implementation | Shutdown racing exit |
| Several handles, `os/Handle.cpp` | none | WaitAny, WaitAll | wait objects | a poll that consumes signals one by one |
| Managed threads, `vm/Thread.cpp` | list of attached threads, thread state, thread statics | Attach, Detach, Start, Interrupt, Abort, kill at shutdown | OS threads, monitors, APCs | shutdown against attach, abort against a thread that leaves |
| Type initialisation, `vm/Runtime.cpp` | per class: started, finished, the thread | ClassInit | type lock, monitors | cycles of static constructors over two threads |
| Thread pool 2.0, `vm/ThreadPool.cpp` | work queue, worker count, idle count; polling requests | Queue, worker loop, polling loop, EndInvoke, Terminate | wait objects, socket polling, monitors | work arriving as the last worker leaves |
| Thread pool 4.x, `mono/ThreadPool/*` | counters in one word, parked workers, monitor thread | request, park, retire, monitor | managed threads | a counter word updated by compare-and-swap, timeouts |
| Socket polling, `PSP2/MultiplexIO.cpp`, `PSP2/sys/poll.cpp` | an epoll descriptor, at most 16 requests per call | Poll | thread pool | limits and duplicate descriptors |
| Finalizers and callable wrappers, `gc/GarbageCollector.cpp` | finalizer thread, two semaphores/events, wrapper cache | WaitForPendingFinalizers, Uninitialize, cache look-up | collector | rounds that overlap |
| GC handles, `gc/GCHandle.cpp` | slot arrays and bitmaps under a mutex | New, Free, GetTarget | collector | a hint that goes stale |
| Lock-free lists, `utils/ThreadSafeFreeList.h`, `os/Unity/AtomicQueue.cpp` | version-tagged head | push, pop | monitors | ABA |
| Metadata, reflection, marshalling, strings | tables | look-ups, conversions | | large data, little control |
| Editor extension, MapFileParser, installer, docs | | | | build tools, one step after the other |

What makes each of the modelled components correct:

* **Monitors.** One thread at a time is in a lock, at the depth it entered; Wait
  gives all of it up and gives all of it back; a free lock with a sleeper has a
  wake-up on its way; a monitor is in one place at a time, and is not recycled
  under a thread that has checked that it is the right one.
* **Wait objects and APCs.** A mutex has one holder; a wake-up is not lost
  between two waiters; the counters match the threads that wait, on every way
  out of a wait; an interrupter never touches a deleted object; APCs run.
* **Thread-local values.** A thread reads what it stored last, and never what
  another value stored under the same key.
* **Type initialisation.** A static constructor runs once, whatever threads and
  whatever other constructors use the class; nobody but the thread that runs it
  gets to use the class before it has ended; the others come back.
* **Finalizers.** The finalizer of an object runs exactly if the program asked for
  it last, with or without a callable wrapper; whoever waits for them comes back.
* **Managed threads.** An abort or interrupt is not forgotten; a thread has all
  thread statics; shutdown ends, with no thread left in the program's code.
* **Thread pool and socket polling.** A call that has been queued is served, also
  when the pool is full or its threads are about to leave; EndInvoke returns what
  the delegate left; a request whose socket is ready reaches the pool.

Not modelled because it is not this project's code, or has no control worth
checking: `external/` (boehmgc, mono, zlib, google), the generated tables, the
documentation, the installer, the C# editor extension (a sequential pipeline of
file copies and tool calls), `MapFileParser`, reflection and metadata look-ups.

## 2. Modules

| Module | Models | Runs |
|---|---|---|
| `Monitor` | `vm/Monitor.cpp`, one step per access to shared memory | `monitor_*` |
| `LockContract` | what Enter, Exit, Wait and Pulse promise, one step each | implemented by `Monitor` (`ImplementsContract`) |
| `MCMonitor` | symmetry for TLC | |
| `MonitorProofs` | inductive invariant and four theorems | checked by TLAPS |
| `MonitorContractProofs` | what callers rely on: nodes, locks, wake-ups, `LockContract`; five theorems | checked by TLAPS |
| `PosixWaitObject` | `os/Posix`: wait objects and user APCs | `wait_object_*` |
| `WaitContract` | what a wait promises, one step per outcome | implemented by `PosixWaitObject` |
| `MCPosixWaitObject` | symmetry | |
| `PosixWaitObjectProofs` | three inductive invariants and five theorems | checked by TLAPS |
| `ThreadLocalValue` | `PSP2/ThreadLocalValueImpl.cpp` | `thread_local_serial` |
| `MCThreadLocalValue` | symmetry | |
| `ThreadLocalValueProofs` | inductive invariant and three theorems | checked by TLAPS |
| `ManagedThreads` | `vm/Thread.cpp`, the Thread icalls, and what they use of `os/Thread.cpp` and `ThreadImpl.cpp` | `managed_threads` |
| `MCManagedThreads` | the programs of the run | |
| `ManagedThreadsProofs` | inductive invariant and four theorems | checked by TLAPS |
| `ClassInit` | `Runtime::ClassInit` | `class_init` |
| `MCClassInit` | the four shapes of programs of the run | |
| `ClassInitProofs` | inductive invariant and three theorems | checked by TLAPS |
| `Finalizer` | `gc/GarbageCollector.cpp` | `finalizer` |
| `FinalizerProofs` | inductive invariant and three theorems | checked by TLAPS |
| `ThreadPool` | `vm/ThreadPool.cpp` without the sockets | `async_calls` |
| `SocketPolling` | the polling thread of `vm/ThreadPool.cpp` over `PSP2/MultiplexIO.cpp` | `async_calls` |
| `MCAsyncCalls` | both of them, one program for each | |
| `AsyncCallsProofs` | an inductive invariant of each and five theorems | checked by TLAPS |

### Monitor

`pc[t]` names the place where thread t stands in `TryEnter`, `Exit` or `TryWait`,
and `local[t]` is its local `installedMonitor` or `monitor`. The life of a
monitor follows `owningThreadId`: `kHasBeenReturnedToFreeList`, then the thread
that allocated it (`AllocateMonitor`), then on an object (`InstallMonitor`),
there owned or `kCanBeAcquiredByOtherThread` in turn, and back through `Deflate`,
`FlushReadyList` and `ReleaseMonitor`. `TryEnter` is the loop "read", "alloc",
"install" or "try", "check", then "ready", "loop", "grab", "sleep" for a thread
that has to wait. `Exit` decides once (`Decide`) between the hand-off to a waiter,
the release with a second look, and deflation. `TryWait` is an `Exit`, a wait on
the node's event ("pulseWait") and an `Enter`, then `RestoreAfterWait`.

Choices a reader should know:

* The free lists are sets and are atomic; the lists in the code are lock-free
  stacks with a version tag, whose model is in the plan. A thread that finds
  a list empty waits in the model, where the code allocates: `Monitors` and
  `Nodes` bound what can be in use at once.
* The order of the pulse list is left out, so `Pulse` may choose any node.
* `flushAcknowledged` is left out: it is waited for with a timeout of 1 ms in a
  loop that reads the counter again.
* `tokens` saturates at `MaxTokens`. The waits on the semaphore are atomic here;
  how they are made is `PosixWaitObject`.
* `depth` is what the caller of the API knows: the locks it has taken. The code
  has no such variable; it ties returned calls to `owningThreadId`.
* A thread does not lock a second object while it holds one (guard in `Enter`):
  this bounds the state, and rules out deadlocks of the program itself.
* After a Wait whose `Enter` succeeded, `object->monitor` is used without a
  check; there is no step if it is null.
* Memory is sequentially consistent; the code uses full-barrier atomics for
  the owner, the counters and the pointer on the object.

### PosixWaitObject

One module for mutexes, semaphores and both kinds of events: they share
`PosixWaitObject::Wait` and differ in what `Acquire` and the releasing operations
do to `m_Count`. Steps under `m_Mutex` that nobody else can see are merged;
`Wait` keeps its steps wherever it calls out (`HandleAPC`, `SetWaitObject`) or
gives the mutex up (`Block`). A condition variable may wake a thread for no
reason (`WakesSpuriously`), a time limit may pass whenever a thread is blocked
(`TimesOut`). An APC that throws ends the wait through the handler at lines
202-209 (`APCThrows`). `QueueUserAPC` pushes, then takes
`s_WaitObjectDeletionLock`, reads the wait object and broadcasts
(`FindWaitObject`, `InterruptWait`). The owner of an object may delete it when no
thread is in an operation on it; the thread that interrupts a wait that has
ended meanwhile is the case the deletion lock is for.

### ThreadLocalValue

An increment or decrement of a count is a load and a later store. With
`Overlap = 1` operations do not overlap: this is the algorithm as it is meant.
With `Overlap = 2` two threads are inside at the same time, as nothing in the
code prevents. A thread may end (`ThreadEnds`): its slots go, its counts stay.

The build is a release build. When all keys are taken, `KeyCreate` fails, the assert on
its result is compiled out, and the constructor copies its uninitialised `TlsKey`:
`NoKeyLeft` gives the object any key of the table, or `NoKey` for a number that is
none. Operations on `NoKey` are refused (`Refuse`, `TestForDelete`); those on another
object's key share its slot and may free it. `strays` is the set of keys such
objects have named, and `Sound` the others, which they do not touch. A build with
assertions ends at the constructor, so its behaviours are the beginnings of these.
`GetValue` makes no step: what it reads is `slot`; with `NoKey` it reads outside of the
array, which no property is about.

### ManagedThreads

`place[t]` follows a thread from "new" through `Thread_internal` ("created"),
`Initialize` ("registered", "adjusted"), the program's code ("user"), its waits and
the APC callbacks that run inside them, to the steps of `Uninitialize` and the exit
event. A critical section of `synch_cs` or `s_ThreadMutex` is one step, with the
lock-free gaps between them kept: between `Register` and `AdjustStaticData`, between
the state `Stopped`, `Unregister` and `FreeThreadStaticData`.

* A wait is "wait" (the queue is looked at), "entering" (it was empty) and "blocked".
  `QueueUserAPC` wakes a blocked thread only: an APC that comes while the thread is
  "entering" is missed until the wait ends, as in `PosixWaitObject`.
* `net40` is the build: the runtime is compiled for the 2.0 or the 4.x profile, and
  `Init` leaves open which. With NET_4_0 a managed thread has an `os::Thread` from its
  construction (`HasHandle`), and `Thread_internal` puts another in its place, whose queue
  is empty (`NewHandle`). `discarded` observes whose abort was thrown away by that.
* A thread in `Foreign` attaches itself. It gets the same registration and thread
  statics; it is not aborted, interrupted or made a background thread here. When it ends
  without `Detach`, the clean-up of its pthread detaches it and sets its exit event; after
  a `Detach` of its own nobody sets it (`Exit`, "exited" and "detached").
* `BeginWait` may or may not set `WaitSleepJoin`: the wait in EndInvoke does not.
  Such a wait throws an interrupt away (`swallowed` observes this). `WaitOne` looks for an
  interrupt itself before it waits, so `BeginWait` may also lead to `CheckForInterrupt`.
* An abort that throws out of a wait for a handle or a monitor clears
  `WaitSleepJoin`; out of Sleep or Join it does not. `CheckForAbort` has both.
* Shutdown is the main thread; the finalizer thread and the main thread, which it
  leaves alone, have no state here.
* A thread that was started but not registered when shutdown blocks new threads is
  thrown out of `Initialize`, outside the `try` block of `ThreadStart`: for a managed
  thread this ends the process (`Crashed`). A foreign thread passes it to its caller.

### ClassInit

A thread has a stack of frames, one for each ClassInit it is in; `uses` is the
program. What happens under `s_TypeInitializationLock` is one step; the first look
at `cctor_finished`, the comparison of the thread, the polling, the writes of
`cctor_finished` and of `cctor_thread` are steps of their own. `Kill` is
`NativeThreadAbortException`, which `Runtime::Invoke` does not catch: the class stays
started for ever, and who polls for it polls for ever.

### Finalizer

Of the collector (`external/boehmgc/finalize.c`) there is what the finalizer thread depends
on: it keeps one callback per object; `Collect` is `GC_finalize`, which puts an object that
it finds unreachable on the list `GC_finalize_now`; and `NotifyOrInvokeFinalizers` calls the
notifier after that, once for a collection (`told` is `last_finalizer_notification ==
GC_gc_no`), at the end of `GC_gcollect` or at an allocation. `TakeObject` takes one object
off the list. Which objects are unreachable is open, and so is the order of the list.
`wanted` observes what the program has asked for last; an object that is used again by its
finalizer is `live` and may be registered again. Left out: a finalizer that uses other
objects that have been handed over with it (`Usable`), exceptions of finalizers (which end
the process), and wrappers for Windows Runtime projections, which are not cached.
`SetCompleted` reads `s_StopFinalizer` in the same step as it sets the event; the only
writer of the flag notifies after it has written.

### ThreadPool, SocketPolling and MCAsyncCalls

`ThreadPool` is one compartment. `QueueWorkItem` has two steps, the push under the
mutex and the decision after it; a worker has one step for each look at
`numIdleThreads`, `threads` and the semaphore. A delegate may make a call and wait for
it (`Parent`), which is what the third condition of `QueueWorkItem` is for. `Abort` is
an APC that throws out of a worker's wait. Known ways for a call to be left
alone are observers, and the properties name them: `missed` (the pool was full, but
of threads that had looked for the last time, when the call was signalled) and
`Miscounted` (an aborted worker is still counted as idle).

`SocketPolling` is the staging in front of it: a request is queued, the poll is interrupted,
the polling thread moves requests to its list, registers the list with epoll, waits, and
forwards what is ready. A socket that has been closed by then has no descriptor (`NoFd`,
-1): its request is not registered and takes no place in the poll. `Forward` stands for the
call of `QueueWorkItem` with which `ThreadPool` begins. The two share no other state, so
`MCAsyncCalls` checks them in one run, one program for each.

## 3. Runs

Passing runs:

| Run | Instance | Shows |
|---|---|---|
| `monitor_one_object` | 3 threads, 1 object, 2 monitors, 2 nodes; every TryEnter may time out, a Wait may or may not; depth 2; semaphores saturate at 1; 960 k states | mutual exclusion, recursion depth through Wait, no lost wake-up, nodes accounted for, implementation of `LockContract` |
| `monitor_two_objects` | 3 threads, 2 objects that share 2 monitors, 1 node, no timed Enter | monitors in one place; confirmed monitors stay; only the owner lets go |
| `monitor_liveness` | 2 threads, every kind of timeout of Enter and Wait, APCs that throw; 280 k states | no lost wake-up although waits end by exception; the lock is taken; a flush ends |
| `wait_object_contract` | 2 threads, mutex, semaphore, auto-reset event; all limits; APCs that throw; deletion; depth 2; 410 k states | mutex correctness, no use after deletion, `WaitContract` |
| `wait_object_wakeups` | 3 threads, mutex, semaphore of 2, manual-reset event; APCs that throw, except out of the wait that was woken last (`SparingSpec`); 1.7 M states | every wake-up reaches somebody |
| `wait_object_liveness` | 2 threads, mutex, semaphore | APCs run in timed waits; a free object is taken |
| `thread_local_serial` | 2 threads, 3 values, 2 keys, one operation at a time; the table may be full; 2.0 M states | values kept and counts cover their uses, under the keys that only their own objects name |
| `managed_threads` | program 1: a thread that is started, and aborted or interrupted, and one that attaches itself; program 2: one thread that is aborted and interrupted, in a build without and with NET_4_0; program 3: two threads, each in the background or not; 1 thread static; shutdown at any time; 150 k states | requests are not forgotten; thread statics complete; shutdown ends, and nothing runs after it |
| `class_init` | 2 threads, 3 classes, 4 shapes of programs, exceptions, aborts; 100 k states | constructors run once; no use of a class before its constructor has ended; uses return |
| `finalizer` | 2 objects, 2 waiters, semaphore of 2; 54 k states | wrappers and callbacks agree; finalizers run as asked; what is handed over is taken; waiters and shutdown come back |
| `async_calls` | program 1: a call made inside another and one with a callback, pool of 1 to 2 threads, aborts; program 2: 4 requests, on 2 open sockets and a closed one, a poll of 2 events; 850 k states | no call left in the queue; EndInvoke returns; ready requests reach the pool |

One run ends in a violation, a disagreement of the code with its own assertion:

| Run | Property | What happens |
|---|---|---|
| `monitor_stale_acquire` | `AcquiredIsInstalled` | a thread that read the monitor of object a stalls, the monitor is deflated, reused for b and let go by a Wait; the thread acquires it and `TryEnter` says that it holds a. The assert of `Monitor.cpp:351` fails |

### Other disagreements

These came up in modelling. Most are in the models, where a run excuses them or can reach
them with other constants; 8 to 10 are outside of what the models keep.

1. `Monitor.cpp:633` (`Interrupts = TRUE`): an APC throws while `TryWait` takes the
   lock again. It leaves without the lock, with the count unrestored and the node on
   the list, against the comment at lines 656-659.
2. `PosixWaitObject.cpp:246`: `InterruptWait` broadcasts without `m_Mutex`. A
   thread that has found its queue empty and has not yet reached the condition variable
   misses it, against `PosixWaitObject.h:45-48`. Shutdown works round it (`ShutdownEnds`).
3. `PosixWaitObject.cpp:183` (`Throws = TRUE`): a waiter that Unlock has woken
   handles an APC first; if that throws, the wake-up is gone, against
   `MutexImpl.cpp:67-68`.
4. `PSP2/ThreadLocalValueImpl.cpp:79` (`Overlap = 2`): two first `SetValue` calls at
   once lose a count. When both threads have cleared the value, the key of a live object
   counts as free, and a later `SetValue` returns success and stores nothing. Two
   operations on one key must overlap for this (`ValuesAreKept`).
5. `vm/Runtime.cpp:794`: two threads whose static constructors use each other's class
   poll for each other for ever, in a Sleep that no APC interrupts.
6. With two objects a thread may release a monitor it acquired by mistake (`UnacquireStale`,
   line 345) without posting, so `NoLostWakeup` holds for one object but not for two; this
   step is its only exception (`WakeupsAreKept`). A monitor may stay on an object nobody
   locks: when the last waiter gives up after the owner has counted it (the comment at lines
   428-437 means to exclude this), or when a stranger was counted on a recycled monitor
   (lines 371-375). What is lost is a monitor, until the object is locked again.
7. `vm/Thread.cpp:295`: a thread that attached itself and calls Detach never sets its exit
   event, so shutdown joins it for ever if it was attached when the list was copied
   (`ShutdownEnds` excuses this). One that ends without Detach is detached by the clean-up of
   its pthread, which sets the event (lines 62-71).
8. `os/Thread.cpp:103`: Shutdown deletes every thread object. A thread that was past
   `Unregister` when the list was copied is not waited for and may still be using its own.
   `NothingRunsAfterShutdown` says that this is as far as such a thread can be.
9. `vm/ThreadPool.cpp:644`: Terminate joins the polling thread, which nothing ends:
   it writes no message when sockets are multiplexed, and the loop has no exit.
10. `vm/ThreadPool.cpp:860`: the exception of the callback, or NULL if it has none,
    overwrites that of the delegate, which EndInvoke then does not raise.
11. `vm/ThreadPool.cpp:768`: an exception leaves `numIdleThreads` one too high, so that
    later calls find an idle thread that is not there. A call that is queued when a full
    pool consists of threads that have looked for the last time stays in the queue until
    the next call.
12. `PSP2/MultiplexIO.cpp:64-65` says that events of one descriptor have to be merged;
    the code does not, and the second addition fails. The request is served after the first.
13. `gc/GarbageCollector.cpp:214`: a waiter may be woken by a round that began before its
    own request, if that round sets the event after the waiter has reset it.
14. `vm/Monitor.cpp:440` (two objects, `EnterTimeouts` with "timed"): the last waiter that
    times out leaves the ready list and sees its monitor on object a (line 438). Nothing
    keeps the owner from deflating a now; the monitor is reused for b and let go there by a
    Wait. The waiter acquires it and `TryEnter` says that it holds a, although the assert
    of line 444 fails. TLC finds this as a violation of `LastWaiterHasIt` of
    `MonitorContractProofs`, with the constants of `monitor_stale_acquire` and timed attempts.
15. `icalls/mscorlib/System.Threading/Thread.cpp:198` (NET_4_0): the comments at
    `vm/Thread.cpp:610` and `616` take a thread without `handle` for one that has not
    started, but with NET_4_0 every thread has one. An abort before the start is queued on
    an `os::Thread` that `Thread_internal` replaces: the thread does start, the abort is
    lost, and as `AbortRequested` stays set every later one is refused (`RequestsPending`
    excuses this).
16. `PSP2/ThreadLocalValueImpl.cpp:103`: with a full table and without assertions a value
    lives on with an uninitialised key. `SetValue` fails, or uses the key of another value;
    its destructor may free that key. `ValueIsKept` speaks of the other keys.
17. `PSP2/MultiplexIO.cpp:73`: the request of a socket that is closed before it is polled is
    neither registered nor forwarded, and stays in the list. The comment at
    `vm/ThreadPool.cpp:463` expects such requests to reach a worker.
18. `icalls/mscorlib/System.Threading/WaitHandle.cpp:54`: a background thread that
    interrupts itself for ever and waits in WaitOne only is thrown out before it looks at
    its APCs, so shutdown does not end. The fairness of `ManagedThreads` leaves such
    programs out.

### Bounds

Two threads are an owner and a rival; the third is needed for a waiter that passes
a wake-up on, for a stranger who changes a monitor between two steps of a rival,
and for an exit that meets both a sleeper and a newcomer. Two monitors are enough
for a race of two inflations and for a monitor that is recycled while another
takes its place. Two nodes let two threads wait for a pulse at once; the object
needs `MaxDepth = 2` to have a nested lock. A semaphore with two units makes one
Post release two waiters. A semaphore of a monitor that saturates at 1 (`MaxTokens`)
gives fewer wake-ups than the code's, so `NoLostWakeup` is only harder to keep with
three threads; `monitor_liveness` has room for the tokens of both its threads. One
pending APC per thread is enough for each wait to be
interrupted, as the guard lets a thread be interrupted again once it has run.
"timed" includes what "infinite" can do in a safety run (a limit need not pass),
so the safety runs leave "infinite" out where it adds no new step; the contracts,
which tell the two apart, use the kinds they are given.

In `managed_threads` the requests (abort, interrupt, reset) are made of one thread, as they
touch the state of their target only, and both kinds meet in the program that has this
thread alone; what two threads tell apart is the order in which shutdown meets them, and for
this each may be in the background or not. One thread static is allocated before, while or
after a thread attaches. `class_init` has every shape of three classes that matters to two
threads: a fork with a join, a class that two share, a circle of two with a way in, a circle
of three. `finalizer` has two waiters because one resets the event the other waits for, and
a semaphore that is full after two posts in place of 32767. In `async_calls` the pool is
full with two threads, `MaxThreads`, of which one leaves when there is nothing to do,
`MinThreads`; the call made inside another forces a third. A poll takes two requests in
place of 16, with two requests of one socket and one of a closed socket among four.
`thread_local_serial` has one object more than keys, so that the table is full.

### Deadlock

TLC's deadlock check is on, except where a behaviour may really end. In
`monitor_liveness` all threads may be in a Wait without a timeout, which is a program
error the code does not treat. In `monitor_two_objects` a thread that has acquired a
recycled monitor by mistake (finding `monitor_stale_acquire`) holds it for good, and the
bounded pool of monitors then stops the others. In `class_init` constructors in a circle
stop both threads. `finalizer`, `managed_threads` and `async_calls` end when the runtime
has shut down, when the process has crashed, or when all calls have returned. Where
the check is off, a liveness property says what must not stop.

### Fairness

* `Monitor!FairSpec`: weak fairness of each thread's `Step`, the steps inside a
  call. Enter and Exit run without blocking apart from the semaphore and the
  1 ms waits, so an operating system that runs every runnable thread gives this.
  There is no fairness on timeouts, on APCs or on callers.
* `PosixWaitObject!FairSpec`: strong fairness of `Step`, because a thread that
  wants `m_Mutex` competes with others again and again and a pthread mutex that
  is free infinitely often is taken; weak fairness of `TimesOut`, because a
  limit that is not infinite passes.
* `ClassInit!FairSpec`: weak fairness of each thread's `Step`. The lock is held for a
  few instructions, Sleep returns, and a static constructor ends.
* `Finalizer!FairSpec`: weak fairness of the finalizer thread and of the calls that wait;
  strong fairness of `WaitReturns`, because the event is set and reset again and again and
  a thread that blocks on it is woken by each Set. `EveryoneComesBack` and `HandedOverIsTaken`
  excuse a collector that finds work for ever. Weak fairness of the notification says that the
  program allocates again; only `HandedOverIsTaken` needs it.
* `ManagedThreads!Fairness`: weak fairness of shutdown and of what the runtime does on a
  thread; the program's code waits again and again (an interruptible wait is the only place
  where an APC runs), not only in waits that a pending interrupt ends before they begin, and
  the foreground threads that shutdown has found come to an end (`GoesOn`). Strong fairness
  of the `terminate` callback: APCs are run in the order they were queued, so others cannot
  pass it for ever.
* `ThreadPool!Fairness` and `SocketPolling!PollFairness`: weak fairness of each worker, of
  the polling thread and of the callers, which call EndInvoke in the end. There is none on
  timeouts and aborts. Callers take finitely many steps, so weak fairness of all callers
  together is weak fairness of each.

## 4. Proofs

Each proof module follows the same argument: an inductive invariant, whose parts TLC
has checked on the instances of the runs, holds at the start; one lemma per part, or
per action, says that steps keep it; the theorems follow. A refinement has two more
facts: the initial states map to initial states of the contract, and every step to a
step of the contract or a stutter.

The assumptions are those the component's module states about its constants. A theorem that
needs more says so where it is stated, as a temporal hypothesis (or a restricted next-state
relation) that names the one thing that must not happen. No theorem asks for a program with
one object, without interrupts, or with APCs that do not throw. Each such hypothesis belongs
to one of the disagreements above or to the run that ends in a violation, and TLC refutes
the theorem's property when it is dropped.

### MonitorProofs

The module proves, for every number of threads, objects, monitors and nodes,
every kind of timeout and with or without interrupts, from `MonitorAssumption`
(the threads are finitely many, null is nobody, the bounds are positive):

| Theorem | States |
|---|---|
| `TypeCorrect` | `Spec => []TypeOK` |
| `Accounting` | `Spec => []MonitorAccounting` |
| `PinsHold` | `Spec => []PinnedWhileReady` |
| `OwnershipKept` | `Spec => OnlyOwnerLetsGo` |

Together they are the argument why recycling is sound where the code has done its
checks: a monitor that a thread has found installed after it put itself on the
ready list cannot go back to the free list, nor to another object.

The inductive invariant `IInv` has six parts, and each needs the others:

* `TypeOK`.
* `CallShape`: the local variables that are set at each place.
* `OwnerSteps`: who owns the monitor at each place of Exit and of the fast path.
  `Deflate` and `ReleaseMonitor` write `owningThreadId` without looking at it.
* `MonitorAccounting`, which says where a monitor is. It needs `OwnerSteps` to know
  that two threads cannot deflate the same monitor.
* `WaitersCounted`: `numThreadsWaitingForSemaphore` is the number of threads on the
  ready list. It is why a flush that reads zero has driven everybody off.
* `PinnedWhileReady`. Its only difficult step is `ReleaseMonitor`: a thread that
  is still on the list would be counted, so there is none.

The proof that the steps keep `IInv` goes part by part (`ShapeKept`, `OwnersKept`,
`AccountingKept`, `PinnedKept`, `CountKept`, `StepTypes` and `CallTypes`), and in
each part action by action. Most actions leave a part's variables alone, which
`QuietSteps`, `PlacesMoved` and `ReadyMoved` say once. `WaitersCounted` counts a
set that changes by one thread, so it rests on the library's theorems on the
cardinality of finite sets. `OwnershipKept` follows from the same invariant: an
action that writes `owner` of an owned monitor is one of its owner's.

### MonitorContractProofs

For any number of threads, objects, monitors and nodes, every timeout, and threads that may be
interrupted in every Enter and Wait:

| Theorem | States | If |
|---|---|---|
| `NodesAreAccountedFor` | `NodeAccounting` | `WaitReturns` |
| `LocksExclude` | `MutualExclusion` | `AcquiredIsInstalled`, `LastWaiterHasIt`, `WaitReturns` |
| `HoldersOwn` | `HolderOwnsMonitor` | `AcquiredIsInstalled`, `LastWaiterHasIt`, `WaitReturns` |
| `WakeupsAreKept` | `NoLostWakeup` | `NeverVacated` |
| `MonitorsImplementContract` | `ImplementsContract` | `AcquiredIsInstalled`, `LastWaiterHasIt`, `WaitReturns` |

So the theorems say which faults there are and that there are no others:

* `AcquiredIsInstalled` is the assert of line 351 and `LastWaiterHasIt` that of line 444.
  Both may fail (`monitor_stale_acquire` and disagreement 14). Two objects are
  needed, since the monitor has to come back on another one. Either way the thread is told
  that it is inside a lock that it does not have: TLC finds a violation of
  `HolderOwnsMonitor` with one of the two hypotheses alone.
* `WaitReturns`: no APC throws out of the `Enter` in a Wait (disagreement 1).
* `NeverVacated`: nobody who has acquired a monitor finds that the object has none, the
  branch of line 345 (disagreement 6).

The hypotheses concern what a behaviour does, not which programs there are: a program with one
object has no such fault but that of `WaitReturns`, and is what `monitor_one_object` checks.

The invariants build on each other:

* `NInv` adds to `IInv` what a Wait has while it is under way (`WaitShape`) and
  where each node is (`NodesPlaced`): free or one thread's, and on the pulse list of
  no monitor but that of its thread's object. `Deflate` may not take a monitor with a
  node on it.
* `HInv` relates the callers' `depth` to the owner: a thread that is inside (`InsideOwns`)
  owns the monitor on its object, with the recursion count of its depth, or is in the course
  of a call that says where it differs (`EntryShape`, `Unrecursed`); and a monitor has an
  owner for a reason (`OwnedForAReason`). A step of one thread changes no monitor that
  another owns (`MineOnly`), so only the thread's own steps are of interest.
* `WakeOnItsWay` is `NoLostWakeup` with the place where the awake thread will look. It
  needs only `IInv`, so it holds whoever is interrupted.
* `RInv` adds that a Wait without a timeout that is past its event has had a
  pulse spent on it, if it cannot have been interrupted (`PulseSpent`), which `LockContract`
  demands of its end. A Wait that an APC ends takes the lock again before it throws,
  so to the contract it ends like one that times out.

In `LockContract` a waiting thread has a `limit`. One that waits with the timeout zero is
not one a Pulse may be spent on, as in the code it never has a node on the list.

### PosixWaitObjectProofs

For any threads, mutexes, semaphores and events, all limits, and APCs that throw or do
not, from `WaitObjectAssumption` (finitely many threads, an object is of one kind, the
bounds are positive, and null is no object and no call):

| Theorem | States |
|---|---|
| `WaitTypes` | `Spec => []TypeOK` |
| `MutexHeld` | `Spec => []HolderOwnsMutex` |
| `NoTouchAfterDeletion` | `Spec => []NoUseAfterDeletion` |
| `WakeupsArrive` | `SparingSpec => []NoLostWakeup`: no APC throws out of the wait that the last wake-up of a free object has gone to |
| `WaitObjectsRefine` | `Spec => ImplementsContract` |

* `CallShape`: a call is about an object that has not been deleted. It needs
  `Interrupters` for the deletion lock: who is tied to an object (`Tied`) is in a wait on
  it, and an interrupter has the lock, so `Destroy` has to wait for it.
* `MutexKept` and `FoundFree`: a thread past the loop still keeps `m_Mutex`, so
  `m_Count` is as it was when the loop looked. This is why the code may acquire at
  "finish" without another look.
* `OwnerHolds`: the owner, the recursion count, `m_Count` and what the callers have
  locked agree. It is the part `MutexHeld` comes from.
* `WaitersCounted`: `m_WaitingThreadCount` is the number of threads inside
  `pthread_cond_wait`, on the way in and out, so it never drops below zero.

`NoLostWakeup` needs three more parts (`WInv`). `TimeoutsLeave`: a thread that has timed out
is on its way out, so a thread that is woken can be relied on. `SetWakesAll`: nobody is
blocked on an event that is set, which is what allows the thread that comes to leave a
manual event without waking anybody. For mutexes and semaphores, the object becomes free
only with a signal (`CountRises`), and the thread that comes takes all of it, or signals for
the rest. An APC that throws out of the wait it has gone to breaks the chain (disagreement 3
above). `HasLastWakeup` says when: the object is free, another thread is blocked on it, and
no other comes for it. `SparingNext` leaves out this step and no other.

`WaitObjectsRefine` needs no such restriction: `WaitContract` promises how a call of Wait
ends, not that it does. One more part (`LimitsKept`) carries the arguments of a call to the
step that ends it: only an interruptible wait looks at APCs, only one with a limit times
out. `Acquire` is the step that succeeds; that it finds the object free is `FoundFree` and
`OwnerHolds`. Everything else a wait does is a stutter (`OtherStepsStutter`), and Post, Set,
Reset and the creation of an object are the contract's `Refill`.

### ThreadLocalValueProofs

For any threads, objects and number of keys:

| Theorem | States |
|---|---|
| `Types` | `Spec => []TypeOK`, however the operations overlap |
| `ValuesAreKept` | `Spec /\ []KeysApart => []ValueIsKept` |
| `CountsCoverUses` | `Spec /\ []KeysApart => []CountCoversUses` |

`KeysApart`, no two threads inside an operation on the same sound key, is what the code
would have to guarantee and does not (disagreement 4). It is less than what the run has:
operations on different keys may overlap as they like, and so may two searches for a free
key, or operations on a key that an object has from a full table. `CountsCover` is the
centre of the invariant `TInv`: the count of a sound key is above the number of slots in use
(`Uses`), or the key is free and unused; the one more is for the object itself.
`CallsPlaced` says what an operation may rely on from one of its steps to the next
(`Relies`): what it loaded is still the count, what it tested still holds. A key that has
become a stray is given up by all of it, as `strays` only grows.

### ManagedThreadsProofs

For any threads, foreign or not, any number of thread statics, and either build (`net40`):

| Theorem | States |
|---|---|
| `ThreadTypes` | `Spec => []TypeOK` |
| `RequestsReach` | `Spec => []RequestsPending` |
| `StaticsComplete` | `Spec => []ThreadStatics` |
| `ShutdownIsLast` | `Spec => []NothingRunsAfterShutdown` |

`OnTheList` ties the list of attached threads to where a thread stands, and
`Awaited` says that while shutdown joins, each of them is on one of its three lists;
so when these are empty there is none. `StaticsAdjusted` is the gap between
`AdjustStaticData` and the program's code, in which a new static may be allocated.
`RequestsKept` extends `RequestsPending` to the thread before it gets to that code, and to the
start that throws an abort away.

### ClassInitProofs

For any threads, classes and uses of classes by constructors, also in circles:

| Theorem | States |
|---|---|
| `ClassInitTypes` | `Spec => []TypeOK` |
| `ConstructorsRunOnce` | `Spec => []RunsOnce` |
| `NoEarlyUse` | `Spec => []UsesAreInitialized` |

`StackShape`: below the top of a thread's stack every call is running a constructor.
`FieldsOfFrames`: `cctor_started`, `cctor_finished` and `cctor_thread` say what the frames
do, including the gap between the last two assignments of `ClassInit`. `ThreadRuns`: the
thread in `cctor_thread` does run the constructor, or was killed in it, so a recursive use
may return. `OncePerStack`: no stack runs a constructor twice. The steps that only move a
call share one lemma (`MovesKeep`).

### FinalizerProofs

For any objects, waiters and maximum of the semaphore:

| Theorem | States |
|---|---|
| `FinalizerTypes` | `Spec => []TypeOK` |
| `WrapperLife` | `Spec => []CacheMatchesCallback` |
| `FinalizersObey` | `Spec => []FinalizedAsRegistered` |

`HandedOverOnce`: what the collector has handed over has no callback left with it.
`NothingOfTheDead`: nothing refers to an object that has been freed, so its place may be
used for a new one. `Finalizing`: nobody else knows an object whose wrapper is being
cleaned up. The two theorems are parts of the invariant and need each other.

### AsyncCallsProofs

For any calls, nested in any way, any threads and limits of the pool, any requests,
sockets and size of a poll, from `PoolAssumption` (the calls and threads are finitely many)
and `PollingAssumption`:

| Theorem | States |
|---|---|
| `PoolTypes` | `Spec => []PoolTypeOK` |
| `CallsAreAttended` | `Spec => []QueueAttended` |
| `AnswersHold` | `Spec => []AnswersAreFinal` |
| `RequestsAreKept` | `PollSpec => []RequestsPlaced` |
| `BothHaveTypes` | `MCSpec => []TypeOK`, for the two programs together |

`PoolInv`: `numIdleThreads` lies between the number of threads that wait and that number
with the aborted ones (`IdleCounted`), which is as much as the code keeps; a thread is
started for a call that has been dispatched (`SpawnsCounted`), so there are never more than
calls. `Attended` is `QueueAttended` with a second way out for a call that has been pushed
but not dispatched (`HeadPending`): if the decision in `Push` was not to force a new thread,
some thread was waiting, as `numIdleThreads` was not below the length of the queue, or the
count is wrong. The hard steps are those of a thread that stops looking: one that goes to
wait has found the queue empty, and one that leaves is not the last, or leaves a queue that
is empty. `AnswersReady` ties the message, the handle and the state of a call together and
gives `AnswersHold`: EndInvoke returns only after the delegate, with what the delegate left
if there is no callback. No run checks that by itself.

`RequestsPlaced`, of the sockets: a request that was made is in the queue of the polling
thread, in its list, or forwarded, in one of them and once. No run checks it by
itself; `ReadyIsForwarded` of the run says that what is ready also gets through.

### Only model-checked

* Liveness, which is out of TLAPS's reach together with `ENABLED`: `LockIsTaken`,
  `FlushEnds`, `TimedWaitRunsAPCs`, `FreeObjectIsTaken`, `CallsReturn`, `EveryoneComesBack`,
  `HandedOverIsTaken`, `ShutdownEnds`, `EndInvokeReturns`, `ReadyIsForwarded`.
* `AcquiredIsInstalled`, which the code violates.

Every safety property and every refinement of a passing run is stated by a theorem, for the
constants of that run and all others that meet the hypotheses listed here.

## 5. Plan

Built: (1) monitors with contract and proofs, (2) wait objects and APCs,
(3) thread-local values, (4) managed threads, (5) type initialisation, (6) finalizers,
(7) the 2.0 thread pool with socket polling; and the proofs of every safety property
and refinement that a run checks. Next, in this order:

1. The 4.x thread pool: parked workers, the counters in one word, the monitor thread.
2. `os/Handle.cpp`: WaitAny and WaitAll over `WaitContract`.
3. `utils/ThreadSafeFreeList.h`: the stack with a version tag, as an implementation of the
   sets that `Monitor` uses for its free lists; then `gc/GCHandle.cpp`.
4. Proofs: the safety facts that the liveness properties rest on (what a thread that waits can
   count on), and `WaitReturns` as an exact description of what an interrupt may break.

The number of runs stays at a dozen: a module that is added shares a run, as
`SocketPolling` shares that of `ThreadPool`.

## 6. Not modelled

* `os/Thread.cpp` Shutdown, and the creation of threads: calls of the system, and the
  disagreement 8 above.
* `os/Handle.cpp`, WaitAny and WaitAll: loops of polls with one wait object at a time.
  What can go wrong (WaitAll keeps the signals it has consumed when it times out) is
  a property of its first line.
* `vm/ThreadPool.cpp` SetConfiguration (it wakes every thread, once), a repeated
  EndInvoke (which throws), the socket I/O of a work item.
* The 4.x thread pool, `ThreadPoolMs.cpp` and `mono/ThreadPool`: a second pool with the
  same purpose for the other class library profile.
* `PSP2/sys/poll.cpp`: not used by the polling thread.
* Lock-free lists (`utils/ThreadSafeFreeList.h`), GC handles, runtime callable wrappers:
  see the plan and `PROJECT.json`.
* Metadata, reflection, marshalling, strings, generated tables, vendored libraries, the
  editor extension and `MapFileParser`: large data and little control, sequential tools, or
  not this project's code.
