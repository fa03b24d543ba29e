------------------------------ MODULE ClassInit ------------------------------
(***************************************************************************)
(* vm/Runtime.cpp: Runtime::ClassInit, which runs the static constructor   *)
(* of a class before the first use of the class.                           *)
(*                                                                         *)
(* A thread has a stack of calls, because a static constructor uses other  *)
(* classes, whose constructors then run inside it.  What is done under     *)
(* s_TypeInitializationLock is one step: nobody reads the fields it writes *)
(* without having taken the lock after it, but for cctor_finished, which   *)
(* is not written there.                                                   *)
(***************************************************************************)
EXTENDS Naturals, Sequences

CONSTANTS
  Threads,    \* the identifiers of the threads
  Classes,    \* the classes that have a static constructor
  NoThread    \* the value 0 of cctor_thread

ASSUME ClassInitAssumption == NoThread \notin Threads

VARIABLES
  uses,            \* the program: the other classes a constructor may use
  cctor_started,   \* the classes whose constructor has been started
  cctor_finished,  \* and those whose constructor has ended
  cctor_thread,    \* the thread that runs the constructor of a class
  stack,           \* the calls of ClassInit a thread is in, innermost last
  killed           \* threads that an abort at shutdown has unwound

vars == <<uses, cctor_started, cctor_finished, cctor_thread, stack, killed>>

Places == {"call", "lock", "other", "sleep", "run", "clear", "return"}

Frame == [klass : Classes, place : Places, todo : SUBSET Classes]

-----------------------------------------------------------------------------
Top(t) == stack[t][Len(stack[t])]
At(t, place) == stack[t] # <<>> /\ Top(t).place = place

Goto(t, place) == stack' = [stack EXCEPT ![t][Len(stack[t])].place = place]
Pop(t) == stack' = [stack EXCEPT ![t] = SubSeq(@, 1, Len(@) - 1)]

NewFrame(k) == [klass |-> k, place |-> "call", todo |-> uses[k] \union {k}]

Init ==
  /\ uses \in [Classes -> SUBSET Classes]
  /\ \A k \in Classes : k \notin uses[k]
  /\ cctor_started = {}
  /\ cctor_finished = {}
  /\ cctor_thread = [k \in Classes |-> NoThread]
  /\ stack = [t \in Threads |-> <<>>]
  /\ killed = {}

-----------------------------------------------------------------------------
\* A thread outside every static constructor uses class k.
Call(t, k) ==
  /\ t \notin killed
  /\ stack[t] = <<>>
  /\ stack' = [stack EXCEPT ![t] = <<NewFrame(k)>>]
  /\ UNCHANGED <<uses, cctor_started, cctor_finished, cctor_thread, killed>>

\* The static constructor that is running uses class k, maybe its own.
NestedCall(t, k) ==
  /\ At(t, "run")
  /\ k \in Top(t).todo
  /\ stack' = [stack EXCEPT ![t] =
                 Append([stack[t] EXCEPT ![Len(stack[t])].todo = @ \ {k}], NewFrame(k))]
  /\ UNCHANGED <<uses, cctor_started, cctor_finished, cctor_thread, killed>>

\* The look at cctor_finished without the lock.
CheckFinished(t) ==
  /\ At(t, "call")
  /\ Goto(t, IF Top(t).klass \in cctor_finished THEN "return" ELSE "lock")
  /\ UNCHANGED <<uses, cctor_started, cctor_finished, cctor_thread, killed>>

\* With s_TypeInitializationLock: another thread has finished meanwhile;
FindFinished(t) ==
  /\ Top(t).klass \in cctor_finished
  /\ Goto(t, "return")
  /\ UNCHANGED <<cctor_started, cctor_thread>>

\* another thread has started, or this one further up its stack;
FindStarted(t) ==
  /\ Top(t).klass \in cctor_started \ cctor_finished
  /\ Goto(t, "other")
  /\ UNCHANGED <<cctor_started, cctor_thread>>

\* Mutant: the flag cctor_started is not looked at.
StartUnchecked(t) ==
  /\ Top(t).klass \notin cctor_finished
  /\ cctor_thread' = [cctor_thread EXCEPT ![Top(t).klass] = t]
  /\ cctor_started' = cctor_started \union {Top(t).klass}
  /\ Goto(t, "run")

\* Mutant: nor is it set.
StartUnmarked(t) ==
  /\ Top(t).klass \notin cctor_started
  /\ cctor_thread' = [cctor_thread EXCEPT ![Top(t).klass] = t]
  /\ Goto(t, "run")
  /\ UNCHANGED cctor_started

\* or the class is this thread's to initialize.
Start(t) ==
  /\ Top(t).klass \notin cctor_started \union cctor_finished
  /\ cctor_thread' = [cctor_thread EXCEPT ![Top(t).klass] = t]
  /\ cctor_started' = cctor_started \union {Top(t).klass}
  /\ Goto(t, "run")

LockAndDecide(t) ==
  /\ At(t, "lock")
  /\ FindFinished(t) \/ FindStarted(t) \/ Start(t)
  /\ UNCHANGED <<uses, cctor_finished, killed>>

\* Mutant: whoever finds the constructor started goes on.
CompareNothing(t) ==
  /\ At(t, "other")
  /\ Goto(t, "return")
  /\ UNCHANGED <<uses, cctor_started, cctor_finished, cctor_thread, killed>>

\* Mutant: whoever finds the constructor started waits.
CompareLate(t) ==
  /\ At(t, "other")
  /\ Goto(t, "sleep")
  /\ UNCHANGED <<uses, cctor_started, cctor_finished, cctor_thread, killed>>

\* The constructor has been started: by this thread, which goes on and uses
\* the class as it is, or by another one, which it waits for.
CompareThread(t) ==
  /\ At(t, "other")
  /\ Goto(t, IF cctor_thread[Top(t).klass] = t THEN "return" ELSE "sleep")
  /\ UNCHANGED <<uses, cctor_started, cctor_finished, cctor_thread, killed>>

\* The loop of Sleep(1), which no APC can interrupt.
WakeUp(t) ==
  /\ At(t, "sleep")
  /\ Top(t).klass \in cctor_finished
  /\ Goto(t, "return")
  /\ UNCHANGED <<uses, cctor_started, cctor_finished, cctor_thread, killed>>

\* Mutant: an exception of the constructor leaves ClassInit at once.
FinishUnlessThrown(t) ==
  /\ At(t, "run")
  /\ \/ /\ cctor_finished' = cctor_finished \union {Top(t).klass}
        /\ Goto(t, "clear")
     \/ Pop(t) /\ UNCHANGED cctor_finished
  /\ UNCHANGED <<uses, cctor_started, cctor_thread, killed>>

\* Invoke has returned, with or without an exception.
Finish(t) ==
  /\ At(t, "run")
  /\ cctor_finished' = cctor_finished \union {Top(t).klass}
  /\ Goto(t, "clear")
  /\ UNCHANGED <<uses, cctor_started, cctor_thread, killed>>

\* The thread is forgotten; an exception of the constructor goes on as a
\* TypeInitializationException, so that the caller does not get to use the class.
ClearThread(t) ==
  /\ At(t, "clear")
  /\ cctor_thread' = [cctor_thread EXCEPT ![Top(t).klass] = NoThread]
  /\ \/ Goto(t, "return")
     \/ Pop(t)
  /\ UNCHANGED <<uses, cctor_started, cctor_finished, killed>>

\* ClassInit has returned and the caller uses the class.
Return(t) ==
  /\ At(t, "return")
  /\ Pop(t)
  /\ UNCHANGED <<uses, cctor_started, cctor_finished, cctor_thread, killed>>

\* A wait inside the constructor throws NativeThreadAbortException, which
\* Runtime::Invoke does not catch: it unwinds every call, and the thread ends.
Kill(t) ==
  /\ At(t, "run")
  /\ stack' = [stack EXCEPT ![t] = <<>>]
  /\ killed' = killed \union {t}
  /\ UNCHANGED <<uses, cctor_started, cctor_finished, cctor_thread>>

Step(t) ==
  \/ \E k \in Classes : NestedCall(t, k)
  \/ CheckFinished(t)
  \/ LockAndDecide(t)
  \/ CompareThread(t)
  \/ WakeUp(t)
  \/ Finish(t)
  \/ ClearThread(t)
  \/ Return(t)

Next ==
  \E t \in Threads :
    \/ \E k \in Classes : Call(t, k)
    \/ Step(t)
    \/ Kill(t)

Spec == Init /\ [][Next]_vars

\* No step inside ClassInit blocks but the sleep, and a constructor ends.
FairSpec == Spec /\ \A t \in Threads : WF_vars(Step(t))

-----------------------------------------------------------------------------
\* The variables have their types; a constructor that has ended was started.
TypeOK ==
  /\ uses \in [Classes -> SUBSET Classes]
  /\ cctor_started \subseteq Classes
  /\ cctor_finished \subseteq cctor_started
  /\ cctor_thread \in [Classes -> Threads \union {NoThread}]
  /\ stack \in [Threads -> Seq(Frame)]
  /\ killed \subseteq Threads

Runs(t, i, k) ==
  /\ i \in DOMAIN stack[t]
  /\ stack[t][i].klass = k
  /\ stack[t][i].place = "run"

\* A static constructor runs at most once: there are never two runs of it at
\* a time, in two threads or nested in one, and none once it has ended.
RunsOnce ==
  \A k \in Classes, t, u \in Threads :
    \A i \in DOMAIN stack[t], j \in DOMAIN stack[u] :
      Runs(t, i, k) =>
        /\ k \notin cctor_finished
        /\ Runs(u, j, k) => t = u /\ i = j

\* Nobody uses a class whose constructor has not ended, but for the thread
\* that is running it: ClassInit returns to it from a recursive use.
UsesAreInitialized ==
  \A t \in Threads : \A i \in DOMAIN stack[t] :
    stack[t][i].place = "return" =>
      \/ stack[t][i].klass \in cctor_finished
      \/ \E j \in 1..(i - 1) : Runs(t, j, stack[t][i].klass)

Cyclic(edges, nodes) ==
  \E S \in SUBSET nodes : S # {} /\ \A n \in S : edges[n] \intersect S # {}

\* Every call of ClassInit comes back, unless the constructors use each other
\* in a circle or a thread has been killed inside one.
CallsReturn ==
  \A t \in Threads :
    stack[t] # <<>> ~>
      \/ stack[t] = <<>>
      \/ killed # {}
      \/ Cyclic(uses, Classes)

=============================================================================
