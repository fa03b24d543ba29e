------------------------ MODULE ManagedThreadsProofs ------------------------
(***************************************************************************)
(* Proofs about ManagedThreads, for any set of threads, managed or not,    *)
(* and any number of thread statics: the requests that are pending, the    *)
(* thread statics of a thread, and what shutdown leaves running.           *)
(***************************************************************************)
EXTENDS ManagedThreads, TLAPS

-----------------------------------------------------------------------------
(* The inductive invariant *)

\* Between Register and Unregister.
AttachedPlaces == {"registered", "adjusted", "user", "stopped"} \cup Waiting \cup Callbacks

\* The list has the threads between Register and Unregister, until it is cleared.
OnTheList ==
    \A t \in Threads :
      /\ t \in attached => place[t] \in AttachedPlaces
      /\ place[t] \in AttachedPlaces => t \in attached \/ shutdown = "done"

\* While shutdown joins, every thread that has not unregistered is on one of its
\* lists; then there is none.
Awaited ==
    \A t \in Threads :
      place[t] \in AttachedPlaces =>
        /\ shutdown # "done"
        /\ shutdown = "classify" =>
             \/ t \in copy \cup foreground
             \/ \E i \in DOMAIN background : background[i] = t

\* The statics of a thread are complete from AdjustStaticData on.
StaticsAdjusted ==
    \A t \in Threads : place[t] = "adjusted" => slots[t] = 1 .. sizes

\* An abort is pending before the thread gets to its code, too, unless the start
\* threw it away; and only a thread that has not started can be marked as aborted
\* without having ended.
RequestsKept ==
    \A t \in Threads :
      /\ "AbortRequested" \in state[t] =>
           /\ place[t] = "new" => net40 /\ "abort" \in apcs[t]
           /\ place[t] \in {"created", "registered", "adjusted"} =>
                "abort" \in apcs[t] \/ (net40 /\ t \in discarded)
      /\ "Aborted" \in state[t] =>
           \/ place[t] \in {"stopped", "unregistered", "freed", "exited", "detached"}
           \/ place[t] = "new" /\ t \notin Foreign

IInv ==
    /\ TypeOK
    /\ OnTheList
    /\ Awaited
    /\ StaticsAdjusted
    /\ ThreadStatics
    /\ RequestsKept
    /\ RequestsPending

-----------------------------------------------------------------------------
(* What most steps have in common *)

\* The steps of a thread inside the program's code, and the requests made of it.
UserStep(t) ==
    \/ BeginWait(t) \/ Program(t) \/ Block(t) \/ CheckForAbort(t)
    \/ CheckForInterrupt(t) \/ EndWait(t)
    \/ \E callback \in Callbacks : RunAPC(t, callback)

Stays == (\E t \in Threads : UserStep(t) \/ Classify(t)) \/ JoinBackground

\* They leave a thread inside or outside of that code, and so do the APCs that
\* shutdown queues; lists and thread statics are left alone.
LEMMA UserStepsStay ==
    ASSUME TypeOK, Stays
    PROVE  /\ \A u \in Threads : place'[u] = place[u] \/ (InUserCode(u) /\ InUserCode(u)')
           /\ UNCHANGED <<attached, staticVars, shutdown>>
<1> DEFINE Stay ==
      /\ \A u \in Threads : place'[u] = place[u] \/ (InUserCode(u) /\ InUserCode(u)')
      /\ UNCHANGED <<attached, staticVars, shutdown>>
<1>1. ASSUME NEW t \in Threads,
             BeginWait(t) \/ EndWait(t) \/ CheckForAbort(t) \/ CheckForInterrupt(t)
      PROVE  Stay
  BY <1>1 DEF TypeOK, BeginWait, EndWait, CheckForAbort, CheckForInterrupt, Goto,
              InUserCode, Waiting, elsewhere, killVars
<1>2. ASSUME NEW t \in Threads, Program(t)
      PROVE  Stay
  BY <1>2 DEF TypeOK, Program, SetBackground, RequestInterrupt, RequestAbort, ResetAbort,
              QueueUserAPC, InUserCode, Waiting, elsewhere, killVars
<1>3. ASSUME NEW t \in Threads, Block(t) \/ \E callback \in Callbacks : RunAPC(t, callback)
      PROVE  Stay
  BY <1>3 DEF TypeOK, Block, RunAPC, Callbacks, Goto, InUserCode, Waiting, elsewhere, killVars
<1>4. ASSUME NEW t \in Threads, Classify(t)
      PROVE  Stay
  BY <1>4 DEF TypeOK, Classify, QueueUserAPC, InUserCode, Waiting
<1>5. CASE JoinBackground
  <2>1. background # <<>> => background[Len(background)] \in Threads
    BY DEF TypeOK
  <2> QED
    BY <1>5, <2>1 DEF TypeOK, JoinBackground, QueueUserAPC, InUserCode, Waiting
<1> QED
  BY <1>1, <1>2, <1>3, <1>4, <1>5 DEF UserStep, Stays

-----------------------------------------------------------------------------
(* Who is on the list of attached threads *)

\* A thread is on s_AttachedThreads exactly while it has a place in the code.
LEMMA OnTheListKept ==
    ASSUME IInv, Next
    PROVE  OnTheList'
<1> USE DEF IInv
<1>1. ASSUME Stays
      PROVE  OnTheList'
  BY <1>1, UserStepsStay DEF OnTheList, AttachedPlaces, InUserCode, Waiting, Callbacks
<1>2. ASSUME NEW t \in Threads, Begin(t), ~BeginWait(t)
      PROVE  OnTheList'
  BY <1>2 DEF OnTheList, AttachedPlaces, Waiting, Callbacks, TypeOK, Begin, ThreadInternal,
              Attach, Goto, elsewhere, killVars
<1>3. ASSUME NEW t \in Threads, Register(t) \/ Unregister(t)
      PROVE  OnTheList'
  BY <1>3 DEF OnTheList, AttachedPlaces, Waiting, Callbacks, TypeOK, Register, Unregister,
              Goto, BlockNewThreads, killVars
<1>4. ASSUME NEW t \in Threads, AdjustStaticData(t) \/ Initialize(t) \/ Terminate(t) \/ Leave(t)
      PROVE  OnTheList'
  BY <1>4 DEF OnTheList, AttachedPlaces, Waiting, Callbacks, TypeOK, AdjustStaticData,
              Initialize, Terminate, Leave, Goto, elsewhere, killVars
<1>5. ASSUME NEW t \in Threads, FreeThreadStaticData(t) \/ Exit(t)
      PROVE  OnTheList'
  BY <1>5 DEF OnTheList, AttachedPlaces, Waiting, Callbacks, TypeOK, FreeThreadStaticData,
              Exit, Goto, elsewhere, killVars
<1>6. ASSUME AllocThreadStaticData \/ BlockAndCopy \/ \E t \in Threads : JoinForeground(t)
      PROVE  OnTheList'
  BY <1>6 DEF OnTheList, AttachedPlaces, AllocThreadStaticData, BlockAndCopy, JoinForeground,
              killVars, staticVars
<1>7. CASE ClearAttached
  BY <1>7 DEF OnTheList, AttachedPlaces, ClearAttached
<1> QED
  BY <1>1, <1>2, <1>3, <1>4, <1>5, <1>6, <1>7
     DEF Next, Begin, Runtime, KillAll, UserStep, Stays

-----------------------------------------------------------------------------
(* Whom shutdown waits for *)

\* The lists of shutdown only lose threads whose exit event is set.
LEMMA AwaitedKept ==
    ASSUME IInv, Next
    PROVE  Awaited'
<1> USE DEF IInv
<1>1. ASSUME NEW t \in Threads, UserStep(t)
      PROVE  Awaited'
  <2>1. UNCHANGED killVars
    BY <1>1 DEF UserStep, BeginWait, Program, SetBackground, RequestInterrupt, RequestAbort,
                ResetAbort, Block, CheckForAbort, CheckForInterrupt, EndWait, RunAPC, elsewhere
  <2> QED
    BY <1>1, <2>1, UserStepsStay
       DEF Stays, Awaited, AttachedPlaces, InUserCode, Waiting, Callbacks, killVars
<1>2. ASSUME NEW t \in Threads, Classify(t)
      PROVE  Awaited'
  <2>1. /\ \A i \in DOMAIN background : i \in DOMAIN background' /\ background'[i] = background[i]
        /\ copy' = copy \ {t}
        /\ foreground \subseteq foreground'
        /\ t \in foreground' \/ \E i \in DOMAIN background' : background'[i] = t
    <3>1. CASE "Background" \in state[t]
      <4>1. background' = Append(background, t) /\ background \in Seq(Threads)
        BY <1>2, <3>1 DEF TypeOK, Classify
      <4>2. /\ \A i \in DOMAIN background :
                 i \in DOMAIN background' /\ background'[i] = background[i]
            /\ Len(background) + 1 \in DOMAIN background'
            /\ background'[Len(background) + 1] = t
        BY <4>1
      <4> QED
        BY <1>2, <3>1, <4>2 DEF Classify
    <3>2. CASE "Background" \notin state[t]
      BY <1>2, <3>2 DEF Classify
    <3> QED
      BY <3>1, <3>2
  <2> QED
    BY <1>2, <2>1, UserStepsStay
       DEF Stays, Awaited, AttachedPlaces, InUserCode, Waiting, Callbacks
<1>3. CASE JoinBackground
  <2>1. /\ UNCHANGED <<copy, foreground>>
        /\ \A i \in DOMAIN background :
             \/ i \in DOMAIN background' /\ background'[i] = background[i]
             \/ place'[background[i]] = "exited"
    BY <1>3 DEF TypeOK, JoinBackground, ThreadExited
  <2> QED
    BY <1>3, <2>1, UserStepsStay
       DEF Stays, Awaited, AttachedPlaces, InUserCode, Waiting, Callbacks
<1>4. ASSUME NEW t \in Threads, Begin(t), ~BeginWait(t)
      PROVE  Awaited'
  BY <1>4 DEF Awaited, AttachedPlaces, Waiting, Callbacks, TypeOK, Begin, ThreadInternal,
              Attach, Goto, elsewhere, killVars
<1>5. ASSUME NEW t \in Threads, Register(t)
      PROVE  Awaited'
  BY <1>5 DEF Awaited, AttachedPlaces, Waiting, Callbacks, TypeOK, Register, Goto,
              BlockNewThreads, killVars
<1>6. ASSUME NEW t \in Threads, AdjustStaticData(t) \/ Initialize(t) \/ Terminate(t) \/ Leave(t)
      PROVE  Awaited'
  BY <1>6 DEF Awaited, AttachedPlaces, Waiting, Callbacks, TypeOK, AdjustStaticData,
              Initialize, Terminate, Leave, Goto, elsewhere, killVars
<1>7. ASSUME NEW t \in Threads, Unregister(t) \/ FreeThreadStaticData(t) \/ Exit(t)
      PROVE  Awaited'
  BY <1>7 DEF Awaited, AttachedPlaces, Waiting, Callbacks, TypeOK, Unregister,
              FreeThreadStaticData, Exit, Goto, elsewhere, killVars
<1>8. CASE AllocThreadStaticData
  BY <1>8 DEF Awaited, AttachedPlaces, AllocThreadStaticData, killVars
<1>9. CASE BlockAndCopy
  BY <1>9 DEF OnTheList, Awaited, AttachedPlaces, BlockAndCopy
<1>10. ASSUME NEW t \in Threads, JoinForeground(t)
       PROVE  Awaited'
  BY <1>10 DEF Awaited, AttachedPlaces, Waiting, Callbacks, JoinForeground, ThreadExited
<1>11. CASE ClearAttached
  BY <1>11 DEF Awaited, AttachedPlaces, ClearAttached
<1> QED
  BY <1>1, <1>2, <1>3, <1>4, <1>5, <1>6, <1>7, <1>8, <1>9, <1>10, <1>11
     DEF Next, Begin, Runtime, KillAll, UserStep

-----------------------------------------------------------------------------
(* Thread statics *)

\* AllocThreadStaticData gives a slot to every thread on the list, and nobody who
\* is not on the list has all slots.
LEMMA StaticsKept ==
    ASSUME IInv, Next
    PROVE  StaticsAdjusted' /\ ThreadStatics'
<1> USE DEF IInv, StaticsAdjusted, ThreadStatics
<1>1. CASE Stays
  BY <1>1, UserStepsStay DEF InUserCode, Waiting, staticVars
<1>2. ASSUME NEW t \in Threads, Begin(t), ~BeginWait(t)
      PROVE  StaticsAdjusted' /\ ThreadStatics'
  BY <1>2 DEF InUserCode, Waiting, TypeOK, Begin, ThreadInternal, Attach, Goto, elsewhere,
     staticVars
<1>3. ASSUME NEW t \in Threads, Register(t) \/ Unregister(t) \/ Terminate(t) \/ Leave(t)
      PROVE  StaticsAdjusted' /\ ThreadStatics'
  BY <1>3 DEF InUserCode, Waiting, TypeOK, Register, Unregister, Terminate, Leave,
              Goto, elsewhere, staticVars
<1>4. ASSUME NEW t \in Threads, AdjustStaticData(t) \/ Initialize(t)
      PROVE  StaticsAdjusted' /\ ThreadStatics'
  BY <1>4 DEF InUserCode, Waiting, TypeOK, AdjustStaticData, Initialize, Goto, elsewhere, staticVars
<1>5. ASSUME NEW t \in Threads, FreeThreadStaticData(t) \/ Exit(t)
      PROVE  StaticsAdjusted' /\ ThreadStatics'
  BY <1>5 DEF InUserCode, Waiting, TypeOK, FreeThreadStaticData, Exit, Goto, elsewhere, staticVars
<1>6. CASE AllocThreadStaticData
  <2>1. \A t \in Threads : place[t] = "adjusted" \/ InUserCode(t) => t \in attached
    BY DEF OnTheList, Awaited, AttachedPlaces, InUserCode, Callbacks
  <2>2. \A t \in Threads : place[t] \in {"freed", "exited", "detached"} => t \notin attached
    BY DEF OnTheList, AttachedPlaces, Waiting, Callbacks
  <2>3. (1 .. sizes) \cup {sizes + 1} = 1 .. sizes + 1
    BY DEF TypeOK
  <2>4. /\ sizes' = sizes + 1
        /\ UNCHANGED place
        /\ \A t \in Threads :
             slots'[t] = IF t \in attached THEN slots[t] \cup {sizes + 1} ELSE slots[t]
    BY <1>6 DEF AllocThreadStaticData
  <2> QED
    BY <2>1, <2>2, <2>3, <2>4 DEF InUserCode
<1>7. ASSUME BlockAndCopy \/ ClearAttached \/ \E t \in Threads : JoinForeground(t)
      PROVE  StaticsAdjusted' /\ ThreadStatics'
  BY <1>7 DEF InUserCode, BlockAndCopy, ClearAttached, JoinForeground, staticVars
<1> QED
  BY <1>1, <1>2, <1>3, <1>4, <1>5, <1>6, <1>7
     DEF Next, Begin, Runtime, KillAll, UserStep, Stays

-----------------------------------------------------------------------------
(* Requests *)

\* Shutdown and the program add to a queue; only its thread takes from it, and
\* only in a wait.
LEMMA PendingKept ==
    ASSUME IInv, Next
    PROVE  RequestsKept' /\ RequestsPending'
<1> USE DEF IInv, RequestsKept, RequestsPending, InUserCode, Waiting, startVars
<1>1. ASSUME NEW t \in Threads, ThreadInternal(t) \/ Attach(t) \/ Register(t) \/ AdjustStaticData(t)
      PROVE  RequestsKept' /\ RequestsPending'
  BY <1>1 DEF TypeOK, ThreadInternal, NewHandle, Attach, Register, AdjustStaticData, Goto,
              requestVars
<1>2. ASSUME NEW t \in Threads, Initialize(t)
      PROVE  RequestsKept' /\ RequestsPending'
  BY <1>2 DEF TypeOK, Initialize, Goto
<1>3. ASSUME NEW t \in Threads, SetBackground(t) \/ ResetAbort(t)
      PROVE  RequestsKept' /\ RequestsPending'
  BY <1>3 DEF TypeOK, SetBackground, ResetAbort, SetState, ClrState
<1>4. ASSUME NEW t \in Threads, RequestInterrupt(t)
      PROVE  RequestsKept' /\ RequestsPending'
  BY <1>4 DEF TypeOK, RequestInterrupt, HasHandle, QueueUserAPC
<1>5. ASSUME NEW t \in Threads, RequestAbort(t)
      PROVE  RequestsKept' /\ RequestsPending'
  BY <1>5 DEF TypeOK, RequestAbort, HasHandle, SetState, QueueUserAPC
<1>6. ASSUME NEW t \in Threads, BeginWait(t) \/ Block(t) \/ EndWait(t)
      PROVE  RequestsKept' /\ RequestsPending'
  BY <1>6 DEF TypeOK, BeginWait, Block, EndWait, Goto, SetState, ClrState, requestVars
<1>7. ASSUME NEW t \in Threads, NEW callback \in Callbacks, RunAPC(t, callback)
      PROVE  RequestsKept' /\ RequestsPending'
  BY <1>7 DEF TypeOK, Callbacks, RunAPC, Goto
<1>8. ASSUME NEW t \in Threads, CheckForAbort(t)
      PROVE  RequestsKept' /\ RequestsPending'
  BY <1>8 DEF TypeOK, CheckForAbort, Goto, ClrState
<1>9. ASSUME NEW t \in Threads, CheckForInterrupt(t)
      PROVE  RequestsKept' /\ RequestsPending'
  BY <1>9 DEF TypeOK, CheckForInterrupt, Goto, ClrState
<1>10. ASSUME NEW t \in Threads, Terminate(t) \/ Leave(t)
       PROVE  RequestsKept' /\ RequestsPending'
  BY <1>10 DEF TypeOK, Terminate, Leave, Goto, SetState
<1>11. ASSUME NEW t \in Threads, Unregister(t) \/ FreeThreadStaticData(t) \/ Exit(t)
       PROVE  RequestsKept' /\ RequestsPending'
  BY <1>11 DEF TypeOK, Unregister, FreeThreadStaticData, Exit, Goto, requestVars
<1>12. ASSUME NEW t \in Threads, Classify(t)
       PROVE  RequestsKept' /\ RequestsPending'
  BY <1>12 DEF TypeOK, Classify, QueueUserAPC
<1>13. CASE JoinBackground
  BY <1>13 DEF TypeOK, JoinBackground, QueueUserAPC
<1>14. ASSUME \/ AllocThreadStaticData \/ BlockAndCopy \/ ClearAttached
              \/ \E t \in Threads : JoinForeground(t)
       PROVE  RequestsKept' /\ RequestsPending'
  BY <1>14 DEF AllocThreadStaticData, BlockAndCopy, ClearAttached, JoinForeground, requestVars
<1> QED
  BY <1>1, <1>2, <1>3, <1>4, <1>5, <1>6, <1>7, <1>8, <1>9, <1>10, <1>11, <1>12, <1>13, <1>14
     DEF Next, Begin, Program, Runtime, KillAll

-----------------------------------------------------------------------------
(* Types *)

\* Taking the last element off a sequence leaves a sequence.
LEMMA FrontType ==
    ASSUME NEW S, NEW s \in Seq(S), s # <<>>
    PROVE  SubSeq(s, 1, Len(s) - 1) \in Seq(S)
  OBVIOUS

\* No step takes a variable out of its type.
LEMMA TypesKept ==
    ASSUME IInv, Next
    PROVE  TypeOK'
<1> USE DEF IInv, TypeOK, startVars
<1>1. ASSUME NEW t \in Threads,
             ThreadInternal(t) \/ Attach(t) \/ Register(t) \/ Block(t) \/ Exit(t)
      PROVE  TypeOK'
  BY <1>1 DEF ThreadInternal, NewHandle, Attach, Register, Block, Exit, Goto, Places, Waiting,
              requestVars, elsewhere, staticVars, killVars
<1>2. ASSUME NEW t \in Threads, AdjustStaticData(t) \/ FreeThreadStaticData(t) \/ Unregister(t)
      PROVE  TypeOK'
  <2>1. CASE AdjustStaticData(t)
    <3>1. 1 .. sizes \in SUBSET (1 .. MaxSlots)
      BY ThreadAssumption
    <3> QED
      BY <2>1, <3>1 DEF AdjustStaticData, Goto, Places, requestVars, killVars
  <2>2. CASE FreeThreadStaticData(t)
    BY <2>2 DEF FreeThreadStaticData, Goto, Places, requestVars, killVars
  <2>3. CASE Unregister(t)
    BY <2>3 DEF Unregister, Goto, Places, requestVars, staticVars, killVars
  <2> QED
    BY <1>2, <2>1, <2>2, <2>3
<1>3. ASSUME NEW t \in Threads, Initialize(t)
      PROVE  TypeOK'
  BY <1>3 DEF Initialize, Goto, Places, Callbacks, elsewhere, staticVars, killVars
<1>4. ASSUME NEW t \in Threads, Program(t)
      PROVE  TypeOK'
  <2>1. CASE SetBackground(t) \/ ResetAbort(t)
    <3>1. UNCHANGED <<place, interruptionRequested, apcs, sleeping, swallowed,
        startVars, elsewhere>>
      BY <2>1 DEF SetBackground, ResetAbort
    <3>2. state' \in [Threads -> SUBSET Flags]
      BY <2>1 DEF SetBackground, ResetAbort, SetState, ClrState, Flags
    <3> QED
      BY <3>1, <3>2 DEF elsewhere, staticVars, killVars
  <2>2. CASE RequestInterrupt(t)
    BY <2>2 DEF RequestInterrupt, QueueUserAPC, Places, Waiting, Callbacks,
                elsewhere, staticVars, killVars
  <2>3. CASE RequestAbort(t)
    <3>1. UNCHANGED <<interruptionRequested, sleeping, swallowed, startVars, elsewhere>>
      BY <2>3 DEF RequestAbort
    <3>2. state' \in [Threads -> SUBSET Flags]
      BY <2>3 DEF RequestAbort, SetState, Flags
    <3>3. place' \in [Threads -> Places] /\ apcs' \in [Threads -> SUBSET Callbacks]
      BY <2>3 DEF RequestAbort, QueueUserAPC, Places, Waiting, Callbacks
    <3> QED
      BY <3>1, <3>2, <3>3 DEF elsewhere, staticVars, killVars
  <2> QED
    BY <1>4, <2>1, <2>2, <2>3 DEF Program
<1>5. ASSUME NEW t \in Threads, BeginWait(t) \/ EndWait(t)
      PROVE  TypeOK'
  <2>1. place' \in [Threads -> Places]
    BY <1>5 DEF BeginWait, EndWait, Goto, Places, Waiting, Callbacks
  <2>2. state' \in [Threads -> SUBSET Flags] /\ sleeping' \subseteq Threads
    BY <1>5 DEF BeginWait, EndWait, SetState, ClrState, Flags
  <2>3. UNCHANGED <<interruptionRequested, apcs, swallowed, startVars, elsewhere>>
    BY <1>5 DEF BeginWait, EndWait
  <2> QED
    BY <2>1, <2>2, <2>3 DEF elsewhere, staticVars, killVars
<1>6. ASSUME NEW t \in Threads, NEW callback \in Callbacks, RunAPC(t, callback)
      PROVE  TypeOK'
  BY <1>6 DEF RunAPC, Goto, Places, elsewhere, staticVars, killVars
<1>7. ASSUME NEW t \in Threads, CheckForAbort(t) \/ CheckForInterrupt(t)
      PROVE  TypeOK'
  <2>1. place' \in [Threads -> Places] /\ UNCHANGED <<apcs, startVars, elsewhere>>
    BY <1>7 DEF CheckForAbort, CheckForInterrupt, Goto, Places, Waiting
  <2>2. state' \in [Threads -> SUBSET Flags]
    BY <1>7 DEF CheckForAbort, CheckForInterrupt, ClrState
  <2>3. /\ interruptionRequested' \in [Threads -> BOOLEAN]
        /\ swallowed' \in [Threads -> BOOLEAN]
        /\ sleeping' \subseteq Threads
    BY <1>7 DEF CheckForAbort, CheckForInterrupt
  <2> QED
    BY <2>1, <2>2, <2>3 DEF elsewhere, staticVars, killVars
<1>8. ASSUME NEW t \in Threads, Terminate(t) \/ Leave(t)
      PROVE  TypeOK'
  BY <1>8 DEF Terminate, Leave, Goto, SetState, Places, Flags, elsewhere, staticVars, killVars
<1>9. ASSUME NEW t \in Threads, Classify(t)
      PROVE  TypeOK'
  <2>1. background' \in Seq(Threads)
    <3>1. background' = background \/ background' = Append(background, t)
      BY <1>9 DEF Classify
    <3>2. Append(background, t) \in Seq(Threads)
      OBVIOUS
    <3> QED
      BY <3>1, <3>2
  <2>2. place' \in [Threads -> Places] /\ apcs' \in [Threads -> SUBSET Callbacks]
    BY <1>9 DEF Classify, QueueUserAPC, Places, Waiting, Callbacks
  <2> QED
    BY <1>9, <2>1, <2>2 DEF Classify, staticVars
<1>10. CASE JoinBackground
  <2>1. PICK t \in Threads : t = background[Len(background)]
    BY <1>10 DEF JoinBackground
  <2>2. background' \in Seq(Threads)
    BY <1>10, FrontType DEF JoinBackground
  <2>3. place' \in [Threads -> Places] /\ apcs' \in [Threads -> SUBSET Callbacks]
    BY <1>10, <2>1 DEF JoinBackground, QueueUserAPC, Places, Waiting, Callbacks
  <2> QED
    BY <1>10, <2>2, <2>3 DEF JoinBackground, staticVars
<1>11. CASE AllocThreadStaticData
  BY <1>11, ThreadAssumption DEF AllocThreadStaticData, requestVars, killVars
<1>12. ASSUME BlockAndCopy \/ ClearAttached \/ \E t \in Threads : JoinForeground(t)
       PROVE  TypeOK'
  BY <1>12 DEF BlockAndCopy, ClearAttached, JoinForeground, requestVars, staticVars
<1> QED
  BY <1>1, <1>2, <1>3, <1>4, <1>5, <1>6, <1>7, <1>8, <1>9, <1>10, <1>11, <1>12
     DEF Next, Begin, Runtime, KillAll

-----------------------------------------------------------------------------
(* The theorems *)

\* The invariant holds at the start and is kept by every step.
LEMMA Inductive ==
    /\ Init => IInv
    /\ IInv /\ [Next]_vars => IInv'
<1>1. Init => IInv
  <2> SUFFICES ASSUME Init PROVE IInv
    OBVIOUS
  <2>1. TypeOK
    BY ThreadAssumption DEF Init, TypeOK, Places
  <2>2. OnTheList /\ Awaited /\ StaticsAdjusted /\ ThreadStatics
    BY DEF Init, OnTheList, Awaited, StaticsAdjusted, ThreadStatics, AttachedPlaces,
           InUserCode, Waiting, Callbacks
  <2>3. RequestsKept /\ RequestsPending
    BY DEF Init, RequestsKept, RequestsPending
  <2> QED
    BY <2>1, <2>2, <2>3 DEF IInv
<1>2. IInv /\ Next => IInv'
  BY TypesKept, OnTheListKept, AwaitedKept, StaticsKept, PendingKept DEF IInv
<1>3. IInv /\ UNCHANGED vars => IInv'
  BY DEF IInv, vars, requestVars, startVars, elsewhere, staticVars, killVars,
      TypeOK, OnTheList, Awaited,
         StaticsAdjusted, ThreadStatics, RequestsKept, RequestsPending, InUserCode
<1> QED
  BY <1>1, <1>2, <1>3

\* The fields of vm/Thread.cpp keep their types; among others, no thread has
\* more thread statics than have been allocated.
THEOREM ThreadTypes == Spec => []TypeOK
<1>1. IInv => TypeOK
  BY DEF IInv
<1> QED
  BY Inductive, <1>1, PTL DEF Spec

\* RequestAbort and RequestInterrupt reach a thread, before or after its start:
\* as long as the request stands, the APC that looks at it is to come.  The one
\* request that is lost is an abort before the start, in a build with NET_4_0.
THEOREM RequestsReach == Spec => []RequestsPending
<1>1. IInv => RequestsPending
  BY DEF IInv
<1> QED
  BY Inductive, <1>1, PTL DEF Spec

\* AdjustStaticData and AllocThreadStaticData leave no gap: a thread in the
\* program's code has all thread statics, and one that is gone has none.
THEOREM StaticsComplete == Spec => []ThreadStatics
<1>1. IInv => ThreadStatics
  BY DEF IInv
<1> QED
  BY Inductive, <1>1, PTL DEF Spec

\* KillAllBackgroundThreadsAndWaitForForegroundThreads returns when every thread
\* has unregistered that had been registered.
THEOREM ShutdownIsLast == Spec => []NothingRunsAfterShutdown
<1>1. IInv => NothingRunsAfterShutdown
  BY DEF IInv, TypeOK, Awaited, NothingRunsAfterShutdown, Places, AttachedPlaces
<1> QED
  BY Inductive, <1>1, PTL DEF Spec

=============================================================================
