---------------------------- MODULE MonitorProofs ----------------------------
(***************************************************************************)
(* Proofs about Monitor, for any number of threads, objects, monitors and  *)
(* nodes: type correctness, where every monitor is, and who may let go of  *)
(* one.                                                                    *)
(***************************************************************************)
EXTENDS Monitor, FiniteSetTheorems, TLAPS

-----------------------------------------------------------------------------
(* The inductive invariant *)

\* Where a thread has a monitor in its local variable.
WithLocal == PCs \ {"idle", "read", "alloc", "pulseWait", "restore"}

\* A call is about an object, and has read a monitor where it uses one.
CallShape ==
    \A t \in Threads :
        /\ pc[t] # "idle" => object[t] \in Objects
        /\ pc[t] \in WithLocal => local[t] \in Monitors

ReadyOn(m) == {t \in Threads : Ready(t) /\ local[t] = m}

\* The waiting count of a monitor is the number of threads on its ready list.
WaitersCounted ==
    \A m \in Monitors : numWaiting[m] = Cardinality(ReadyOn(m))

\* Where a thread has not let go of the monitor it owns.
OwnerSteps ==
    \A t \in Threads :
        /\ pc[t] \in {"decide", "handoff", "unlock", "deflate"} =>
             owner[local[t]] = t /\ monitor[object[t]] = local[t]
        /\ pc[t] \in {"check", "leave"} =>
             owner[local[t]] = t /\ Installed(local[t])

IInv ==
    /\ TypeOK
    /\ CallShape
    /\ WaitersCounted
    /\ OwnerSteps
    /\ MonitorAccounting
    /\ PinnedWhileReady

-----------------------------------------------------------------------------
(* Type correctness *)

\* Counting up stays within the naturals, counting down within a bound.
LEMMA CountUp ==
    ASSUME NEW S, NEW f \in [S -> Nat], NEW x \in S
    PROVE  [f EXCEPT ![x] = @ + 1] \in [S -> Nat]
<1>1. f[x] + 1 \in Nat
  OBVIOUS
<1>2. QED
  BY <1>1

\* Counting down a number that is not zero stays within the naturals.
LEMMA CountDown ==
    ASSUME NEW S, NEW n \in Nat, NEW f \in [S -> 0 .. n], NEW x \in S, f[x] > 0
    PROVE  [f EXCEPT ![x] = @ - 1] \in [S -> 0 .. n]
<1>1. f[x] - 1 \in 0 .. n
  OBVIOUS
<1>2. QED
  BY <1>1

\* What the steps that end a call of TryEnter or Exit assign.
FrameOK ==
    /\ pc \in [Threads -> PCs]
    /\ object \in [Threads -> Objects \cup {NULL}]
    /\ local \in [Threads -> Monitors \cup {NULL}]
    /\ timeout \in [Threads -> Timeouts]
    /\ depth \in [Threads -> [Objects -> Nat]]

\* The ways out of TryEnter and Exit keep the types of a thread's variables.
LEMMA ReturnTypes ==
    ASSUME TypeOK, NEW t \in Threads, object[t] \in Objects
    PROVE  /\ ReturnLocked(t) => FrameOK'
           /\ ReturnTimedOut(t) => FrameOK'
           /\ Retry(t) => FrameOK'
           /\ ReturnUnlocked(t) /\ UNCHANGED depth => FrameOK'
<1> USE DEF TypeOK, FrameOK, PCs, Timeouts, Goto, EndCall, callVars
<1>1. ASSUME depth' = [depth EXCEPT ![t][object[t]] = @ + 1]
      PROVE  depth' \in [Threads -> [Objects -> Nat]]
  <2>1. [depth[t] EXCEPT ![object[t]] = depth[t][object[t]] + 1] \in [Objects -> Nat]
    BY CountUp
  <2>2. QED
    BY <1>1, <2>1
<1>2. ReturnLocked(t) => FrameOK'
  BY <1>1 DEF ReturnLocked
<1>3. ReturnTimedOut(t) => FrameOK'
  BY DEF ReturnTimedOut
<1>4. Retry(t) => FrameOK'
  BY DEF Retry
<1>5. ReturnUnlocked(t) /\ UNCHANGED depth => FrameOK'
  BY DEF ReturnUnlocked
<1>6. QED
  BY <1>2, <1>3, <1>4, <1>5

\* The waiting count of a monitor a thread is on the ready list of is not zero.
LEMMA ReadyCounted ==
    ASSUME IInv, NEW t \in Threads, Ready(t)
    PROVE  /\ local[t] \in Monitors
           /\ numWaiting[local[t]] \in Nat
           /\ numWaiting[local[t]] # 0
<1>1. local[t] \in Monitors
  BY DEF IInv, CallShape, WithLocal, Ready, PCs
<1>2. t \in ReadyOn(local[t])
  BY DEF ReadyOn
<1>3. IsFiniteSet(ReadyOn(local[t]))
  BY FS_Subset, MonitorAssumption DEF ReadyOn
<1>4. Cardinality(ReadyOn(local[t])) # 0
  BY <1>2, <1>3, FS_EmptySet
<1>5. QED
  BY <1>1, <1>4 DEF IInv, TypeOK, WaitersCounted

\* Leaving the ready list keeps the count a natural number.
LEMMA LeaveTypes ==
    ASSUME IInv, NEW t \in Threads, Ready(t), RemoveFromReadyList(t)
    PROVE  numWaiting' \in [Monitors -> Nat]
<1>1. numWaiting[local[t]] - 1 \in Nat
  BY ReadyCounted
<1>2. QED
  BY <1>1 DEF IInv, TypeOK, RemoveFromReadyList

\* A semaphore's count stays within its bound.
LEMMA TokenTypes ==
    ASSUME TypeOK, NEW m \in Monitors, NEW n \in Nat, AddTokens(m, n)
    PROVE  tokens' \in [Monitors -> 0 .. MaxTokens]
<1>1. (IF tokens[m] + n < MaxTokens THEN tokens[m] + n ELSE MaxTokens) \in 0 .. MaxTokens
  BY MonitorAssumption DEF TypeOK
<1>2. QED
  BY <1>1 DEF TypeOK, AddTokens

\* Every step inside a call of Enter, Exit or Wait keeps the types.
LEMMA StepTypes ==
    ASSUME IInv, NEW t \in Threads, Step(t) \/ Disturb(t)
    PROVE  TypeOK'
<1> USE MonitorAssumption DEF IInv, TypeOK, FrameOK, CallShape, WithLocal, PCs,
        Timeouts, lockVars, nodeVars, callVars, waitVars, frameVars, Goto, EndCall,
        TryAcquire
<1>1. ASSUME ReadMonitor(t) PROVE TypeOK'
  BY <1>1 DEF ReadMonitor
<1>2. ASSUME AllocateMonitor(t) PROVE TypeOK'
  BY <1>2 DEF AllocateMonitor
<1>3. ASSUME InstallMonitor(t) PROVE TypeOK'
  BY <1>3, ReturnTypes DEF InstallMonitor
<1>4. ASSUME LoseInstallRace(t) PROVE TypeOK'
  BY <1>4, ReturnTypes DEF LoseInstallRace
<1>5. ASSUME EnterRecursively(t) PROVE TypeOK'
  <2>1. recursion' \in [Monitors -> Nat]
    BY <1>5, CountUp DEF EnterRecursively
  <2>2. QED
    BY <1>5, <2>1, ReturnTypes DEF EnterRecursively
<1>6. ASSUME AcquireInstalled(t) PROVE TypeOK'
  BY <1>6 DEF AcquireInstalled
<1>7. ASSUME Contend(t) PROVE TypeOK'
  BY <1>7, ReturnTypes DEF Contend
<1>8. ASSUME KeepAcquired(t) PROVE TypeOK'
  BY <1>8, ReturnTypes DEF KeepAcquired
<1>9. ASSUME UnacquireStale(t) PROVE TypeOK'
  BY <1>9, ReturnTypes DEF UnacquireStale
<1>10. ASSUME AddToReadyList(t) PROVE TypeOK'
  <2>1. numWaiting' \in [Monitors -> Nat]
    BY <1>10, CountUp DEF AddToReadyList
  <2>2. QED
    BY <1>10, <2>1 DEF AddToReadyList
<1>11. ASSUME StillInstalled(t) PROVE TypeOK'
  BY <1>11 DEF StillInstalled
<1>12. ASSUME VacateDyingMonitor(t) PROVE TypeOK'
  BY <1>12, ReturnTypes, LeaveTypes DEF VacateDyingMonitor, Ready, RemoveFromReadyList
<1>13. ASSUME AcquireReady(t) PROVE TypeOK'
  BY <1>13 DEF AcquireReady
<1>14. ASSUME FallAsleep(t) PROVE TypeOK'
  BY <1>14 DEF FallAsleep
<1>15. ASSUME LeaveReadyList(t) PROVE TypeOK'
  BY <1>15, ReturnTypes, LeaveTypes DEF LeaveReadyList, Ready, RemoveFromReadyList
<1>16. ASSUME Wake(t) PROVE TypeOK'
  <2>1. tokens' \in [Monitors -> 0 .. MaxTokens]
    BY <1>16, CountDown DEF Wake
  <2>2. QED
    BY <1>16, <2>1 DEF Wake
<1>17. ASSUME LastWaiterCheck(t) PROVE TypeOK'
  BY <1>17, ReturnTypes DEF LastWaiterCheck
<1>18. ASSUME LastWaiterAcquires(t) PROVE TypeOK'
  BY <1>18, ReturnTypes DEF LastWaiterAcquires
<1>19. ASSUME LastWaiterGivesUp(t) PROVE TypeOK'
  BY <1>19, ReturnTypes DEF LastWaiterGivesUp
<1>20. ASSUME Decide(t) PROVE TypeOK'
  BY <1>20 DEF Decide
<1>21. ASSUME Unacquire(t) PROVE TypeOK'
  BY <1>21 DEF Unacquire
<1>22. ASSUME Post(t) PROVE TypeOK'
  <2>1. tokens' \in [Monitors -> 0 .. MaxTokens]
    BY <1>22, TokenTypes DEF Post
  <2>2. QED
    BY <1>22, <2>1, ReturnTypes DEF Post
<1>23. ASSUME PostIfContended(t) PROVE TypeOK'
  <2>1. tokens' \in [Monitors -> 0 .. MaxTokens]
    BY <1>23, TokenTypes DEF PostIfContended
  <2>2. QED
    BY <1>23, <2>1, ReturnTypes DEF PostIfContended
<1>24. ASSUME Deflate(t) PROVE TypeOK'
  BY <1>24 DEF Deflate
<1>25. ASSUME FlushReadyList(t) PROVE TypeOK'
  <2>1. tokens' \in [Monitors -> 0 .. MaxTokens]
    BY <1>25, TokenTypes DEF FlushReadyList
  <2>2. QED
    BY <1>25, <2>1 DEF FlushReadyList
<1>26. ASSUME ReleaseMonitor(t) PROVE TypeOK'
  BY <1>26, ReturnTypes DEF ReleaseMonitor
<1>27. ASSUME Pulsed(t) PROVE TypeOK'
  BY <1>27 DEF Pulsed
<1>28. ASSUME RestoreAfterWait(t) PROVE TypeOK'
  <2>1. recursion' \in [Monitors -> Nat]
    BY <1>28 DEF RestoreAfterWait, RestoreCount
  <2>2. /\ pulseList' \in [Monitors -> SUBSET Nodes]
        /\ signaled' \in SUBSET Nodes
        /\ freeNodes' \in SUBSET Nodes
    BY <1>28 DEF RestoreAfterWait, ReleaseNode
  <2>3. QED
    BY <1>28, <2>1, <2>2 DEF RestoreAfterWait
<1>29. ASSUME SleepTimesOut(t) PROVE TypeOK'
  BY <1>29, ReturnTypes, LeaveTypes DEF SleepTimesOut, Ready, RemoveFromReadyList
<1>30. ASSUME SleepInterrupted(t) PROVE TypeOK'
  BY <1>30, LeaveTypes DEF SleepInterrupted, Ready, RemoveFromReadyList
<1>31. ASSUME PulseWaitEnds(t) PROVE TypeOK'
  BY <1>31 DEF PulseWaitEnds
<1> QED
  BY <1>1, <1>2, <1>3, <1>4, <1>5, <1>6, <1>7, <1>8, <1>9, <1>10, <1>11, <1>12,
     <1>13, <1>14, <1>15, <1>16, <1>17, <1>18, <1>19, <1>20, <1>21, <1>22, <1>23,
     <1>24, <1>25, <1>26, <1>27, <1>28, <1>29, <1>30, <1>31 DEF Step, EnterStep,
     ExitStep, WaitStep, Disturb

\* One level less of a lock that is held leaves a natural number.
LEMMA DepthDown ==
    ASSUME NEW S, NEW f \in [Threads -> [S -> Nat]], NEW t \in Threads,
           NEW x \in S, f[t][x] > 0
    PROVE  [f EXCEPT ![t][x] = @ - 1] \in [Threads -> [S -> Nat]]
<1>1. f[t][x] - 1 \in Nat
  OBVIOUS
<1>2. [f[t] EXCEPT ![x] = f[t][x] - 1] \in [S -> Nat]
  BY <1>1
<1>3. QED
  BY <1>2

\* Every call a caller may start keeps the types.
LEMMA CallTypes ==
    ASSUME IInv, NEW t \in Threads, Call(t)
    PROVE  TypeOK'
<1>1. PICK o \in Objects :
         \/ \E limit \in EnterTimeouts : Enter(t, o, limit)
         \/ RaiseNotLocked(t, o)
         \/ ExitRecursive(t, o)
         \/ Exit(t, o)
         \/ Pulse(t, o)
         \/ PulseAll(t, o)
         \/ \E limit \in WaitTimeouts : Wait(t, o, limit)
  BY DEF Call
<1> USE MonitorAssumption DEF IInv, TypeOK, PCs, Timeouts, lockVars, nodeVars,
        callVars, waitVars, frameVars, Goto, LockedByCurrentThread
<1>2. ASSUME NEW limit \in EnterTimeouts, Enter(t, o, limit) PROVE TypeOK'
  BY <1>2 DEF Enter
<1>3. ASSUME RaiseNotLocked(t, o) PROVE TypeOK'
  <2>1. depth' \in [Threads -> [Objects -> Nat]]
    BY <1>3, DepthDown DEF RaiseNotLocked
  <2>2. QED
    BY <1>3, <2>1 DEF RaiseNotLocked
<1>4. ASSUME ExitRecursive(t, o) PROVE TypeOK'
  <2>1. depth' \in [Threads -> [Objects -> Nat]]
    BY <1>4, DepthDown DEF ExitRecursive
  <2>2. monitor[o] \in Monitors /\ recursion[monitor[o]] - 1 \in Nat
    BY <1>4 DEF ExitRecursive
  <2>3. recursion' \in [Monitors -> Nat]
    BY <1>4, <2>2 DEF ExitRecursive
  <2>4. QED
    BY <1>4, <2>1, <2>3 DEF ExitRecursive
<1>5. ASSUME Exit(t, o) PROVE TypeOK'
  <2>1. depth' \in [Threads -> [Objects -> Nat]]
    BY <1>5, DepthDown DEF Exit
  <2>2. QED
    BY <1>5, <2>1 DEF Exit
<1>6. ASSUME Pulse(t, o) PROVE TypeOK'
  BY <1>6 DEF Pulse
<1>7. ASSUME PulseAll(t, o) PROVE TypeOK'
  BY <1>7 DEF PulseAll
<1>8. ASSUME NEW limit \in WaitTimeouts, Wait(t, o, limit) PROVE TypeOK'
  <2>1. /\ recursion' \in [Monitors -> Nat]
        /\ oldCount' \in [Threads -> Nat]
    BY <1>8 DEF Wait, SaveCount
  <2>2. /\ pulseList' \in [Monitors -> SUBSET Nodes]
        /\ freeNodes' \in SUBSET Nodes
        /\ waitNode' \in [Threads -> Nodes \cup {NULL}]
    <3>1. CASE limit = "zero"
      BY <1>8, <3>1 DEF Wait
    <3>2. CASE limit # "zero"
      <4>1. PICK n \in freeNodes :
              /\ freeNodes' = freeNodes \ {n}
              /\ waitNode' = [waitNode EXCEPT ![t] = n]
              /\ pulseList' = [pulseList EXCEPT ![monitor[o]] = @ \cup {n}]
        BY <1>8, <3>2 DEF Wait
      <4>2. n \in Nodes /\ pulseList[monitor[o]] \cup {n} \in SUBSET Nodes
        BY <1>8 DEF Wait
      <4>3. QED
        BY <4>1, <4>2
    <3>3. QED
      BY <3>1, <3>2
  <2>3. QED
    BY <1>8, <2>1, <2>2 DEF Wait
<1>9. QED
  BY <1>1, <1>2, <1>3, <1>4, <1>5, <1>6, <1>7, <1>8

-----------------------------------------------------------------------------
(* Which steps move a monitor *)

\* Nothing that decides where a monitor is has changed.
KeepsMonitors ==
    /\ UNCHANGED <<monitor, owner, freeMonitors>>
    /\ \A u \in Threads : pc'[u] = "flush" <=> pc[u] = "flush"
    /\ \A u \in Threads, m \in Monitors : Private(u, m)' <=> Private(u, m)

Acquires(t) == AcquireInstalled(t) \/ AcquireReady(t) \/ LastWaiterAcquires(t)

\* A monitor changes hands only in eight kinds of step.
LEMMA QuietSteps ==
    ASSUME IInv, NEW t \in Threads, Step(t) \/ Disturb(t) \/ Call(t)
    PROVE  \/ KeepsMonitors
           \/ AllocateMonitor(t) \/ InstallMonitor(t) \/ LoseInstallRace(t)
           \/ Acquires(t) \/ UnacquireStale(t) \/ Unacquire(t)
           \/ Deflate(t) \/ ReleaseMonitor(t)
<1> USE DEF IInv, TypeOK, lockVars, nodeVars, callVars, waitVars, frameVars,
        Goto, EndCall, ReturnLocked, ReturnTimedOut, Retry, ReturnUnlocked,
        RemoveFromReadyList, KeepsMonitors, Private
<1>1. ASSUME ReadMonitor(t) PROVE KeepsMonitors
  BY <1>1 DEF ReadMonitor
<1>2. ASSUME EnterRecursively(t) PROVE KeepsMonitors
  BY <1>2 DEF EnterRecursively
<1>3. ASSUME Contend(t) PROVE KeepsMonitors
  BY <1>3 DEF Contend
<1>4. ASSUME KeepAcquired(t) PROVE KeepsMonitors
  BY <1>4 DEF KeepAcquired
<1>5. ASSUME AddToReadyList(t) PROVE KeepsMonitors
  BY <1>5 DEF AddToReadyList
<1>6. ASSUME StillInstalled(t) PROVE KeepsMonitors
  BY <1>6 DEF StillInstalled
<1>7. ASSUME VacateDyingMonitor(t) PROVE KeepsMonitors
  BY <1>7 DEF VacateDyingMonitor
<1>8. ASSUME FallAsleep(t) PROVE KeepsMonitors
  BY <1>8 DEF FallAsleep
<1>9. ASSUME LeaveReadyList(t) PROVE KeepsMonitors
  BY <1>9 DEF LeaveReadyList
<1>10. ASSUME Wake(t) PROVE KeepsMonitors
  BY <1>10 DEF Wake
<1>11. ASSUME LastWaiterCheck(t) PROVE KeepsMonitors
  BY <1>11 DEF LastWaiterCheck
<1>12. ASSUME LastWaiterGivesUp(t) PROVE KeepsMonitors
  BY <1>12 DEF LastWaiterGivesUp
<1>13. ASSUME Decide(t) PROVE KeepsMonitors
  BY <1>13 DEF Decide
<1>14. ASSUME Post(t) PROVE KeepsMonitors
  BY <1>14 DEF Post
<1>15. ASSUME PostIfContended(t) PROVE KeepsMonitors
  BY <1>15 DEF PostIfContended
<1>16. ASSUME FlushReadyList(t) PROVE KeepsMonitors
  BY <1>16 DEF FlushReadyList
<1>17. ASSUME Pulsed(t) PROVE KeepsMonitors
  BY <1>17 DEF Pulsed
<1>18. ASSUME RestoreAfterWait(t) PROVE KeepsMonitors
  BY <1>18 DEF RestoreAfterWait
<1>19. ASSUME SleepTimesOut(t) PROVE KeepsMonitors
  BY <1>19 DEF SleepTimesOut
<1>20. ASSUME SleepInterrupted(t) PROVE KeepsMonitors
  BY <1>20 DEF SleepInterrupted
<1>21. ASSUME PulseWaitEnds(t) PROVE KeepsMonitors
  BY <1>21 DEF PulseWaitEnds
<1>22. ASSUME Call(t) PROVE KeepsMonitors
  BY <1>22 DEF Call, Enter, RaiseNotLocked, ExitRecursive, Exit, Pulse, PulseAll, Wait
<1>23. QED
  BY <1>1, <1>2, <1>3, <1>4, <1>5, <1>6, <1>7, <1>8, <1>9, <1>10, <1>11,
     <1>12, <1>13, <1>14, <1>15, <1>16, <1>17, <1>18, <1>19, <1>20,
     <1>21, <1>22
     DEF Step, EnterStep, ExitStep, WaitStep, Disturb, Acquires

-----------------------------------------------------------------------------
(* The parts of the invariant *)

\* The special values of owningThreadId are two, and no thread's.
LEMMA SpecialOwners ==
    /\ CanBeAcquired # OnFreeList
    /\ CanBeAcquired \notin Threads
    /\ OnFreeList \notin Threads
BY MonitorAssumption DEF CanBeAcquired, OnFreeList

\* Every step leaves the calls in shape.
LEMMA ShapeKept ==
    ASSUME IInv, NEW t \in Threads, Step(t) \/ Disturb(t) \/ Call(t)
    PROVE  CallShape'
<1> USE DEF IInv, TypeOK, CallShape, WithLocal, PCs, lockVars, nodeVars,
        callVars, waitVars, frameVars, Goto, EndCall
<1>1. ASSUME \/ AcquireInstalled(t) \/ AddToReadyList(t) \/ AcquireReady(t)
             \/ FallAsleep(t) \/ Wake(t)
      PROVE  CallShape'
  BY <1>1 DEF AcquireInstalled, AddToReadyList, AcquireReady, FallAsleep, Wake
<1>2. ASSUME StillInstalled(t) PROVE CallShape'
  BY <1>2 DEF StillInstalled
<1>3. ASSUME ReadMonitor(t) PROVE CallShape'
  BY <1>3 DEF ReadMonitor
<1>4. ASSUME AllocateMonitor(t) PROVE CallShape'
  BY <1>4 DEF AllocateMonitor
<1>5. ASSUME \/ InstallMonitor(t) \/ LoseInstallRace(t) \/ EnterRecursively(t)
             \/ Contend(t) \/ KeepAcquired(t) \/ UnacquireStale(t)
      PROVE  CallShape'
  BY <1>5 DEF InstallMonitor, LoseInstallRace, EnterRecursively, Contend,
              KeepAcquired, UnacquireStale, ReturnLocked, ReturnTimedOut, Retry
<1>6. ASSUME \/ VacateDyingMonitor(t) \/ LeaveReadyList(t) \/ LastWaiterCheck(t)
             \/ LastWaiterAcquires(t) \/ LastWaiterGivesUp(t) \/ Disturb(t)
      PROVE  CallShape'
  BY <1>6 DEF VacateDyingMonitor, LeaveReadyList, LastWaiterCheck,
              LastWaiterAcquires, LastWaiterGivesUp, Disturb, SleepTimesOut,
              SleepInterrupted, PulseWaitEnds, ReturnLocked, ReturnTimedOut, Retry
<1>7. ASSUME ExitStep(t) \/ WaitStep(t) PROVE CallShape'
  BY <1>7 DEF ExitStep, WaitStep, Decide, Unacquire, Post, PostIfContended,
              Deflate, FlushReadyList, ReleaseMonitor, Pulsed, RestoreAfterWait,
              ReturnUnlocked
<1>8. ASSUME Call(t) PROVE CallShape'
  BY <1>8 DEF Call, Enter, RaiseNotLocked, ExitRecursive, Exit, Pulse, PulseAll,
              Wait, LockedByCurrentThread
<1>9. QED
  BY <1>1, <1>5, <1>6, <1>7, <1>8, <1>2, <1>3, <1>4 DEF Step, EnterStep

\* A thread that has not let go of its monitor keeps owning it, on the object.
LEMMA OwnersKept ==
    ASSUME IInv, NEW t \in Threads, Step(t) \/ Disturb(t) \/ Call(t)
    PROVE  OwnerSteps'
<1> USE DEF IInv, TypeOK, CallShape, WithLocal, PCs, OwnerSteps, Installed,
        MonitorAccounting, Private, lockVars, nodeVars, callVars, waitVars,
        frameVars, Goto, EndCall
<1>1. ASSUME \/ ReadMonitor(t) \/ AllocateMonitor(t) \/ AddToReadyList(t)
             \/ StillInstalled(t) \/ FallAsleep(t) \/ Wake(t) \/ Contend(t)
             \/ KeepAcquired(t) \/ EnterRecursively(t)
      PROVE  OwnerSteps'
  BY <1>1 DEF ReadMonitor, AllocateMonitor, AddToReadyList, StillInstalled,
              FallAsleep, Wake, Contend, KeepAcquired, EnterRecursively,
              ReturnLocked, ReturnTimedOut
<1>2. ASSUME InstallMonitor(t) PROVE OwnerSteps'
  <2>1. /\ monitor' = [monitor EXCEPT ![object[t]] = local[t]]
        /\ monitor[object[t]] = NULL
        /\ UNCHANGED owner
        /\ pc'[t] \in {"idle", "restore"}
        /\ \A u \in Threads \ {t} :
             pc'[u] = pc[u] /\ local'[u] = local[u] /\ object'[u] = object[u]
    BY <1>2 DEF InstallMonitor, ReturnLocked
  <2>2. \A p \in Objects : monitor[p] \in Monitors => monitor'[p] = monitor[p]
    BY <2>1, MonitorAssumption
  <2>3. \A u \in Threads \ {t} :
          monitor[object[u]] = local[u] /\ object[u] \in Objects /\ local[u] \in Monitors
             => monitor'[object[u]] = local[u]
    BY <2>2
  <2>5. ASSUME NEW u \in Threads, u # t,
               pc[u] \in {"decide", "handoff", "unlock", "deflate"}
        PROVE  owner[local[u]] = u /\ monitor'[object[u]] = local[u]
    BY <2>3, <2>5
  <2>6. ASSUME NEW u \in Threads, u # t, pc[u] \in {"check", "leave"}
        PROVE  owner[local[u]] = u /\ Installed(local[u])'
    <3>1. PICK p \in Objects : monitor[p] = local[u]
      BY <2>6
    <3>2. monitor'[p] = local[u] /\ local'[u] = local[u]
      BY <2>1, <2>2, <2>6, <3>1
    <3>3. QED
      BY <2>6, <3>2
  <2>7. QED
    BY <2>1, <2>5, <2>6
<1>3. ASSUME LoseInstallRace(t) PROVE OwnerSteps'
  BY <1>3 DEF LoseInstallRace, Retry
<1>4. ASSUME UnacquireStale(t) PROVE OwnerSteps'
  BY <1>4 DEF UnacquireStale, Retry
<1>5. ASSUME Acquires(t) PROVE OwnerSteps'
  <2>1. /\ owner' = [owner EXCEPT ![local[t]] = t]
        /\ owner[local[t]] = CanBeAcquired
        /\ UNCHANGED monitor
    BY <1>5 DEF Acquires, AcquireInstalled, AcquireReady, LastWaiterAcquires,
                TryAcquire
  <2>2. local[t] \in Monitors /\ Installed(local[t])
    BY <1>5, <2>1 DEF Acquires, AcquireInstalled, AcquireReady, LastWaiterAcquires
  <2>3. \/ pc'[t] \in {"check", "leave"} /\ local'[t] = local[t]
        \/ pc'[t] \in {"idle", "restore"}
    BY <1>5 DEF Acquires, AcquireInstalled, AcquireReady, LastWaiterAcquires,
                ReturnLocked
  <2>4. \A u \in Threads \ {t} :
          pc'[u] = pc[u] /\ local'[u] = local[u] /\ object'[u] = object[u]
    BY <1>5 DEF Acquires, AcquireInstalled, AcquireReady, LastWaiterAcquires,
                ReturnLocked
  <2>5. QED
    BY <2>1, <2>2, <2>3, <2>4, SpecialOwners
<1>6. ASSUME \/ VacateDyingMonitor(t) \/ LeaveReadyList(t) \/ LastWaiterCheck(t)
             \/ LastWaiterGivesUp(t) \/ Disturb(t)
      PROVE  OwnerSteps'
  BY <1>6 DEF VacateDyingMonitor, LeaveReadyList, LastWaiterCheck,
              LastWaiterGivesUp, Disturb, SleepTimesOut, SleepInterrupted,
              PulseWaitEnds, RemoveFromReadyList, ReturnLocked, ReturnTimedOut, Retry
<1>7. ASSUME Decide(t) PROVE OwnerSteps'
  BY <1>7 DEF Decide
<1>8. ASSUME Post(t) \/ PostIfContended(t) PROVE OwnerSteps'
  BY <1>8 DEF Post, PostIfContended, ReturnUnlocked
<1>9. ASSUME FlushReadyList(t) PROVE OwnerSteps'
  BY <1>9 DEF FlushReadyList
<1>10. ASSUME Unacquire(t) PROVE OwnerSteps'
  <2>1. /\ owner' = [owner EXCEPT ![local[t]] = CanBeAcquired]
        /\ UNCHANGED <<monitor, local, object>>
        /\ pc'[t] \in {"post", "repost"}
        /\ \A u \in Threads \ {t} : pc'[u] = pc[u]
        /\ owner[local[t]] = t
    BY <1>10 DEF Unacquire
  <2>2. QED
    BY <2>1
<1>11. ASSUME Deflate(t) PROVE OwnerSteps'
  BY <1>11 DEF Deflate
<1>12. ASSUME ReleaseMonitor(t) PROVE OwnerSteps'
  BY <1>12 DEF ReleaseMonitor, ReturnUnlocked
<1>13. ASSUME WaitStep(t) PROVE OwnerSteps'
  BY <1>13, SMTT(30) DEF WaitStep, Pulsed, RestoreAfterWait
<1>14. ASSUME Call(t) PROVE OwnerSteps'
  BY <1>14 DEF Call, Enter, RaiseNotLocked, ExitRecursive, Exit, Pulse, PulseAll,
              Wait, LockedByCurrentThread
<1>15. QED
  BY <1>1, <1>2, <1>3, <1>5, <1>6, <1>7, <1>10, <1>11, <1>12, <1>13, <1>14,
     <1>4, <1>8, <1>9 DEF Step, EnterStep, ExitStep, Acquires

\* Every monitor stays in exactly one place, and its owner says in which.
LEMMA AccountingKept ==
    ASSUME IInv, NEW t \in Threads, Step(t) \/ Disturb(t) \/ Call(t)
    PROVE  MonitorAccounting'
<1> USE MonitorAssumption, SpecialOwners DEF IInv, TypeOK, CallShape, WithLocal,
        PCs, MonitorAccounting, Installed
<1>1. ASSUME KeepsMonitors PROVE MonitorAccounting'
  BY <1>1 DEF KeepsMonitors
<1>2. ASSUME AllocateMonitor(t) PROVE MonitorAccounting'
  <2>1. PICK m \in freeMonitors :
          /\ freeMonitors' = freeMonitors \ {m}
          /\ owner' = [owner EXCEPT ![m] = t]
          /\ local' = [local EXCEPT ![t] = m]
    BY <1>2 DEF AllocateMonitor
  <2>2. \A u \in Threads, n \in Monitors :
          Private(u, n)' <=> Private(u, n) \/ (u = t /\ n = m)
    BY <1>2, <2>1 DEF AllocateMonitor, Goto, Private
  <2>3. UNCHANGED monitor /\ m \in Monitors /\ owner[m] = OnFreeList
    BY <1>2 DEF AllocateMonitor
  <2>4. QED
    BY <2>1, <2>2, <2>3
<1>3. ASSUME InstallMonitor(t) PROVE MonitorAccounting'
  <2>1. /\ monitor' = [monitor EXCEPT ![object[t]] = local[t]]
        /\ UNCHANGED <<owner, freeMonitors>>
        /\ Private(t, local[t])
        /\ monitor[object[t]] = NULL
        /\ object[t] \in Objects
        /\ local[t] \in Monitors
    BY <1>3 DEF InstallMonitor, Private
  <2>2. \A u \in Threads, n \in Monitors :
          Private(u, n)' <=> Private(u, n) /\ u # t
    BY <1>3 DEF InstallMonitor, ReturnLocked, EndCall, Goto, Private
  <2>3. \A n \in Monitors : Private(t, n) => n = local[t]
    BY DEF Private
  <2>4. \A p \in Objects : monitor[p] # NULL => monitor'[p] = monitor[p]
    BY <2>1
  <2>5. \A n \in Monitors : Installed(n)' <=> Installed(n) \/ n = local[t]
    BY <2>1, <2>4
  <2>6. QED
    BY <2>1, <2>2, <2>3, <2>4, <2>5
<1>4. ASSUME LoseInstallRace(t) PROVE MonitorAccounting'
  <2>1. /\ owner' = [owner EXCEPT ![local[t]] = OnFreeList]
        /\ freeMonitors' = freeMonitors \cup {local[t]}
        /\ UNCHANGED monitor
        /\ Private(t, local[t])
        /\ local[t] \in Monitors
    BY <1>4 DEF LoseInstallRace, Private
  <2>2. \A u \in Threads, n \in Monitors :
          Private(u, n)' <=> Private(u, n) /\ u # t
    BY <1>4 DEF LoseInstallRace, Retry, Goto, Private
  <2>3. \A n \in Monitors : Private(t, n) => n = local[t]
    BY DEF Private
  <2>4. QED
    BY <2>1, <2>2, <2>3
<1>5. ASSUME Acquires(t) PROVE MonitorAccounting'
  <2>1. /\ owner' = [owner EXCEPT ![local[t]] = t]
        /\ owner[local[t]] = CanBeAcquired
        /\ UNCHANGED <<monitor, freeMonitors>>
        /\ local[t] \in Monitors
    BY <1>5 DEF Acquires, AcquireInstalled, AcquireReady, LastWaiterAcquires,
                TryAcquire
  <2>2. \A u \in Threads, n \in Monitors : Private(u, n)' <=> Private(u, n)
    BY <1>5 DEF Acquires, AcquireInstalled, AcquireReady, LastWaiterAcquires,
                ReturnLocked, EndCall, Goto, Private
  <2>3. QED
    BY <2>1, <2>2
<1>6. ASSUME UnacquireStale(t) \/ Unacquire(t) PROVE MonitorAccounting'
  <2>1. /\ owner' = [owner EXCEPT ![local[t]] = CanBeAcquired]
        /\ owner[local[t]] = t
        /\ Installed(local[t])
        /\ UNCHANGED <<monitor, freeMonitors>>
        /\ local[t] \in Monitors
    BY <1>6 DEF UnacquireStale, Unacquire, OwnerSteps
  <2>2. \A u \in Threads, n \in Monitors : Private(u, n)' <=> Private(u, n)
    BY <1>6 DEF UnacquireStale, Unacquire, Retry, Goto, Private
  <2>3. QED
    BY <2>1, <2>2
<1>7. ASSUME Deflate(t) PROVE MonitorAccounting'
  <2>1. /\ monitor' = [monitor EXCEPT ![object[t]] = NULL]
        /\ monitor[object[t]] = local[t]
        /\ owner[local[t]] = t
        /\ UNCHANGED <<owner, freeMonitors>>
        /\ object[t] \in Objects
        /\ local[t] \in Monitors
    BY <1>7 DEF Deflate, OwnerSteps
  <2>2. \A u \in Threads, n \in Monitors :
          Private(u, n)' <=> Private(u, n) \/ (u = t /\ n = local[t])
    BY <1>7 DEF Deflate, Goto, Private
  <2>3. \A n \in Monitors : Installed(n)' <=> Installed(n) /\ n # local[t]
    BY <2>1
  <2>4. \A o, p \in Objects :
          monitor'[o] = monitor'[p] => o = p \/ monitor'[o] = NULL
    BY <2>1
  <2>5. QED
    BY <2>1, <2>2, <2>3, <2>4
<1>8. ASSUME ReleaseMonitor(t) PROVE MonitorAccounting'
  <2>1. /\ owner' = [owner EXCEPT ![local[t]] = OnFreeList]
        /\ freeMonitors' = freeMonitors \cup {local[t]}
        /\ UNCHANGED monitor
        /\ Private(t, local[t])
        /\ local[t] \in Monitors
    BY <1>8 DEF ReleaseMonitor, Private
  <2>2. \A u \in Threads, n \in Monitors :
          Private(u, n)' <=> Private(u, n) /\ u # t
    BY <1>8 DEF ReleaseMonitor, ReturnUnlocked, EndCall, Goto, Private
  <2>3. \A n \in Monitors : Private(t, n) => n = local[t]
    BY DEF Private
  <2>4. QED
    BY <2>1, <2>2, <2>3
<1>9. QED
  BY QuietSteps, <1>1, <1>2, <1>3, <1>4, <1>5, <1>6, <1>7, <1>8

\* What an operation of t leaves alone: the other threads' places.
OthersUnmoved(t) ==
    \A u \in Threads \ {t} :
        pc'[u] = pc[u] /\ local'[u] = local[u] /\ object'[u] = object[u]

\* How t may come to need its monitor pinned.
EntersPinned(t) ==
    pc'[t] \in {"grab", "leave", "sleep"} =>
        /\ UNCHANGED monitor
        /\ local'[t] = local[t] /\ object'[t] = object[t]
        /\ pc[t] \in {"grab", "leave", "sleep"} \/ monitor[object[t]] = local[t]
        /\ pc[t] # "flush"

\* An operation moves its own thread only, and never away from a pin.
LEMMA PlacesMoved ==
    ASSUME IInv, NEW t \in Threads, Step(t) \/ Disturb(t) \/ Call(t)
    PROVE  OthersUnmoved(t) /\ EntersPinned(t)
<1> USE DEF IInv, TypeOK, lockVars, nodeVars, callVars, waitVars, frameVars,
        Goto, EndCall, ReturnLocked, ReturnTimedOut, Retry, ReturnUnlocked,
        OthersUnmoved, EntersPinned
<1>1. ASSUME \/ ReadMonitor(t) \/ AllocateMonitor(t) \/ InstallMonitor(t)
             \/ LoseInstallRace(t) \/ EnterRecursively(t) \/ AcquireInstalled(t)
             \/ Contend(t) \/ KeepAcquired(t) \/ UnacquireStale(t)
      PROVE  OthersUnmoved(t) /\ EntersPinned(t)
  BY <1>1 DEF ReadMonitor, AllocateMonitor, InstallMonitor, LoseInstallRace,
              EnterRecursively, AcquireInstalled, Contend, KeepAcquired,
              UnacquireStale
<1>2. ASSUME AddToReadyList(t) \/ VacateDyingMonitor(t) \/ LeaveReadyList(t)
      PROVE  OthersUnmoved(t) /\ EntersPinned(t)
  BY <1>2 DEF AddToReadyList, VacateDyingMonitor, LeaveReadyList
<1>3. ASSUME StillInstalled(t) PROVE OthersUnmoved(t) /\ EntersPinned(t)
  BY <1>3 DEF StillInstalled
<1>4. ASSUME AcquireReady(t) \/ FallAsleep(t) \/ Wake(t)
      PROVE  OthersUnmoved(t) /\ EntersPinned(t)
  BY <1>4 DEF AcquireReady, FallAsleep, Wake, TryAcquire
<1>5. ASSUME \/ LastWaiterCheck(t) \/ LastWaiterAcquires(t)
             \/ LastWaiterGivesUp(t) \/ Disturb(t)
      PROVE  OthersUnmoved(t) /\ EntersPinned(t)
  BY <1>5 DEF LastWaiterCheck, LastWaiterAcquires, LastWaiterGivesUp, Disturb,
              SleepTimesOut, SleepInterrupted, PulseWaitEnds
<1>6. ASSUME ExitStep(t) \/ WaitStep(t)
      PROVE  OthersUnmoved(t) /\ EntersPinned(t)
  BY <1>6 DEF ExitStep, WaitStep, Decide, Unacquire, Post, PostIfContended,
              Deflate, FlushReadyList, ReleaseMonitor, Pulsed, RestoreAfterWait
<1>7. ASSUME Call(t) PROVE OthersUnmoved(t) /\ EntersPinned(t)
  BY <1>7 DEF Call, Enter, RaiseNotLocked, ExitRecursive, Exit, Pulse, PulseAll,
              Wait
<1>8. QED
  BY <1>1, <1>2, <1>3, <1>4, <1>5, <1>6, <1>7 DEF Step, EnterStep

\* A monitor with no waiting threads has none on its ready list.
LEMMA NobodyReady ==
    ASSUME IInv, NEW m \in Monitors, numWaiting[m] = 0
    PROVE  \A u \in Threads : ~(Ready(u) /\ local[u] = m)
<1>1. SUFFICES ASSUME NEW u \in Threads, Ready(u), local[u] = m PROVE FALSE
  OBVIOUS
<1>2. QED
  BY <1>1, ReadyCounted

Pinned(u) ==
    \/ monitor[object[u]] = local[u]
    \/ \E w \in Threads : pc[w] = "flush" /\ local[w] = local[u]

\* A monitor stays pinned while a thread that saw it installed is ready.
LEMMA PinnedKept ==
    ASSUME IInv, NEW t \in Threads, Step(t) \/ Disturb(t) \/ Call(t)
    PROVE  PinnedWhileReady'
<1>1. OthersUnmoved(t) /\ EntersPinned(t)
  BY PlacesMoved
<1>2. SUFFICES ASSUME NEW u \in Threads, pc'[u] \in {"grab", "leave", "sleep"}
               PROVE  Pinned(u)'
  BY DEF PinnedWhileReady, Pinned
<1>3. local'[u] = local[u] /\ object'[u] = object[u]
  BY <1>1, <1>2 DEF OthersUnmoved, EntersPinned
<1>4. Pinned(u)
  BY <1>1, <1>2 DEF OthersUnmoved, EntersPinned, IInv, PinnedWhileReady, Pinned
<1>5. u # t => Ready(u) /\ local[u] \in Monitors /\ object[u] \in Objects
  BY <1>1, <1>2 DEF OthersUnmoved, IInv, CallShape, WithLocal, PCs, Ready
<1>6. ASSUME UNCHANGED monitor,
             \A w \in Threads : pc[w] = "flush" => pc'[w] = "flush" /\ local'[w] = local[w]
      PROVE  Pinned(u)'
  BY <1>3, <1>4, <1>6 DEF Pinned
<1>7. CASE u = t
  <2>1. UNCHANGED monitor /\ pc[t] # "flush"
    BY <1>1, <1>2, <1>7 DEF EntersPinned
  <2>2. QED
    BY <1>1, <1>6, <2>1 DEF OthersUnmoved
<1>8. CASE u # t /\ pc[t] # "flush" /\ UNCHANGED monitor
  BY <1>1, <1>6, <1>8 DEF OthersUnmoved
<1>9. CASE u # t /\ InstallMonitor(t)
  <2>1. monitor[object[u]] = local[u] => monitor'[object[u]] = local[u]
    BY <1>5, <1>9, MonitorAssumption DEF InstallMonitor, IInv, TypeOK
  <2>2. \A w \in Threads : pc[w] = "flush" => pc'[w] = "flush" /\ local'[w] = local[w]
    BY <1>1, <1>9 DEF OthersUnmoved, InstallMonitor
  <2>3. QED
    BY <1>3, <1>4, <2>1, <2>2 DEF Pinned
<1>10. CASE u # t /\ Deflate(t)
  <2>1. /\ monitor' = [monitor EXCEPT ![object[t]] = NULL]
        /\ monitor[object[t]] = local[t]
        /\ pc'[t] = "flush" /\ local'[t] = local[t]
        /\ pc[t] # "flush"
    BY <1>10 DEF Deflate, Goto, IInv, TypeOK, OwnerSteps, frameVars
  <2>2. monitor[object[u]] = local[u] =>
          monitor'[object[u]] = local[u] \/ local[t] = local[u]
    BY <1>5, <1>10, <2>1 DEF IInv, TypeOK
  <2>3. \A w \in Threads : pc[w] = "flush" => pc'[w] = "flush" /\ local'[w] = local[w]
    BY <1>1, <2>1 DEF OthersUnmoved
  <2>4. QED
    BY <1>3, <1>4, <2>1, <2>2, <2>3 DEF Pinned
<1>11. CASE u # t /\ ReleaseMonitor(t)
  <2>1. numWaiting[local[t]] = 0 /\ local[t] \in Monitors /\ UNCHANGED monitor
    BY <1>11 DEF ReleaseMonitor, IInv, CallShape, WithLocal, PCs
  <2>2. local[u] # local[t]
    BY <1>5, <1>11, <2>1, NobodyReady
  <2>3. \A w \in Threads :
          pc[w] = "flush" /\ local[w] = local[u] => pc'[w] = "flush" /\ local'[w] = local[u]
    BY <1>1, <2>2 DEF OthersUnmoved
  <2>4. QED
    BY <1>3, <1>4, <2>1, <2>3 DEF Pinned
<1>12. CASE KeepsMonitors
  <2>1. \A w \in Threads : pc[w] = "flush" => pc'[w] = "flush" /\ local'[w] = local[w]
    <3>1. ASSUME pc[t] = "flush" PROVE local'[t] = local[t]
      <4>1. Private(t, local[t]) /\ local[t] \in Monitors
        BY <3>1 DEF Private, IInv, CallShape, WithLocal, PCs
      <4>2. QED
        BY <1>12, <4>1 DEF KeepsMonitors, Private
    <3>2. QED
      BY <1>1, <1>12, <3>1 DEF OthersUnmoved, KeepsMonitors
  <2>2. QED
    BY <1>6, <1>12, <2>1 DEF KeepsMonitors
<1>13. ASSUME \/ AllocateMonitor(t) \/ LoseInstallRace(t) \/ Acquires(t)
              \/ UnacquireStale(t) \/ Unacquire(t)
       PROVE  pc[t] # "flush" /\ UNCHANGED monitor
  BY <1>13 DEF AllocateMonitor, LoseInstallRace, Acquires, AcquireInstalled,
               AcquireReady, LastWaiterAcquires, TryAcquire, UnacquireStale,
               Unacquire
<1>14. QED
  BY QuietSteps, <1>7, <1>8, <1>9, <1>10, <1>11, <1>12, <1>13

\* What an operation of t does to the ready lists: nothing, or t joins or
\* leaves the one of its monitor.
KeepsReady ==
    /\ UNCHANGED numWaiting
    /\ \A m \in Monitors : ReadyOn(m)' = ReadyOn(m)

JoinsReady(t) ==
    /\ ~Ready(t) /\ local[t] \in Monitors
    /\ numWaiting' = [numWaiting EXCEPT ![local[t]] = @ + 1]
    /\ \A m \in Monitors :
         ReadyOn(m)' = IF m = local[t] THEN ReadyOn(m) \cup {t} ELSE ReadyOn(m)

LeavesReady(t) ==
    /\ Ready(t) /\ local[t] \in Monitors
    /\ numWaiting' = [numWaiting EXCEPT ![local[t]] = @ - 1]
    /\ \A m \in Monitors : ReadyOn(m)' = ReadyOn(m) \ {t}

\* A step inside a call moves at most its own thread on or off one ready list,
\* and changes that list's count with it.
LEMMA ReadyMoved ==
    ASSUME IInv, NEW t \in Threads, Step(t) \/ Disturb(t) \/ Call(t)
    PROVE  KeepsReady \/ JoinsReady(t) \/ LeavesReady(t)
<1>1. OthersUnmoved(t)
  BY PlacesMoved
<1> USE DEF lockVars, nodeVars, callVars, waitVars, frameVars, Ready
<1>2. ASSUME UNCHANGED numWaiting,
             \/ ~Ready(t) /\ ~Ready(t)'
             \/ Ready(t) /\ Ready(t)' /\ local'[t] = local[t]
      PROVE  KeepsReady
  BY <1>1, <1>2 DEF KeepsReady, ReadyOn, OthersUnmoved
<1>3. ASSUME \/ ReadMonitor(t) \/ AllocateMonitor(t) \/ InstallMonitor(t)
             \/ LoseInstallRace(t) \/ EnterRecursively(t) \/ AcquireInstalled(t)
             \/ Contend(t) \/ KeepAcquired(t) \/ UnacquireStale(t)
      PROVE  KeepsReady
  BY <1>2, <1>3 DEF ReadMonitor, AllocateMonitor, InstallMonitor, LoseInstallRace,
                    EnterRecursively, AcquireInstalled, TryAcquire, Contend,
                    KeepAcquired, UnacquireStale, Goto, EndCall, ReturnLocked,
                    ReturnTimedOut, Retry, IInv, TypeOK
<1>4. ASSUME StillInstalled(t) \/ AcquireReady(t) \/ FallAsleep(t) \/ Wake(t)
      PROVE  KeepsReady
  BY <1>2, <1>4 DEF StillInstalled, AcquireReady, FallAsleep, Wake, TryAcquire,
                    Goto, IInv, TypeOK
<1>5. ASSUME \/ LastWaiterCheck(t) \/ LastWaiterAcquires(t)
             \/ LastWaiterGivesUp(t) \/ PulseWaitEnds(t)
      PROVE  KeepsReady
  BY <1>2, <1>5 DEF LastWaiterCheck, LastWaiterAcquires, LastWaiterGivesUp,
                    PulseWaitEnds, TryAcquire, Goto, EndCall, ReturnLocked,
                    ReturnTimedOut, IInv, TypeOK
<1>6. ASSUME ExitStep(t) \/ WaitStep(t) PROVE KeepsReady
  BY <1>2, <1>6 DEF ExitStep, WaitStep, Decide, Unacquire, Post, PostIfContended,
                    Deflate, FlushReadyList, ReleaseMonitor, Pulsed,
                    RestoreAfterWait, Goto, EndCall, ReturnUnlocked, IInv, TypeOK
<1>7. ASSUME Call(t) PROVE KeepsReady
  BY <1>2, <1>7 DEF Call, Enter, RaiseNotLocked, ExitRecursive, Exit, Pulse,
                    PulseAll, Wait, Goto, IInv, TypeOK
<1>8. ASSUME AddToReadyList(t) PROVE JoinsReady(t)
  <2>1. /\ ~Ready(t) /\ local[t] \in Monitors
        /\ numWaiting' = [numWaiting EXCEPT ![local[t]] = @ + 1]
        /\ Ready(t)' /\ local'[t] = local[t]
    BY <1>8 DEF AddToReadyList, Goto, IInv, TypeOK, CallShape, WithLocal, PCs
  <2>2. QED
    BY <1>1, <2>1 DEF JoinsReady, ReadyOn, OthersUnmoved
<1>9. ASSUME \/ VacateDyingMonitor(t) \/ LeaveReadyList(t) \/ SleepTimesOut(t)
             \/ SleepInterrupted(t)
      PROVE  LeavesReady(t)
  <2>1. /\ Ready(t)
        /\ numWaiting' = [numWaiting EXCEPT ![local[t]] = @ - 1]
        /\ ~Ready(t)'
    BY <1>9 DEF VacateDyingMonitor, LeaveReadyList, SleepTimesOut,
                SleepInterrupted, RemoveFromReadyList, Goto, EndCall,
                ReturnLocked, ReturnTimedOut, Retry, IInv, TypeOK
  <2>2. QED
    BY <1>1, <2>1, ReadyCounted DEF LeavesReady, ReadyOn, OthersUnmoved
<1>10. QED
  BY <1>3, <1>4, <1>5, <1>6, <1>7, <1>8, <1>9 DEF Step, EnterStep, Disturb

\* The waiting count stays the size of the ready list.
LEMMA CountKept ==
    ASSUME IInv, NEW t \in Threads, Step(t) \/ Disturb(t) \/ Call(t)
    PROVE  WaitersCounted'
<1>1. SUFFICES ASSUME NEW m \in Monitors
               PROVE  numWaiting'[m] = Cardinality(ReadyOn(m)')
  BY DEF WaitersCounted
<1>2. /\ numWaiting \in [Monitors -> Nat]
      /\ numWaiting[m] = Cardinality(ReadyOn(m))
  BY DEF IInv, TypeOK, WaitersCounted
<1>3. IsFiniteSet(ReadyOn(m))
  BY FS_Subset, MonitorAssumption DEF ReadyOn
<1>4. CASE KeepsReady
  BY <1>2, <1>4 DEF KeepsReady
<1>5. CASE JoinsReady(t)
  <2>1. CASE m = local[t]
    <3>1. ReadyOn(m)' = ReadyOn(m) \cup {t} /\ t \notin ReadyOn(m)
      BY <1>5, <2>1 DEF JoinsReady, ReadyOn
    <3>2. Cardinality(ReadyOn(m)') = Cardinality(ReadyOn(m)) + 1
      BY <1>3, <3>1, FS_AddElement
    <3>3. QED
      BY <1>2, <1>5, <2>1, <3>2 DEF JoinsReady
  <2>2. CASE m # local[t]
    BY <1>2, <1>5, <2>2 DEF JoinsReady
  <2>3. QED
    BY <2>1, <2>2
<1>6. CASE LeavesReady(t)
  <2>1. ReadyOn(m)' = ReadyOn(m) \ {t}
    BY <1>6 DEF LeavesReady
  <2>2. CASE m = local[t]
    <3>1. t \in ReadyOn(m)
      BY <1>6, <2>2 DEF LeavesReady, ReadyOn
    <3>2. Cardinality(ReadyOn(m)') = Cardinality(ReadyOn(m)) - 1
      BY <1>3, <2>1, <3>1, FS_RemoveElement
    <3>3. QED
      BY <1>2, <1>6, <2>2, <3>2 DEF LeavesReady
  <2>3. CASE m # local[t]
    <3>1. ReadyOn(m)' = ReadyOn(m)
      BY <2>1, <2>3 DEF ReadyOn
    <3>2. QED
      BY <1>2, <1>6, <2>3, <3>1 DEF LeavesReady
  <2>4. QED
    BY <2>2, <2>3
<1>7. QED
  BY ReadyMoved, <1>4, <1>5, <1>6

-----------------------------------------------------------------------------
(* The theorems *)

\* The inductive invariant holds at the start.
LEMMA InitInv == Init => IInv
<1>1. SUFFICES ASSUME Init PROVE IInv
  OBVIOUS
<1> USE <1>1, MonitorAssumption DEF Init
<1>2. TypeOK
  BY DEF TypeOK, PCs, Timeouts
<1>3. CallShape
  BY DEF CallShape, WithLocal
<1>4. WaitersCounted
  <2>1. \A m \in Monitors : ReadyOn(m) = {}
    BY DEF ReadyOn, Ready
  <2>2. QED
    BY <2>1, FS_EmptySet DEF WaitersCounted
<1>5. OwnerSteps
  BY DEF OwnerSteps
<1>6. MonitorAccounting
  BY SpecialOwners DEF MonitorAccounting, Installed, Private
<1>7. PinnedWhileReady
  BY DEF PinnedWhileReady
<1>8. QED
  BY <1>2, <1>3, <1>4, <1>5, <1>6, <1>7 DEF IInv

\* Every step keeps the inductive invariant.
LEMMA NextInv == IInv /\ [Next]_vars => IInv'
<1>1. ASSUME IInv, UNCHANGED vars PROVE IInv'
  <2> USE <1>1 DEF vars, lockVars, nodeVars, waitVars, callVars, frameVars
  <2>1. TypeOK' /\ CallShape'
    BY DEF IInv, TypeOK, CallShape
  <2>2. WaitersCounted'
    BY DEF IInv, WaitersCounted, ReadyOn, Ready
  <2>3. OwnerSteps' /\ MonitorAccounting'
    BY DEF IInv, OwnerSteps, MonitorAccounting, Installed, Private
  <2>4. PinnedWhileReady'
    BY DEF IInv, PinnedWhileReady
  <2>5. QED
    BY <2>1, <2>2, <2>3, <2>4 DEF IInv
<1>2. ASSUME IInv, NEW t \in Threads, Step(t) \/ Disturb(t) \/ Call(t)
      PROVE  IInv'
  <2>1. TypeOK'
    BY <1>2, StepTypes, CallTypes
  <2>2. QED
    BY <1>2, <2>1, ShapeKept, OwnersKept, AccountingKept, PinnedKept, CountKept
       DEF IInv
<1>3. QED
  BY <1>1, <1>2 DEF Next

\* The conjuncts of IInv hold in every state of every behaviour.
THEOREM Invariance == Spec => []IInv
BY InitInv, NextInv, PTL DEF Spec

\* Every variable of Monitor.cpp's model holds a value of its kind, however
\* many threads, objects, monitors and wait nodes there are.
THEOREM TypeCorrect == Spec => []TypeOK
<1>1. IInv => TypeOK
  BY DEF IInv
<1>2. QED
  BY <1>1, Invariance, PTL

\* No MonitorData is lost or in two places: each one is on the free list, on one
\* object, or in the hands of the one thread that installs or releases it.
THEOREM Accounting == Spec => []MonitorAccounting
<1>1. IInv => MonitorAccounting
  BY DEF IInv
<1>2. QED
  BY <1>1, Invariance, PTL

\* A thread that tries to acquire, or sleeps on, a monitor it has seen installed
\* never does so on one that went back to the free list or to another object.
THEOREM PinsHold == Spec => []PinnedWhileReady
<1>1. IInv => PinnedWhileReady
  BY DEF IInv
<1>2. QED
  BY <1>1, Invariance, PTL

\* Only the thread in owningThreadId changes it, and only at the five places
\* where the code lets go of a monitor.
THEOREM OwnershipKept == Spec => OnlyOwnerLetsGo
<1> USE DEF OwnersLetGo
<1>1. ASSUME IInv, NEW v \in Threads, Step(v) \/ Disturb(v) \/ Call(v)
      PROVE  OwnersLetGo
  <2>1. CASE KeepsMonitors
    BY <2>1 DEF KeepsMonitors
  <2>2. CASE AllocateMonitor(v)
    BY <1>1, <2>2, SpecialOwners DEF AllocateMonitor, IInv, TypeOK, MonitorAccounting
  <2>3. CASE InstallMonitor(v) \/ Deflate(v)
    BY <2>3 DEF InstallMonitor, Deflate
  <2>4. CASE Acquires(v)
    <3>1. owner' = [owner EXCEPT ![local[v]] = v] /\ owner[local[v]] = CanBeAcquired
      BY <2>4 DEF Acquires, AcquireInstalled, AcquireReady, LastWaiterAcquires,
                  TryAcquire
    <3>2. QED
      BY <1>1, <3>1, SpecialOwners DEF IInv, TypeOK
  <2>5. CASE \/ LoseInstallRace(v) \/ UnacquireStale(v) \/ Unacquire(v)
             \/ ReleaseMonitor(v)
    <3>1. /\ pc[v] \in {"install", "check", "handoff", "unlock", "flush"}
          /\ \E x : owner' = [owner EXCEPT ![local[v]] = x]
      BY <2>5 DEF LoseInstallRace, UnacquireStale, Unacquire, ReleaseMonitor
    <3>2. owner[local[v]] = v
      BY <1>1, <2>5 DEF LoseInstallRace, UnacquireStale, Unacquire,
         ReleaseMonitor, IInv, CallShape, WithLocal, PCs, OwnerSteps,
         MonitorAccounting, Private
    <3>3. QED
      BY <1>1, <3>1, <3>2 DEF IInv, TypeOK
  <2>6. QED
    BY <1>1, QuietSteps, <2>1, <2>2, <2>3, <2>4, <2>5
<1>2. ASSUME UNCHANGED vars PROVE OwnersLetGo
  BY <1>2 DEF vars, lockVars
<1>3. IInv /\ [Next]_vars => [OwnersLetGo]_vars
  BY <1>1, <1>2 DEF Next
<1> HIDE DEF OwnersLetGo
<1>4. QED
  BY <1>3, Invariance, PTL DEF Spec, OnlyOwnerLetsGo
=============================================================================
