------------------------ MODULE MonitorContractProofs ------------------------
(***************************************************************************)
(* Proofs that the monitors do what their callers rely on, for any number  *)
(* of threads, objects, monitors and nodes: wait nodes are accounted for,  *)
(* a lock is exclusive and counts its holder's calls, no wake-up is lost,  *)
(* and the monitors implement LockContract.                                *)
(*                                                                         *)
(* Threads may be interrupted and objects may share monitors.  What the    *)
(* code gets wrong is known: three faults, none of them frequent.  Each    *)
(* theorem assumes of a behaviour only that the faults that matter to it   *)
(* do not happen in it.                                                    *)
(***************************************************************************)
EXTENDS MonitorProofs

-----------------------------------------------------------------------------
(* What the proofs take for granted *)

\* A Wait ends by its way back through Enter: no APC throws out of that Enter.
WaitReturns ==
    \A t \in Threads :
        waiting[t] # "none" /\ waiting'[t] = "none" => pc[t] = "restore"

-----------------------------------------------------------------------------
(* The wait nodes *)

\* What a Wait that is under way has, by where its thread stands.
WaitShapeOf(t) ==
    /\ waitNode[t] # NULL => waiting[t] \in {"timed", "infinite"}
    /\ waiting[t] \in {"timed", "infinite"} => waitNode[t] # NULL
    /\ pc[t] = "idle" => waiting[t] = "none" /\ timeout[t] = "infinite"
    /\ pc[t] = "pulseWait" => waiting[t] \in {"timed", "infinite"}
    /\ pc[t] = "restore" => waiting[t] # "none"
    /\ waiting[t] # "none" => timeout[t] = "infinite"
    /\ pc[t] \in {"lastCheck", "lastGrab"} => timeout[t] = "timed"

WaitShape == \A t \in Threads : WaitShapeOf(t)

\* Every node is free or one thread's, and on the pulse list of the monitor that
\* is on its thread's object if it is on any.
NodesPlaced ==
    /\ \A n \in Nodes : n \in freeNodes \/ \E t \in Threads : waitNode[t] = n
    /\ \A t, u \in Threads : waitNode[t] = waitNode[u] => t = u \/ waitNode[t] = NULL
    /\ \A t \in Threads : waitNode[t] \notin freeNodes
    /\ \A n \in freeNodes : n \notin signaled /\ \A m \in Monitors : n \notin pulseList[m]
    /\ \A m \in Monitors : pulseList[m] \cap signaled = {}
    /\ \A t \in Threads, m \in Monitors :
         waitNode[t] \in pulseList[m] => monitor[object[t]] = m
    /\ \A t \in Threads : pc[t] = "deflate" => pulseList[local[t]] = {}

NInv == IInv /\ WaitShape /\ NodesPlaced

\* A step changes no other thread's variables.
Apart(t) ==
    \A u \in Threads \ {t} :
        /\ pc'[u] = pc[u] /\ local'[u] = local[u] /\ object'[u] = object[u]
        /\ timeout'[u] = timeout[u] /\ waiting'[u] = waiting[u]
        /\ waitNode'[u] = waitNode[u] /\ oldCount'[u] = oldCount[u]
        /\ depth'[u] = depth[u]

\* The steps of a thread are about that thread's variables.
LEMMA ThreadsApart ==
    ASSUME TypeOK, NEW t \in Threads, Step(t) \/ Disturb(t) \/ Call(t)
    PROVE  Apart(t)
<1> USE DEF TypeOK, lockVars, nodeVars, callVars, waitVars, frameVars,
        Goto, EndCall, ReturnLocked, ReturnTimedOut, Retry, ReturnUnlocked, Apart
<1>1. ASSUME \/ ReadMonitor(t) \/ AllocateMonitor(t) \/ InstallMonitor(t)
             \/ LoseInstallRace(t) \/ EnterRecursively(t) \/ AcquireInstalled(t)
             \/ Contend(t) \/ KeepAcquired(t) \/ UnacquireStale(t)
      PROVE  Apart(t)
  BY <1>1 DEF ReadMonitor, AllocateMonitor, InstallMonitor, LoseInstallRace,
              EnterRecursively, AcquireInstalled, Contend, KeepAcquired,
              UnacquireStale
<1>2. ASSUME \/ AddToReadyList(t) \/ VacateDyingMonitor(t) \/ LeaveReadyList(t)
             \/ StillInstalled(t) \/ AcquireReady(t) \/ FallAsleep(t) \/ Wake(t)
      PROVE  Apart(t)
  BY <1>2 DEF AddToReadyList, VacateDyingMonitor, LeaveReadyList, StillInstalled,
              AcquireReady, FallAsleep, Wake
<1>3. ASSUME \/ LastWaiterCheck(t) \/ LastWaiterAcquires(t)
             \/ LastWaiterGivesUp(t) \/ Disturb(t)
      PROVE  Apart(t)
  BY <1>3 DEF LastWaiterCheck, LastWaiterAcquires, LastWaiterGivesUp, Disturb,
              SleepTimesOut, SleepInterrupted, PulseWaitEnds
<1>4. ASSUME ExitStep(t) \/ WaitStep(t) PROVE Apart(t)
  BY <1>4 DEF ExitStep, WaitStep, Decide, Unacquire, Post, PostIfContended,
              Deflate, FlushReadyList, ReleaseMonitor, Pulsed, RestoreAfterWait
<1>5. ASSUME Call(t) PROVE Apart(t)
  BY <1>5 DEF Call, Enter, RaiseNotLocked, ExitRecursive, Exit, Pulse, PulseAll,
              Wait, SaveCount
<1>6. QED
  BY <1>1, <1>2, <1>3, <1>4, <1>5 DEF Step, EnterStep

\* Every step leaves a Wait in shape.
LEMMA WaitShapeKept ==
    ASSUME TypeOK, WaitShape, WaitReturns,
           NEW t \in Threads, Step(t) \/ Disturb(t) \/ Call(t)
    PROVE  WaitShape'
<1> USE DEF lockVars, nodeVars, callVars, waitVars, frameVars,
        Goto, EndCall, ReturnLocked, ReturnTimedOut, Retry, ReturnUnlocked
<1>1. \A u \in Threads \ {t} : WaitShapeOf(u)'
  BY ThreadsApart DEF Apart, WaitShape, WaitShapeOf
<1>2. SUFFICES WaitShapeOf(t)'
  BY <1>1 DEF WaitShape
<1> USE DEF TypeOK, WaitShape, WaitShapeOf, PCs
<1>3. ASSUME \/ ReadMonitor(t) \/ AllocateMonitor(t) \/ InstallMonitor(t)
             \/ LoseInstallRace(t) \/ EnterRecursively(t) \/ AcquireInstalled(t)
             \/ Contend(t) \/ KeepAcquired(t) \/ UnacquireStale(t)
      PROVE  WaitShapeOf(t)'
  BY <1>3 DEF ReadMonitor, AllocateMonitor, InstallMonitor, LoseInstallRace,
              EnterRecursively, AcquireInstalled, Contend, KeepAcquired,
              UnacquireStale
<1>4. ASSUME \/ AddToReadyList(t) \/ VacateDyingMonitor(t) \/ LeaveReadyList(t)
             \/ StillInstalled(t) \/ AcquireReady(t) \/ FallAsleep(t) \/ Wake(t)
      PROVE  WaitShapeOf(t)'
  BY <1>4 DEF AddToReadyList, VacateDyingMonitor, LeaveReadyList, StillInstalled,
              AcquireReady, FallAsleep, Wake
<1>5. ASSUME \/ LastWaiterCheck(t) \/ LastWaiterAcquires(t)
             \/ LastWaiterGivesUp(t) \/ Disturb(t)
      PROVE  WaitShapeOf(t)'
  BY <1>5 DEF LastWaiterCheck, LastWaiterAcquires, LastWaiterGivesUp, Disturb,
              SleepTimesOut, SleepInterrupted, PulseWaitEnds, WaitReturns
<1>6. ASSUME ExitStep(t) \/ WaitStep(t) PROVE WaitShapeOf(t)'
  BY <1>6, MonitorAssumption DEF ExitStep, WaitStep, Decide, Unacquire, Post,
              PostIfContended, Deflate, FlushReadyList, ReleaseMonitor, Pulsed,
              RestoreAfterWait, Timeouts
<1>7. ASSUME Call(t), ~\E o \in Objects, limit \in WaitTimeouts : Wait(t, o, limit)
      PROVE  WaitShapeOf(t)'
  BY <1>7 DEF Call, Enter, RaiseNotLocked, ExitRecursive, Exit, Pulse, PulseAll
<1>8. ASSUME NEW o \in Objects, NEW limit \in WaitTimeouts, Wait(t, o, limit)
      PROVE  WaitShapeOf(t)'
  <2>1. /\ pc'[t] = "decide" /\ waiting'[t] = limit /\ timeout'[t] = timeout[t]
        /\ pc[t] = "idle"
        /\ limit \in Timeouts
    BY <1>8, MonitorAssumption DEF Wait
  <2>2. waitNode'[t] # NULL <=> limit # "zero"
    <3>1. CASE limit = "zero"
      BY <1>8, <3>1 DEF Wait
    <3>2. CASE limit # "zero"
      BY <1>8, <3>2, MonitorAssumption DEF Wait
    <3>3. QED
      BY <3>1, <3>2
  <2>3. QED
    BY <2>1, <2>2 DEF Timeouts
<1>9. QED
  BY <1>3, <1>4, <1>5, <1>6, <1>7, <1>8 DEF Step, EnterStep

\* What a Wait has stays as it is until the Wait returns.
WaitStays(t) ==
    waiting[t] # "none" /\ pc[t] # "restore" =>
        /\ object'[t] = object[t] /\ waiting'[t] = waiting[t]
        /\ waitNode'[t] = waitNode[t] /\ oldCount'[t] = oldCount[t]
        /\ depth'[t] = depth[t]

\* Only a Wait changes what a Wait has.
LEMMA WaitsStay ==
    ASSUME TypeOK, WaitShape, WaitReturns,
           NEW t \in Threads, Step(t) \/ Disturb(t) \/ Call(t)
    PROVE  WaitStays(t)
<1> USE DEF TypeOK, WaitShape, WaitShapeOf, WaitStays, lockVars, nodeVars,
        callVars, waitVars, frameVars, Goto, EndCall, ReturnLocked,
        ReturnTimedOut, Retry, ReturnUnlocked
<1>1. ASSUME \/ ReadMonitor(t) \/ AllocateMonitor(t) \/ InstallMonitor(t)
             \/ LoseInstallRace(t) \/ EnterRecursively(t) \/ AcquireInstalled(t)
             \/ Contend(t) \/ KeepAcquired(t) \/ UnacquireStale(t)
      PROVE  WaitStays(t)
  BY <1>1 DEF ReadMonitor, AllocateMonitor, InstallMonitor, LoseInstallRace,
              EnterRecursively, AcquireInstalled, Contend, KeepAcquired,
              UnacquireStale
<1>2. ASSUME \/ AddToReadyList(t) \/ VacateDyingMonitor(t) \/ LeaveReadyList(t)
             \/ StillInstalled(t) \/ AcquireReady(t) \/ FallAsleep(t) \/ Wake(t)
      PROVE  WaitStays(t)
  BY <1>2 DEF AddToReadyList, VacateDyingMonitor, LeaveReadyList, StillInstalled,
              AcquireReady, FallAsleep, Wake
<1>3. ASSUME \/ LastWaiterCheck(t) \/ LastWaiterAcquires(t)
             \/ LastWaiterGivesUp(t) \/ Disturb(t)
      PROVE  WaitStays(t)
  BY <1>3 DEF LastWaiterCheck, LastWaiterAcquires, LastWaiterGivesUp, Disturb,
              SleepTimesOut, SleepInterrupted, PulseWaitEnds, WaitReturns
<1>4. ASSUME ExitStep(t) \/ WaitStep(t) PROVE WaitStays(t)
  BY <1>4 DEF ExitStep, WaitStep, Decide, Unacquire, Post, PostIfContended,
              Deflate, FlushReadyList, ReleaseMonitor, Pulsed, RestoreAfterWait
<1>5. ASSUME Call(t) PROVE pc[t] = "idle"
  BY <1>5 DEF Call, Enter, RaiseNotLocked, ExitRecursive, Exit, Pulse, PulseAll, Wait
<1>6. QED
  BY <1>1, <1>2, <1>3, <1>4, <1>5 DEF Step, EnterStep

KeepsNodes == UNCHANGED <<nodeVars, waitNode>>

\* Nodes change hands only in five kinds of step.
LEMMA NodeSteps ==
    ASSUME TypeOK, WaitShape, WaitReturns,
           NEW t \in Threads, Step(t) \/ Disturb(t) \/ Call(t)
    PROVE  \/ KeepsNodes
           \/ Pulsed(t) \/ RestoreAfterWait(t)
           \/ \E o \in Objects :
                \/ Pulse(t, o) \/ PulseAll(t, o)
                \/ \E limit \in WaitTimeouts : Wait(t, o, limit)
<1> USE DEF TypeOK, KeepsNodes, lockVars, nodeVars, callVars, waitVars, frameVars
<1>1. ASSUME \/ ReadMonitor(t) \/ AllocateMonitor(t) \/ InstallMonitor(t)
             \/ LoseInstallRace(t) \/ EnterRecursively(t) \/ AcquireInstalled(t)
             \/ Contend(t) \/ KeepAcquired(t) \/ UnacquireStale(t)
      PROVE  KeepsNodes
  BY <1>1 DEF ReadMonitor, AllocateMonitor, InstallMonitor, LoseInstallRace,
              EnterRecursively, AcquireInstalled, TryAcquire, Contend, KeepAcquired,
              UnacquireStale
<1>2. ASSUME \/ AddToReadyList(t) \/ VacateDyingMonitor(t) \/ LeaveReadyList(t)
             \/ StillInstalled(t) \/ AcquireReady(t) \/ FallAsleep(t) \/ Wake(t)
      PROVE  KeepsNodes
  BY <1>2 DEF AddToReadyList, VacateDyingMonitor, LeaveReadyList, StillInstalled,
              AcquireReady, FallAsleep, Wake, TryAcquire, RemoveFromReadyList
<1>3. ASSUME \/ LastWaiterCheck(t) \/ LastWaiterAcquires(t) \/ LastWaiterGivesUp(t)
             \/ SleepTimesOut(t) \/ PulseWaitEnds(t)
      PROVE  KeepsNodes
  BY <1>3 DEF LastWaiterCheck, LastWaiterAcquires, LastWaiterGivesUp, TryAcquire,
              SleepTimesOut, PulseWaitEnds, RemoveFromReadyList
<1>4. ASSUME SleepInterrupted(t) PROVE KeepsNodes
  <2>1. /\ waitNode' = [waitNode EXCEPT ![t] = NULL]
        /\ waiting[t] = "none"
        /\ UNCHANGED nodeVars
    BY <1>4 DEF SleepInterrupted, RemoveFromReadyList, WaitReturns
  <2>2. waitNode[t] = NULL
    BY <2>1 DEF WaitShape, WaitShapeOf
  <2>3. QED
    BY <2>1, <2>2
<1>5. ASSUME ExitStep(t) PROVE KeepsNodes
  BY <1>5 DEF ExitStep, Decide, Unacquire, Post, PostIfContended, Deflate,
              FlushReadyList, ReleaseMonitor
<1>6. ASSUME NEW o \in Objects,
             \/ \E limit \in EnterTimeouts : Enter(t, o, limit)
             \/ RaiseNotLocked(t, o) \/ ExitRecursive(t, o) \/ Exit(t, o)
      PROVE  KeepsNodes
  BY <1>6 DEF Enter, RaiseNotLocked, ExitRecursive, Exit
<1>7. QED
  BY <1>1, <1>2, <1>3, <1>4, <1>5, <1>6 DEF Step, EnterStep, WaitStep, Disturb, Call

\* The monitor of an object on whose monitor threads wait for a pulse stays there.
LEMMA PulseListPins ==
    ASSUME NInv, NEW t \in Threads, Step(t) \/ Disturb(t) \/ Call(t),
           NEW o \in Objects, NEW m \in Monitors, monitor[o] = m, pulseList[m] # {}
    PROVE  monitor'[o] = m
<1> USE DEF NInv, IInv, TypeOK, lockVars, nodeVars
<1>1. ASSUME UNCHANGED monitor PROVE monitor'[o] = m
  BY <1>1
<1>2. ASSUME InstallMonitor(t) PROVE monitor'[o] = m
  BY <1>2, MonitorAssumption DEF InstallMonitor
<1>3. ASSUME Deflate(t) PROVE monitor'[o] = m
  BY <1>3 DEF Deflate, OwnerSteps, NodesPlaced
<1>4. QED
  BY QuietSteps, <1>1, <1>2, <1>3
     DEF KeepsMonitors, AllocateMonitor, LoseInstallRace, Acquires, AcquireInstalled,
         AcquireReady, LastWaiterAcquires, TryAcquire, UnacquireStale, Unacquire,
         ReleaseMonitor

\* What t does to two of its places: it gets to deflate by Decide alone, and it
\* leaves the end of a Wait by RestoreAfterWait alone.
LEMMA DeflateReached ==
    ASSUME TypeOK, NEW t \in Threads, Step(t) \/ Disturb(t) \/ Call(t)
    PROVE  /\ pc'[t] = "deflate" => Decide(t)
           /\ pc[t] = "restore" => RestoreAfterWait(t)
<1> DEFINE P == /\ pc'[t] = "deflate" => Decide(t)
                /\ pc[t] = "restore" => RestoreAfterWait(t)
<1> USE DEF TypeOK, lockVars, nodeVars, callVars, waitVars, frameVars,
        Goto, EndCall, ReturnLocked, ReturnTimedOut, Retry, ReturnUnlocked
<1>1. ASSUME \/ ReadMonitor(t) \/ AllocateMonitor(t) \/ InstallMonitor(t)
             \/ LoseInstallRace(t) \/ EnterRecursively(t) \/ AcquireInstalled(t)
             \/ Contend(t) \/ KeepAcquired(t) \/ UnacquireStale(t)
      PROVE  P
  BY <1>1 DEF ReadMonitor, AllocateMonitor, InstallMonitor, LoseInstallRace,
              EnterRecursively, AcquireInstalled, Contend, KeepAcquired,
              UnacquireStale
<1>2. ASSUME \/ AddToReadyList(t) \/ VacateDyingMonitor(t) \/ LeaveReadyList(t)
             \/ StillInstalled(t) \/ AcquireReady(t) \/ FallAsleep(t) \/ Wake(t)
      PROVE  P
  BY <1>2 DEF AddToReadyList, VacateDyingMonitor, LeaveReadyList, StillInstalled,
              AcquireReady, FallAsleep, Wake
<1>3. ASSUME \/ LastWaiterCheck(t) \/ LastWaiterAcquires(t)
             \/ LastWaiterGivesUp(t) \/ Disturb(t)
      PROVE  P
  BY <1>3 DEF LastWaiterCheck, LastWaiterAcquires, LastWaiterGivesUp, Disturb,
              SleepTimesOut, SleepInterrupted, PulseWaitEnds
<1>4. ASSUME \/ Unacquire(t) \/ Post(t) \/ PostIfContended(t) \/ Deflate(t)
             \/ FlushReadyList(t) \/ ReleaseMonitor(t) \/ WaitStep(t)
      PROVE  P
  BY <1>4 DEF WaitStep, Unacquire, Post, PostIfContended, Deflate, FlushReadyList,
              ReleaseMonitor, Pulsed, RestoreAfterWait
<1>5. ASSUME Call(t) PROVE P
  BY <1>5 DEF Call, Enter, RaiseNotLocked, ExitRecursive, Exit, Pulse, PulseAll, Wait
<1>6. ASSUME Decide(t) PROVE P
  BY <1>6 DEF Decide
<1>7. QED
  BY <1>1, <1>2, <1>3, <1>4, <1>5, <1>6 DEF Step, EnterStep, ExitStep

\* A Wait keeps its object, and with it the monitor its node waits on.
LEMMA ListedStays ==
    ASSUME NInv, WaitReturns, NEW t \in Threads, Step(t) \/ Disturb(t) \/ Call(t),
           NEW u \in Threads, u # t \/ pc[t] # "restore",
           NEW m \in Monitors, waitNode[u] \in pulseList[m]
    PROVE  monitor'[object'[u]] = m
<1> USE DEF NInv, IInv, TypeOK
<1>1. Apart(t) /\ WaitStays(t)
  BY ThreadsApart, WaitsStay
<1>2. monitor[object[u]] = m /\ waitNode[u] # NULL
  BY MonitorAssumption DEF NodesPlaced
<1>3. waiting[u] # "none" /\ pc[u] # "idle"
  BY <1>2 DEF WaitShape, WaitShapeOf
<1>4. object[u] \in Objects /\ object'[u] = object[u]
  BY <1>1, <1>3 DEF CallShape, Apart, WaitStays
<1>5. QED
  BY <1>2, <1>4, PulseListPins

\* The last two parts of NodesPlaced, which are also about the monitors.
ListedOnObject ==
    \A t \in Threads, m \in Monitors :
        waitNode[t] \in pulseList[m] => monitor[object[t]] = m

DeflatesUnlisted == \A t \in Threads : pc[t] = "deflate" => pulseList[local[t]] = {}

\* Whoever deflates finds no threads waiting for a pulse, if the lists of the
\* other threads' monitors do not grow.
LEMMA UnlistedKept ==
    ASSUME NInv, NEW t \in Threads, Step(t) \/ Disturb(t) \/ Call(t),
           Decide(t) => UNCHANGED pulseList,
           \A m \in Monitors : owner[m] # t => pulseList'[m] \subseteq pulseList[m]
    PROVE  DeflatesUnlisted'
<1> USE DEF NInv, IInv, TypeOK
<1>1. SUFFICES ASSUME NEW u \in Threads, pc'[u] = "deflate"
               PROVE  pulseList'[local'[u]] = {}
  BY DEF DeflatesUnlisted
<1>2. CASE u # t
  <2>1. pc[u] = "deflate" /\ local'[u] = local[u] /\ local[u] \in Monitors
    BY <1>1, <1>2, ThreadsApart DEF Apart, CallShape, WithLocal, PCs
  <2>2. owner[local[u]] = u /\ pulseList[local[u]] = {}
    BY <2>1 DEF OwnerSteps, NodesPlaced
  <2>3. QED
    BY <1>2, <2>1, <2>2
<1>3. CASE u = t
  <2>1. Decide(t)
    BY <1>1, <1>3, DeflateReached
  <2>2. pulseList[local[t]] = {} /\ local'[t] = local[t] /\ UNCHANGED pulseList
    BY <1>1, <1>3, <2>1 DEF Decide, Goto
  <2>3. QED
    BY <1>3, <2>2
<1>4. QED
  BY <1>2, <1>3

\* The nodes stay where they belong.
LEMMA NodesPlacedKept ==
    ASSUME NInv, WaitReturns, NEW t \in Threads, Step(t) \/ Disturb(t) \/ Call(t)
    PROVE  NodesPlaced'
<1> USE DEF NInv, IInv, TypeOK, nodeVars
<1>1. Apart(t) /\ WaitStays(t)
  BY ThreadsApart, WaitsStay
<1>2. CASE KeepsNodes
  <2>1. DeflatesUnlisted'
    BY <1>2, UnlistedKept DEF KeepsNodes
  <2>2. ListedOnObject'
    <3>1. SUFFICES ASSUME NEW u \in Threads, NEW m \in Monitors,
                          waitNode[u] \in pulseList[m]
                   PROVE  monitor'[object'[u]] = m
      BY <1>2 DEF KeepsNodes, ListedOnObject
    <3>2. u # t \/ pc[t] # "restore"
      <4>1. waitNode[u] # NULL
        BY <3>1, MonitorAssumption
      <4>2. RestoreAfterWait(t) => waitNode'[t] = NULL
        BY DEF RestoreAfterWait
      <4>3. QED
        BY <1>2, <4>1, <4>2, DeflateReached DEF KeepsNodes
    <3>3. QED
      BY <3>1, <3>2, ListedStays
  <2>3. QED
    BY <1>2, <2>1, <2>2 DEF NodesPlaced, KeepsNodes, DeflatesUnlisted, ListedOnObject
<1>3. CASE Pulsed(t)
  <2>1. /\ UNCHANGED <<pulseList, freeNodes, waitNode, monitor, object>>
        /\ signaled' \subseteq signaled
        /\ pc' = [pc EXCEPT ![t] = "read"]
        /\ UNCHANGED local
    BY <1>3 DEF Pulsed, lockVars, frameVars, callVars, waitVars, Goto
  <2>2. QED
    BY <2>1 DEF NodesPlaced
<1>4. ASSUME NEW o \in Objects, LockedByCurrentThread(t, o), NEW N \in SUBSET Nodes,
             N \subseteq pulseList[monitor[o]],
             pulseList' = [pulseList EXCEPT ![monitor[o]] = @ \ N],
             signaled' = signaled \cup N,
             UNCHANGED <<freeNodes, waitNode, monitor, object, pc, local>>
      PROVE  NodesPlaced'
  <2>1. monitor[o] \in Monitors
    BY <1>4 DEF LockedByCurrentThread
  <2>2. \A m \in Monitors : pulseList'[m] \subseteq pulseList[m]
    BY <1>4, <2>1
  <2>3. \A m \in Monitors : m # monitor[o] => pulseList[m] \cap pulseList[monitor[o]] = {}
    <3>1. SUFFICES ASSUME NEW m \in Monitors, m # monitor[o],
                          NEW n \in pulseList[m], n \in pulseList[monitor[o]]
                   PROVE  FALSE
      OBVIOUS
    <3>2. n \in Nodes /\ n \notin freeNodes
      BY <2>1 DEF NodesPlaced
    <3>3. PICK u \in Threads : waitNode[u] = n
      BY <3>2 DEF NodesPlaced
    <3>4. monitor[object[u]] = m /\ monitor[object[u]] = monitor[o]
      BY <2>1, <3>1, <3>3 DEF NodesPlaced
    <3>5. QED
      BY <3>1, <3>4
  <2>4. \A m \in Monitors : pulseList'[m] \cap signaled' = {}
    <3>1. SUFFICES ASSUME NEW m \in Monitors PROVE pulseList'[m] \cap signaled' = {}
      OBVIOUS
    <3>2. CASE m = monitor[o]
      BY <1>4, <2>1, <3>2 DEF NodesPlaced
    <3>3. CASE m # monitor[o]
      BY <1>4, <2>1, <2>3, <3>3 DEF NodesPlaced
    <3>4. QED
      BY <3>2, <3>3
  <2>5. \A n \in freeNodes : n \notin signaled'
    BY <1>4, <2>1 DEF NodesPlaced
  <2>6. QED
    BY <1>4, <2>2, <2>4, <2>5 DEF NodesPlaced
<1>5. ASSUME NEW o \in Objects, Pulse(t, o) PROVE NodesPlaced'
  <2>1. PICK n \in pulseList[monitor[o]] :
          /\ pulseList' = [pulseList EXCEPT ![monitor[o]] = @ \ {n}]
          /\ signaled' = signaled \cup {n}
    BY <1>5 DEF Pulse
  <2>2. /\ LockedByCurrentThread(t, o)
        /\ UNCHANGED <<freeNodes, waitNode, monitor, object, pc, local>>
    BY <1>5 DEF Pulse, lockVars, frameVars, callVars, waitVars
  <2>3. {n} \in SUBSET Nodes /\ {n} \subseteq pulseList[monitor[o]]
    BY <2>2 DEF LockedByCurrentThread
  <2>4. QED
    BY <1>4, <2>1, <2>2, <2>3
<1>6. ASSUME NEW o \in Objects, PulseAll(t, o) PROVE NodesPlaced'
  <2>1. /\ LockedByCurrentThread(t, o)
        /\ UNCHANGED <<freeNodes, waitNode, monitor, object, pc, local>>
        /\ signaled' = signaled \cup pulseList[monitor[o]]
        /\ pulseList' = [pulseList EXCEPT ![monitor[o]] = {}]
    BY <1>6 DEF PulseAll, lockVars, frameVars, callVars, waitVars
  <2>2. /\ pulseList[monitor[o]] \in SUBSET Nodes
        /\ pulseList' = [pulseList EXCEPT ![monitor[o]] = @ \ pulseList[monitor[o]]]
    BY <2>1 DEF LockedByCurrentThread
  <2>3. QED
    BY <1>4, <2>1, <2>2
<1>7. ASSUME NEW o \in Objects, NEW limit \in WaitTimeouts, Wait(t, o, limit)
      PROVE  NodesPlaced'
  <2>1. /\ pc[t] = "idle" /\ LockedByCurrentThread(t, o)
        /\ pc' = [pc EXCEPT ![t] = "decide"]
        /\ object' = [object EXCEPT ![t] = o]
        /\ local' = [local EXCEPT ![t] = monitor[o]]
        /\ UNCHANGED <<signaled, monitor>>
    BY <1>7 DEF Wait, Goto
  <2>2. waitNode[t] = NULL /\ monitor[o] \in Monitors
    BY <2>1 DEF WaitShape, WaitShapeOf, LockedByCurrentThread
  <2>3. CASE limit = "zero"
    <3>1. UNCHANGED <<pulseList, freeNodes, waitNode>>
      BY <1>7, <2>3 DEF Wait
    <3>2. QED
      BY <2>1, <2>2, <3>1, MonitorAssumption DEF NodesPlaced
  <2>4. CASE limit # "zero"
    <3>1. PICK n \in freeNodes :
            /\ freeNodes' = freeNodes \ {n}
            /\ waitNode' = [waitNode EXCEPT ![t] = n]
            /\ pulseList' = [pulseList EXCEPT ![monitor[o]] = @ \cup {n}]
      BY <1>7, <2>4 DEF Wait
    <3>2. /\ n \in Nodes /\ n # NULL /\ n \notin signaled
          /\ \A m \in Monitors : n \notin pulseList[m]
          /\ \A u \in Threads : waitNode[u] # n
      BY <3>1, MonitorAssumption DEF NodesPlaced
    <3>3. \A k \in Nodes : k \in freeNodes' \/ \E u \in Threads : waitNode'[u] = k
      BY <2>2, <3>1, <3>2, MonitorAssumption DEF NodesPlaced
    <3>4. \A u, v \in Threads :
            waitNode'[u] = waitNode'[v] => u = v \/ waitNode'[u] = NULL
      BY <3>1, <3>2 DEF NodesPlaced
    <3>5. \A u \in Threads : waitNode'[u] \notin freeNodes'
      BY <3>1 DEF NodesPlaced
    <3>6. \A k \in freeNodes' :
            k \notin signaled' /\ \A m \in Monitors : k \notin pulseList'[m]
      BY <2>1, <2>2, <3>1 DEF NodesPlaced
    <3>7. \A m \in Monitors : pulseList'[m] \cap signaled' = {}
      BY <2>1, <2>2, <3>1, <3>2 DEF NodesPlaced
    <3>8. ListedOnObject'
      <4>1. SUFFICES ASSUME NEW u \in Threads, NEW m \in Monitors,
                            waitNode'[u] \in pulseList'[m]
                     PROVE  monitor'[object'[u]] = m
        BY DEF ListedOnObject
      <4>2. CASE u = t
        BY <2>1, <2>2, <3>1, <3>2, <4>1, <4>2
      <4>3. CASE u # t
        BY <2>1, <2>2, <3>1, <3>2, <4>1, <4>3 DEF NodesPlaced
      <4>4. QED
        BY <4>2, <4>3
    <3>9. DeflatesUnlisted'
      <4>1. \A m \in Monitors : owner[m] # t => pulseList'[m] = pulseList[m]
        BY <2>1, <2>2, <3>1 DEF LockedByCurrentThread
      <4>2. ~Decide(t)
        BY <2>1 DEF Decide
      <4>3. QED
        BY <4>1, <4>2, UnlistedKept
    <3>10. QED
      BY <3>3, <3>4, <3>5, <3>6, <3>7, <3>8, <3>9
         DEF NodesPlaced, ListedOnObject, DeflatesUnlisted
  <2>5. QED
    BY <2>3, <2>4
<1>8. CASE RestoreAfterWait(t)
  <2>1. /\ pc[t] = "restore" /\ monitor[object[t]] # NULL /\ object[t] \in Objects
        /\ pulseList' = [pulseList EXCEPT ![monitor[object[t]]] = @ \ {waitNode[t]}]
        /\ signaled' = signaled \ {waitNode[t]}
        /\ freeNodes' = freeNodes \cup ({waitNode[t]} \ {NULL})
        /\ waitNode' = [waitNode EXCEPT ![t] = NULL]
        /\ pc' = [pc EXCEPT ![t] = "idle"]
        /\ UNCHANGED monitor
    BY <1>8 DEF RestoreAfterWait, ReleaseNode, EndCall, Goto, CallShape
  <2>2. PICK m \in Monitors : m = monitor[object[t]]
    BY <2>1
  <2>3. PICK n \in Nodes \cup {NULL} : n = waitNode[t]
    OBVIOUS
  <2>4. \A k \in Monitors : n \notin pulseList'[k]
    BY <2>1, <2>2, <2>3, MonitorAssumption DEF NodesPlaced
  <2>5. \A k \in Monitors : pulseList'[k] \subseteq pulseList[k]
    BY <2>1, <2>2
  <2>6. \A k \in Nodes : k \in freeNodes' \/ \E u \in Threads : waitNode'[u] = k
    BY <2>1, <2>3 DEF NodesPlaced
  <2>7. \A u, v \in Threads :
          waitNode'[u] = waitNode'[v] => u = v \/ waitNode'[u] = NULL
    BY <2>1 DEF NodesPlaced
  <2>8. \A u \in Threads : waitNode'[u] \notin freeNodes'
    BY <2>1, <2>3, MonitorAssumption DEF NodesPlaced
  <2>9. \A k \in freeNodes' :
          k \notin signaled' /\ \A l \in Monitors : k \notin pulseList'[l]
    BY <2>1, <2>3, <2>4, <2>5 DEF NodesPlaced
  <2>10. \A k \in Monitors : pulseList'[k] \cap signaled' = {}
    BY <2>1, <2>5 DEF NodesPlaced
  <2>11. ListedOnObject'
    <3>1. SUFFICES ASSUME NEW u \in Threads, NEW k \in Monitors,
                          waitNode'[u] \in pulseList'[k]
                   PROVE  monitor'[object'[u]] = k
      BY DEF ListedOnObject
    <3>2. u # t
      BY <2>1, <2>5, <3>1, MonitorAssumption
    <3>3. waitNode[u] \in pulseList[k]
      BY <2>1, <2>5, <3>1, <3>2
    <3>4. QED
      BY <3>2, <3>3, ListedStays
  <2>12. DeflatesUnlisted'
    <3>1. ~Decide(t)
      BY <2>1 DEF Decide
    <3>2. QED
      BY <2>5, <3>1, UnlistedKept
  <2>13. QED
    BY <2>6, <2>7, <2>8, <2>9, <2>10, <2>11, <2>12
       DEF NodesPlaced, ListedOnObject, DeflatesUnlisted
<1>9. QED
  BY NodeSteps, <1>2, <1>3, <1>5, <1>6, <1>7, <1>8
\* Every step of a program whose Waits return keeps the invariant of the nodes.
LEMMA NextNInv == NInv /\ [Next]_vars /\ [WaitReturns]_vars => NInv'
<1>1. ASSUME NInv, UNCHANGED vars PROVE NInv'
  <2>1. IInv'
    BY <1>1, NextInv DEF NInv
  <2>2. WaitShape' /\ NodesPlaced'
    BY <1>1 DEF NInv, WaitShape, WaitShapeOf, NodesPlaced, vars, lockVars, nodeVars,
                waitVars, callVars, frameVars
  <2>3. QED
    BY <2>1, <2>2 DEF NInv
<1>2. ASSUME NInv, NEW t \in Threads, Step(t) \/ Disturb(t) \/ Call(t), WaitReturns
      PROVE  NInv'
  <2>1. IInv'
    BY <1>2, NextInv DEF Next, NInv
  <2>2. WaitShape'
    BY <1>2, WaitShapeKept DEF NInv, IInv
  <2>3. NodesPlaced'
    BY <1>2, NodesPlacedKept
  <2>4. QED
    BY <2>1, <2>2, <2>3 DEF NInv
<1>3. ASSUME ~UNCHANGED vars, [WaitReturns]_vars PROVE WaitReturns
  BY <1>3
<1>4. QED
  BY <1>1, <1>2, <1>3 DEF Next

\* The invariant of the nodes holds at the start.
LEMMA InitNInv == Init => NInv
<1>1. SUFFICES ASSUME Init PROVE NInv
  OBVIOUS
<1>2. IInv
  BY <1>1, InitInv
<1>3. WaitShape
  BY <1>1, MonitorAssumption DEF Init, WaitShape, WaitShapeOf
<1>4. NodesPlaced
  BY <1>1, MonitorAssumption DEF Init, NodesPlaced
<1>5. QED
  BY <1>2, <1>3, <1>4 DEF NInv

\* What the invariant says of the nodes is what NodeAccounting says.
LEMMA NodesAccounted == NInv => NodeAccounting
BY MonitorAssumption DEF NInv, WaitShape, WaitShapeOf, NodesPlaced, NodeAccounting, IInv, TypeOK

\* No wait node is lost, used twice or left signalled, whatever the objects and
\* the timeouts, as long as no APC throws out of the Enter by which Wait takes the
\* lock again.
THEOREM NodesAreAccountedFor == Spec /\ [][WaitReturns]_vars => []NodeAccounting
<1>1. NInv => NodeAccounting
  BY NodesAccounted
<1>2. QED
  BY <1>1, InitNInv, NextNInv, PTL DEF Spec

-----------------------------------------------------------------------------
(* Who is inside *)

\* The last waiter that gives up and takes the lock after all takes the one that
\* is on its object: it has seen it there, and no other has come in its place.
LastWaiterHasIt ==
    \A t \in Threads :
        pc[t] = "lastGrab" /\ owner[local[t]] = CanBeAcquired =>
            monitor[object[t]] = local[t]

\* Where a thread is on its way into a lock it is not inside.
Entering == {"alloc", "install", "check", "ready", "loop", "grab", "leave",
             "sleep", "vacate", "lastCheck", "lastGrab"}

\* Where a thread owns its monitor with the lock not yet, or no longer, its
\* caller's.
Between == {"install", "check", "leave", "decide", "handoff", "unlock", "deflate",
            "flush"}

EntryShape(t) ==
    /\ pc[t] \in Entering => ~Inside(t, object[t])
    /\ pc[t] = "try" /\ (owner[local[t]] = t \/ Inside(t, object[t])) =>
         monitor[object[t]] = local[t]
    /\ pc[t] = "leave" => monitor[object[t]] = local[t]
    /\ pc[t] = "restore" => LockedByCurrentThread(t, object[t])
    /\ waiting[t] # "none" =>
         oldCount[t] = depth[t][object[t]] /\ depth[t][object[t]] > 0
    /\ pc[t] \in Between =>
         /\ recursion[local[t]] = 1
         /\ \A o \in Objects : Inside(t, o) => monitor[o] # local[t]

\* t owns a monitor because it is inside its lock, or is on its way in or out.
OwnedForAReason(t) ==
    \A m \in Monitors : owner[m] = t =>
        \/ \E o \in Objects : Inside(t, o) /\ monitor[o] = m
        \/ pc[t] \in Between /\ local[t] = m
        \/ pc[t] = "restore" /\ monitor[object[t]] = m

InsideOwns(t) ==
    \A o \in Objects :
        Inside(t, o) =>
            LockedByCurrentThread(t, o) /\ recursion[monitor[o]] = depth[t][o]

\* A monitor nobody owns has been left as often as it was entered.
Unrecursed == \A m \in Monitors : owner[m] \notin Threads => recursion[m] = 1

HInvOf(t) == EntryShape(t) /\ OwnedForAReason(t) /\ InsideOwns(t)

HInv == NInv /\ Unrecursed /\ \A t \in Threads : HInvOf(t)

\* A step of t changes nothing about a monitor that another thread owns, nor
\* takes it off its object.
MineOnly(t) ==
    /\ \A m \in Monitors :
         owner'[m] # owner[m] =>
            \/ owner[m] = t /\ owner'[m] \notin Threads
            \/ owner[m] \notin Threads /\ owner'[m] = t
    /\ \A m \in Monitors : recursion'[m] # recursion[m] => owner[m] = t
    /\ \A o \in Objects :
         monitor'[o] # monitor[o] =>
            IF monitor[o] # NULL THEN owner[monitor[o]] = t ELSE owner[monitor'[o]] = t

\* The recursion count changes in four kinds of step.
LEMMA CountSteps ==
    ASSUME TypeOK, NEW t \in Threads, Step(t) \/ Disturb(t) \/ Call(t)
    PROVE  \/ UNCHANGED recursion
           \/ EnterRecursively(t) \/ RestoreAfterWait(t)
           \/ \E o \in Objects :
                ExitRecursive(t, o) \/ \E limit \in WaitTimeouts : Wait(t, o, limit)
<1> DEFINE P == UNCHANGED recursion
<1> USE DEF TypeOK, lockVars, nodeVars, callVars, waitVars, frameVars
<1>1. ASSUME \/ ReadMonitor(t) \/ AllocateMonitor(t) \/ InstallMonitor(t)
             \/ LoseInstallRace(t) \/ AcquireInstalled(t)
             \/ Contend(t) \/ KeepAcquired(t) \/ UnacquireStale(t)
      PROVE  P
  BY <1>1 DEF ReadMonitor, AllocateMonitor, InstallMonitor, LoseInstallRace,
              AcquireInstalled, TryAcquire, Contend, KeepAcquired, UnacquireStale
<1>2. ASSUME \/ AddToReadyList(t) \/ VacateDyingMonitor(t) \/ LeaveReadyList(t)
             \/ StillInstalled(t) \/ AcquireReady(t) \/ FallAsleep(t) \/ Wake(t)
      PROVE  P
  BY <1>2 DEF AddToReadyList, VacateDyingMonitor, LeaveReadyList, StillInstalled,
              AcquireReady, FallAsleep, Wake, TryAcquire, RemoveFromReadyList
<1>3. ASSUME \/ LastWaiterCheck(t) \/ LastWaiterAcquires(t)
             \/ LastWaiterGivesUp(t) \/ Disturb(t)
      PROVE  P
  BY <1>3 DEF LastWaiterCheck, LastWaiterAcquires, LastWaiterGivesUp, TryAcquire,
              Disturb, SleepTimesOut, SleepInterrupted, PulseWaitEnds,
              RemoveFromReadyList
<1>4. ASSUME ExitStep(t) \/ Pulsed(t) PROVE P
  BY <1>4 DEF ExitStep, Decide, Unacquire, Post, PostIfContended, Deflate,
              FlushReadyList, ReleaseMonitor, Pulsed
<1>5. ASSUME NEW o \in Objects,
             \/ \E limit \in EnterTimeouts : Enter(t, o, limit)
             \/ RaiseNotLocked(t, o) \/ Exit(t, o) \/ Pulse(t, o) \/ PulseAll(t, o)
      PROVE  P
  BY <1>5 DEF Enter, RaiseNotLocked, Exit, Pulse, PulseAll
<1>6. QED
  BY <1>1, <1>2, <1>3, <1>4, <1>5 DEF Step, EnterStep, WaitStep, Call

\* A thread between two states of a lock owns its monitor.
LEMMA BetweenOwns ==
    ASSUME IInv, NEW t \in Threads, pc[t] \in Between
    PROVE  local[t] \in Monitors /\ owner[local[t]] = t
<1>1. local[t] \in Monitors /\ object[t] \in Objects
  BY DEF IInv, CallShape, WithLocal, Between, PCs
<1>2. CASE pc[t] \in {"install", "flush"}
  BY <1>1, <1>2 DEF IInv, MonitorAccounting, Private
<1>3. CASE pc[t] \notin {"install", "flush"}
  BY <1>1, <1>3 DEF IInv, OwnerSteps, Between
<1>4. QED
  BY <1>1, <1>2, <1>3

\* The owner, the count and the object of another thread's monitor do not change.
LEMMA OthersMonitorsStay ==
    ASSUME HInv, NEW t \in Threads, Step(t) \/ Disturb(t) \/ Call(t)
    PROVE  MineOnly(t)
<1> USE SpecialOwners DEF HInv, NInv, IInv, TypeOK
<1>1. ASSUME NEW o \in Objects, LockedByCurrentThread(t, o)
      PROVE  monitor[o] \in Monitors /\ owner[monitor[o]] = t
  BY <1>1 DEF LockedByCurrentThread
<1>2. \A m \in Monitors : recursion'[m] # recursion[m] => owner[m] = t
  <2>1. ASSUME EnterRecursively(t)
        PROVE  \A m \in Monitors : recursion'[m] # recursion[m] => owner[m] = t
    BY <2>1 DEF EnterRecursively
  <2>2. ASSUME RestoreAfterWait(t)
        PROVE  \A m \in Monitors : recursion'[m] # recursion[m] => owner[m] = t
    <3>1. pc[t] = "restore" /\ object[t] \in Objects
      BY <2>2 DEF RestoreAfterWait, CallShape
    <3>2. monitor[object[t]] \in Monitors /\ owner[monitor[object[t]]] = t
      BY <1>1, <3>1 DEF HInvOf, EntryShape
    <3>3. QED
      BY <2>2, <3>2 DEF RestoreAfterWait, RestoreCount
  <2>3. ASSUME NEW o \in Objects,
               ExitRecursive(t, o) \/ \E limit \in WaitTimeouts : Wait(t, o, limit)
        PROVE  \A m \in Monitors : recursion'[m] # recursion[m] => owner[m] = t
    BY <1>1, <2>3 DEF ExitRecursive, Wait, SaveCount
  <2>4. QED
    BY <2>1, <2>2, <2>3, CountSteps
<1>3. \A m \in Monitors :
        owner'[m] # owner[m] =>
            \/ owner[m] = t /\ owner'[m] \notin Threads
            \/ owner[m] \notin Threads /\ owner'[m] = t
  <2>1. CASE AllocateMonitor(t)
    BY <2>1 DEF AllocateMonitor, MonitorAccounting
  <2>2. CASE Acquires(t)
    BY <2>2 DEF Acquires, AcquireInstalled, AcquireReady, LastWaiterAcquires, TryAcquire
  <2>3. CASE LoseInstallRace(t) \/ UnacquireStale(t) \/ Unacquire(t) \/ ReleaseMonitor(t)
    <3>1. pc[t] \in Between
      BY <2>3 DEF LoseInstallRace, UnacquireStale, Unacquire, ReleaseMonitor, Between
    <3>2. owner[local[t]] = t
      BY <3>1, BetweenOwns
    <3>3. QED
      BY <2>3, <3>2 DEF LoseInstallRace, UnacquireStale, Unacquire, ReleaseMonitor
  <2>4. CASE KeepsMonitors \/ InstallMonitor(t) \/ Deflate(t)
    BY <2>4 DEF KeepsMonitors, InstallMonitor, Deflate
  <2>5. QED
    BY <2>1, <2>2, <2>3, <2>4, QuietSteps
<1>4. \A o \in Objects :
         monitor'[o] # monitor[o] =>
            IF monitor[o] # NULL THEN owner[monitor[o]] = t ELSE owner[monitor'[o]] = t
  <2>1. CASE InstallMonitor(t)
    <3>1. owner[local[t]] = t /\ object[t] \in Objects
      BY <2>1, BetweenOwns DEF InstallMonitor, Between, CallShape
    <3>2. QED
      BY <2>1, <3>1 DEF InstallMonitor
  <2>2. CASE Deflate(t)
    BY <2>2 DEF Deflate, OwnerSteps, CallShape
  <2>3. CASE UNCHANGED monitor
    BY <2>3
  <2>4. QED
    BY <2>1, <2>2, <2>3, QuietSteps
       DEF KeepsMonitors, AllocateMonitor, LoseInstallRace, Acquires, AcquireInstalled,
           AcquireReady, LastWaiterAcquires, TryAcquire, UnacquireStale, Unacquire,
           ReleaseMonitor
<1>5. QED
  BY <1>2, <1>3, <1>4 DEF MineOnly

\* What holds of a thread holds of it after a step of another.
LEMMA OthersKeepHInv ==
    ASSUME HInv, NEW t \in Threads, Step(t) \/ Disturb(t) \/ Call(t),
           NEW u \in Threads, u # t
    PROVE  HInvOf(u)'
<1> USE SpecialOwners, MonitorAssumption DEF HInv, NInv, IInv, TypeOK, HInvOf
<1>1. /\ pc'[u] = pc[u] /\ local'[u] = local[u] /\ object'[u] = object[u]
      /\ waiting'[u] = waiting[u] /\ oldCount'[u] = oldCount[u]
      /\ depth'[u] = depth[u]
  BY ThreadsApart DEF Apart
<1>2. \A o \in Objects : Inside(u, o)' <=> Inside(u, o)
  BY <1>1 DEF Inside
<1>3. \A m \in Monitors : owner[m] = u <=> owner'[m] = u
  BY OthersMonitorsStay DEF MineOnly
<1>4. \A m \in Monitors : owner[m] = u => recursion'[m] = recursion[m]
  BY OthersMonitorsStay DEF MineOnly
<1>5. \A o \in Objects : LockedByCurrentThread(u, o) =>
        monitor'[o] = monitor[o] /\ monitor[o] \in Monitors
  BY OthersMonitorsStay DEF MineOnly, LockedByCurrentThread
<1>6. \A o \in Objects : LockedByCurrentThread(u, o) => LockedByCurrentThread(u, o)'
  BY <1>3, <1>5 DEF LockedByCurrentThread
<1>7. InsideOwns(u)'
  BY <1>1, <1>2, <1>4, <1>5, <1>6 DEF InsideOwns, LockedByCurrentThread
<1>8. OwnedForAReason(u)'
  <2>1. SUFFICES ASSUME NEW m \in Monitors, owner'[m] = u
                 PROVE  \/ \E o \in Objects : Inside(u, o)' /\ monitor'[o] = m
                        \/ pc'[u] \in Between /\ local'[u] = m
                        \/ pc'[u] = "restore" /\ monitor'[object'[u]] = m
    BY DEF OwnedForAReason
  <2>2. owner[m] = u
    BY <1>3, <2>1
  <2>3. \A o \in Objects : monitor[o] = m => monitor'[o] = m
    BY <1>5, <2>2 DEF LockedByCurrentThread
  <2>4. pc[u] = "restore" => object[u] \in Objects
    BY DEF CallShape
  <2>5. QED
    BY <1>1, <1>2, <2>2, <2>3, <2>4 DEF OwnedForAReason
<1>9. EntryShape(u)'
  <2>1. pc[u] # "idle" => object[u] \in Objects
    BY DEF CallShape
  <2>2. pc[u] \in Entering => ~Inside(u, object[u])'
    BY <1>1, <1>2, <2>1 DEF EntryShape, Entering
  <2>3. ASSUME pc[u] = "try", owner'[local[u]] = u \/ Inside(u, object[u])'
        PROVE  monitor'[object[u]] = local[u]
    <3>1. local[u] \in Monitors /\ object[u] \in Objects
      BY <2>3 DEF CallShape, WithLocal, PCs
    <3>2. monitor[object[u]] = local[u]
      BY <1>1, <1>2, <1>3, <2>3, <3>1 DEF EntryShape
    <3>3. owner[local[u]] = u
      BY <1>1, <1>2, <1>3, <2>3, <3>1, <3>2 DEF InsideOwns, LockedByCurrentThread
    <3>4. QED
      BY <1>5, <3>1, <3>2, <3>3 DEF LockedByCurrentThread
  <2>4. ASSUME pc[u] = "leave" PROVE monitor'[object[u]] = local[u]
    <3>1. local[u] \in Monitors /\ owner[local[u]] = u /\ monitor[object[u]] = local[u]
      BY <2>4, BetweenOwns DEF Between, EntryShape
    <3>2. QED
      BY <1>5, <2>1, <2>4, <3>1 DEF LockedByCurrentThread
  <2>5. pc[u] = "restore" => LockedByCurrentThread(u, object[u])'
    BY <1>1, <1>6, <2>1 DEF EntryShape, LockedByCurrentThread
  <2>6. ASSUME pc[u] \in Between
        PROVE  /\ recursion'[local[u]] = 1
               /\ \A o \in Objects : Inside(u, o)' => monitor'[o] # local[u]
    BY <1>2, <1>4, <1>5, <2>6, BetweenOwns DEF EntryShape, InsideOwns
  <2>7. QED
    BY <1>1, <2>2, <2>3, <2>4, <2>5, <2>6 DEF EntryShape
<1>10. QED
  BY <1>7, <1>8, <1>9
\* A monitor that is let go has been left as often as it was entered.
LEMMA UnrecursedKept ==
    ASSUME HInv, NEW t \in Threads, Step(t) \/ Disturb(t) \/ Call(t)
    PROVE  Unrecursed'
<1> USE DEF HInv, NInv, IInv, TypeOK, HInvOf
<1>1. SUFFICES ASSUME NEW m \in Monitors, owner'[m] \notin Threads
               PROVE  recursion'[m] = 1
  BY DEF Unrecursed
<1>2. MineOnly(t)
  BY OthersMonitorsStay
<1>3. CASE owner[m] \notin Threads
  BY <1>2, <1>3 DEF MineOnly, Unrecursed
<1>4. CASE owner[m] \in Threads
  <2>1. owner'[m] # owner[m] /\ owner[m] = t
    BY <1>1, <1>2, <1>4 DEF MineOnly
  <2>2. LoseInstallRace(t) \/ UnacquireStale(t) \/ Unacquire(t) \/ ReleaseMonitor(t)
    BY <1>1, <2>1, QuietSteps, SpecialOwners
       DEF KeepsMonitors, AllocateMonitor, InstallMonitor, Acquires, AcquireInstalled,
           AcquireReady, LastWaiterAcquires, TryAcquire, Deflate
  <2>3. m = local[t] /\ pc[t] \in Between /\ UNCHANGED recursion
    BY <2>1, <2>2 DEF LoseInstallRace, UnacquireStale, Unacquire, ReleaseMonitor, Between
  <2>4. QED
    BY <2>3 DEF EntryShape
<1>5. QED
  BY <1>3, <1>4

\* A step leaves alone the monitors of the locks its thread is inside of.
LEMMA InsideUntouched ==
    ASSUME HInv, NEW t \in Threads, Step(t) \/ Disturb(t) \/ Call(t),
           NEW o \in Objects, Inside(t, o)
    PROVE  /\ monitor[o] \in Monitors /\ monitor'[o] = monitor[o]
           /\ owner[monitor[o]] = t /\ owner'[monitor[o]] = t
<1> USE DEF HInv, NInv, IInv, TypeOK, HInvOf
<1>1. monitor[o] \in Monitors /\ owner[monitor[o]] = t
  BY DEF InsideOwns, LockedByCurrentThread
<1>2. pc[t] \in Between => monitor[o] # local[t]
  BY DEF EntryShape
<1>3. CASE KeepsMonitors
  BY <1>1, <1>3 DEF KeepsMonitors
<1>4. CASE AllocateMonitor(t)
  BY <1>1, <1>4 DEF AllocateMonitor
<1>5. CASE InstallMonitor(t)
  BY <1>1, <1>5, MonitorAssumption DEF InstallMonitor
<1>6. CASE Acquires(t)
  BY <1>1, <1>6 DEF Acquires, AcquireInstalled, AcquireReady, LastWaiterAcquires, TryAcquire
<1>7. CASE LoseInstallRace(t) \/ UnacquireStale(t) \/ Unacquire(t) \/ ReleaseMonitor(t)
  BY <1>1, <1>2, <1>7 DEF LoseInstallRace, UnacquireStale, Unacquire, ReleaseMonitor, Between
<1>8. CASE Deflate(t)
  BY <1>1, <1>2, <1>8 DEF Deflate, Between, OwnerSteps
<1>9. QED
  BY QuietSteps, <1>3, <1>4, <1>5, <1>6, <1>7, <1>8

\* A step that neither enters nor leaves a lock, as its caller sees it.
OnTheWay(t) ==
    /\ \A o \in Objects : Inside(t, o)' <=> Inside(t, o)
    /\ depth'[t] = depth[t]
    /\ UNCHANGED recursion
    /\ pc[t] \in Between =>
         \/ pc'[t] \in Between /\ local'[t] = local[t]
         \/ owner'[local[t]] # t
    /\ \A m \in Monitors :
         owner'[m] = t => owner[m] = t \/ (pc'[t] \in Between /\ local'[t] = m)
    /\ pc[t] # "restore"

\* Such a step keeps what is said of the locks and monitors a thread has.
LEMMA OnTheWayKeeps ==
    ASSUME HInv, NEW t \in Threads, Step(t) \/ Disturb(t) \/ Call(t), OnTheWay(t)
    PROVE  InsideOwns(t)' /\ OwnedForAReason(t)'
<1> USE DEF HInv, HInvOf
<1>1. InsideOwns(t)'
  BY InsideUntouched, MonitorAssumption
     DEF InsideOwns, LockedByCurrentThread, OnTheWay, NInv, IInv, TypeOK
<1>2. OwnedForAReason(t)'
  <2>1. SUFFICES ASSUME NEW m \in Monitors, owner'[m] = t
                 PROVE  \/ \E o \in Objects : Inside(t, o)' /\ monitor'[o] = m
                        \/ pc'[t] \in Between /\ local'[t] = m
    BY DEF OwnedForAReason
  <2>2. CASE owner[m] = t
    <3>1. \/ \E o \in Objects : Inside(t, o) /\ monitor[o] = m
          \/ pc[t] \in Between /\ local[t] = m
      BY <2>2 DEF OwnedForAReason, OnTheWay
    <3>2. ASSUME NEW o \in Objects, Inside(t, o), monitor[o] = m
          PROVE  Inside(t, o)' /\ monitor'[o] = m
      BY <3>2, InsideUntouched DEF OnTheWay
    <3>3. QED
      BY <2>1, <3>1, <3>2 DEF OnTheWay
  <2>3. QED
    BY <2>1, <2>2 DEF OnTheWay
<1>3. QED
  BY <1>1, <1>2

\* The steps that neither enter nor leave.
Underway(t) ==
    \/ ReadMonitor(t) \/ AllocateMonitor(t) \/ LoseInstallRace(t) \/ AcquireInstalled(t)
    \/ Contend(t) \/ UnacquireStale(t) \/ AddToReadyList(t) \/ StillInstalled(t)
    \/ VacateDyingMonitor(t) \/ AcquireReady(t) \/ FallAsleep(t) \/ Wake(t)
    \/ LastWaiterCheck(t) \/ LastWaiterGivesUp(t) \/ Disturb(t)
    \/ ExitStep(t) \/ Pulsed(t)

\* They are on the way.
LEMMA UnderwayOnTheWay ==
    ASSUME HInv, WaitReturns, NEW t \in Threads, Underway(t)
    PROVE  OnTheWay(t)
<1>1. /\ waiting[t] # "none" => timeout[t] = "infinite"
      /\ pc[t] \in {"lastCheck", "lastGrab"} => timeout[t] = "timed"
  BY DEF HInv, NInv, WaitShape, WaitShapeOf
<1>2. TypeOK
  BY DEF HInv, NInv, IInv
<1>3. pc[t] \in Between => local[t] \in Monitors
  BY BetweenOwns DEF HInv, NInv
<1> USE <1>2, SpecialOwners DEF TypeOK, lockVars, nodeVars, callVars, waitVars,
        frameVars, Goto, EndCall, Retry, ReturnTimedOut, ReturnUnlocked,
        RemoveFromReadyList, TryAcquire, OnTheWay, Between, Inside
<1> HIDE DEF HInv
<1>4. ASSUME ReadMonitor(t) \/ AllocateMonitor(t) PROVE OnTheWay(t)
  BY <1>4 DEF ReadMonitor, AllocateMonitor
<1>5. ASSUME LoseInstallRace(t) \/ UnacquireStale(t) PROVE OnTheWay(t)
  BY <1>3, <1>5 DEF LoseInstallRace, UnacquireStale
<1>6. ASSUME AcquireInstalled(t) \/ AcquireReady(t) PROVE OnTheWay(t)
  BY <1>6 DEF AcquireInstalled, AcquireReady
<1>7. ASSUME Contend(t) PROVE OnTheWay(t)
  BY <1>1, <1>7 DEF Contend
<1>8. ASSUME \/ AddToReadyList(t) \/ StillInstalled(t) \/ VacateDyingMonitor(t)
             \/ FallAsleep(t) \/ Wake(t)
      PROVE  OnTheWay(t)
  BY <1>8 DEF AddToReadyList, StillInstalled, VacateDyingMonitor, FallAsleep, Wake
<1>9. ASSUME LastWaiterCheck(t) \/ LastWaiterGivesUp(t) \/ SleepTimesOut(t)
      PROVE  OnTheWay(t)
  BY <1>1, <1>9 DEF LastWaiterCheck, LastWaiterGivesUp, SleepTimesOut
<1>10. ASSUME SleepInterrupted(t) \/ PulseWaitEnds(t) PROVE OnTheWay(t)
  BY <1>10 DEF SleepInterrupted, PulseWaitEnds, WaitReturns
<1>11. ASSUME Decide(t) \/ Post(t) \/ PostIfContended(t) \/ FlushReadyList(t) \/ Pulsed(t)
       PROVE  OnTheWay(t)
  BY <1>11 DEF Decide, Post, PostIfContended, FlushReadyList, Pulsed
<1>12. ASSUME Unacquire(t) \/ Deflate(t) \/ ReleaseMonitor(t) PROVE OnTheWay(t)
  BY <1>3, <1>12 DEF Unacquire, Deflate, ReleaseMonitor
<1>13. QED
  BY <1>4, <1>5, <1>6, <1>7, <1>8, <1>9, <1>10, <1>11, <1>12
     DEF Underway, Disturb, ExitStep

\* A thread that acquires a monitor nobody owned is inside of none that has it.
LEMMA FreshlyOwned ==
    ASSUME HInv, NEW t \in Threads, NEW m \in Monitors, owner[m] \notin Threads
    PROVE  recursion[m] = 1 /\ \A o \in Objects : Inside(t, o) => monitor[o] # m
BY DEF HInv, HInvOf, Unrecursed, InsideOwns, LockedByCurrentThread

\* The steps that neither enter nor leave keep the shape of an entry.
LEMMA UnderwayShape ==
    ASSUME HInv, WaitReturns, NEW t \in Threads, Underway(t)
    PROVE  EntryShape(t)'
<1>1. /\ waiting[t] # "none" => timeout[t] = "infinite"
      /\ pc[t] \in {"lastCheck", "lastGrab"} => timeout[t] = "timed"
  BY DEF HInv, NInv, WaitShape, WaitShapeOf
<1>2. TypeOK /\ EntryShape(t) /\ InsideOwns(t)
  BY DEF HInv, NInv, IInv, HInvOf
<1>3. /\ pc[t] # "idle" => object[t] \in Objects
      /\ pc[t] \in WithLocal => local[t] \in Monitors
  BY DEF HInv, NInv, IInv, CallShape
<1>4. OnTheWay(t)
  BY UnderwayOnTheWay
<1>5. \A o \in Objects : Inside(t, o) =>
        monitor[o] \in Monitors /\ owner[monitor[o]] = t
  BY <1>2 DEF InsideOwns, LockedByCurrentThread, TypeOK
<1>6. Step(t) \/ Disturb(t) \/ Call(t)
  BY DEF Underway, Step, EnterStep, WaitStep
<1>7. \A o \in Objects : Inside(t, o) => monitor'[o] = monitor[o]
  BY <1>6, InsideUntouched
<1> USE <1>2, <1>3, SpecialOwners DEF TypeOK, EntryShape, WithLocal, PCs, lockVars,
        nodeVars, callVars, waitVars, frameVars, Goto, EndCall, Retry,
        ReturnTimedOut, ReturnUnlocked, RemoveFromReadyList, TryAcquire, OnTheWay,
        Between, Entering
<1>10. ASSUME ReadMonitor(t) PROVE EntryShape(t)'
  <2>1. /\ pc' = [pc EXCEPT ![t] = IF monitor[object[t]] = NULL THEN "alloc" ELSE "try"]
        /\ local' = [local EXCEPT ![t] = monitor[object[t]]]
        /\ UNCHANGED <<monitor, object, waiting, oldCount>>
        /\ object[t] \in Objects
    BY <1>10 DEF ReadMonitor
  <2>2. monitor[object[t]] = NULL => ~Inside(t, object[t])
    BY <1>5, <2>1, MonitorAssumption
  <2>3. QED
    BY <1>4, <2>1, <2>2
<1>11. ASSUME AllocateMonitor(t) PROVE EntryShape(t)'
  <2>1. PICK m \in freeMonitors :
          owner' = [owner EXCEPT ![m] = t] /\ local' = [local EXCEPT ![t] = m]
    BY <1>11 DEF AllocateMonitor
  <2>2. /\ pc[t] = "alloc" /\ pc' = [pc EXCEPT ![t] = "install"]
        /\ UNCHANGED <<monitor, object, waiting, oldCount>>
    BY <1>11 DEF AllocateMonitor
  <2>3. m \in Monitors /\ owner[m] \notin Threads
    BY <2>1 DEF HInv, NInv, IInv, MonitorAccounting
  <2>4. recursion[m] = 1 /\ \A o \in Objects : Inside(t, o) => monitor[o] # m
    BY <2>3, FreshlyOwned
  <2>5. QED
    BY <1>4, <2>1, <2>2, <2>4
<1>12. ASSUME AcquireInstalled(t) PROVE EntryShape(t)'
  <2>1. /\ pc[t] = "try" /\ pc' = [pc EXCEPT ![t] = "check"]
        /\ UNCHANGED <<monitor, object, local, waiting, oldCount>>
        /\ owner[local[t]] = CanBeAcquired
    BY <1>12 DEF AcquireInstalled
  <2>2. recursion[local[t]] = 1 /\ \A o \in Objects : Inside(t, o) => monitor[o] # local[t]
    BY <2>1, FreshlyOwned
  <2>3. ~Inside(t, object[t])
    BY <2>1, <2>2
  <2>4. QED
    BY <1>4, <2>1, <2>2, <2>3
<1>13. ASSUME AcquireReady(t) PROVE EntryShape(t)'
  <2>1. /\ pc[t] = "grab" /\ pc' = [pc EXCEPT ![t] = "leave"]
        /\ UNCHANGED <<monitor, object, local, waiting, oldCount>>
        /\ owner[local[t]] = CanBeAcquired
    BY <1>13 DEF AcquireReady
  <2>2. recursion[local[t]] = 1 /\ \A o \in Objects : Inside(t, o) => monitor[o] # local[t]
    BY <2>1, FreshlyOwned
  <2>3. monitor[object[t]] = local[t]
    <3>1. ASSUME NEW u \in Threads, pc[u] = "flush", local[u] = local[t]
          PROVE  FALSE
      BY <2>1, <3>1, BetweenOwns DEF HInv, NInv
    <3>2. QED
      BY <2>1, <3>1 DEF HInv, NInv, IInv, PinnedWhileReady
  <2>4. QED
    BY <1>4, <2>1, <2>2, <2>3
<1>14. ASSUME Contend(t) PROVE EntryShape(t)'
  <2>1. /\ pc[t] = "try" /\ owner[local[t]] # t
        /\ UNCHANGED monitor
        /\ UNCHANGED <<waiting, oldCount>>
        /\ \/ pc' = [pc EXCEPT ![t] = "ready"] /\ UNCHANGED object
           \/ pc' = [pc EXCEPT ![t] = "idle"] /\ waiting[t] = "none"
    BY <1>1, <1>14 DEF Contend
  <2>2. ~Inside(t, object[t])
    BY <1>5, <2>1
  <2>3. QED
    BY <1>4, <2>1, <2>2
<1>15. ASSUME LoseInstallRace(t) \/ UnacquireStale(t) \/ VacateDyingMonitor(t)
       PROVE  EntryShape(t)'
  <2>1. /\ pc' = [pc EXCEPT ![t] = "read"]
        /\ UNCHANGED <<object, waiting, oldCount>>
    BY <1>15 DEF LoseInstallRace, UnacquireStale, VacateDyingMonitor
  <2>2. QED
    BY <1>4, <2>1
<1>16. ASSUME AddToReadyList(t) \/ StillInstalled(t) \/ FallAsleep(t) \/ Wake(t)
       PROVE  EntryShape(t)'
  <2>1. /\ pc[t] \in Entering
        /\ pc'[t] \in {"loop", "grab", "vacate", "sleep"}
        /\ UNCHANGED <<object, waiting, oldCount>>
    BY <1>16 DEF AddToReadyList, StillInstalled, FallAsleep, Wake
  <2>2. QED
    BY <1>4, <2>1
<1>17. ASSUME LastWaiterCheck(t) \/ LastWaiterGivesUp(t) \/ SleepTimesOut(t)
       PROVE  EntryShape(t)'
  <2>1. /\ pc[t] \in Entering
        /\ \/ pc'[t] \in {"lastCheck", "lastGrab"} /\ UNCHANGED object
           \/ pc'[t] = "idle"
        /\ waiting[t] = "none" /\ UNCHANGED <<waiting, oldCount>>
    BY <1>1, <1>17 DEF LastWaiterCheck, LastWaiterGivesUp, SleepTimesOut
  <2>2. QED
    BY <1>4, <2>1
<1>18. ASSUME SleepInterrupted(t) \/ PulseWaitEnds(t) \/ Pulsed(t)
       PROVE  EntryShape(t)'
  <2>1. \/ pc'[t] = "idle" /\ waiting'[t] = "none"
        \/ pc'[t] = "read" /\ UNCHANGED <<object, waiting, oldCount>>
    BY <1>18 DEF SleepInterrupted, PulseWaitEnds, Pulsed
  <2>2. QED
    BY <1>4, <2>1
<1>19. ASSUME Decide(t) \/ Unacquire(t) \/ FlushReadyList(t) PROVE EntryShape(t)'
  <2>1. /\ pc[t] \in Between
        /\ pc'[t] \in {"handoff", "unlock", "deflate", "post", "repost", "flush"}
        /\ UNCHANGED <<monitor, object, local, waiting, oldCount>>
    BY <1>19 DEF Decide, Unacquire, FlushReadyList
  <2>2. QED
    BY <1>4, <2>1
<1>20. ASSUME Deflate(t) PROVE EntryShape(t)'
  <2>1. /\ pc[t] = "deflate" /\ pc'[t] = "flush"
        /\ UNCHANGED <<object, local, waiting, oldCount>>
    BY <1>20 DEF Deflate
  <2>2. QED
    BY <1>4, <1>7, <2>1
<1>21. ASSUME Post(t) \/ PostIfContended(t) \/ ReleaseMonitor(t) PROVE EntryShape(t)'
  <2>1. /\ pc'[t] \in {"idle", "read", "pulseWait"}
        /\ UNCHANGED <<waiting, oldCount>>
        /\ waiting[t] # "none" => object'[t] = object[t]
    BY <1>21 DEF Post, PostIfContended, ReleaseMonitor
  <2>2. QED
    BY <1>4, <2>1
<1>22. QED
  BY <1>10, <1>11, <1>12, <1>13, <1>14, <1>15, <1>16, <1>17, <1>18, <1>19, <1>20,
     <1>21 DEF Underway, Disturb, ExitStep

\* A thread that enters, or comes back from a Wait's Enter, has the lock.
LEMMA Entered ==
    ASSUME HInv, NEW t \in Threads, Step(t) \/ Disturb(t) \/ Call(t), ReturnLocked(t),
           object[t] \in Objects, NEW m \in Monitors,
           monitor'[object[t]] = m, owner'[m] = t,
           waiting[t] = "none" => recursion'[m] = depth[t][object[t]] + 1,
           \A k \in Monitors \ {m} : recursion'[k] = recursion[k],
           \A k \in Monitors : owner'[k] = t => k = m \/ owner[k] = t,
           pc[t] \in Between => local[t] = m,
           pc[t] # "restore",
           UNCHANGED <<waiting, oldCount>>
    PROVE  HInvOf(t)'
<1> USE DEF HInv, NInv, IInv, HInvOf
<1>1. TypeOK' /\ MonitorAccounting'
  BY NextInv DEF Next
<1>2. \A o \in Objects : monitor'[o] = m => o = object[t]
  BY <1>1, MonitorAssumption DEF MonitorAccounting
<1>3. \A o \in Objects : Inside(t, o) =>
        /\ monitor[o] \in Monitors /\ monitor'[o] = monitor[o]
        /\ owner[monitor[o]] = t /\ owner'[monitor[o]] = t
  BY InsideUntouched
<1>4. \A o \in Objects : Inside(t, o) => recursion[monitor[o]] = depth[t][o]
  BY DEF InsideOwns
<1>5. \A k \in Monitors :
        owner'[k] = t => k = m \/ \E o \in Objects : Inside(t, o) /\ monitor[o] = k
  BY DEF OwnedForAReason
<1> HIDE DEF HInv
<1>6. m # NULL
  BY MonitorAssumption
<1>7. CASE waiting[t] = "none"
  <2>1. /\ pc'[t] = "idle" /\ waiting'[t] = "none"
        /\ depth'[t][object[t]] = depth[t][object[t]] + 1
        /\ \A o \in Objects : o # object[t] => depth'[t][o] = depth[t][o]
        /\ depth[t][object[t]] \in Nat
    BY <1>7 DEF ReturnLocked, EndCall, Goto, TypeOK, HInv
  <2>2. \A o \in Objects : Inside(t, o)' <=> o = object[t] \/ Inside(t, o)
    BY <1>7, <2>1 DEF Inside
  <2>3. InsideOwns(t)'
    BY <1>2, <1>3, <1>4, <1>6, <1>7, <2>1, <2>2, MonitorAssumption
       DEF InsideOwns, LockedByCurrentThread
  <2>4. OwnedForAReason(t)'
    BY <1>3, <1>5, <2>2 DEF OwnedForAReason
  <2>5. EntryShape(t)'
    BY <2>1 DEF EntryShape, Entering, Between
  <2>6. QED
    BY <2>3, <2>4, <2>5
<1>8. CASE waiting[t] # "none"
  <2>1. /\ pc'[t] = "restore" /\ object'[t] = object[t] /\ depth'[t] = depth[t]
    BY <1>8 DEF ReturnLocked, Goto, TypeOK, HInv, callVars
  <2>2. \A o \in Objects : Inside(t, o)' <=> Inside(t, o)
    BY <2>1 DEF Inside
  <2>3. \A o \in Objects : Inside(t, o) => monitor[o] # m
    BY <1>2, <1>3, <1>8 DEF Inside
  <2>4. InsideOwns(t)'
    BY <1>3, <1>4, <2>1, <2>2, <2>3, MonitorAssumption
       DEF InsideOwns, LockedByCurrentThread
  <2>5. OwnedForAReason(t)'
    BY <1>3, <1>5, <2>1, <2>2 DEF OwnedForAReason
  <2>6. EntryShape(t)'
    BY <1>6, <2>1 DEF EntryShape, Entering, Between, LockedByCurrentThread, HInv
  <2>7. QED
    BY <2>4, <2>5, <2>6
<1>9. QED
  BY <1>7, <1>8

\* The steps by which TryEnter returns with the lock.
Enters(t) ==
    \/ InstallMonitor(t) \/ EnterRecursively(t) \/ KeepAcquired(t)
    \/ LeaveReadyList(t) \/ LastWaiterAcquires(t)

\* They return with the monitor that is on the object.
LEMMA EntersKeep ==
    ASSUME HInv, AcquiredIsInstalled, LastWaiterHasIt, NEW t \in Threads, Enters(t)
    PROVE  HInvOf(t)'
<1>1. /\ TypeOK /\ EntryShape(t) /\ OwnedForAReason(t)
      /\ (pc[t] # "idle" => object[t] \in Objects)
      /\ (pc[t] \in WithLocal => local[t] \in Monitors)
  BY DEF HInv, NInv, IInv, HInvOf, CallShape
<1>2. /\ object[t] \in Objects /\ local[t] \in Monitors /\ pc[t] # "restore"
      /\ ReturnLocked(t) /\ UNCHANGED <<waiting, oldCount>>
  BY <1>1 DEF Enters, InstallMonitor, EnterRecursively, KeepAcquired, LeaveReadyList,
              LastWaiterAcquires, WithLocal, PCs, waitVars
<1>3. Step(t) \/ Disturb(t) \/ Call(t)
  BY DEF Enters, Step, EnterStep
<1>4. ASSUME pc[t] \in Entering, waiting[t] = "none" PROVE depth[t][object[t]] = 0
  BY <1>1, <1>2, <1>4 DEF EntryShape, Inside, TypeOK
<1>5. ASSUME monitor'[object[t]] = local[t], owner'[local[t]] = t,
             waiting[t] = "none" => recursion'[local[t]] = depth[t][object[t]] + 1,
             \A k \in Monitors \ {local[t]} : recursion'[k] = recursion[k],
             \A k \in Monitors : owner'[k] = t => k = local[t] \/ owner[k] = t
      PROVE  HInvOf(t)'
  <2>1. PICK m \in Monitors : m = local[t]
    BY <1>2
  <2>2. QED
    BY <1>2, <1>3, <1>5, <2>1, Entered
<1>6. ASSUME InstallMonitor(t) PROVE HInvOf(t)'
  <2>1. /\ pc[t] = "install" /\ monitor' = [monitor EXCEPT ![object[t]] = local[t]]
        /\ UNCHANGED <<owner, recursion>>
    BY <1>6 DEF InstallMonitor
  <2>2. owner[local[t]] = t /\ recursion[local[t]] = 1
    BY <1>1, <2>1, BetweenOwns DEF EntryShape, Between, HInv, NInv
  <2>3. QED
    BY <1>1, <1>2, <1>4, <1>5, <2>1, <2>2 DEF Entering, TypeOK
<1>7. ASSUME EnterRecursively(t) PROVE HInvOf(t)'
  <2>1. /\ pc[t] = "try" /\ owner[local[t]] = t
        /\ recursion' = [recursion EXCEPT ![local[t]] = @ + 1]
        /\ UNCHANGED <<owner, monitor>>
    BY <1>7 DEF EnterRecursively
  <2>2. monitor[object[t]] = local[t]
    BY <1>1, <2>1 DEF EntryShape
  <2>3. ASSUME waiting[t] = "none" PROVE recursion[local[t]] = depth[t][object[t]]
    <3>1. PICK o \in Objects : Inside(t, o) /\ monitor[o] = local[t]
      BY <1>1, <1>2, <2>1 DEF OwnedForAReason, Between
    <3>2. o = object[t]
      BY <1>2, <2>2, <3>1, MonitorAssumption DEF HInv, NInv, IInv, MonitorAccounting
    <3>3. QED
      BY <3>1, <3>2 DEF HInv, HInvOf, InsideOwns
  <2>4. QED
    BY <1>1, <1>2, <1>5, <2>1, <2>2, <2>3 DEF TypeOK
<1>8. ASSUME KeepAcquired(t) PROVE HInvOf(t)'
  <2>1. /\ pc[t] = "check" /\ monitor[object[t]] # NULL
        /\ UNCHANGED <<owner, monitor, recursion>>
    BY <1>8 DEF KeepAcquired, lockVars
  <2>2. owner[local[t]] = t /\ recursion[local[t]] = 1
    BY <1>1, <2>1, BetweenOwns DEF EntryShape, Between, HInv, NInv
  <2>3. monitor[object[t]] = local[t]
    BY <2>1 DEF AcquiredIsInstalled
  <2>4. QED
    BY <1>2, <1>4, <1>5, <2>1, <2>2, <2>3 DEF Entering
<1>9. ASSUME LeaveReadyList(t) PROVE HInvOf(t)'
  <2>1. /\ pc[t] = "leave" /\ UNCHANGED <<owner, monitor, recursion>>
    BY <1>9 DEF LeaveReadyList, RemoveFromReadyList
  <2>2. owner[local[t]] = t /\ recursion[local[t]] = 1 /\ monitor[object[t]] = local[t]
    BY <1>1, <2>1, BetweenOwns DEF EntryShape, Between, HInv, NInv
  <2>3. QED
    BY <1>2, <1>4, <1>5, <2>1, <2>2 DEF Entering
<1>10. ASSUME LastWaiterAcquires(t) PROVE HInvOf(t)'
  <2>1. /\ pc[t] = "lastGrab" /\ owner[local[t]] = CanBeAcquired
        /\ owner' = [owner EXCEPT ![local[t]] = t]
        /\ UNCHANGED <<monitor, recursion>>
    BY <1>10 DEF LastWaiterAcquires, TryAcquire
  <2>2. recursion[local[t]] = 1
    BY <1>2, <2>1, SpecialOwners, FreshlyOwned
  <2>3. monitor[object[t]] = local[t]
    BY <2>1 DEF LastWaiterHasIt
  <2>4. QED
    BY <1>1, <1>2, <1>4, <1>5, <2>1, <2>2, <2>3 DEF Entering, TypeOK
<1>11. QED
  BY <1>6, <1>7, <1>8, <1>9, <1>10 DEF Enters

\* The return of a Wait gives its caller back what it had.
LEMMA WaitReturnKeeps ==
    ASSUME HInv, NEW t \in Threads, RestoreAfterWait(t)
    PROVE  HInvOf(t)'
<1> USE DEF HInv, NInv, IInv, HInvOf
<1>1. /\ pc[t] = "restore" /\ waiting[t] # "none" /\ object[t] \in Objects
  BY DEF RestoreAfterWait, CallShape, WaitShape, WaitShapeOf
<1>2. /\ pc'[t] = "idle" /\ waiting'[t] = "none" /\ depth' = depth
      /\ UNCHANGED <<owner, monitor>>
  BY DEF RestoreAfterWait, EndCall, Goto, TypeOK
<1>3. PICK m \in Monitors : monitor[object[t]] = m /\ owner[m] = t
  BY <1>1 DEF EntryShape, LockedByCurrentThread, TypeOK
<1>4. /\ recursion' = [recursion EXCEPT ![m] = oldCount[t]]
      /\ oldCount[t] = depth[t][object[t]] /\ depth[t][object[t]] > 0
  BY <1>1, <1>3 DEF RestoreAfterWait, RestoreCount, EntryShape
<1>5. \A o \in Objects : monitor[o] = m => o = object[t]
  BY <1>1, <1>3, MonitorAssumption DEF MonitorAccounting
<1>6. \A o \in Objects : Inside(t, o)' <=> Inside(t, o) \/ o = object[t]
  BY <1>1, <1>2, <1>4 DEF Inside
<1>7. InsideOwns(t)'
  <2>1. SUFFICES ASSUME NEW o \in Objects, Inside(t, o)'
                 PROVE  /\ LockedByCurrentThread(t, o)'
                        /\ recursion'[monitor[o]] = depth[t][o]
    BY <1>2 DEF InsideOwns
  <2>2. CASE o = object[t]
    BY <1>2, <1>3, <1>4, <2>2, MonitorAssumption DEF LockedByCurrentThread, TypeOK
  <2>3. CASE o # object[t]
    BY <1>2, <1>4, <1>5, <1>6, <2>1, <2>3 DEF InsideOwns, LockedByCurrentThread, TypeOK
  <2>4. QED
    BY <2>2, <2>3
<1>8. OwnedForAReason(t)'
  BY <1>1, <1>2, <1>6 DEF OwnedForAReason, Between
<1>9. EntryShape(t)'
  BY <1>2 DEF EntryShape, Entering, Between
<1>10. QED
  BY <1>7, <1>8, <1>9

\* What a caller may start keeps it, too.
LEMMA CallsKeep ==
    ASSUME HInv, NEW t \in Threads, Call(t)
    PROVE  HInvOf(t)'
<1>1. PICK o \in Objects :
         \/ \E limit \in EnterTimeouts : Enter(t, o, limit)
         \/ RaiseNotLocked(t, o)
         \/ ExitRecursive(t, o)
         \/ Exit(t, o)
         \/ Pulse(t, o)
         \/ PulseAll(t, o)
         \/ \E limit \in WaitTimeouts : Wait(t, o, limit)
  BY DEF Call
<1>2. /\ TypeOK /\ EntryShape(t) /\ OwnedForAReason(t) /\ InsideOwns(t)
  BY DEF HInv, NInv, IInv, HInvOf
<1>3. pc[t] = "idle" /\ waiting[t] = "none"
  BY <1>1 DEF Enter, RaiseNotLocked, ExitRecursive, Exit, Pulse, PulseAll, Wait,
              HInv, NInv, WaitShape, WaitShapeOf
<1>4. \A p \in Objects : Inside(t, p) <=> depth[t][p] > 0
  BY <1>3 DEF Inside
<1>5. \A p \in Objects : Inside(t, p) =>
        /\ monitor[p] \in Monitors /\ owner[monitor[p]] = t
        /\ recursion[monitor[p]] = depth[t][p]
  BY <1>2 DEF InsideOwns, LockedByCurrentThread, TypeOK
<1>6. \A m \in Monitors : owner[m] = t =>
        \E p \in Objects : Inside(t, p) /\ monitor[p] = m
  BY <1>2, <1>3 DEF OwnedForAReason, Between
<1>7. \A p, q \in Objects : monitor[p] \in Monitors /\ monitor[p] = monitor[q] => p = q
  BY MonitorAssumption DEF HInv, NInv, IInv, MonitorAccounting
<1>8. ASSUME UNCHANGED <<monitor, owner, recursion, waiting, depth>>,
             pc'[t] \in {"idle", "read"}
      PROVE  HInvOf(t)'
  <2>1. \A p \in Objects : Inside(t, p)' <=> Inside(t, p)
    BY <1>3, <1>8 DEF Inside
  <2>2. InsideOwns(t)'
    BY <1>2, <1>8, <2>1 DEF InsideOwns, LockedByCurrentThread
  <2>3. OwnedForAReason(t)'
    BY <1>6, <1>8, <2>1 DEF OwnedForAReason
  <2>4. EntryShape(t)'
    BY <1>3, <1>8 DEF EntryShape, Entering, Between
  <2>5. QED
    BY <2>2, <2>3, <2>4 DEF HInvOf
<1>9. ASSUME NEW limit \in EnterTimeouts, Enter(t, o, limit) PROVE HInvOf(t)'
  BY <1>2, <1>8, <1>9 DEF Enter, lockVars, waitVars, Goto, TypeOK
<1>10. ASSUME RaiseNotLocked(t, o) PROVE HInvOf(t)'
  BY <1>4, <1>5, <1>10, MonitorAssumption DEF RaiseNotLocked, LockedByCurrentThread
<1>11. ASSUME Pulse(t, o) \/ PulseAll(t, o) PROVE HInvOf(t)'
  BY <1>3, <1>8, <1>11 DEF Pulse, PulseAll, lockVars, waitVars, frameVars
<1>12. ASSUME ExitRecursive(t, o) PROVE HInvOf(t)'
  <2>1. /\ depth[t][o] > 0 /\ recursion[monitor[o]] > 1
        /\ recursion' = [recursion EXCEPT ![monitor[o]] = @ - 1]
        /\ depth' = [depth EXCEPT ![t][o] = @ - 1]
        /\ UNCHANGED <<monitor, owner, pc, waiting>>
    BY <1>12 DEF ExitRecursive, waitVars
  <2>2. PICK m \in Monitors : monitor[o] = m /\ recursion[m] = depth[t][o]
    BY <1>4, <1>5, <2>1
  <2>3. /\ depth'[t][o] = depth[t][o] - 1 /\ recursion'[m] = recursion[m] - 1
        /\ \A p \in Objects : p # o => depth'[t][p] = depth[t][p]
        /\ \A k \in Monitors : k # m => recursion'[k] = recursion[k]
        /\ depth[t][o] \in Nat
    BY <1>2, <2>1, <2>2 DEF TypeOK
  <2>4. \A p \in Objects : Inside(t, p)' <=> Inside(t, p)
    BY <1>3, <1>4, <2>1, <2>2, <2>3 DEF Inside
  <2>5. InsideOwns(t)'
    BY <1>4, <1>5, <1>7, <2>1, <2>2, <2>3, <2>4, MonitorAssumption
       DEF InsideOwns, LockedByCurrentThread
  <2>6. OwnedForAReason(t)'
    BY <1>6, <2>1, <2>4 DEF OwnedForAReason
  <2>7. EntryShape(t)'
    BY <1>3, <2>1 DEF EntryShape, Entering, Between
  <2>8. QED
    BY <2>5, <2>6, <2>7 DEF HInvOf
<1>13. ASSUME Exit(t, o) PROVE HInvOf(t)'
  <2>1. /\ depth[t][o] > 0 /\ recursion[monitor[o]] <= 1
        /\ depth' = [depth EXCEPT ![t][o] = @ - 1]
        /\ pc'[t] = "decide" /\ object'[t] = o /\ local'[t] = monitor[o]
        /\ UNCHANGED <<monitor, owner, recursion, waiting>>
    BY <1>2, <1>13 DEF Exit, lockVars, waitVars, Goto, TypeOK
  <2>2. PICK m \in Monitors : monitor[o] = m /\ recursion[m] = depth[t][o]
    BY <1>4, <1>5, <2>1
  <2>3. /\ depth'[t][o] = 0 /\ recursion[m] = 1
        /\ \A p \in Objects : p # o => depth'[t][p] = depth[t][p]
    BY <1>2, <2>1, <2>2 DEF TypeOK
  <2>4. \A p \in Objects : Inside(t, p)' <=> Inside(t, p) /\ p # o
    BY <1>3, <1>4, <2>1, <2>3 DEF Inside
  <2>5. InsideOwns(t)'
    BY <1>4, <1>5, <1>7, <2>1, <2>2, <2>3, <2>4, MonitorAssumption
       DEF InsideOwns, LockedByCurrentThread
  <2>6. OwnedForAReason(t)'
    BY <1>6, <2>1, <2>4 DEF OwnedForAReason, Between
  <2>7. EntryShape(t)'
    BY <1>3, <1>5, <1>7, <2>1, <2>2, <2>3, <2>4 DEF EntryShape, Entering, Between
  <2>8. QED
    BY <2>5, <2>6, <2>7 DEF HInvOf
<1>14. ASSUME NEW limit \in WaitTimeouts, Wait(t, o, limit) PROVE HInvOf(t)'
  <2>1. /\ depth[t][o] > 0 /\ waiting'[t] = limit /\ limit # "none"
        /\ oldCount'[t] = recursion[monitor[o]]
        /\ recursion' = [recursion EXCEPT ![monitor[o]] = 1]
        /\ pc'[t] = "decide" /\ object'[t] = o /\ local'[t] = monitor[o]
        /\ UNCHANGED <<monitor, owner, depth>>
    BY <1>2, <1>14, MonitorAssumption DEF Wait, SaveCount, Goto, TypeOK, Timeouts
  <2>2. PICK m \in Monitors : monitor[o] = m /\ recursion[m] = depth[t][o]
    BY <1>4, <1>5, <2>1
  <2>3. recursion'[m] = 1 /\ \A k \in Monitors : k # m => recursion'[k] = recursion[k]
    BY <1>2, <2>1, <2>2 DEF TypeOK
  <2>4. \A p \in Objects : Inside(t, p)' <=> Inside(t, p) /\ p # o
    BY <1>3, <1>4, <2>1 DEF Inside
  <2>5. InsideOwns(t)'
    BY <1>4, <1>5, <1>7, <2>1, <2>2, <2>3, <2>4, MonitorAssumption
       DEF InsideOwns, LockedByCurrentThread
  <2>6. OwnedForAReason(t)'
    BY <1>6, <2>1, <2>4 DEF OwnedForAReason, Between
  <2>7. EntryShape(t)'
    BY <1>5, <1>7, <2>1, <2>2, <2>3, <2>4 DEF EntryShape, Entering, Between
  <2>8. QED
    BY <2>5, <2>6, <2>7 DEF HInvOf
<1>15. QED
  BY <1>1, <1>9, <1>10, <1>11, <1>12, <1>13, <1>14

\* The invariant holds at the start.
LEMMA InitHInv == Init => HInv
<1>1. SUFFICES ASSUME Init PROVE HInv
  OBVIOUS
<1>2. NInv
  BY <1>1, InitNInv
<1>3. Unrecursed
  BY <1>1 DEF Init, Unrecursed
<1>4. ASSUME NEW t \in Threads PROVE HInvOf(t)
  BY <1>1, SpecialOwners DEF Init, HInvOf, EntryShape, OwnedForAReason, InsideOwns,
     Inside, Entering, Between
<1>5. QED
  BY <1>2, <1>3, <1>4 DEF HInv

\* Every step that takes no monitor for the wrong one keeps the invariant.
LEMMA NextHInv ==
    HInv /\ AcquiredIsInstalled /\ LastWaiterHasIt /\ [Next]_vars /\ [WaitReturns]_vars
      => HInv'
<1>1. ASSUME HInv, UNCHANGED vars PROVE HInv'
  <2>1. NInv'
    BY <1>1, NextNInv DEF HInv
  <2>2. Unrecursed'
    BY <1>1 DEF HInv, Unrecursed, vars, lockVars
  <2>3. ASSUME NEW t \in Threads PROVE HInvOf(t)'
    <3>1. HInvOf(t)
      BY <1>1 DEF HInv
    <3>2. QED
      BY <1>1, <3>1 DEF HInvOf, EntryShape, OwnedForAReason, InsideOwns, Inside,
         LockedByCurrentThread, vars, lockVars, nodeVars, waitVars, callVars, frameVars
  <2>4. QED
    BY <2>1, <2>2, <2>3 DEF HInv
<1>2. ASSUME HInv, AcquiredIsInstalled, LastWaiterHasIt, WaitReturns,
             NEW t \in Threads, Step(t) \/ Disturb(t) \/ Call(t)
      PROVE  HInv'
  <2>1. NInv'
    BY <1>2, NextNInv DEF HInv, Next
  <2>2. Unrecursed'
    BY <1>2, UnrecursedKept
  <2>3. HInvOf(t)'
    <3>1. Underway(t) \/ Enters(t) \/ RestoreAfterWait(t) \/ Call(t)
      BY <1>2 DEF Underway, Enters, Step, EnterStep, WaitStep
    <3>2. CASE Underway(t)
      BY <1>2, <3>2, UnderwayShape, UnderwayOnTheWay, OnTheWayKeeps DEF HInvOf
    <3>3. QED
      BY <1>2, <3>1, <3>2, EntersKeep, WaitReturnKeeps, CallsKeep
  <2>4. \A u \in Threads : HInvOf(u)'
    BY <1>2, <2>3, OthersKeepHInv
  <2>5. QED
    BY <2>1, <2>2, <2>4 DEF HInv
<1>3. ASSUME ~UNCHANGED vars, [WaitReturns]_vars PROVE WaitReturns
  BY <1>3
<1>4. QED
  BY <1>1, <1>2, <1>3 DEF Next

\* What the invariant says of threads inside is HolderOwnsMonitor, and two threads
\* cannot own one monitor.
LEMMA InsideIsAlone == HInv => HolderOwnsMonitor /\ MutualExclusion
<1>1. SUFFICES ASSUME HInv PROVE HolderOwnsMonitor /\ MutualExclusion
  OBVIOUS
<1>2. HolderOwnsMonitor
  BY <1>1 DEF HInv, HInvOf, InsideOwns, HolderOwnsMonitor
<1>3. QED
  BY <1>2 DEF HolderOwnsMonitor, MutualExclusion, LockedByCurrentThread

\* What may go wrong with a lock, for any number of objects, is one of the three
\* known things: the assert of line 351 fails, the last waiter that gives up takes
\* a monitor that has moved to another object, or an APC throws out of the Enter
\* by which Wait takes the lock again.  Else no two threads are inside a lock.
THEOREM LocksExclude ==
    Spec /\ []AcquiredIsInstalled /\ []LastWaiterHasIt /\ [][WaitReturns]_vars
      => []MutualExclusion
<1>1. HInv => MutualExclusion
  BY InsideIsAlone
<1>2. QED
  BY <1>1, InitHInv, NextHInv, PTL DEF Spec

\* Likewise, nothing else can part a thread that is inside from the monitor it
\* owns, or change the count of its calls: Exit, Pulse and Wait find the lock held.
THEOREM HoldersOwn ==
    Spec /\ []AcquiredIsInstalled /\ []LastWaiterHasIt /\ [][WaitReturns]_vars
      => []HolderOwnsMonitor
<1>1. HInv => HolderOwnsMonitor
  BY InsideIsAlone
<1>2. QED
  BY <1>1, InitHInv, NextHInv, PTL DEF Spec

\* A Wait begins where it is called, and ends on its way back through Enter or by
\* an interrupt.
LEMMA WaitingSteps ==
    ASSUME TypeOK, NEW t \in Threads, Step(t) \/ Disturb(t) \/ Call(t)
    PROVE  \/ UNCHANGED waiting
           \/ RestoreAfterWait(t) \/ SleepInterrupted(t)
           \/ \E o \in Objects, limit \in WaitTimeouts : Wait(t, o, limit)
<1> USE DEF lockVars, nodeVars, callVars, waitVars, frameVars
<1>1. ASSUME EnterStep(t) PROVE UNCHANGED waiting
  BY <1>1 DEF EnterStep, ReadMonitor, AllocateMonitor, InstallMonitor,
     LoseInstallRace, EnterRecursively, AcquireInstalled, Contend, KeepAcquired,
     UnacquireStale, AddToReadyList, VacateDyingMonitor, LeaveReadyList,
     StillInstalled, AcquireReady, FallAsleep, Wake, LastWaiterCheck,
     LastWaiterAcquires, LastWaiterGivesUp
<1>2. ASSUME ExitStep(t) \/ Pulsed(t) PROVE UNCHANGED waiting
  BY <1>2 DEF ExitStep, Decide, Unacquire, Post, PostIfContended, Deflate,
     FlushReadyList, ReleaseMonitor, Pulsed
<1>3. ASSUME SleepTimesOut(t) \/ PulseWaitEnds(t) PROVE UNCHANGED waiting
  BY <1>3 DEF SleepTimesOut, PulseWaitEnds
<1>4. ASSUME NEW o \in Objects,
             \/ \E limit \in EnterTimeouts : Enter(t, o, limit)
             \/ RaiseNotLocked(t, o) \/ ExitRecursive(t, o) \/ Exit(t, o)
             \/ Pulse(t, o) \/ PulseAll(t, o)
      PROVE  UNCHANGED waiting
  BY <1>4 DEF Enter, RaiseNotLocked, ExitRecursive, Exit, Pulse, PulseAll
<1>5. QED
  BY <1>1, <1>2, <1>3, <1>4 DEF Step, WaitStep, Disturb, Call

-----------------------------------------------------------------------------
(* Wake-ups *)

\* Nobody finds that the monitor it has acquired has left its object: the branch
\* of line 345 that lets go of it again without a wake-up is not taken.
NeverVacated == \A t \in Threads : pc[t] = "check" => monitor[object[t]] # NULL

\* u has let go of m and is about to post, or is awake and will try to acquire m.
Attends(u, m) ==
    /\ local[u] = m
    /\ \/ pc[u] \in {"post", "repost"}
       \/ pc[u] \in {"loop", "grab"} /\ monitor[object[u]] = m

WakeOnItsWay ==
    \A t \in Threads :
        pc[t] = "sleep" /\ owner[local[t]] = CanBeAcquired =>
            tokens[local[t]] > 0 \/ \E u \in Threads : Attends(u, local[t])

\* How the places of a thread that attends to a monitor, or sleeps, are reached
\* and left, and that a token is used up by the thread it wakes.
LEMMA WakerSteps ==
    ASSUME TypeOK, NEW t \in Threads, Step(t) \/ Disturb(t) \/ Call(t)
    PROVE  /\ pc[t] = "post" => Post(t)
           /\ pc[t] = "repost" => PostIfContended(t)
           /\ pc[t] = "loop" => StillInstalled(t)
           /\ pc[t] = "grab" => AcquireReady(t) \/ FallAsleep(t)
           /\ pc'[t] = "sleep" => FallAsleep(t)
           /\ UNCHANGED tokens \/ Wake(t) \/ \E n \in Nat : AddTokens(local[t], n)
<1> DEFINE P == /\ pc[t] = "post" => Post(t)
                /\ pc[t] = "repost" => PostIfContended(t)
                /\ pc[t] = "loop" => StillInstalled(t)
                /\ pc[t] = "grab" => AcquireReady(t) \/ FallAsleep(t)
                /\ pc'[t] = "sleep" => FallAsleep(t)
           Q == UNCHANGED tokens \/ Wake(t) \/ \E n \in Nat : AddTokens(local[t], n)
<1> USE DEF TypeOK, lockVars, nodeVars, callVars, waitVars, frameVars,
        Goto, EndCall, ReturnLocked, ReturnTimedOut, Retry, ReturnUnlocked
<1>1. ASSUME \/ ReadMonitor(t) \/ AllocateMonitor(t) \/ InstallMonitor(t)
             \/ LoseInstallRace(t) \/ EnterRecursively(t) \/ AcquireInstalled(t)
             \/ Contend(t) \/ KeepAcquired(t) \/ UnacquireStale(t)
      PROVE  P /\ Q
  BY <1>1 DEF ReadMonitor, AllocateMonitor, InstallMonitor, LoseInstallRace,
              EnterRecursively, AcquireInstalled, Contend, KeepAcquired,
              UnacquireStale, TryAcquire
<1>2. ASSUME \/ AddToReadyList(t) \/ VacateDyingMonitor(t) \/ LeaveReadyList(t)
             \/ StillInstalled(t) \/ AcquireReady(t) \/ FallAsleep(t) \/ Wake(t)
      PROVE  P /\ Q
  <2>1. P
    BY <1>2 DEF AddToReadyList, VacateDyingMonitor, LeaveReadyList, StillInstalled,
                AcquireReady, FallAsleep, Wake
  <2>2. Q
    BY <1>2 DEF AddToReadyList, VacateDyingMonitor, LeaveReadyList, StillInstalled,
                AcquireReady, FallAsleep, TryAcquire, RemoveFromReadyList
  <2>3. QED
    BY <2>1, <2>2
<1>3. ASSUME LastWaiterCheck(t) \/ LastWaiterAcquires(t) \/ LastWaiterGivesUp(t) \/ Disturb(t)
      PROVE  P /\ Q
  BY <1>3 DEF LastWaiterCheck, LastWaiterAcquires, LastWaiterGivesUp, Disturb,
              SleepTimesOut, SleepInterrupted, PulseWaitEnds, TryAcquire,
              RemoveFromReadyList
<1>4. ASSUME \/ Decide(t) \/ Unacquire(t) \/ Deflate(t) \/ ReleaseMonitor(t)
             \/ Pulsed(t) \/ RestoreAfterWait(t)
      PROVE  P /\ Q
  BY <1>4 DEF Decide, Unacquire, Deflate, ReleaseMonitor, Pulsed, RestoreAfterWait
<1>5. ASSUME Post(t) \/ PostIfContended(t) \/ FlushReadyList(t) PROVE P
  BY <1>5 DEF Post, PostIfContended, FlushReadyList
<1>6. ASSUME Post(t) \/ PostIfContended(t) \/ FlushReadyList(t) PROVE Q
  <2>1. pc[t] = "flush" => local[t] \in Monitors \/ local[t] = NULL
    OBVIOUS
  <2>2. ASSUME FlushReadyList(t) PROVE \E n \in Nat : AddTokens(local[t], n)
    <3>1. AddTokens(local[t], numWaiting[local[t]])
      BY <2>2 DEF FlushReadyList
    <3>2. CASE local[t] \in Monitors
      BY <3>1, <3>2
    <3>3. CASE local[t] \notin Monitors
      <4>1. tokens' = tokens
        BY <3>1, <3>3 DEF AddTokens
      <4>2. AddTokens(local[t], 0)
        BY <3>3, <4>1 DEF AddTokens
      <4>3. QED
        BY <4>2
    <3>4. QED
      BY <3>2, <3>3
  <2>3. ASSUME Post(t) \/ PostIfContended(t)
        PROVE  AddTokens(local[t], 1) \/ AddTokens(local[t], 0)
    BY <2>3 DEF Post, PostIfContended
  <2>4. QED
    BY <1>6, <2>2, <2>3
<1>7. ASSUME Call(t) PROVE P /\ Q
  BY <1>7 DEF Call, Enter, RaiseNotLocked, ExitRecursive, Exit, Pulse, PulseAll, Wait
<1>8. QED
  BY <1>1, <1>2, <1>3, <1>4, <1>5, <1>6, <1>7 DEF Step, EnterStep, ExitStep, WaitStep

\* Tokens are added to a semaphore, up to its limit.
LEMMA TokensAdded ==
    ASSUME TypeOK, NEW m \in Monitors, NEW l, NEW n \in Nat, AddTokens(l, n)
    PROVE  /\ tokens[m] > 0 => tokens'[m] > 0
           /\ l = m /\ n > 0 => tokens'[m] > 0
<1>1. tokens[m] \in 0 .. MaxTokens /\ tokens \in [Monitors -> 0 .. MaxTokens]
  BY DEF TypeOK
<1>2. MaxTokens \in Nat /\ MaxTokens > 0
  BY MonitorAssumption
<1>3. CASE l = m
  <2>1. tokens'[m] = IF tokens[m] + n < MaxTokens THEN tokens[m] + n ELSE MaxTokens
    BY <1>1, <1>3 DEF AddTokens
  <2>2. QED
    BY <1>1, <1>2, <1>3, <2>1
<1>4. CASE l # m
  BY <1>1, <1>4 DEF AddTokens
<1>5. QED
  BY <1>3, <1>4

\* A monitor that can be acquired stays on its object.
LEMMA AvailableStays ==
    ASSUME IInv, NEW t \in Threads, Step(t) \/ Disturb(t) \/ Call(t),
           NEW o \in Objects, NEW m \in Monitors,
           monitor[o] = m, owner[m] = CanBeAcquired
    PROVE  monitor'[o] = m
<1> USE DEF IInv, TypeOK, lockVars
<1>1. ASSUME InstallMonitor(t) PROVE monitor'[o] = m
  BY <1>1, MonitorAssumption DEF InstallMonitor
<1>2. ASSUME Deflate(t) PROVE monitor'[o] = m
  BY <1>2, SpecialOwners DEF Deflate, OwnerSteps
<1>3. QED
  BY QuietSteps, <1>1, <1>2
     DEF KeepsMonitors, AllocateMonitor, LoseInstallRace, Acquires, AcquireInstalled,
         AcquireReady, LastWaiterAcquires, TryAcquire, UnacquireStale, Unacquire,
         ReleaseMonitor

\* A monitor becomes one that can be acquired when its owner leaves, if nobody
\* lets go of one that has left its object.
LEMMA MadeAvailable ==
    ASSUME IInv, NeverVacated, NEW t \in Threads, Step(t) \/ Disturb(t) \/ Call(t),
           NEW m \in Monitors, owner[m] # CanBeAcquired, owner'[m] = CanBeAcquired
    PROVE  Attends(t, m)'
<1> USE DEF IInv, TypeOK, lockVars
<1>1. ASSUME Unacquire(t) PROVE Attends(t, m)'
  BY <1>1 DEF Unacquire, Goto, Attends
<1>2. ASSUME UnacquireStale(t) PROVE FALSE
  BY <1>2 DEF UnacquireStale, NeverVacated
<1>3. QED
  BY QuietSteps, SpecialOwners, <1>1, <1>2
     DEF KeepsMonitors, AllocateMonitor, InstallMonitor, LoseInstallRace, Acquires,
         AcquireInstalled, AcquireReady, LastWaiterAcquires, TryAcquire, Deflate,
         ReleaseMonitor

\* Whoever attends to a monitor on which a thread sleeps goes on attending to it,
\* or leaves a token.
LEMMA AttendedStays ==
    ASSUME IInv, NEW t \in Threads, Step(t) \/ Disturb(t) \/ Call(t),
           NEW m \in Monitors, owner[m] = CanBeAcquired, owner'[m] = CanBeAcquired,
           NEW s \in Threads, pc[s] = "sleep", local[s] = m,
           NEW u \in Threads, Attends(u, m)
    PROVE  tokens'[m] > 0 \/ Attends(u, m)'
<1>1. TypeOK /\ OthersUnmoved(t)
  BY PlacesMoved DEF IInv
<1>2. object[u] \in Objects
  BY DEF Attends, IInv, CallShape
<1>3. monitor[object[u]] = m => monitor'[object[u]] = m
  BY <1>2, AvailableStays
<1>4. CASE u # t
  BY <1>1, <1>3, <1>4 DEF OthersUnmoved, Attends
<1>5. CASE u = t /\ pc[t] = "post"
  <2>1. AddTokens(local[t], 1)
    BY <1>1, <1>5, WakerSteps DEF Post
  <2>2. QED
    BY <1>1, <1>5, <2>1, TokensAdded DEF Attends
<1>6. CASE u = t /\ pc[t] = "repost"
  <2>1. numWaiting[m] # 0
    BY NobodyReady DEF Ready
  <2>2. AddTokens(local[t], 1)
    BY <1>1, <1>5, <1>6, <2>1, WakerSteps DEF PostIfContended, Attends
  <2>3. QED
    BY <1>1, <1>6, <2>2, TokensAdded DEF Attends
<1>7. CASE u = t /\ pc[t] = "loop"
  <2>1. StillInstalled(t) /\ local[t] = m /\ monitor[object[t]] = m
    BY <1>1, <1>7, WakerSteps DEF Attends
  <2>2. pc'[t] = "grab" /\ local'[t] = m /\ object'[t] = object[t]
    BY <1>1, <2>1 DEF StillInstalled, Goto, TypeOK, frameVars, callVars
  <2>3. QED
    BY <1>3, <1>7, <2>2 DEF Attends
<1>8. CASE u = t /\ pc[t] = "grab"
  <2>1. AcquireReady(t) => owner'[m] = t
    BY <1>1, <1>8 DEF AcquireReady, TryAcquire, Attends, TypeOK
  <2>2. FallAsleep(t) => owner[m] # CanBeAcquired
    BY <1>8 DEF FallAsleep, TryAcquireFails, Attends
  <2>3. QED
    BY <1>1, <1>8, <2>1, <2>2, WakerSteps, SpecialOwners
<1>9. QED
  BY <1>4, <1>5, <1>6, <1>7, <1>8 DEF Attends

\* A token that is used up wakes a thread, which then attends to the monitor.
LEMMA TokenStays ==
    ASSUME IInv, NEW t \in Threads, Step(t) \/ Disturb(t) \/ Call(t),
           NEW m \in Monitors, owner[m] = CanBeAcquired, tokens[m] > 0
    PROVE  tokens'[m] > 0 \/ Attends(t, m)'
<1>1. TypeOK
  BY DEF IInv
<1>2. ASSUME NEW n \in Nat, AddTokens(local[t], n) PROVE tokens'[m] > 0
  BY <1>1, <1>2, TokensAdded
<1>3. ASSUME Wake(t), local[t] = m PROVE Attends(t, m)'
  <2>1. pc'[t] = "loop" /\ UNCHANGED <<monitor, local, object>> /\ pc[t] = "sleep"
    BY <1>1, <1>3 DEF Wake, Goto, TypeOK, frameVars, callVars
  <2>2. ASSUME NEW w \in Threads, pc[w] = "flush", local[w] = m PROVE FALSE
    BY <2>2, SpecialOwners DEF IInv, MonitorAccounting, Private
  <2>3. monitor[object[t]] = m
    BY <1>3, <2>1, <2>2 DEF IInv, PinnedWhileReady
  <2>4. QED
    BY <1>3, <2>1, <2>3 DEF Attends
<1>4. ASSUME Wake(t), local[t] # m PROVE tokens'[m] > 0
  BY <1>1, <1>4 DEF Wake, TypeOK
<1>5. QED
  BY <1>1, <1>2, <1>3, <1>4, WakerSteps

\* Every step keeps the wake-ups on their way.
LEMMA WakeKept ==
    ASSUME IInv, NeverVacated, WakeOnItsWay,
           NEW t \in Threads, Step(t) \/ Disturb(t) \/ Call(t)
    PROVE  WakeOnItsWay'
<1>1. TypeOK /\ OthersUnmoved(t) /\ EntersPinned(t)
  BY PlacesMoved DEF IInv
<1>2. SUFFICES ASSUME NEW s \in Threads, pc'[s] = "sleep", owner'[local'[s]] = CanBeAcquired
               PROVE  tokens'[local'[s]] > 0 \/ \E u \in Threads : Attends(u, local[s])'
  <2>1. ASSUME NEW s \in Threads, pc'[s] = "sleep" PROVE local'[s] = local[s]
    BY <1>1, <2>1 DEF OthersUnmoved, EntersPinned
  <2>2. QED
    BY <1>2, <2>1 DEF WakeOnItsWay, Attends
<1>3. local'[s] = local[s] /\ (pc[s] = "sleep" \/ (FallAsleep(t) /\ s = t))
  BY <1>1, <1>2, WakerSteps DEF OthersUnmoved, EntersPinned
<1>4. local[s] \in Monitors
  BY <1>3 DEF IInv, CallShape, WithLocal, PCs, FallAsleep
<1>5. PICK m \in Monitors : m = local[s]
  BY <1>4
<1>6. tokens'[m] > 0 \/ \E u \in Threads : Attends(u, m)'
  <2>1. CASE owner[m] # CanBeAcquired
    BY <1>2, <1>3, <1>5, <2>1, MadeAvailable
  <2>2. CASE owner[m] = CanBeAcquired
    <3>1. pc[s] = "sleep"
      BY <1>3, <1>5, <2>2 DEF FallAsleep, TryAcquireFails
    <3>2. tokens[m] > 0 \/ \E u \in Threads : Attends(u, m)
      BY <1>5, <2>2, <3>1 DEF WakeOnItsWay
    <3>3. QED
      BY <1>2, <1>3, <1>5, <2>2, <3>1, <3>2, AttendedStays, TokenStays
  <2>3. QED
    BY <2>1, <2>2
<1>7. QED
  BY <1>3, <1>5, <1>6 DEF Attends

\* So does a whole step, and the wake-ups are on their way at the start.
LEMMA NextWake ==
    /\ Init => WakeOnItsWay
    /\ IInv /\ NeverVacated /\ WakeOnItsWay /\ [Next]_vars => WakeOnItsWay'
<1>1. Init => WakeOnItsWay
  BY DEF Init, WakeOnItsWay
<1>2. ASSUME IInv, NeverVacated, WakeOnItsWay, Next PROVE WakeOnItsWay'
  BY <1>2, WakeKept DEF Next
<1>3. ASSUME WakeOnItsWay, UNCHANGED vars PROVE WakeOnItsWay'
  BY <1>3 DEF vars, lockVars, nodeVars, frameVars, callVars, WakeOnItsWay, Attends
<1>4. QED
  BY <1>1, <1>2, <1>3

\* NoLostWakeup only leaves out where the thread that is awake finds the monitor.
LEMMA WakesAreNotLost == WakeOnItsWay => NoLostWakeup
BY DEF WakeOnItsWay, NoLostWakeup, Attends

\* No thread sleeps beside a lock that can be taken without its wake-up on the
\* way, whatever times out and whoever is interrupted, except where a thread
\* lets go of a monitor that it acquired too late.
THEOREM WakeupsAreKept == Spec /\ []NeverVacated => []NoLostWakeup
<1>1. Spec => []IInv
  BY Invariance
<1>2. QED
  BY <1>1, NextWake, WakesAreNotLost, PTL DEF Spec

-----------------------------------------------------------------------------
(* The contract *)

\* Where a thread that is in a Wait has not been told yet to come back.
Leaving == {"decide", "handoff", "post", "unlock", "repost", "deflate", "flush",
            "pulseWait"}

\* A thread on its way back from a Wait without a timeout has had its pulse, where
\* it cannot have been interrupted.
PulseSpent ==
    ~Interrupts =>
        \A t \in Threads, m \in Monitors :
            waiting[t] = "infinite" /\ pc[t] \notin Leaving
                => waitNode[t] \notin pulseList[m]

\* A node gets on a pulse list from the free list.
LEMMA ListsGrowByFreeNodes ==
    ASSUME NInv, WaitReturns, NEW t \in Threads, Step(t) \/ Disturb(t) \/ Call(t),
           NEW m \in Monitors, NEW n, n \in pulseList'[m], n \notin pulseList[m]
    PROVE  n \in freeNodes
<1> USE DEF NInv, IInv, TypeOK
<1>1. CASE KeepsNodes \/ Pulsed(t)
  BY <1>1 DEF KeepsNodes, nodeVars, Pulsed
<1>2. CASE RestoreAfterWait(t)
  BY <1>2 DEF RestoreAfterWait, ReleaseNode
<1>3. ASSUME NEW o \in Objects, Pulse(t, o) \/ PulseAll(t, o) PROVE FALSE
  BY <1>3 DEF Pulse, PulseAll
<1>4. ASSUME NEW o \in Objects, NEW limit \in WaitTimeouts, Wait(t, o, limit)
      PROVE  n \in freeNodes
  BY <1>4 DEF Wait
<1>5. QED
  BY <1>1, <1>2, <1>3, <1>4, NodeSteps

\* Without interrupts a thread leaves the wait for a pulse without one only if it
\* was given a timeout.
LEMMA LeavingLeft ==
    ASSUME TypeOK, ~Interrupts, NEW t \in Threads, Step(t) \/ Disturb(t) \/ Call(t),
           waiting[t] = "infinite", pc[t] \in Leaving, pc'[t] \notin Leaving
    PROVE  Pulsed(t)
<1> USE DEF TypeOK, lockVars, nodeVars, callVars, waitVars, frameVars, Leaving,
        Goto, EndCall, ReturnUnlocked
<1>1. ~EnterStep(t)
  BY DEF EnterStep, ReadMonitor, AllocateMonitor, InstallMonitor,
     LoseInstallRace, EnterRecursively, AcquireInstalled, Contend, KeepAcquired,
     UnacquireStale, AddToReadyList, VacateDyingMonitor, LeaveReadyList,
     StillInstalled, AcquireReady, FallAsleep, Wake, LastWaiterCheck,
     LastWaiterAcquires, LastWaiterGivesUp
<1>2. ~ExitStep(t)
  BY DEF ExitStep, Decide, Unacquire, Post, PostIfContended, Deflate, FlushReadyList,
     ReleaseMonitor
<1>3. ~Disturb(t) /\ ~RestoreAfterWait(t)
  BY DEF Disturb, SleepTimesOut, SleepInterrupted, PulseWaitEnds, RestoreAfterWait
<1>4. ~Call(t)
  BY DEF Call, Enter, RaiseNotLocked, ExitRecursive, Exit, Pulse, PulseAll, Wait
<1>5. QED
  BY <1>1, <1>2, <1>3, <1>4 DEF Step, WaitStep

\* Every step keeps the pulses spent.
LEMMA PulseSpentKept ==
    ASSUME NInv, PulseSpent, WaitReturns,
           NEW t \in Threads, Step(t) \/ Disturb(t) \/ Call(t)
    PROVE  PulseSpent'
<1>1. SUFFICES ASSUME ~Interrupts, NEW u \in Threads, NEW m \in Monitors,
                      waiting'[u] = "infinite", pc'[u] \notin Leaving,
                      waitNode'[u] \in pulseList'[m]
               PROVE  FALSE
  BY DEF PulseSpent
<1>2. TypeOK /\ WaitShape /\ NodesPlaced /\ Apart(t)
  BY ThreadsApart DEF NInv, IInv
<1>3. ASSUME waiting[u] = "infinite", waitNode'[u] = waitNode[u] PROVE pc[u] \in Leaving
  <2>1. SUFFICES ASSUME pc[u] \notin Leaving PROVE FALSE
    OBVIOUS
  <2>2. waitNode[u] \notin pulseList[m] /\ waitNode[u] \notin freeNodes
    BY <1>1, <1>2, <1>3, <2>1 DEF PulseSpent, NodesPlaced
  <2>3. QED
    BY <1>1, <1>3, <2>2, ListsGrowByFreeNodes
<1>4. CASE u # t
  BY <1>1, <1>2, <1>3, <1>4 DEF Apart
<1>5. CASE u = t
  <2>1. ASSUME NEW o \in Objects, NEW limit \in WaitTimeouts, Wait(t, o, limit) PROVE FALSE
    BY <1>1, <1>2, <1>5, <2>1 DEF Wait, Goto, TypeOK, Leaving
  <2>2. ~RestoreAfterWait(t) /\ ~SleepInterrupted(t)
    BY <1>1, <1>2, <1>5 DEF RestoreAfterWait, SleepInterrupted, TypeOK
  <2>3. waiting[t] = "infinite"
    BY <1>1, <1>2, <1>5, <2>1, <2>2, WaitingSteps
  <2>4. waitNode'[t] = waitNode[t]
    BY <1>2, <2>2, <2>3, DeflateReached, WaitsStay DEF WaitStays
  <2>5. Pulsed(t)
    BY <1>1, <1>2, <1>3, <1>5, <2>3, <2>4, LeavingLeft
  <2>6. waitNode[t] \in signaled /\ UNCHANGED pulseList
    BY <2>5 DEF Pulsed
  <2>7. QED
    BY <1>1, <1>2, <1>5, <2>4, <2>6 DEF NodesPlaced
<1>6. QED
  BY <1>4, <1>5

\* The contract's variables, as functions of the monitors'.
WaitsOn == [t \in Threads |-> IF waiting[t] = "none" THEN NULL ELSE object[t]]
Spent == {t \in Threads : waitNode[t] # NULL /\
            \A m \in Monitors : waitNode[t] \notin pulseList[m]}

\* The contract's holder of a lock is the thread inside it.
LEMMA HolderIsInside ==
    ASSUME NEW t \in Threads, NEW o \in Objects
    PROVE  Contract!Holder(t, o) <=> Inside(t, o)
BY MonitorAssumption DEF Contract!Holder, Inside

\* A thread that is inside after its step could take the lock before it.
LEMMA TakenWasAvailable ==
    ASSUME HInv', NEW t \in Threads, Apart(t), NEW o \in Objects, Inside(t, o)'
    PROVE  Contract!Available(t, o)
<1>1. MutualExclusion'
  BY InsideIsAlone, PTL
<1>2. SUFFICES ASSUME NEW u \in Threads \ {t}, Contract!Holder(u, o) PROVE FALSE
  BY DEF Contract!Available
<1>3. Inside(u, o)
  BY <1>2, HolderIsInside
<1>4. Inside(u, o)'
  BY <1>2, <1>3 DEF Apart, Inside
<1>5. QED
  BY <1>1, <1>2, <1>4 DEF MutualExclusion

\* Nothing the contract speaks of has changed.
Unseen ==
    /\ UNCHANGED <<depth, waiting, waitNode, pulseList>>
    /\ \A u \in Threads : waiting[u] # "none" => object'[u] = object[u]

\* Such a step is none of the contract's.
LEMMA UnseenStutters ==
    ASSUME Unseen
    PROVE  UNCHANGED Contract!vars
<1>1. UNCHANGED WaitsOn
  BY DEF Unseen, WaitsOn
<1>2. UNCHANGED Spent
  BY DEF Unseen, Spent
<1>3. QED
  BY <1>1, <1>2 DEF Contract!vars, WaitsOn, Spent, Unseen

\* Enter, seen from the contract: the call takes effect when it returns.
LEMMA EnterRefines ==
    ASSUME HInv, HInv', NEW t \in Threads, Enters(t), Apart(t), waiting[t] = "none",
           NEW o \in Objects, object[t] = o
    PROVE  Contract!Enter(t, o)
<1>1. TypeOK /\ ReturnLocked(t) /\ UNCHANGED waitVars
  BY DEF HInv, NInv, IInv, CallShape, Enters, InstallMonitor, EnterRecursively,
     KeepAcquired, LeaveReadyList, LastWaiterAcquires
<1>2. UNCHANGED pulseList
  BY DEF Enters, InstallMonitor, EnterRecursively, KeepAcquired, LeaveReadyList,
     LastWaiterAcquires, TryAcquire, RemoveFromReadyList, nodeVars
<1>3. depth' = [depth EXCEPT ![t][o] = @ + 1]
  BY <1>1 DEF ReturnLocked
<1>4. Contract!Available(t, o)
  <2>1. depth'[t][o] = depth[t][o] + 1 /\ depth[t][o] \in Nat
    BY <1>1, <1>3 DEF TypeOK
  <2>2. Inside(t, o)'
    BY <1>1, <2>1 DEF Inside, waitVars
  <2>3. QED
    BY <2>2, TakenWasAvailable
<1>5. WaitsOn' = WaitsOn
  <2>1. \A u \in Threads : /\ waiting'[u] = waiting[u]
                           /\ waiting[u] # "none" => object'[u] = object[u]
    BY <1>1 DEF Apart, waitVars
  <2>2. QED
    BY <2>1 DEF WaitsOn
<1>6. Spent' = Spent
  BY <1>1, <1>2 DEF Spent, waitVars
<1>7. QED
  BY <1>1, <1>3, <1>4, <1>5, <1>6 DEF Contract!Enter, WaitsOn, Spent, waitVars

\* The return of a Wait.
LEMMA EndWaitRefines ==
    ASSUME HInv, HInv', PulseSpent, NEW t \in Threads, RestoreAfterWait(t), Apart(t),
           NEW o \in Objects, object[t] = o
    PROVE  Contract!EndWait(t, o)
<1>1. /\ TypeOK /\ pc[t] = "restore" /\ waiting[t] # "none"
      /\ oldCount[t] = depth[t][o] /\ depth[t][o] > 0
      /\ WaitShapeOf(t) /\ NodesPlaced
  BY DEF HInv, NInv, IInv, CallShape, HInvOf, EntryShape, RestoreAfterWait, WaitShape,
     WaitShapeOf
<1>2. /\ waiting' = [waiting EXCEPT ![t] = "none"]
      /\ waitNode' = [waitNode EXCEPT ![t] = NULL]
      /\ pulseList' = [pulseList EXCEPT ![monitor[o]] = @ \ {waitNode[t]}]
      /\ UNCHANGED depth
  BY DEF RestoreAfterWait, ReleaseNode
<1>3. Contract!Available(t, o)
  <2>1. Inside(t, o)'
    BY <1>1, <1>2 DEF Inside, TypeOK
  <2>2. QED
    BY <2>1, TakenWasAvailable
<1>4. waiting[t] = "infinite" => t \in Spent \/ Interrupts
  BY <1>1 DEF Spent, PulseSpent, Leaving, WaitShapeOf
<1>5. WaitsOn' = [WaitsOn EXCEPT ![t] = NULL]
  <2>1. \A u \in Threads \ {t} : waiting'[u] = waiting[u] /\ object'[u] = object[u]
    BY DEF Apart
  <2>2. QED
    BY <1>1, <1>2, <2>1 DEF WaitsOn, TypeOK
<1>6. Spent' = Spent \ {t}
  <2>1. \A u \in Threads \ {t} : waitNode[u] # waitNode[t] \/ waitNode[u] = NULL
    BY <1>1 DEF NodesPlaced
  <2>2. \A u \in Threads \ {t}, m \in Monitors :
          waitNode[u] # NULL => (waitNode'[u] \in pulseList'[m] <=> waitNode[u] \in pulseList[m])
    BY <1>1, <1>2, <2>1 DEF TypeOK
  <2>3. QED
    BY <1>1, <1>2, <2>2 DEF Spent, TypeOK
<1>7. QED
  BY <1>1, <1>2, <1>3, <1>4, <1>5, <1>6 DEF Contract!EndWait, WaitsOn, Spent

\* The start of a Wait.
LEMMA StartWaitRefines ==
    ASSUME HInv, NEW t \in Threads, NEW o \in Objects, NEW limit \in WaitTimeouts,
           Wait(t, o, limit), Apart(t)
    PROVE  Contract!StartWait(t, o)
<1>1. TypeOK /\ WaitShape /\ NodesPlaced
  BY DEF HInv, NInv, IInv
<1>2. /\ pc[t] = "idle" /\ depth[t][o] > 0 /\ waiting[t] = "none" /\ waitNode[t] = NULL
      /\ waiting' = [waiting EXCEPT ![t] = limit]
      /\ object'[t] = o /\ UNCHANGED depth
      /\ limit \in Timeouts
  BY <1>1, MonitorAssumption DEF Wait, WaitShape, WaitShapeOf, TypeOK, Timeouts
<1>3. WaitsOn' = [WaitsOn EXCEPT ![t] = o]
  <2>1. \A u \in Threads \ {t} : waiting'[u] = waiting[u] /\ object'[u] = object[u]
    BY DEF Apart
  <2>2. QED
    BY <1>1, <1>2, <2>1 DEF WaitsOn, TypeOK, Timeouts
<1>4. Spent' = Spent
  <2>1. CASE limit = "zero"
    BY <2>1 DEF Wait, Spent
  <2>2. CASE limit # "zero"
    <3>1. PICK n \in freeNodes :
            /\ waitNode' = [waitNode EXCEPT ![t] = n]
            /\ pulseList' = [pulseList EXCEPT ![monitor[o]] = @ \cup {n}]
      BY <2>2 DEF Wait
    <3>2. monitor[o] \in Monitors
      BY <1>1 DEF Wait, LockedByCurrentThread, TypeOK
    <3>3. t \notin Spent /\ t \notin Spent'
      BY <1>1, <1>2, <3>1, <3>2 DEF Spent, TypeOK
    <3>4. \A u \in Threads \ {t}, m \in Monitors :
            waitNode'[u] \in pulseList'[m] <=> waitNode[u] \in pulseList[m]
      BY <1>1, <3>1, <3>2 DEF TypeOK, NodesPlaced
    <3>5. ASSUME NEW u \in Threads \ {t} PROVE u \in Spent' <=> u \in Spent
      <4>1. waitNode'[u] = waitNode[u]
        BY DEF Apart
      <4>2. \A m \in Monitors : waitNode'[u] \in pulseList'[m] <=> waitNode[u] \in pulseList[m]
        BY <3>4
      <4>3. QED
        BY <4>1, <4>2 DEF Spent
    <3>6. Spent \subseteq Threads /\ Spent' \subseteq Threads
      BY DEF Spent
    <3>7. QED
      BY <3>3, <3>5, <3>6
  <2>3. QED
    BY <2>1, <2>2
<1>5. Contract!Holder(t, o)
  BY <1>2, HolderIsInside DEF Inside
<1>6. WaitsOn[t] = NULL
  BY <1>2 DEF WaitsOn
<1>7. QED
  BY <1>2, <1>3, <1>4, <1>5, <1>6 DEF Contract!StartWait, WaitsOn, Spent, Timeouts

\* Exit, as its caller sees it: the lock is let go of when it starts.
LEMMA ExitRefines ==
    ASSUME HInv, NEW t \in Threads, NEW o \in Objects,
           Exit(t, o) \/ ExitRecursive(t, o), Apart(t)
    PROVE  Contract!Exit(t, o)
<1>1. TypeOK /\ WaitShape
  BY DEF HInv, NInv, IInv
<1>2. /\ pc[t] = "idle" /\ depth[t][o] > 0 /\ waiting[t] = "none"
      /\ depth' = [depth EXCEPT ![t][o] = @ - 1]
      /\ UNCHANGED <<pulseList, waitNode, waiting>>
  BY <1>1 DEF Exit, ExitRecursive, WaitShape, WaitShapeOf, nodeVars, waitVars
<1>3. Contract!Holder(t, o)
  BY <1>2, HolderIsInside DEF Inside
<1>4. UNCHANGED WaitsOn
  BY <1>2 DEF WaitsOn, Apart
<1>5. UNCHANGED Spent
  BY <1>2 DEF Spent
<1>6. QED
  BY <1>2, <1>3, <1>4, <1>5 DEF Contract!Exit, WaitsOn, Spent

\* The node of a thread is on the pulse list of its object's monitor, if on any.
LEMMA ListedWaiters ==
    ASSUME HInv, NEW o \in Objects, NEW m \in Monitors, monitor[o] = m,
           NEW n \in pulseList[m]
    PROVE  \E u \in Threads : waitNode[u] = n /\ u \in Contract!Waiters(o) \ Spent
<1>1. TypeOK /\ WaitShape /\ NodesPlaced /\ CallShape /\ MonitorAccounting
  BY DEF HInv, NInv, IInv
<1>2. PICK u \in Threads : waitNode[u] = n
  BY <1>1 DEF NodesPlaced, TypeOK
<1>3. n # NULL /\ m # NULL
  BY <1>1, MonitorAssumption DEF TypeOK
<1>4. waiting[u] \in {"timed", "infinite"} /\ pc[u] # "idle"
  BY <1>1, <1>2, <1>3 DEF WaitShape, WaitShapeOf
<1>5. object[u] = o
  BY <1>1, <1>2, <1>3, <1>4 DEF NodesPlaced, CallShape, MonitorAccounting
<1>6. u \in Contract!Waiters(o)
  BY <1>4, <1>5 DEF Contract!Waiters
<1>7. u \notin Spent
  BY <1>2 DEF Spent
<1>8. QED
  BY <1>2, <1>6, <1>7

\* Pulse and PulseAll spend a pulse on the threads whose nodes they take.
LEMMA PulseRefines ==
    ASSUME HInv, NEW t \in Threads, NEW o \in Objects, Pulse(t, o) \/ PulseAll(t, o)
    PROVE  Contract!Pulse(t, o) \/ Contract!PulseAll(t, o)
<1>1. TypeOK /\ WaitShape /\ NodesPlaced /\ MonitorAccounting
  BY DEF HInv, NInv, IInv
<1>2. /\ pc[t] = "idle" /\ depth[t][o] > 0 /\ monitor[o] \in Monitors
      /\ UNCHANGED <<depth, waiting, waitNode, object>>
  BY <1>1 DEF Pulse, PulseAll, LockedByCurrentThread, TypeOK, frameVars, waitVars, callVars
<1>3. PICK m \in Monitors : monitor[o] = m
  BY <1>2
<1>4. Contract!Holder(t, o)
  BY <1>1, <1>2, HolderIsInside DEF Inside, WaitShape, WaitShapeOf
<1>5. UNCHANGED WaitsOn
  BY <1>2 DEF WaitsOn
<1>6. CASE Pulse(t, o)
  <2>1. PICK n \in pulseList[m] : pulseList' = [pulseList EXCEPT ![m] = @ \ {n}]
    BY <1>3, <1>6 DEF Pulse
  <2>2. PICK u \in Threads : waitNode[u] = n /\ u \in Contract!Waiters(o) \ Spent
    BY <1>3, <2>1, ListedWaiters
  <2>3. n # NULL
    BY <1>1, <2>1, MonitorAssumption DEF TypeOK
  <2>4. \A k \in Monitors : n \in pulseList[k] => k = m
    BY <1>1, <2>1, <2>2 DEF NodesPlaced
  <2>5. \A w \in Threads, k \in Monitors :
          waitNode[w] \in pulseList'[k] <=> waitNode[w] \in pulseList[k] /\ waitNode[w] # n
    BY <1>1, <2>1, <2>4 DEF TypeOK
  <2>6. \A w \in Threads : waitNode[w] = n <=> w = u
    BY <1>1, <2>2, <2>3 DEF NodesPlaced
  <2>7. Spent' = Spent \cup {u}
    BY <1>2, <2>2, <2>3, <2>5, <2>6 DEF Spent
  <2>8. Contract!Pulse(t, o)
    BY <1>2, <1>4, <1>5, <2>2, <2>7 DEF Contract!Pulse, WaitsOn, Spent
  <2>9. QED
    BY <2>8
<1>7. CASE PulseAll(t, o)
  <2>1. pulseList' = [pulseList EXCEPT ![m] = {}]
    BY <1>3, <1>7 DEF PulseAll
  <2>2. ASSUME NEW u \in Threads, u \in Contract!Waiters(o) PROVE u \in Spent'
    <3>1. waiting[u] # "none" /\ object[u] = o /\ waiting[u] # "zero"
      BY <2>2, MonitorAssumption DEF Contract!Waiters
    <3>2. waitNode[u] # NULL
      BY <1>1, <3>1 DEF WaitShape, WaitShapeOf, TypeOK, Timeouts
    <3>3. \A k \in Monitors : waitNode[u] \in pulseList[k] => k = m
      BY <1>1, <1>3, <3>1 DEF NodesPlaced
    <3>4. QED
      BY <1>1, <1>2, <2>1, <3>2, <3>3 DEF Spent, TypeOK
  <2>3. ASSUME NEW u \in Threads, u \in Spent' \ Spent PROVE u \in Contract!Waiters(o)
    <3>1. PICK k \in Monitors : waitNode[u] \in pulseList[k] /\ waitNode[u] \notin pulseList'[k]
      BY <1>2, <2>3 DEF Spent
    <3>2. k = m
      BY <1>1, <2>1, <3>1 DEF TypeOK
    <3>3. PICK w \in Threads : waitNode[w] = waitNode[u] /\ w \in Contract!Waiters(o)
      BY <1>3, <3>1, <3>2, ListedWaiters
    <3>4. w = u
      BY <1>1, <1>2, <2>3, <3>3 DEF NodesPlaced, Spent
    <3>5. QED
      BY <3>3, <3>4
  <2>4. \A u \in Threads : u \in Spent => u \in Spent'
    BY <1>1, <1>2, <2>1 DEF Spent, TypeOK
  <2>5. Spent' = Spent \cup Contract!Waiters(o)
    BY <2>2, <2>3, <2>4 DEF Spent, Contract!Waiters
  <2>6. Contract!PulseAll(t, o)
    BY <1>2, <1>4, <1>5, <2>5 DEF Contract!PulseAll, WaitsOn, Spent
  <2>7. QED
    BY <2>6
<1>8. QED
  BY <1>6, <1>7

\* What a thread's caller takes it to hold changes when a call returns with the
\* lock, and when it starts to let go of it.
LEMMA DepthSteps ==
    ASSUME TypeOK, NEW t \in Threads, Step(t) \/ Disturb(t) \/ Call(t)
    PROVE  \/ UNCHANGED depth
           \/ Enters(t) /\ waiting[t] = "none"
           \/ \E o \in Objects : Exit(t, o) \/ ExitRecursive(t, o) \/ RaiseNotLocked(t, o)
<1> USE DEF lockVars, nodeVars, callVars, waitVars, frameVars
<1>1. ASSUME Enters(t) PROVE UNCHANGED depth \/ (Enters(t) /\ waiting[t] = "none")
  BY <1>1 DEF Enters, InstallMonitor, EnterRecursively, KeepAcquired, LeaveReadyList,
     LastWaiterAcquires, ReturnLocked
<1>2. ASSUME EnterStep(t), ~Enters(t) PROVE UNCHANGED depth
  BY <1>2 DEF EnterStep, Enters, ReadMonitor, AllocateMonitor, LoseInstallRace,
     AcquireInstalled, Contend, UnacquireStale, AddToReadyList, VacateDyingMonitor,
     StillInstalled, AcquireReady, FallAsleep, Wake, LastWaiterCheck,
     LastWaiterGivesUp, Retry, ReturnTimedOut
<1>3. ASSUME ExitStep(t) \/ WaitStep(t) \/ Disturb(t) PROVE UNCHANGED depth
  BY <1>3 DEF ExitStep, Decide, Unacquire, Post, PostIfContended, Deflate,
     FlushReadyList, ReleaseMonitor, WaitStep, Pulsed, RestoreAfterWait, Disturb,
     SleepTimesOut, SleepInterrupted, PulseWaitEnds, ReturnTimedOut
<1>4. ASSUME NEW o \in Objects,
             \/ \E limit \in EnterTimeouts : Enter(t, o, limit)
             \/ \E limit \in WaitTimeouts : Wait(t, o, limit)
             \/ Pulse(t, o) \/ PulseAll(t, o)
      PROVE  UNCHANGED depth
  BY <1>4 DEF Enter, Wait, Pulse, PulseAll
<1>5. QED
  BY <1>1, <1>2, <1>3, <1>4 DEF Step, Call

\* Every step of the monitors is a step of the contract or changes nothing it
\* speaks of.
LEMMA StepRefines ==
    ASSUME HInv, HInv', PulseSpent, WaitReturns,
           NEW t \in Threads, Step(t) \/ Disturb(t) \/ Call(t)
    PROVE  [Contract!Next]_(Contract!vars)
<1>1. TypeOK /\ WaitShape /\ Apart(t)
  BY ThreadsApart DEF HInv, NInv, IInv
<1>2. CASE Enters(t) /\ waiting[t] = "none"
  <2>1. PICK o \in Objects : o = object[t]
    BY <1>2 DEF HInv, NInv, IInv, CallShape, Enters, InstallMonitor, EnterRecursively,
       KeepAcquired, LeaveReadyList, LastWaiterAcquires
  <2>2. Contract!Enter(t, o)
    BY <1>1, <1>2, <2>1, EnterRefines
  <2>3. QED
    BY <2>2 DEF Contract!Next
<1>3. CASE RestoreAfterWait(t)
  <2>1. PICK o \in Objects : o = object[t]
    BY <1>3 DEF HInv, NInv, IInv, CallShape, RestoreAfterWait
  <2>2. Contract!EndWait(t, o)
    BY <1>1, <1>3, <2>1, EndWaitRefines
  <2>3. QED
    BY <2>2 DEF Contract!Next
<1>4. ASSUME NEW o \in Objects, RaiseNotLocked(t, o) PROVE FALSE
  BY <1>1, <1>4 DEF RaiseNotLocked, HInv, HInvOf, InsideOwns, Inside, WaitShape, WaitShapeOf
<1>5. ASSUME NEW o \in Objects, Exit(t, o) \/ ExitRecursive(t, o) PROVE Contract!Next
  BY <1>1, <1>5, ExitRefines DEF Contract!Next
<1>6. ASSUME NEW o \in Objects, Pulse(t, o) \/ PulseAll(t, o) PROVE Contract!Next
  BY <1>6, PulseRefines DEF Contract!Next
<1>7. ASSUME NEW o \in Objects, NEW limit \in WaitTimeouts, Wait(t, o, limit)
      PROVE  Contract!Next
  BY <1>1, <1>7, StartWaitRefines DEF Contract!Next
<1>8. ASSUME ~(Enters(t) /\ waiting[t] = "none"), ~RestoreAfterWait(t),
             \A o \in Objects : /\ ~Exit(t, o) /\ ~ExitRecursive(t, o) /\ ~RaiseNotLocked(t, o)
                                /\ ~Pulse(t, o) /\ ~PulseAll(t, o)
                                /\ \A limit \in WaitTimeouts : ~Wait(t, o, limit)
      PROVE  Unseen
  <2>1. UNCHANGED depth
    BY <1>1, <1>8, DepthSteps
  <2>2. UNCHANGED waiting
    <3>1. CASE SleepInterrupted(t)
      BY <1>1, <3>1 DEF SleepInterrupted, WaitReturns, TypeOK
    <3>2. QED
      BY <1>1, <1>8, <3>1, WaitingSteps
  <2>3. UNCHANGED <<waitNode, pulseList>>
    BY <1>1, <1>8, NodeSteps DEF KeepsNodes, nodeVars, Pulsed, frameVars, waitVars
  <2>4. WaitStays(t) /\ pc[t] # "restore"
    BY <1>1, <1>8, WaitsStay, DeflateReached
  <2>5. \A u \in Threads : waiting[u] # "none" => object'[u] = object[u]
    BY <1>1, <2>4 DEF Apart, WaitStays
  <2>6. QED
    BY <2>1, <2>2, <2>3, <2>5 DEF Unseen
<1>9. CASE Unseen
  BY <1>9, UnseenStutters
<1>10. QED
  BY <1>2, <1>3, <1>4, <1>5, <1>6, <1>7, <1>8, <1>9

\* The invariant under which the monitors refine the contract.
RInv == HInv /\ PulseSpent

\* The monitors start where the contract does.
LEMMA InitRefines == Init => RInv /\ Contract!Init
<1>1. ASSUME Init PROVE PulseSpent
  BY <1>1 DEF Init, PulseSpent
<1>2. ASSUME Init PROVE Contract!Init
  BY <1>2 DEF Init, Contract!Init
<1>3. QED
  BY <1>1, <1>2, InitHInv DEF RInv

\* As long as none of the three faults happens every step is one the contract
\* allows.
LEMMA NextRefines ==
    ASSUME RInv, AcquiredIsInstalled, LastWaiterHasIt, [Next]_vars, [WaitReturns]_vars
    PROVE  RInv' /\ [Contract!Next]_(Contract!vars)
<1>1. IInv /\ NInv /\ HInv /\ PulseSpent
  BY DEF RInv, HInv, NInv
<1>2. HInv'
  BY <1>1, NextHInv
<1>3. CASE UNCHANGED vars
  <2>1. PulseSpent'
    BY <1>1, <1>3 DEF PulseSpent, vars, lockVars, nodeVars, waitVars, callVars, frameVars
  <2>2. Unseen
    BY <1>3 DEF Unseen, vars, lockVars, nodeVars, waitVars, callVars, frameVars
  <2>3. QED
    BY <1>2, <2>1, <2>2, UnseenStutters DEF RInv
<1>4. CASE ~UNCHANGED vars
  <2>1. WaitReturns /\ Next
    BY <1>4
  <2>2. PICK t \in Threads : Step(t) \/ Disturb(t) \/ Call(t)
    BY <2>1 DEF Next
  <2>3. PulseSpent'
    BY <1>1, <2>1, <2>2, PulseSpentKept
  <2>4. [Contract!Next]_(Contract!vars)
    BY <1>1, <1>2, <2>1, <2>2, StepRefines
  <2>5. QED
    BY <1>2, <2>3, <2>4 DEF RInv
<1>5. QED
  BY <1>3, <1>4

\* Monitors implement the locks that LockContract describes, for any number of
\* objects, and for threads that are interrupted anywhere, as long as none of the
\* three faults happens: calls of Enter take effect one at a time, Wait gives its
\* caller back the count it had, and one without a timeout returns after a pulse
\* that was spent on it or by an APC's exception.
THEOREM MonitorsImplementContract ==
    Spec /\ []AcquiredIsInstalled /\ []LastWaiterHasIt /\ [][WaitReturns]_vars
      => ImplementsContract
<1>1. RInv /\ AcquiredIsInstalled /\ LastWaiterHasIt /\ [Next]_vars /\ [WaitReturns]_vars
        => RInv' /\ [Contract!Next]_(Contract!vars)
  BY NextRefines
<1>2. QED
  BY <1>1, InitRefines, PTL DEF Spec, ImplementsContract, Contract!Spec
=============================================================================
