--------------------------- MODULE ClassInitProofs ---------------------------
(***************************************************************************)
(* Proofs about ClassInit, for any threads, classes and static             *)
(* constructors: a constructor runs once, and nobody gets past ClassInit   *)
(* before it has ended but for the thread that runs it.                    *)
(***************************************************************************)
EXTENDS ClassInit, TLAPS

-----------------------------------------------------------------------------
(* The inductive invariant *)

\* Only the innermost call of a thread is not inside a static constructor, and a
\* thread that was killed is in none.
StackShape ==
  \A t \in Threads :
    /\ \A i \in DOMAIN stack[t] : i < Len(stack[t]) => stack[t][i].place = "run"
    /\ t \in killed => stack[t] = <<>>

\* What the fields of a class say where a call of ClassInit is.
FieldsOfFrames ==
  \A t \in Threads : \A i \in DOMAIN stack[t] :
    LET f == stack[t][i] IN
    /\ f.place = "run" =>
         /\ f.klass \in cctor_started \ cctor_finished
         /\ cctor_thread[f.klass] = t
    /\ f.place = "clear" => f.klass \in cctor_finished

\* cctor_thread tells who runs the constructor, or was killed in it.
ThreadRuns ==
  \A k \in Classes \ cctor_finished, t \in Threads :
    cctor_thread[k] = t => t \in killed \/ \E i \in DOMAIN stack[t] : Runs(t, i, k)

\* The runs of a constructor that are in one thread.
OncePerStack ==
  \A t \in Threads, k \in Classes : \A i, j \in DOMAIN stack[t] :
    Runs(t, i, k) /\ Runs(t, j, k) => i = j

IInv ==
  /\ TypeOK
  /\ StackShape
  /\ FieldsOfFrames
  /\ ThreadRuns
  /\ OncePerStack
  /\ UsesAreInitialized

-----------------------------------------------------------------------------
(* What a step does to a stack *)

\* Goto changes the place of the innermost call.
LEMMA GotoShape ==
  ASSUME TypeOK, NEW t \in Threads, stack[t] # <<>>, NEW p \in Places, Goto(t, p)
  PROVE  /\ stack' \in [Threads -> Seq(Frame)]
         /\ \A u \in Threads \ {t} : stack'[u] = stack[u]
         /\ Len(stack'[t]) = Len(stack[t])
         /\ DOMAIN stack'[t] = DOMAIN stack[t]
         /\ Len(stack[t]) \in DOMAIN stack[t]
         /\ \A i \in DOMAIN stack[t] :
              /\ stack'[t][i].klass = stack[t][i].klass
              /\ stack'[t][i].place = IF i = Len(stack[t]) THEN p ELSE stack[t][i].place
<1> DEFINE n == Len(stack[t])
           f == [stack[t][n] EXCEPT !.place = p]
<1>1. stack[t] \in Seq(Frame) /\ n \in 1 .. n /\ DOMAIN stack[t] = 1 .. n /\ n \in Nat
  BY DEF TypeOK
<1>2. stack[t][n] \in Frame
  BY <1>1
<1>3. f \in Frame /\ f.place = p /\ f.klass = stack[t][n].klass
  BY <1>2 DEF Frame
<1>4. [stack[t] EXCEPT ![n] = f] \in Seq(Frame)
  BY <1>1, <1>3
<1>5. stack' = [stack EXCEPT ![t] = [stack[t] EXCEPT ![n] = f]]
  BY DEF Goto
<1>6. stack'[t] = [stack[t] EXCEPT ![n] = f] /\ \A u \in Threads \ {t} : stack'[u] = stack[u]
  BY <1>5 DEF TypeOK
<1>7. stack' \in [Threads -> Seq(Frame)]
  BY <1>4, <1>5 DEF TypeOK
<1>8. Len(stack'[t]) = n /\ DOMAIN stack'[t] = 1 .. n
  BY <1>1, <1>4, <1>6
<1>9. \A i \in DOMAIN stack[t] : stack'[t][i] = IF i = n THEN f ELSE stack[t][i]
  BY <1>1, <1>6
<1> QED
  BY <1>1, <1>3, <1>6, <1>7, <1>8, <1>9

\* Pop takes the innermost call off.
LEMMA PopShape ==
  ASSUME TypeOK, NEW t \in Threads, stack[t] # <<>>, Pop(t)
  PROVE  /\ stack' \in [Threads -> Seq(Frame)]
         /\ \A u \in Threads \ {t} : stack'[u] = stack[u]
         /\ Len(stack'[t]) = Len(stack[t]) - 1
         /\ DOMAIN stack'[t] = DOMAIN stack[t] \ {Len(stack[t])}
         /\ \A i \in DOMAIN stack'[t] : stack'[t][i] = stack[t][i]
<1> DEFINE n == Len(stack[t])
           s == SubSeq(stack[t], 1, n - 1)
<1>1. stack[t] \in Seq(Frame) /\ n \in Nat \ {0} /\ DOMAIN stack[t] = 1 .. n
  BY DEF TypeOK
<1>2. /\ s \in Seq(Frame)
      /\ Len(s) = n - 1
      /\ DOMAIN s = 1 .. n - 1
      /\ \A i \in 1 .. n - 1 : s[i] = stack[t][i]
  BY <1>1
<1>3. stack' = [stack EXCEPT ![t] = s]
  BY DEF Pop
<1> QED
  BY <1>1, <1>2, <1>3 DEF TypeOK

\* A call inside a constructor puts a frame on top of the others.
LEMMA PushShape ==
  ASSUME TypeOK, NEW t \in Threads, NEW k \in Classes, NestedCall(t, k)
  PROVE  /\ stack' \in [Threads -> Seq(Frame)]
         /\ \A u \in Threads \ {t} : stack'[u] = stack[u]
         /\ Len(stack'[t]) = Len(stack[t]) + 1
         /\ DOMAIN stack'[t] = DOMAIN stack[t] \cup {Len(stack[t]) + 1}
         /\ \A i \in DOMAIN stack[t] :
              /\ stack'[t][i].klass = stack[t][i].klass
              /\ stack'[t][i].place = stack[t][i].place
         /\ stack'[t][Len(stack[t]) + 1] = NewFrame(k)
         /\ stack[t][Len(stack[t])].place = "run"
         /\ Len(stack[t]) \in DOMAIN stack[t]
<1> DEFINE n == Len(stack[t])
           f == [stack[t][n] EXCEPT !.todo = @ \ {k}]
           s == [stack[t] EXCEPT ![n] = f]
<1>1. /\ stack[t] \in Seq(Frame) /\ n \in Nat /\ n \in 1 .. n /\ DOMAIN stack[t] = 1 .. n
      /\ stack[t][n].place = "run"
  BY DEF TypeOK, NestedCall, At, Top
<1>2. f \in Frame /\ f.klass = stack[t][n].klass /\ f.place = stack[t][n].place
  <2>1. stack[t][n] \in Frame
    BY <1>1
  <2> QED
    BY <2>1 DEF Frame
<1>3. s \in Seq(Frame) /\ Len(s) = n /\ DOMAIN s = 1 .. n
  BY <1>1, <1>2
<1>4. \A i \in 1 .. n : s[i] = IF i = n THEN f ELSE stack[t][i]
  BY <1>1
<1>5. NewFrame(k) \in Frame
  <2>1. uses[k] \in SUBSET Classes
    BY DEF TypeOK
  <2>2. uses[k] \union {k} \in SUBSET Classes
    BY <2>1
  <2> QED
    BY <2>2 DEF NewFrame, Frame, Places
<1>6. stack' = [stack EXCEPT ![t] = Append(s, NewFrame(k))]
  BY DEF NestedCall
<1>7. /\ Append(s, NewFrame(k)) \in Seq(Frame)
      /\ Len(Append(s, NewFrame(k))) = n + 1
      /\ DOMAIN Append(s, NewFrame(k)) = 1 .. n + 1
      /\ Append(s, NewFrame(k))[n + 1] = NewFrame(k)
      /\ \A i \in 1 .. n : Append(s, NewFrame(k))[i] = s[i]
  BY <1>3, <1>5
<1>8. 1 .. n + 1 = (1 .. n) \cup {n + 1}
  BY <1>1
<1> QED
  BY <1>1, <1>2, <1>4, <1>6, <1>7, <1>8 DEF TypeOK

-----------------------------------------------------------------------------
(* The steps that only move a call *)

\* Steps that start and end no constructor change one place to another that is
\* not "run" and not "clear".
Moves(t, p) ==
  /\ stack[t] # <<>>
  /\ Top(t).place \notin {"run", "clear"}
  /\ p \in {"lock", "other", "sleep", "return"}
  /\ p = "return" =>
       \/ Top(t).klass \in cctor_finished
       \/ cctor_thread[Top(t).klass] = t
  /\ Goto(t, p)
  /\ UNCHANGED <<uses, cctor_started, cctor_finished, cctor_thread, killed>>

\* They keep the invariant: who runs or has run which constructor is as before.
LEMMA MovesKeep ==
  ASSUME IInv, NEW t \in Threads, NEW p, Moves(t, p)
  PROVE  IInv'
<1> DEFINE n == Len(stack[t])
<1>1. /\ stack' \in [Threads -> Seq(Frame)]
      /\ \A u \in Threads \ {t} : stack'[u] = stack[u]
      /\ Len(stack'[t]) = n
      /\ DOMAIN stack'[t] = DOMAIN stack[t]
      /\ n \in DOMAIN stack[t]
      /\ \A i \in DOMAIN stack[t] :
           /\ stack'[t][i].klass = stack[t][i].klass
           /\ stack'[t][i].place = IF i = n THEN p ELSE stack[t][i].place
  BY GotoShape DEF Moves, Places, IInv
<1>2. /\ p \in {"lock", "other", "sleep", "return"}
      /\ stack[t][n].place \notin {"run", "clear"}
      /\ UNCHANGED <<uses, cctor_started, cctor_finished, cctor_thread, killed>>
  BY DEF Moves, Top
<1>3. \A u \in Threads : \A i, k : Runs(u, i, k)' <=> Runs(u, i, k)
  BY <1>1, <1>2 DEF Runs
<1>4. TypeOK'
  BY <1>1, <1>2 DEF IInv, TypeOK
<1>5. StackShape'
  BY <1>1, <1>2 DEF IInv, StackShape
<1>6. FieldsOfFrames'
  BY <1>1, <1>2 DEF IInv, FieldsOfFrames
<1>7. ThreadRuns'
  BY <1>1, <1>2, <1>3 DEF IInv, ThreadRuns
<1>8. OncePerStack'
  BY <1>1, <1>2, <1>3 DEF IInv, OncePerStack
<1>9. UsesAreInitialized'
  <2> SUFFICES ASSUME NEW u \in Threads, NEW i \in DOMAIN stack'[u], stack'[u][i].place = "return"
               PROVE  \/ stack'[u][i].klass \in cctor_finished
                      \/ \E j \in 1..(i - 1) : Runs(u, j, stack'[u][i].klass)
    BY <1>2, <1>3 DEF UsesAreInitialized
  <2>1. CASE u # t \/ i # n
    BY <1>1, <2>1 DEF IInv, UsesAreInitialized
  <2>2. CASE u = t /\ i = n /\ stack[t][n].klass \notin cctor_finished
    <3>1. cctor_thread[stack[t][n].klass] = t
      BY <1>1, <2>2 DEF Moves, Top
    <3>2. stack[t][n] \in Frame
      BY <1>1 DEF IInv, TypeOK
    <3>3. PICK j \in DOMAIN stack[t] : Runs(t, j, stack[t][n].klass)
      BY <2>2, <3>1, <3>2 DEF IInv, ThreadRuns, StackShape, Moves, Frame
    <3>4. j # n /\ j \in 1 .. n
      BY <1>2, <3>3 DEF Runs, IInv, TypeOK
    <3> QED
      BY <1>1, <2>2, <3>3, <3>4
  <2> QED
    BY <1>1, <2>1, <2>2
<1> QED
  BY <1>4, <1>5, <1>6, <1>7, <1>8, <1>9 DEF IInv

-----------------------------------------------------------------------------
(* The other steps *)

\* A new frame is a call, of which the invariant says nothing.
LEMMA CallKeeps ==
  ASSUME IInv, NEW t \in Threads, NEW k \in Classes, Call(t, k)
  PROVE  IInv'
<1>1. NewFrame(k) \in Frame /\ NewFrame(k).place = "call"
  <2>1. uses[k] \union {k} \in SUBSET Classes
    BY DEF IInv, TypeOK
  <2> QED
    BY <2>1 DEF NewFrame, Frame, Places
<1>2. /\ stack' \in [Threads -> Seq(Frame)]
      /\ \A u \in Threads \ {t} : stack'[u] = stack[u]
      /\ stack[t] = <<>>
      /\ DOMAIN stack'[t] = {1} /\ Len(stack'[t]) = 1
      /\ stack'[t][1].place = "call"
      /\ t \notin killed
      /\ UNCHANGED <<uses, cctor_started, cctor_finished, cctor_thread, killed>>
  BY <1>1 DEF Call, IInv, TypeOK
<1>3. \A u \in Threads : \A i, c : Runs(u, i, c)' <=> Runs(u, i, c)
  BY <1>2 DEF Runs
<1>4. TypeOK'
  BY <1>2 DEF IInv, TypeOK
<1>5. StackShape'
  <2>1. \A u \in Threads \ {t} :
          /\ \A i \in DOMAIN stack'[u] : i < Len(stack'[u]) => stack'[u][i].place = "run"
          /\ u \in killed => stack'[u] = <<>>
    BY <1>2 DEF IInv, StackShape
  <2>2. \A i \in DOMAIN stack'[t] : ~(i < Len(stack'[t]))
    BY <1>2
  <2> QED
    BY <1>2, <2>1, <2>2 DEF StackShape
<1>6. FieldsOfFrames'
  BY <1>2 DEF IInv, FieldsOfFrames
<1>7. ThreadRuns' /\ OncePerStack'
  BY <1>2, <1>3 DEF IInv, ThreadRuns, OncePerStack, Runs
<1>8. UsesAreInitialized'
  BY <1>2, <1>3 DEF IInv, UsesAreInitialized
<1> QED
  BY <1>4, <1>5, <1>6, <1>7, <1>8 DEF IInv

\* So is the frame of a nested call, and what was on top is inside a constructor.
LEMMA NestedCallKeeps ==
  ASSUME IInv, NEW t \in Threads, NEW k \in Classes, NestedCall(t, k)
  PROVE  IInv'
<1> DEFINE n == Len(stack[t])
<1>1. /\ stack' \in [Threads -> Seq(Frame)]
      /\ \A u \in Threads \ {t} : stack'[u] = stack[u]
      /\ Len(stack'[t]) = n + 1
      /\ DOMAIN stack'[t] = DOMAIN stack[t] \cup {n + 1}
      /\ \A i \in DOMAIN stack[t] :
           /\ stack'[t][i].klass = stack[t][i].klass
           /\ stack'[t][i].place = stack[t][i].place
      /\ stack'[t][n + 1].place = "call"
      /\ stack[t][n].place = "run"
      /\ n \in DOMAIN stack[t]
      /\ DOMAIN stack[t] = 1 .. n /\ n \in Nat
      /\ UNCHANGED <<uses, cctor_started, cctor_finished, cctor_thread, killed>>
  <2>1. NewFrame(k).place = "call"
    BY DEF NewFrame
  <2>2. UNCHANGED <<uses, cctor_started, cctor_finished, cctor_thread, killed>>
    BY DEF NestedCall
  <2>3. DOMAIN stack[t] = 1 .. n /\ n \in Nat
    BY DEF IInv, TypeOK
  <2>4. TypeOK
    BY DEF IInv
  <2> QED
    BY <2>1, <2>2, <2>3, <2>4, PushShape
<1>2. \A u \in Threads : \A i, c : Runs(u, i, c)' <=> Runs(u, i, c)
  BY <1>1 DEF Runs
<1>3. TypeOK'
  BY <1>1 DEF IInv, TypeOK
<1>4. StackShape'
  <2>1. t \notin killed
    BY <1>1 DEF IInv, StackShape
  <2>2. \A i \in DOMAIN stack'[t] : i < n + 1 => stack'[t][i].place = "run"
    BY <1>1 DEF IInv, StackShape
  <2>3. \A u \in Threads \ {t} :
          /\ \A i \in DOMAIN stack'[u] : i < Len(stack'[u]) => stack'[u][i].place = "run"
          /\ u \in killed => stack'[u] = <<>>
    BY <1>1 DEF IInv, StackShape
  <2> QED
    BY <1>1, <2>1, <2>2, <2>3 DEF StackShape
<1>5. FieldsOfFrames'
  BY <1>1 DEF IInv, FieldsOfFrames
<1>6. ThreadRuns' /\ OncePerStack'
  <2>1. \A u \in Threads : \A i, c :
          Runs(u, i, c) => i \in DOMAIN stack[u] /\ i \in DOMAIN stack'[u]
    BY <1>2 DEF Runs
  <2>2. ThreadRuns'
    BY <1>1, <1>2, <2>1 DEF IInv, ThreadRuns
  <2>3. OncePerStack'
    BY <1>2, <2>1 DEF IInv, OncePerStack
  <2> QED
    BY <2>2, <2>3
<1>7. UsesAreInitialized'
  BY <1>1, <1>2 DEF IInv, UsesAreInitialized
<1> QED
  BY <1>3, <1>4, <1>5, <1>6, <1>7 DEF IInv

\* A constructor that is started has not been started before, so that no thread
\* is in a run of it.
LEMMA StartKeeps ==
  ASSUME IInv, NEW t \in Threads, At(t, "lock"), Start(t),
         UNCHANGED <<uses, cctor_finished, killed>>
  PROVE  IInv'
<1> DEFINE n == Len(stack[t])
           k == stack[t][n].klass
<1>1. /\ stack' \in [Threads -> Seq(Frame)]
      /\ \A u \in Threads \ {t} : stack'[u] = stack[u]
      /\ Len(stack'[t]) = n
      /\ DOMAIN stack'[t] = DOMAIN stack[t]
      /\ n \in DOMAIN stack[t]
      /\ \A i \in DOMAIN stack[t] :
           /\ stack'[t][i].klass = stack[t][i].klass
           /\ stack'[t][i].place = IF i = n THEN "run" ELSE stack[t][i].place
  BY GotoShape DEF At, Start, Places, IInv
<1>2. k \in Classes
  <2>1. stack[t][n] \in Frame
    BY <1>1 DEF IInv, TypeOK
  <2> QED
    BY <2>1 DEF Frame
<1>3. /\ k \notin cctor_started \union cctor_finished
      /\ cctor_started' = cctor_started \union {k}
      /\ cctor_thread' = [cctor_thread EXCEPT ![k] = t]
      /\ stack[t][n].place = "lock"
  BY DEF Start, At, Top
<1>4. \A u \in Threads : \A i, c : Runs(u, i, c) => c # k
  BY <1>3 DEF IInv, FieldsOfFrames, Runs
<1>5. \A u \in Threads : \A i, c : Runs(u, i, c)' <=> Runs(u, i, c) \/ (u = t /\ i = n /\ c = k)
  BY <1>1, <1>3 DEF Runs
<1>6. TypeOK'
  BY <1>1, <1>2, <1>3 DEF IInv, TypeOK
<1>7. StackShape'
  BY <1>1 DEF IInv, StackShape
<1>8. FieldsOfFrames'
  <2> SUFFICES ASSUME NEW u \in Threads, NEW i \in DOMAIN stack'[u]
               PROVE  /\ stack'[u][i].place = "run" =>
                           /\ stack'[u][i].klass \in cctor_started' \ cctor_finished
                           /\ cctor_thread'[stack'[u][i].klass] = u
                      /\ stack'[u][i].place = "clear" => stack'[u][i].klass \in cctor_finished
    BY DEF FieldsOfFrames
  <2>1. cctor_thread'[k] = t /\ \A c \in Classes \ {k} : cctor_thread'[c] = cctor_thread[c]
    BY <1>2, <1>3 DEF IInv, TypeOK
  <2>2. stack[u][i] \in Frame /\ i \in DOMAIN stack[u]
    <3>1. i \in DOMAIN stack[u] /\ stack[u] \in Seq(Frame)
      BY <1>1 DEF IInv, TypeOK
    <3> QED
      BY <3>1
  <2>3. CASE u = t /\ i = n
    BY <1>1, <1>3, <2>1, <2>3
  <2>4. CASE u # t \/ i # n
    <3>1. stack'[u][i].place = stack[u][i].place /\ stack'[u][i].klass = stack[u][i].klass
      BY <1>1, <2>2, <2>4
    <3>2. stack[u][i].place = "run" => stack[u][i].klass # k
      BY <1>4, <2>2 DEF Runs
    <3> QED
      BY <1>3, <2>1, <2>2, <3>1, <3>2 DEF IInv, FieldsOfFrames, Frame
  <2> QED
    BY <2>3, <2>4
<1>9. ThreadRuns'
  <2> SUFFICES ASSUME NEW c \in Classes \ cctor_finished, NEW u \in Threads, cctor_thread'[c] = u
               PROVE  u \in killed \/ \E i \in DOMAIN stack'[u] : Runs(u, i, c)'
    BY DEF ThreadRuns
  <2>1. CASE c = k
    BY <1>1, <1>3, <1>5, <2>1 DEF IInv, TypeOK
  <2>2. CASE c # k
    BY <1>1, <1>3, <1>5, <2>2 DEF IInv, TypeOK, ThreadRuns
  <2> QED
    BY <2>1, <2>2
<1>10. OncePerStack'
  BY <1>1, <1>4, <1>5 DEF IInv, OncePerStack
<1>11. UsesAreInitialized'
  BY <1>1, <1>5 DEF IInv, UsesAreInitialized
<1> QED
  BY <1>6, <1>7, <1>8, <1>9, <1>10, <1>11 DEF IInv

\* When a constructor ends its class is finished for everybody, and the thread has
\* no other run of it.
LEMMA FinishKeeps ==
  ASSUME IInv, NEW t \in Threads, Finish(t)
  PROVE  IInv'
<1> DEFINE n == Len(stack[t])
           k == stack[t][n].klass
<1>1. /\ stack' \in [Threads -> Seq(Frame)]
      /\ \A u \in Threads \ {t} : stack'[u] = stack[u]
      /\ Len(stack'[t]) = n
      /\ DOMAIN stack'[t] = DOMAIN stack[t]
      /\ n \in DOMAIN stack[t]
      /\ \A i \in DOMAIN stack[t] :
           /\ stack'[t][i].klass = stack[t][i].klass
           /\ stack'[t][i].place = IF i = n THEN "clear" ELSE stack[t][i].place
  BY GotoShape DEF At, Finish, Places, IInv
<1>2. /\ cctor_finished' = cctor_finished \union {k}
      /\ stack[t][n].place = "run"
      /\ UNCHANGED <<uses, cctor_started, cctor_thread, killed>>
  BY DEF Finish, At, Top
<1>3. k \in cctor_started /\ cctor_thread[k] = t
  BY <1>1, <1>2 DEF IInv, FieldsOfFrames
<1>4. \A u \in Threads : \A i, c : Runs(u, i, c)' <=> Runs(u, i, c) /\ c # k
  <2>1. \A u \in Threads : \A i : Runs(u, i, k) => u = t /\ i = n
    <3> SUFFICES ASSUME NEW u \in Threads, NEW i, Runs(u, i, k)
                 PROVE  u = t /\ i = n
      OBVIOUS
    <3>1. u = t
      BY <1>3 DEF IInv, FieldsOfFrames, Runs
    <3>2. Runs(t, n, k) /\ k \in Classes
      BY <1>1, <1>2, <1>3 DEF Runs, IInv, TypeOK
    <3> QED
      BY <3>1, <3>2 DEF IInv, OncePerStack, Runs
  <2>2. \A i, c : Runs(t, i, c)' <=> Runs(t, i, c) /\ i # n
    BY <1>1 DEF Runs
  <2>3. \A u \in Threads \ {t} : \A i, c : Runs(u, i, c)' <=> Runs(u, i, c)
    BY <1>1 DEF Runs
  <2>4. \A c : Runs(t, n, c) => c = k
    BY DEF Runs
  <2> QED
    BY <2>1, <2>2, <2>3, <2>4
<1>5. TypeOK'
  BY <1>1, <1>2, <1>3 DEF IInv, TypeOK
<1>6. StackShape'
  BY <1>1, <1>2 DEF IInv, StackShape
<1>7. FieldsOfFrames'
  <2> SUFFICES ASSUME NEW u \in Threads, NEW i \in DOMAIN stack'[u]
               PROVE  /\ stack'[u][i].place = "run" =>
                           /\ stack'[u][i].klass \in cctor_started \ cctor_finished'
                           /\ cctor_thread[stack'[u][i].klass] = u
                      /\ stack'[u][i].place = "clear" => stack'[u][i].klass \in cctor_finished'
    BY <1>2 DEF FieldsOfFrames
  <2>1. stack'[u][i].place = "run" => stack'[u][i].klass # k
    BY <1>4 DEF Runs
  <2> QED
    BY <1>1, <1>2, <2>1 DEF IInv, FieldsOfFrames
<1>8. ThreadRuns'
  BY <1>1, <1>2, <1>4 DEF IInv, ThreadRuns
<1>9. OncePerStack'
  BY <1>1, <1>4 DEF IInv, OncePerStack
<1>10. UsesAreInitialized'
  BY <1>1, <1>2, <1>4 DEF IInv, UsesAreInitialized
<1> QED
  BY <1>5, <1>6, <1>7, <1>8, <1>9, <1>10 DEF IInv

\* What is taken off a stack is no run of a constructor that has not ended.
LEMMA PopKeeps ==
  ASSUME IInv, NEW t \in Threads, stack[t] # <<>>, Top(t).place # "run", Pop(t),
         UNCHANGED <<uses, cctor_started, cctor_finished, cctor_thread, killed>>
  PROVE  IInv'
<1> DEFINE n == Len(stack[t])
<1>1. /\ stack' \in [Threads -> Seq(Frame)]
      /\ \A u \in Threads \ {t} : stack'[u] = stack[u]
      /\ Len(stack'[t]) = n - 1
      /\ DOMAIN stack'[t] = DOMAIN stack[t] \ {n}
      /\ \A i \in DOMAIN stack'[t] : stack'[t][i] = stack[t][i]
      /\ DOMAIN stack[t] = 1 .. n /\ n \in Nat
  BY PopShape DEF IInv, TypeOK
<1>2. \A u \in Threads : \A i, k : Runs(u, i, k)' <=> Runs(u, i, k)
  BY <1>1 DEF Runs, Top
<1>3. TypeOK'
  BY <1>1 DEF IInv, TypeOK
<1>4. StackShape'
  BY <1>1 DEF IInv, StackShape
<1>5. FieldsOfFrames'
  BY <1>1 DEF IInv, FieldsOfFrames
<1>6. ThreadRuns' /\ OncePerStack'
  <2>1. \A u \in Threads : \A i, c :
          Runs(u, i, c) => i \in DOMAIN stack[u] /\ i \in DOMAIN stack'[u]
    BY <1>2 DEF Runs
  <2>2. ThreadRuns'
    BY <1>1, <1>2, <2>1 DEF IInv, ThreadRuns
  <2>3. OncePerStack'
    BY <1>2, <2>1 DEF IInv, OncePerStack
  <2> QED
    BY <2>2, <2>3
<1>7. UsesAreInitialized'
  BY <1>1, <1>2 DEF IInv, UsesAreInitialized
<1> QED
  BY <1>3, <1>4, <1>5, <1>6, <1>7 DEF IInv

\* The thread is forgotten when the class is finished, so nobody looks for it.
LEMMA ClearThreadKeeps ==
  ASSUME IInv, NEW t \in Threads, ClearThread(t)
  PROVE  IInv'
<1> DEFINE n == Len(stack[t])
           k == stack[t][n].klass
<1>1. /\ stack[t] # <<>>
      /\ n \in DOMAIN stack[t]
      /\ stack[t][n].place = "clear"
      /\ cctor_thread' = [cctor_thread EXCEPT ![k] = NoThread]
      /\ UNCHANGED <<uses, cctor_started, cctor_finished, killed>>
      /\ Goto(t, "return") \/ Pop(t)
  BY DEF ClearThread, At, Top, IInv, TypeOK
<1>2. k \in cctor_finished
  BY <1>1 DEF IInv, FieldsOfFrames
\* What is left of the stacks; the top of the stack of t is left out of it.
<1>3. /\ stack' \in [Threads -> Seq(Frame)]
      /\ \A u \in Threads \ {t} : stack'[u] = stack[u]
      /\ Len(stack'[t]) \in {n, n - 1}
      /\ DOMAIN stack'[t] = 1 .. Len(stack'[t])
      /\ DOMAIN stack[t] = 1 .. n
      /\ n \in Nat \ {0}
      /\ \A i \in 1 .. n - 1 :
           /\ stack'[t][i].klass = stack[t][i].klass
           /\ stack'[t][i].place = stack[t][i].place
      /\ n \in DOMAIN stack'[t] => stack'[t][n].klass = k /\ stack'[t][n].place = "return"
  <2>1. stack[t] \in Seq(Frame) /\ n \in Nat \ {0} /\ DOMAIN stack[t] = 1 .. n
    BY <1>1 DEF IInv, TypeOK
  <2>2. TypeOK /\ "return" \in Places
    BY DEF IInv, Places
  <2>3. CASE Goto(t, "return")
    BY <1>1, <2>1, <2>2, <2>3, GotoShape
  <2>4. CASE Pop(t)
    BY <1>1, <2>1, <2>2, <2>4, PopShape
  <2> QED
    BY <1>1, <2>3, <2>4
<1>4. \A u \in Threads : \A i, c : Runs(u, i, c)' <=> Runs(u, i, c)
  <2>1. \A i, c : Runs(t, i, c)' <=> Runs(t, i, c)
    BY <1>1, <1>3 DEF Runs
  <2>2. \A u \in Threads \ {t} : \A i, c : Runs(u, i, c)' <=> Runs(u, i, c)
    BY <1>3 DEF Runs
  <2> QED
    BY <2>1, <2>2
<1>5. TypeOK'
  BY <1>1, <1>2, <1>3 DEF IInv, TypeOK
<1>6. StackShape'
  <2>1. t \notin killed
    BY <1>1 DEF IInv, StackShape
  <2>2. \A i \in DOMAIN stack'[t] : i < Len(stack'[t]) => stack'[t][i].place = "run"
    BY <1>3 DEF IInv, StackShape
  <2>3. \A u \in Threads \ {t} :
          /\ \A i \in DOMAIN stack'[u] : i < Len(stack'[u]) => stack'[u][i].place = "run"
          /\ u \in killed => stack'[u] = <<>>
    BY <1>3 DEF IInv, StackShape
  <2> QED
    BY <1>1, <2>1, <2>2, <2>3 DEF StackShape
<1>7. FieldsOfFrames'
  <2> SUFFICES ASSUME NEW u \in Threads, NEW i \in DOMAIN stack'[u]
               PROVE  /\ stack'[u][i].place = "run" =>
                           /\ stack'[u][i].klass \in cctor_started \ cctor_finished
                           /\ cctor_thread'[stack'[u][i].klass] = u
                      /\ stack'[u][i].place = "clear" => stack'[u][i].klass \in cctor_finished
    BY <1>1 DEF FieldsOfFrames
  <2>1. \A c \in Classes \ cctor_finished : cctor_thread'[c] = cctor_thread[c]
    BY <1>1, <1>2 DEF IInv, TypeOK
  <2>2. cctor_started \subseteq Classes
    BY DEF IInv, TypeOK
  <2>3. \/ stack'[u][i].place = "return"
        \/ /\ i \in DOMAIN stack[u]
           /\ stack'[u][i].klass = stack[u][i].klass
           /\ stack'[u][i].place = stack[u][i].place
    BY <1>3
  <2> QED
    BY <2>1, <2>2, <2>3 DEF IInv, FieldsOfFrames
<1>8. \A u \in Threads : \A i, c : Runs(u, i, c) => i \in DOMAIN stack[u] /\ i \in DOMAIN stack'[u]
  BY <1>4 DEF Runs
<1>9. ThreadRuns'
  BY <1>1, <1>2, <1>4, <1>8 DEF IInv, ThreadRuns, TypeOK
<1>10. OncePerStack'
  BY <1>4, <1>8 DEF IInv, OncePerStack
<1>11. UsesAreInitialized'
  BY <1>1, <1>2, <1>3, <1>4 DEF IInv, UsesAreInitialized
<1> QED
  BY <1>5, <1>6, <1>7, <1>9, <1>10, <1>11 DEF IInv

\* A thread that is killed leaves its constructors without an end.
LEMMA KillKeeps ==
  ASSUME IInv, NEW t \in Threads, Kill(t)
  PROVE  IInv'
<1>1. /\ stack' \in [Threads -> Seq(Frame)]
      /\ \A u \in Threads \ {t} : stack'[u] = stack[u]
      /\ stack'[t] = <<>>
      /\ DOMAIN stack'[t] = {}
      /\ killed' = killed \union {t}
      /\ UNCHANGED <<uses, cctor_started, cctor_finished, cctor_thread>>
  BY DEF Kill, IInv, TypeOK
<1>2. \A u \in Threads \ {t} : \A i, c : Runs(u, i, c)' <=> Runs(u, i, c)
  BY <1>1 DEF Runs
<1>3. TypeOK'
  BY <1>1 DEF IInv, TypeOK
<1>4. StackShape'
  BY <1>1 DEF IInv, StackShape
<1>5. FieldsOfFrames'
  BY <1>1 DEF IInv, FieldsOfFrames
<1>6. ThreadRuns'
  BY <1>1, <1>2 DEF IInv, ThreadRuns
<1>7. OncePerStack'
  BY <1>1, <1>2 DEF IInv, OncePerStack
<1>8. UsesAreInitialized'
  BY <1>1, <1>2 DEF IInv, UsesAreInitialized
<1> QED
  BY <1>3, <1>4, <1>5, <1>6, <1>7, <1>8 DEF IInv

-----------------------------------------------------------------------------
(* The theorems *)

\* The invariant holds at the start and is kept by every step.
LEMMA Inductive ==
  /\ Init => IInv
  /\ IInv /\ [Next]_vars => IInv'
<1>1. Init => IInv
  <2> SUFFICES ASSUME Init PROVE IInv
    OBVIOUS
  <2>1. TypeOK /\ \A t \in Threads : stack[t] = <<>>
    BY DEF Init, TypeOK
  <2>2. \A t \in Threads : DOMAIN stack[t] = {}
    <3> SUFFICES ASSUME NEW t \in Threads PROVE DOMAIN stack[t] = {}
      OBVIOUS
    <3>1. stack[t] \in Seq(Frame) /\ Len(stack[t]) = 0
      BY <2>1 DEF TypeOK
    <3> QED
      BY <3>1
  <2>3. ThreadRuns
    BY ClassInitAssumption DEF Init, ThreadRuns
  <2> QED
    BY <2>1, <2>2, <2>3 DEF IInv, StackShape, FieldsOfFrames, OncePerStack, UsesAreInitialized
<1>2. ASSUME IInv, NEW t \in Threads, Step(t)
      PROVE  IInv'
  <2>1. CASE CheckFinished(t)
    BY <1>2, <2>1, MovesKeep DEF CheckFinished, At, Moves
  <2>2. CASE LockAndDecide(t)
    <3>1. CASE FindFinished(t)
      BY <1>2, <2>2, <3>1, MovesKeep DEF LockAndDecide, FindFinished, At, Moves
    <3>2. CASE FindStarted(t)
      BY <1>2, <2>2, <3>2, MovesKeep DEF LockAndDecide, FindStarted, At, Moves
    <3>3. CASE Start(t)
      BY <1>2, <2>2, <3>3, StartKeeps DEF LockAndDecide
    <3> QED
      BY <2>2, <3>1, <3>2, <3>3 DEF LockAndDecide
  <2>3. CASE CompareThread(t)
    BY <1>2, <2>3, MovesKeep DEF CompareThread, At, Moves
  <2>4. CASE WakeUp(t)
    BY <1>2, <2>4, MovesKeep DEF WakeUp, At, Moves
  <2>5. CASE Return(t)
    BY <1>2, <2>5, PopKeeps DEF Return, At
  <2>6. CASE Finish(t) \/ ClearThread(t) \/ \E k \in Classes : NestedCall(t, k)
    BY <1>2, <2>6, FinishKeeps, ClearThreadKeeps, NestedCallKeeps
  <2> QED
    BY <1>2, <2>1, <2>2, <2>3, <2>4, <2>5, <2>6 DEF Step
<1>3. IInv /\ Next => IInv'
  BY <1>2, CallKeeps, KillKeeps DEF Next
<1>4. IInv /\ UNCHANGED vars => IInv'
  BY DEF vars, IInv, TypeOK, StackShape, FieldsOfFrames, ThreadRuns, OncePerStack,
         UsesAreInitialized, Runs
<1> QED
  BY <1>1, <1>3, <1>4

\* The fields of a class and the calls of ClassInit keep their types; a class
\* whose cctor_finished is set has cctor_started set.
THEOREM ClassInitTypes == Spec => []TypeOK
<1>1. IInv => TypeOK
  BY DEF IInv
<1> QED
  BY Inductive, <1>1, PTL DEF Spec

\* s_TypeInitializationLock and cctor_started let one thread into a static
\* constructor, once, whatever classes use each other.
THEOREM ConstructorsRunOnce == Spec => []RunsOnce
<1>1. IInv => RunsOnce
  <2> SUFFICES ASSUME IInv, NEW k \in Classes, NEW t \in Threads, NEW u \in Threads,
                      NEW i \in DOMAIN stack[t], NEW j \in DOMAIN stack[u], Runs(t, i, k)
               PROVE  k \notin cctor_finished /\ (Runs(u, j, k) => t = u /\ i = j)
    BY DEF RunsOnce
  <2>1. k \notin cctor_finished /\ (Runs(u, j, k) => t = u)
    BY DEF IInv, FieldsOfFrames, Runs
  <2>2. Runs(t, j, k) /\ j \in DOMAIN stack[t] => i = j
    BY DEF IInv, OncePerStack
  <2> QED
    BY <2>1, <2>2
<1> QED
  BY Inductive, <1>1, PTL DEF Spec

\* ClassInit returns when the static constructor has ended, or to a use of the
\* class inside that constructor.
THEOREM NoEarlyUse == Spec => []UsesAreInitialized
<1>1. IInv => UsesAreInitialized
  BY DEF IInv
<1> QED
  BY Inductive, <1>1, PTL DEF Spec

=============================================================================
