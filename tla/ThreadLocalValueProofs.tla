------------------------ MODULE ThreadLocalValueProofs ------------------------
(***************************************************************************)
(* Proofs about ThreadLocalValue: the types, and that what a thread reads  *)
(* is what it has set, as long as no two operations on one sound key       *)
(* overlap.                                                                *)
(***************************************************************************)
EXTENDS ThreadLocalValue, FiniteSetTheorems, TLAPS

-----------------------------------------------------------------------------
(* The hypothesis and the inductive invariant *)

\* Mutual exclusion by key, which the code leaves to its callers: no two threads are
\* inside an operation on the same sound key.
KeysApart ==
    \A t, u \in Threads :
        /\ t # u
        /\ pc[t] \notin {"idle", "find"} /\ pc[u] \notin {"idle", "find"}
        /\ at[t] = at[u]
        => at[t] \notin Sound

\* An operation that counts works on a key of the table.
AtInTable ==
    \A t \in Threads : pc[t] \in {"load", "claim", "free", "reload", "store"} => at[t] \in Keys

\* The threads whose slot is in use.
Uses(k) == {t \in Threads : slot[t][k]}

\* No other object has the sound key of an object.
KeysDistinct == \A o, p \in Live : key[o] = key[p] /\ key[o] \in Sound => o = p

\* The count of a key covers the slots, or the key is free.
Covered(k) ==
    \/ count[k] > Cardinality(Uses(k))
    \/ count[k] = 0 /\ Uses(k) = {} /\ \A o \in Live : key[o] # k

CountsCover == \A k \in Sound : Covered(k)

\* What a thread reads is what it was told, also while it is inside an operation.
SlotsTold ==
    \A t \in Threads, o \in Live : key[o] \in Sound => slot[t][key[o]] = told[t][o]

\* Who is busy with making or unmaking an object.
Making == {"find", "load", "claim", "delete", "free"}

\* What a thread knows of its sound key from one step of its operation to the next.
KnowsKey(t) ==
    /\ pc[t] \in {"load", "claim"} => count[at[t]] = 0
    /\ pc[t] = "claim" => loaded[t] = 0
    /\ pc[t] \in {"delete", "free"} =>
         count[at[t]] # 0 /\ \A o \in Live : key[o] # at[t]
    /\ pc[t] = "free" => count[at[t]] = 1
    /\ pc[t] \in {"reload", "store"} => slot[t][at[t]] # value[t]
    /\ pc[t] = "store" => loaded[t] = count[at[t]]

\* What it relies on from one step to the next.
Relies(t) ==
    /\ pc[t] = "idle" <=> object[t] = NULL
    /\ pc[t] \in Making => object[t] \notin Live
    /\ pc[t] \in {"test", "reload", "store"} =>
         object[t] \in Live /\ key[object[t]] = at[t]
    /\ at[t] \in Sound => KnowsKey(t)

\* Who makes or unmakes an object has it alone.
ObjectsApart ==
    \A t, u \in Threads : pc[t] \in Making /\ object[u] = object[t] => u = t

CallsPlaced == ObjectsApart /\ \A t \in Threads : Relies(t)

TInv ==
    /\ TypeOK
    /\ AtInTable
    /\ KeysDistinct
    /\ CountsCover
    /\ SlotsTold
    /\ CallsPlaced

-----------------------------------------------------------------------------
(* Types *)

\* No number is NULL, and a sound key is one of the table's.
LEMMA KeysAreNumbers ==
    /\ 0 \in Keys /\ Keys \subseteq AnyKey /\ AnyKey \subseteq Int
    /\ NULL \notin AnyKey /\ NULL \notin Objects
    /\ Sound \subseteq Keys
BY ThreadLocalAssumption DEF Keys, NoKey, AnyKey, Sound

\* An object that exists has a key.
LEMMA LiveHasKey ==
    ASSUME TypeOK, NEW o \in Live
    PROVE  o \in Objects /\ key[o] \in AnyKey /\ key[o] # NULL
BY DEF TypeOK, Live

\* A thread that ends its operation forgets its local variables.
LEMMA EndCallTypes ==
    ASSUME TypeOK, NEW t \in Threads, EndCall(t)
    PROVE  /\ pc' \in [Threads -> {"idle", "find", "load", "claim", "delete", "free",
                                   "test", "reload", "store"}]
           /\ object' \in [Threads -> Objects \cup {NULL}]
           /\ at' \in [Threads -> AnyKey]
           /\ loaded' \in [Threads -> Int]
           /\ value' \in [Threads -> BOOLEAN]
<1>1. 0 \in AnyKey /\ 0 \in Int
  BY KeysAreNumbers
<1>2. at' \in [Threads -> AnyKey]
  BY <1>1 DEF TypeOK, EndCall
<1>3. loaded' \in [Threads -> Int]
  BY <1>1 DEF TypeOK, EndCall
<1>4. QED
  BY <1>2, <1>3 DEF TypeOK, EndCall, Goto

\* Every step keeps the types, however the operations overlap.
LEMMA TypesKept == TypeOK /\ AtInTable /\ [Next]_vars => TypeOK'
<1> SUFFICES ASSUME AtInTable, TypeOK, [Next]_vars PROVE TypeOK'
  OBVIOUS
<1> USE DEF TypeOK, Goto, callVars
<1>1. ASSUME TypeOK, NEW t \in Threads, NEW o \in Objects, Create(t, o) PROVE TypeOK'
  BY <1>1 DEF Create, Start
<1>2. ASSUME TypeOK, NEW t \in Threads, NEW o \in Objects, Delete(t, o) PROVE TypeOK'
  BY <1>2, LiveHasKey DEF Delete, Start
<1>3. ASSUME TypeOK, NEW t \in Threads, NEW o \in Objects, NEW n \in BOOLEAN, SetValue(t, o, n)
      PROVE  TypeOK'
  BY <1>3, LiveHasKey DEF SetValue, Start
<1>4. ASSUME TypeOK, NEW t \in Threads, FindKey(t) \/ LoadToClaim(t) \/ LoadToCount(t)
      PROVE  TypeOK'
  <2>1. CASE FindKey(t)
    BY <1>4, <2>1, KeysAreNumbers DEF FindKey
  <2>2. CASE LoadToClaim(t)
    BY <1>4, <2>2 DEF LoadToClaim, AtInTable
  <2>3. CASE LoadToCount(t)
    BY <1>4, <2>3 DEF LoadToCount, AtInTable
  <2>4. QED
    BY <1>4, <2>1, <2>2, <2>3
<1>5. ASSUME TypeOK, NEW t \in Threads, TestForDelete(t) \/ Refuse(t) PROVE TypeOK'
  BY <1>5, EndCallTypes DEF TestForDelete, Refuse
<1>11. ASSUME NEW o PROVE Forget(o) => told' \in [Threads -> [Objects -> BOOLEAN]]
  <2>1. ASSUME NEW u \in Threads PROVE [told[u] EXCEPT ![o] = FALSE] \in [Objects -> BOOLEAN]
    <3>1. told[u] \in [Objects -> BOOLEAN]
      OBVIOUS
    <3>2. QED
      BY <3>1
  <2>2. QED
    BY <2>1 DEF Forget
<1>12. ASSUME TypeOK, NEW t \in Threads, NoKeyLeft(t) PROVE TypeOK'
  <2>1. PICK k \in AnyKey : /\ key' = [key EXCEPT ![object[t]] = k]
                            /\ strays' = strays \cup {k}
    BY <1>12 DEF NoKeyLeft
  <2>2. key' \in [Objects -> AnyKey \cup {NULL}] /\ strays' \subseteq AnyKey
    BY <2>1
  <2>3. told' \in [Threads -> [Objects -> BOOLEAN]]
    BY <1>11, <1>12 DEF NoKeyLeft
  <2>4. QED
    BY <1>12, <2>2, <2>3, EndCallTypes DEF NoKeyLeft
<1>6. ASSUME TypeOK, NEW t \in Threads, Claim(t) \/ FreeKey(t) PROVE TypeOK'
  <2>1. CASE Claim(t)
    <3>1. at[t] \in Keys /\ at[t] \in AnyKey /\ loaded[t] + 1 \in Int
      BY <1>6, <2>1, KeysAreNumbers DEF Claim, AtInTable
    <3>2. count' = [count EXCEPT ![at[t]] = loaded[t] + 1]
      BY <2>1 DEF Claim
    <3>3. key' = [key EXCEPT ![object[t]] = at[t]]
      BY <2>1 DEF Claim
    <3>4. count' \in [Keys -> Int]
      BY <1>6, <3>1, <3>2
    <3>5. key' \in [Objects -> AnyKey \cup {NULL}]
      BY <1>6, <3>1, <3>3
    <3>6. told' \in [Threads -> [Objects -> BOOLEAN]]
      BY <1>11, <2>1 DEF Claim
    <3>7. QED
      BY <1>6, <2>1, <3>4, <3>5, <3>6, EndCallTypes DEF Claim
  <2>2. CASE FreeKey(t)
    <3>1. at[t] \in Keys /\ 0 \in Int
      BY <2>2 DEF FreeKey, AtInTable
    <3>2. count' \in [Keys -> Int]
      BY <1>6, <2>2, <3>1 DEF FreeKey
    <3>3. QED
      BY <1>6, <2>2, <3>2, EndCallTypes DEF FreeKey
  <2>3. QED
    BY <1>6, <2>1, <2>2
<1>7. ASSUME TypeOK, NEW t \in Threads, Overwrite(t) \/ StoreValue(t) PROVE TypeOK'
  <2>1. EndCall(t) /\ Tell(t) /\ UNCHANGED <<key, strays>>
    BY <1>7 DEF Overwrite, StoreValue
  <2>2. told' \in [Threads -> [Objects -> BOOLEAN]]
    BY <1>7, <2>1 DEF Tell
  <2>3. count' \in [Keys -> Int]
    <3>1. loaded[t] + 1 \in Int /\ loaded[t] - 1 \in Int
      BY <1>7
    <3>2. QED
      BY <1>7, <3>1 DEF Overwrite, StoreValue
  <2>4. slot' \in [Threads -> [Keys -> BOOLEAN]]
    <3>1. \/ slot' = slot
          \/ slot' = [slot EXCEPT ![t] = [slot[t] EXCEPT ![at[t]] = value[t]]]
      BY <1>7 DEF Overwrite, StoreValue
    <3>2. slot[t] \in [Keys -> BOOLEAN] /\ value[t] \in BOOLEAN
      BY <1>7
    <3>3. [slot[t] EXCEPT ![at[t]] = value[t]] \in [Keys -> BOOLEAN]
      BY <3>2
    <3>4. QED
      BY <1>7, <3>1, <3>3
  <2>5. QED
    BY <1>7, <2>1, <2>2, <2>3, <2>4, EndCallTypes
<1>8. ASSUME TypeOK, NEW t \in Threads, ThreadEnds(t) PROVE TypeOK'
  BY <1>8 DEF ThreadEnds
<1>9. ASSUME TypeOK, UNCHANGED vars PROVE TypeOK'
  BY <1>9 DEF vars
<1>13. QED
  BY <1>1, <1>2, <1>3, <1>4, <1>5, <1>6, <1>7, <1>8, <1>9, <1>12 DEF Next, Step, Call

\* An operation that counts has come by its key from the scan or past the range test.
LEMMA AtInTableKept == TypeOK /\ AtInTable /\ [Next]_vars => AtInTable'
<1> SUFFICES ASSUME TypeOK, AtInTable, [Next]_vars PROVE AtInTable'
  OBVIOUS
<1> USE DEF TypeOK, AtInTable, Goto, callVars
<1>1. ASSUME NEW t \in Threads, NEW o \in Objects, NEW n \in BOOLEAN,
             Create(t, o) \/ Delete(t, o) \/ SetValue(t, o, n)
      PROVE  AtInTable'
  BY <1>1 DEF Create, Delete, SetValue, Start
<1>2. ASSUME NEW t \in Threads, EndCall(t) PROVE AtInTable'
  BY <1>2 DEF EndCall
<1>3. ASSUME NEW t \in Threads, FindKey(t) \/ LoadToClaim(t) \/ LoadToCount(t)
      PROVE  AtInTable'
  BY <1>3 DEF FindKey, LoadToClaim, LoadToCount
<1>4. ASSUME NEW t \in Threads, TestForDelete(t) PROVE AtInTable'
  BY <1>2, <1>4 DEF TestForDelete
<1>5. ASSUME NEW t \in Threads, NoKeyLeft(t) \/ Claim(t) \/ FreeKey(t) \/ Refuse(t)
                                \/ Overwrite(t) \/ StoreValue(t)
      PROVE  AtInTable'
  BY <1>2, <1>5 DEF NoKeyLeft, Claim, FreeKey, Refuse, Overwrite, StoreValue
<1>6. ASSUME NEW t \in Threads, ThreadEnds(t) PROVE AtInTable'
  BY <1>6 DEF ThreadEnds
<1>7. ASSUME UNCHANGED vars PROVE AtInTable'
  BY <1>7 DEF vars
<1>8. QED
  BY <1>1, <1>3, <1>4, <1>5, <1>6, <1>7 DEF Next, Step, Call

-----------------------------------------------------------------------------
(* Counting the slots in use *)

\* The slots in use are finitely many; none is in use if their number is zero; and
\* one more or one less counts as one.
LEMMA UsesCounted ==
    ASSUME NEW S, S \subseteq Threads, NEW t \in Threads
    PROVE  /\ IsFiniteSet(S) /\ Cardinality(S) \in Nat
           /\ Cardinality(S) = 0 <=> S = {}
           /\ t \notin S => Cardinality(S \cup {t}) = Cardinality(S) + 1
           /\ t \in S => Cardinality(S \ {t}) = Cardinality(S) - 1
           /\ Cardinality(S \ {t}) <= Cardinality(S)
<1>1. IsFiniteSet(S)
  BY FS_Subset, ThreadLocalAssumption
<1>2. Cardinality(S \ {t}) <= Cardinality(S)
  BY <1>1, FS_Subset
<1>3. QED
  BY <1>1, <1>2, FS_CardinalityType, FS_EmptySet, FS_AddElement, FS_RemoveElement

\* The sound key of an object that exists does not count as free.
LEMMA LiveCounts ==
    ASSUME TypeOK, CountsCover, NEW o \in Live, key[o] \in Sound
    PROVE  count[key[o]] \in Nat \ {0} /\ count[key[o]] > Cardinality(Uses(key[o]))
<1>1. key[o] \in Keys
  BY KeysAreNumbers
<1>2. Cardinality(Uses(key[o])) \in Nat
  BY FS_Subset, FS_CardinalityType, ThreadLocalAssumption DEF Uses
<1>3. QED
  BY <1>1, <1>2 DEF CountsCover, Covered, TypeOK

\* A free key is in no slot and of no object; one that counts one is in no slot.
LEMMA FreeIsUnused ==
    ASSUME TypeOK, CountsCover, NEW k \in Sound
    PROVE  /\ count[k] = 0 => Uses(k) = {} /\ \A o \in Live : key[o] # k
           /\ count[k] = 1 => Uses(k) = {}
<1>1. /\ IsFiniteSet(Uses(k)) /\ Cardinality(Uses(k)) \in Nat
      /\ Cardinality(Uses(k)) = 0 => Uses(k) = {}
  BY FS_Subset, FS_CardinalityType, FS_EmptySet, ThreadLocalAssumption DEF Uses
<1>2. count[k] \in Int /\ Covered(k)
  BY KeysAreNumbers DEF CountsCover, TypeOK
<1>3. QED
  BY <1>1, <1>2 DEF Covered

-----------------------------------------------------------------------------
(* The steps of an operation, for its thread and for the others *)

\* A step of one thread does not touch the local variables of another.
OthersStay(t) ==
    \A u \in Threads \ {t} :
        /\ pc'[u] = pc[u] /\ object'[u] = object[u] /\ at'[u] = at[u]
        /\ loaded'[u] = loaded[u] /\ value'[u] = value[u]

ThreadStep(t) ==
    \/ Step(t) \/ ThreadEnds(t)
    \/ \E o \in Objects :
         Create(t, o) \/ Delete(t, o) \/ \E n \in BOOLEAN : SetValue(t, o, n)

\* So it is for every step.
LEMMA Stay ==
    ASSUME TypeOK, NEW t \in Threads, ThreadStep(t)
    PROVE  OthersStay(t)
<1> USE DEF TypeOK, OthersStay, Goto, EndCall, Start, callVars
<1>1. CASE FindKey(t) \/ NoKeyLeft(t) \/ LoadToClaim(t) \/ Claim(t)
  BY <1>1 DEF FindKey, NoKeyLeft, LoadToClaim, Claim
<1>2. CASE TestForDelete(t) \/ FreeKey(t) \/ Refuse(t)
  BY <1>2 DEF TestForDelete, FreeKey, Refuse
<1>3. CASE Overwrite(t) \/ LoadToCount(t) \/ StoreValue(t) \/ ThreadEnds(t)
  BY <1>3 DEF Overwrite, LoadToCount, StoreValue, ThreadEnds
<1>4. ASSUME NEW o \in Objects, NEW n \in BOOLEAN, Create(t, o) \/ Delete(t, o) \/ SetValue(t, o, n)
      PROVE  OthersStay(t)
  BY <1>4 DEF Create, Delete, SetValue
<1>5. QED
  BY <1>1, <1>2, <1>3, <1>4 DEF ThreadStep, Step

\* What a thread relies on holds after a step of another one that leaves its count,
\* its slots and its object alone.
LEMMA OthersRely ==
    ASSUME NEW u \in Threads, Relies(u),
           pc'[u] = pc[u], object'[u] = object[u], at'[u] = at[u],
           loaded'[u] = loaded[u], value'[u] = value[u],
           Sound' \subseteq Sound,
           at[u] \in Sound' /\ pc[u] \notin {"idle", "find"} => count'[at[u]] = count[at[u]],
           slot'[u] = slot[u],
           object[u] \in Live' <=> object[u] \in Live,
           object[u] \in Live => key'[object[u]] = key[object[u]],
           at[u] \in Sound' /\ pc[u] \in {"delete", "free"} => \A o \in Live' : key'[o] # at[u]
    PROVE  Relies(u)'
BY DEF Relies, KnowsKey, Making

\* A step that starts, ends or goes on with an operation, and changes nothing else.
OnlyCall == UNCHANGED <<count, slot, key, told, strays>>

\* Such a step leaves the others what they rely on, and keeps what is said of the
\* counts, the slots and the objects.
LEMMA OnlyCallKeeps ==
    ASSUME TInv, NEW t \in Threads, OthersStay(t), OnlyCall
    PROVE  /\ KeysDistinct' /\ CountsCover' /\ SlotsTold'
           /\ \A u \in Threads \ {t} : Relies(u)'
<1>1. Live' = Live /\ Sound' = Sound
  BY DEF Live, Sound, OnlyCall
<1>2. KeysDistinct' /\ CountsCover' /\ SlotsTold'
  BY <1>1 DEF TInv, OnlyCall, KeysDistinct, CountsCover, Covered, SlotsTold, Uses
<1>3. ASSUME NEW u \in Threads \ {t} PROVE Relies(u)'
  <2>1. Relies(u)
    BY DEF TInv, CallsPlaced
  <2>2. at[u] \in Sound /\ pc[u] \in {"delete", "free"} => \A o \in Live : key[o] # at[u]
    BY <2>1 DEF Relies, KnowsKey
  <2>3. QED
    BY <1>1, <2>1, <2>2, OthersRely DEF OnlyCall, OthersStay
<1>4. QED
  BY <1>2, <1>3

\* A thread that starts with an object nobody makes, makes it alone; and so does one
\* that goes on.
LEMMA ApartKept ==
    ASSUME TypeOK, CallsPlaced, NEW t \in Threads, OthersStay(t),
           \/ object'[t] = NULL
           \/ object'[t] = object[t] /\ (pc[t] \in Making <=> pc'[t] \in Making)
           \/ object'[t] # NULL /\ \A u \in Threads : object[u] # object'[t]
           \/ pc'[t] \notin Making /\ object'[t] \in Live,
           pc'[t] = "idle" <=> object'[t] = NULL
    PROVE  ObjectsApart'
<1>1. SUFFICES ASSUME NEW u \in Threads, NEW v \in Threads,
                      pc'[u] \in Making, object'[v] = object'[u], v # u
               PROVE  FALSE
  BY DEF ObjectsApart
<1>2. /\ \A x \in Threads : Relies(x)
      /\ \A x, y \in Threads : pc[x] \in Making /\ object[y] = object[x] => y = x
  BY DEF CallsPlaced, ObjectsApart
<1>3. CASE u # t /\ v # t
  BY <1>1, <1>2, <1>3 DEF OthersStay
<1>4. CASE u = t
  <2>1. object[v] = object'[t] /\ v # t /\ pc'[t] \in Making
    BY <1>1, <1>4 DEF OthersStay
  <2>2. object'[t] # NULL
    BY <2>1 DEF Making
  <2>3. QED
    BY <1>2, <2>1, <2>2
<1>5. CASE v = t
  <2>1. object[u] = object'[t] /\ u # t /\ pc[u] \in Making
    BY <1>1, <1>5 DEF OthersStay
  <2>2. object[u] # NULL /\ object[u] \notin Live
    BY <1>2, <2>1 DEF Relies, Making
  <2>3. QED
    BY <1>2, <2>1, <2>2
<1>6. QED
  BY <1>3, <1>4, <1>5

\* The local variables of a thread that ends its operation.
LEMMA Ended ==
    ASSUME TypeOK, NEW t \in Threads, EndCall(t)
    PROVE  pc'[t] = "idle" /\ object'[t] = NULL
BY DEF TypeOK, EndCall, Goto

\* A thread that has ended its operation relies on nothing.
LEMMA EndedRelies ==
    ASSUME NEW t \in Threads, pc'[t] = "idle", object'[t] = NULL
    PROVE  Relies(t)'
BY DEF Relies, KnowsKey, Making

\* The steps that start an operation or go on with one, and change nothing else.
LEMMA CallGoesOn ==
    ASSUME TInv, NEW t \in Threads,
           \/ FindKey(t) \/ LoadToClaim(t) \/ TestForDelete(t) \/ LoadToCount(t) \/ Refuse(t)
           \/ \E o \in Objects : Create(t, o) \/ \E n \in BOOLEAN : SetValue(t, o, n)
    PROVE  KeysDistinct' /\ CountsCover' /\ SlotsTold' /\ CallsPlaced'
<1>1. TypeOK /\ CallsPlaced /\ CountsCover /\ Relies(t)
  BY DEF TInv, CallsPlaced
<1>2. OthersStay(t)
  BY <1>1, Stay DEF ThreadStep, Step
<1>3. OnlyCall
  BY DEF FindKey, Refuse, LoadToClaim, TestForDelete, LoadToCount, Create, SetValue, OnlyCall
<1>4. Live' = Live /\ Sound' = Sound
  BY <1>3 DEF OnlyCall, Live, Sound
<1>5. /\ KeysDistinct' /\ CountsCover' /\ SlotsTold'
      /\ \A u \in Threads \ {t} : Relies(u)'
  BY <1>2, <1>3, OnlyCallKeeps
<1>6. SUFFICES Relies(t)' /\ ObjectsApart'
  BY <1>5 DEF CallsPlaced
<1> USE DEF Goto, Start, callVars
<1>7. CASE FindKey(t)
  <2>1. PICK k \in Keys : count[k] = 0 /\ at' = [at EXCEPT ![t] = k]
    BY <1>7 DEF FindKey
  <2>2. /\ pc[t] = "find" /\ pc'[t] = "load" /\ object'[t] = object[t]
        /\ count'[at'[t]] = 0
    BY <1>1, <1>7, <2>1 DEF FindKey, TypeOK
  <2>3. Relies(t)'
    BY <1>1, <1>4, <2>2 DEF Relies, KnowsKey, Making
  <2>4. QED
    BY <1>1, <1>2, <2>2, <2>3, ApartKept DEF Making, Relies
<1>8. CASE LoadToClaim(t)
  <2>1. /\ pc[t] = "load" /\ pc'[t] = "claim" /\ object'[t] = object[t] /\ at'[t] = at[t]
        /\ loaded'[t] = count[at[t]] /\ count' = count
    BY <1>1, <1>8 DEF LoadToClaim, TypeOK
  <2>2. Relies(t)'
    BY <1>1, <1>4, <2>1 DEF Relies, KnowsKey, Making
  <2>3. QED
    BY <1>1, <1>2, <2>1, <2>2, ApartKept DEF Making, Relies
<1>9. CASE TestForDelete(t) /\ at[t] \in Keys /\ count[at[t]] = 1
  <2>1. /\ pc[t] = "delete" /\ pc'[t] = "free" /\ object'[t] = object[t] /\ at'[t] = at[t]
        /\ count' = count /\ key' = key
    BY <1>1, <1>9 DEF TestForDelete, TypeOK
  <2>2. Relies(t)'
    BY <1>1, <1>4, <1>9, <2>1 DEF Relies, KnowsKey, Making
  <2>3. QED
    BY <1>1, <1>2, <2>1, <2>2, ApartKept DEF Making, Relies
<1>10. CASE Refuse(t) \/ (TestForDelete(t) /\ ~(at[t] \in Keys /\ count[at[t]] = 1))
  <2>1. pc'[t] = "idle" /\ object'[t] = NULL
    BY <1>1, <1>10, Ended DEF Refuse, TestForDelete
  <2>2. QED
    BY <1>1, <1>2, <2>1, ApartKept, EndedRelies
<1>11. CASE LoadToCount(t)
  <2>1. /\ object'[t] = object[t] /\ at'[t] = at[t] /\ value'[t] = value[t]
        /\ count' = count /\ key' = key /\ slot' = slot
    BY <1>11 DEF LoadToCount
  <2>2. \/ pc[t] = "test" /\ pc'[t] = "reload" /\ slot[t][at[t]] # value[t]
        \/ pc[t] = "reload" /\ pc'[t] = "store" /\ loaded'[t] = count[at[t]]
    BY <1>1, <1>11 DEF LoadToCount, TypeOK
  <2>3. Relies(t)'
    BY <1>1, <1>4, <2>1, <2>2 DEF Relies, KnowsKey, Making
  <2>4. QED
    BY <1>1, <1>2, <2>1, <2>2, <2>3, ApartKept DEF Making, Relies
<1>12. ASSUME NEW o \in Objects, Create(t, o) PROVE Relies(t)' /\ ObjectsApart'
  <2>1. /\ pc'[t] = "find" /\ object'[t] = o /\ o # NULL /\ o \notin Live
        /\ \A u \in Threads : object[u] # o
    BY <1>1, <1>12, ThreadLocalAssumption DEF Create, TypeOK
  <2>2. Relies(t)'
    BY <1>4, <2>1 DEF Relies, KnowsKey, Making
  <2>3. QED
    BY <1>1, <1>2, <2>1, <2>2, ApartKept
<1>13. ASSUME NEW o \in Objects, NEW n \in BOOLEAN, SetValue(t, o, n)
       PROVE  Relies(t)' /\ ObjectsApart'
  <2>1. /\ pc'[t] = "test" /\ object'[t] = o /\ o # NULL /\ o \in Live
        /\ at'[t] = key[o] /\ key' = key
    BY <1>1, <1>13, ThreadLocalAssumption DEF SetValue, TypeOK
  <2>2. Relies(t)'
    BY <1>4, <2>1 DEF Relies, KnowsKey, Making
  <2>3. QED
    BY <1>1, <1>2, <2>1, <2>2, ApartKept DEF Making
<1>14. QED
  BY <1>7, <1>8, <1>9, <1>10, <1>11, <1>12, <1>13

\* The constructor has found no key: one more key is unsound, and of the others nothing
\* has changed.
LEMMA NoKeyLeftKeeps ==
    ASSUME TInv, NEW t \in Threads, NoKeyLeft(t)
    PROVE  KeysDistinct' /\ CountsCover' /\ SlotsTold' /\ CallsPlaced'
<1> DEFINE o == object[t]
<1>1. TypeOK /\ CallsPlaced /\ CountsCover /\ Relies(t) /\ KeysDistinct /\ SlotsTold
  BY DEF TInv, CallsPlaced
<1>2. OthersStay(t) /\ pc'[t] = "idle" /\ object'[t] = NULL
  BY <1>1, Stay, Ended DEF NoKeyLeft, ThreadStep, Step
<1>3. pc[t] = "find" /\ o # NULL /\ o \in Objects /\ o \notin Live
  BY <1>1 DEF NoKeyLeft, Relies, Making, TypeOK
<1>4. PICK k \in AnyKey : key' = [key EXCEPT ![o] = k] /\ strays' = strays \cup {k}
  BY DEF NoKeyLeft
<1>5. /\ count' = count /\ slot' = slot
      /\ told' = [u \in Threads |-> [told[u] EXCEPT ![o] = FALSE]]
  BY DEF NoKeyLeft, Forget
<1>6. Live' = Live \cup {o} /\ key'[o] = k /\ \A p \in Live : key'[p] = key[p]
  BY <1>1, <1>3, <1>4, KeysAreNumbers DEF Live, TypeOK
<1>7. Sound' = Sound \ {k}
  BY <1>4 DEF Sound
<1> HIDE DEF o
<1>8. KeysDistinct'
  BY <1>1, <1>6, <1>7 DEF KeysDistinct
<1>9. CountsCover'
  <2>1. SUFFICES ASSUME NEW j \in Sound, j # k
                 PROVE  \/ count[j] > Cardinality(Uses(j))
                        \/ count[j] = 0 /\ Uses(j) = {} /\ \A p \in Live' : key'[p] # j
    BY <1>5, <1>7 DEF CountsCover, Covered, Uses
  <2>2. Covered(j)
    BY <1>1 DEF CountsCover
  <2>3. QED
    BY <1>6, <2>1, <2>2 DEF Covered
<1>10. SlotsTold'
  <2>1. SUFFICES ASSUME NEW u \in Threads, NEW p \in Live', key'[p] \in Sound'
                 PROVE  slot'[u][key'[p]] = told'[u][p]
    BY DEF SlotsTold
  <2>2. p # o /\ p \in Live /\ key[p] \in Sound /\ key'[p] = key[p]
    BY <1>6, <1>7, <2>1
  <2>3. told'[u][p] = told[u][p]
    BY <1>1, <1>3, <1>5, <2>2 DEF TypeOK, Live
  <2>4. QED
    BY <1>1, <1>5, <2>2, <2>3 DEF SlotsTold
<1>11. ASSUME NEW u \in Threads \ {t} PROVE Relies(u)'
  <2>1. Relies(u) /\ object[u] # o
    BY <1>1, <1>3 DEF CallsPlaced, ObjectsApart, Making, o
  <2>2. at[u] \in Sound' /\ pc[u] \in {"delete", "free"} => \A p \in Live' : key'[p] # at[u]
    BY <1>6, <1>7, <2>1 DEF Relies, KnowsKey
  <2>3. /\ object[u] \in Live' <=> object[u] \in Live
        /\ object[u] \in Live => key'[object[u]] = key[object[u]]
    BY <1>6, <2>1
  <2>4. QED
    BY <1>2, <1>5, <1>7, <2>1, <2>2, <2>3, OthersRely DEF OthersStay
<1>12. Relies(t)' /\ ObjectsApart'
  BY <1>1, <1>2, EndedRelies, ApartKept
<1>13. QED
  BY <1>8, <1>9, <1>10, <1>11, <1>12 DEF CallsPlaced

\* The constructor takes its key.
LEMMA ClaimKeeps ==
    ASSUME TInv, KeysApart, NEW t \in Threads, Claim(t)
    PROVE  KeysDistinct' /\ CountsCover' /\ SlotsTold' /\ CallsPlaced'
<1> DEFINE o == object[t]
           k == at[t]
<1>1. TypeOK /\ CallsPlaced /\ CountsCover /\ Relies(t) /\ KeysDistinct /\ SlotsTold
  BY DEF TInv, CallsPlaced
<1>2. OthersStay(t) /\ pc'[t] = "idle" /\ object'[t] = NULL
  BY <1>1, Stay, Ended DEF Claim, ThreadStep, Step
<1>3. /\ pc[t] = "claim" /\ o # NULL /\ o \in Objects /\ o \notin Live
      /\ k \in Keys /\ k # NULL
      /\ k \in Sound => count[k] = 0 /\ loaded[t] + 1 = 1
  BY <1>1, KeysAreNumbers DEF Claim, Relies, KnowsKey, Making, TypeOK, TInv, AtInTable
<1>4. /\ count' = [count EXCEPT ![k] = loaded[t] + 1] /\ key' = [key EXCEPT ![o] = k]
      /\ slot' = slot /\ strays' = strays
      /\ told' = [u \in Threads |-> [told[u] EXCEPT ![o] = FALSE]]
  BY DEF Claim, Forget
<1>5. k \in Sound => Uses(k) = {} /\ \A p \in Live : key[p] # k
  BY <1>1, <1>3, FreeIsUnused
<1>6. /\ Live' = Live \cup {o} /\ key'[o] = k /\ (\A p \in Live : key'[p] = key[p])
      /\ Sound' = Sound
  BY <1>1, <1>3, <1>4 DEF Live, Sound, TypeOK
<1> HIDE DEF o, k
<1>7. KeysDistinct'
  BY <1>1, <1>5, <1>6 DEF KeysDistinct
<1>8. CountsCover'
  <2>1. SUFFICES ASSUME NEW j \in Sound
                 PROVE  \/ count'[j] > Cardinality(Uses(j))
                        \/ count'[j] = 0 /\ Uses(j) = {} /\ \A p \in Live' : key'[p] # j
    BY <1>4, <1>6 DEF CountsCover, Covered, Uses
  <2>2. CASE j = k
    <3>1. Uses(j) = {} /\ Cardinality(Uses(j)) = 0
      BY <1>5, <2>2, FS_EmptySet
    <3>2. count'[j] = 1
      BY <1>1, <1>3, <1>4, <2>2 DEF TypeOK
    <3>3. QED
      BY <3>1, <3>2
  <2>3. CASE j # k
    <3>1. count'[j] = count[j] /\ Covered(j)
      BY <1>1, <1>4, <2>3, KeysAreNumbers DEF TypeOK, CountsCover
    <3>2. QED
      BY <1>6, <2>3, <3>1 DEF Covered
  <2>4. QED
    BY <2>2, <2>3
<1>9. SlotsTold'
  <2>1. SUFFICES ASSUME NEW u \in Threads, NEW p \in Live', key'[p] \in Sound
                 PROVE  slot'[u][key'[p]] = told'[u][p]
    BY <1>6 DEF SlotsTold
  <2>2. CASE p = o
    <3>1. slot[u][k] = FALSE
      BY <1>1, <1>3, <1>5, <1>6, <2>1, <2>2 DEF Uses, TypeOK
    <3>2. told'[u][o] = FALSE
      BY <1>1, <1>3, <1>4 DEF TypeOK
    <3>3. QED
      BY <1>4, <1>6, <2>2, <3>1, <3>2
  <2>3. CASE p # o
    <3>1. p \in Live /\ told'[u][p] = told[u][p]
      BY <1>1, <1>3, <1>4, <1>6, <2>3 DEF TypeOK, Live
    <3>2. QED
      BY <1>1, <1>4, <1>6, <2>1, <3>1 DEF SlotsTold
  <2>4. QED
    BY <2>2, <2>3
<1>10. ASSUME NEW u \in Threads \ {t} PROVE Relies(u)'
  <2>1. Relies(u) /\ object[u] # o
    BY <1>1, <1>3 DEF CallsPlaced, ObjectsApart, Making, o
  <2>2. at[u] \in Sound /\ pc[u] \notin {"idle", "find"} => at[u] # k /\ at[u] \in Keys
    BY <1>3, KeysAreNumbers DEF KeysApart, k
  <2>3. at[u] \in Sound /\ pc[u] \notin {"idle", "find"} => count'[at[u]] = count[at[u]]
    BY <1>1, <1>4, <2>2 DEF TypeOK
  <2>4. at[u] \in Sound /\ pc[u] \in {"delete", "free"} => \A p \in Live' : key'[p] # at[u]
    BY <1>6, <2>1, <2>2 DEF Relies, KnowsKey
  <2>5. /\ object[u] \in Live' <=> object[u] \in Live
        /\ object[u] \in Live => key'[object[u]] = key[object[u]]
        /\ slot'[u] = slot[u]
    BY <1>4, <1>6, <2>1
  <2>6. QED
    BY <1>2, <1>6, <2>1, <2>3, <2>4, <2>5, OthersRely DEF OthersStay
<1>11. Relies(t)' /\ ObjectsApart'
  BY <1>1, <1>2, EndedRelies, ApartKept
<1>12. QED
  BY <1>7, <1>8, <1>9, <1>10, <1>11 DEF CallsPlaced

\* The destructor gives up the object.
LEMMA DeleteKeeps ==
    ASSUME TInv, NEW t \in Threads, NEW o \in Objects, Delete(t, o)
    PROVE  KeysDistinct' /\ CountsCover' /\ SlotsTold' /\ CallsPlaced'
<1>1. TypeOK /\ CallsPlaced /\ CountsCover /\ KeysDistinct /\ SlotsTold
  BY DEF TInv
<1>2. OthersStay(t)
  BY <1>1, Stay DEF ThreadStep
<1>3. /\ o \in Live /\ o # NULL /\ (\A u \in Threads : object[u] # o)
      /\ pc'[t] = "delete" /\ object'[t] = o /\ at'[t] = key[o]
      /\ key' = [key EXCEPT ![o] = NULL] /\ UNCHANGED <<count, slot, told, strays>>
  BY <1>1, ThreadLocalAssumption DEF Delete, Start, Goto, TypeOK
<1>4. Live' = Live \ {o} /\ (\A p \in Live' : key'[p] = key[p]) /\ Sound' = Sound
  BY <1>1, <1>3 DEF Live, Sound, TypeOK
<1>5. KeysDistinct' /\ SlotsTold'
  BY <1>1, <1>3, <1>4 DEF KeysDistinct, SlotsTold
<1>6. CountsCover'
  BY <1>1, <1>3, <1>4 DEF CountsCover, Covered, Uses
<1>7. ASSUME NEW u \in Threads \ {t} PROVE Relies(u)'
  <2>1. Relies(u) /\ object[u] # o
    BY <1>1, <1>3 DEF CallsPlaced
  <2>2. /\ object[u] \in Live' <=> object[u] \in Live
        /\ object[u] \in Live => key'[object[u]] = key[object[u]]
    BY <1>4, <2>1
  <2>3. at[u] \in Sound /\ pc[u] \in {"delete", "free"} => \A p \in Live' : key'[p] # at[u]
    BY <1>4, <2>1 DEF Relies, KnowsKey
  <2>4. QED
    BY <1>2, <1>3, <1>4, <2>1, <2>2, <2>3, OthersRely DEF OthersStay
<1>8. Relies(t)'
  <2>1. key[o] \in Sound => count[key[o]] # 0
    BY <1>1, <1>3, LiveCounts
  <2>2. key[o] \in Sound => \A p \in Live' : key'[p] # key[o]
    BY <1>1, <1>3, <1>4 DEF KeysDistinct
  <2>3. QED
    BY <1>3, <1>4, <2>1, <2>2 DEF Relies, KnowsKey, Making
<1>9. ObjectsApart'
  BY <1>1, <1>2, <1>3, ApartKept
<1>10. QED
  BY <1>5, <1>6, <1>7, <1>8, <1>9 DEF CallsPlaced

\* The destructor frees the key.
LEMMA FreeKeyKeeps ==
    ASSUME TInv, KeysApart, NEW t \in Threads, FreeKey(t)
    PROVE  KeysDistinct' /\ CountsCover' /\ SlotsTold' /\ CallsPlaced'
<1> DEFINE k == at[t]
<1>1. TypeOK /\ CallsPlaced /\ CountsCover /\ Relies(t) /\ KeysDistinct /\ SlotsTold
  BY DEF TInv, CallsPlaced
<1>2. OthersStay(t) /\ pc'[t] = "idle" /\ object'[t] = NULL
  BY <1>1, Stay, Ended DEF FreeKey, ThreadStep, Step
<1>3. /\ pc[t] = "free" /\ k \in Keys
      /\ k \in Sound => count[k] = 1 /\ \A o \in Live : key[o] # k
  BY <1>1 DEF FreeKey, Relies, KnowsKey, TInv, AtInTable
<1>4. count' = [count EXCEPT ![k] = 0] /\ UNCHANGED <<slot, key, told, strays>>
  BY DEF FreeKey
<1>5. k \in Sound => Uses(k) = {}
  BY <1>1, <1>3, FreeIsUnused
<1> HIDE DEF k
<1>6. Live' = Live /\ Sound' = Sound
  BY <1>4 DEF Live, Sound
<1>7. KeysDistinct' /\ SlotsTold'
  BY <1>1, <1>4, <1>6 DEF KeysDistinct, SlotsTold
<1>8. CountsCover'
  <2>1. SUFFICES ASSUME NEW j \in Sound
                 PROVE  \/ count'[j] > Cardinality(Uses(j))
                        \/ count'[j] = 0 /\ Uses(j) = {} /\ \A p \in Live : key[p] # j
    BY <1>4, <1>6 DEF CountsCover, Covered, Uses
  <2>2. CASE j = k
    BY <1>1, <1>3, <1>4, <1>5, <2>2 DEF TypeOK
  <2>3. CASE j # k
    <3>1. count'[j] = count[j] /\ Covered(j)
      BY <1>1, <1>4, <2>3, KeysAreNumbers DEF TypeOK, CountsCover
    <3>2. QED
      BY <3>1 DEF Covered
  <2>4. QED
    BY <2>2, <2>3
<1>9. ASSUME NEW u \in Threads \ {t} PROVE Relies(u)'
  <2>1. Relies(u)
    BY <1>1 DEF CallsPlaced
  <2>2. at[u] \in Sound /\ pc[u] \notin {"idle", "find"} => at[u] # k /\ at[u] \in Keys
    BY <1>3, KeysAreNumbers DEF KeysApart, k
  <2>3. at[u] \in Sound /\ pc[u] \notin {"idle", "find"} => count'[at[u]] = count[at[u]]
    BY <1>1, <1>4, <2>2 DEF TypeOK
  <2>4. at[u] \in Sound /\ pc[u] \in {"delete", "free"} => \A p \in Live' : key'[p] # at[u]
    BY <1>4, <1>6, <2>1 DEF Relies, KnowsKey
  <2>5. QED
    BY <1>2, <1>4, <1>6, <2>1, <2>3, <2>4, OthersRely DEF OthersStay
<1>10. Relies(t)' /\ ObjectsApart'
  BY <1>1, <1>2, EndedRelies, ApartKept
<1>11. QED
  BY <1>7, <1>8, <1>9, <1>10 DEF CallsPlaced

\* SetValue returns, and has changed the slot and the count if it had to.
LEMMA SetKeeps ==
    ASSUME TInv, KeysApart, NEW t \in Threads, Overwrite(t) \/ StoreValue(t)
    PROVE  KeysDistinct' /\ CountsCover' /\ SlotsTold' /\ CallsPlaced'
<1>1. TypeOK /\ CallsPlaced /\ CountsCover /\ Relies(t) /\ KeysDistinct /\ SlotsTold
  BY DEF TInv, CallsPlaced
<1>2. OthersStay(t) /\ pc'[t] = "idle" /\ object'[t] = NULL
  BY <1>1, Stay, Ended DEF Overwrite, StoreValue, ThreadStep, Step
<1>3. PICK o \in Objects, k \in Keys :
        /\ o = object[t] /\ k = at[t]
        /\ pc[t] \in {"test", "store"} /\ o \in Live /\ key[o] = k
  BY <1>1 DEF Overwrite, StoreValue, Relies, TypeOK, Live, TInv, AtInTable
<1>4. UNCHANGED <<key, strays>> /\ told' = [told EXCEPT ![t][o] = value[t]]
  BY <1>3 DEF Overwrite, StoreValue, Tell
<1>5. Live' = Live /\ Sound' = Sound
  BY <1>4 DEF Live, Sound
<1>6. k \in Sound => count[k] \in Nat \ {0}
  BY <1>1, <1>3, LiveCounts
<1>7. \A u \in Threads, j \in Keys : u # t \/ j # k => slot'[u][j] = slot[u][j]
  <2>1. slot' = slot \/ slot' = [slot EXCEPT ![t][k] = value[t]]
    BY <1>3 DEF Overwrite, StoreValue
  <2>2. QED
    BY <1>1, <2>1 DEF TypeOK
<1>8. \A j \in Keys : j # k => count'[j] = count[j]
  <2>1. count' = count \/ \E c \in Int : count' = [count EXCEPT ![k] = c]
    <3>1. loaded[t] + 1 \in Int /\ loaded[t] - 1 \in Int
      BY <1>1 DEF TypeOK
    <3>2. QED
      BY <1>3, <3>1 DEF Overwrite, StoreValue
  <2>2. QED
    BY <1>1, <2>1 DEF TypeOK
<1>9. slot'[t][k] \in BOOLEAN /\ value[t] \in BOOLEAN /\ slot[t][k] \in BOOLEAN
  <2>1. slot' = slot \/ slot' = [slot EXCEPT ![t][k] = value[t]]
    BY <1>3 DEF Overwrite, StoreValue
  <2>2. QED
    BY <1>1, <1>3, <2>1 DEF TypeOK
<1>10. ASSUME k \in Sound
       PROVE  /\ slot'[t][k] = value[t]
              /\ \/ slot[t][k] = value[t] /\ count'[k] = count[k]
                 \/ /\ slot[t][k] # value[t]
                    /\ count'[k] = IF value[t] THEN count[k] + 1 ELSE count[k] - 1
  <2>1. CASE Overwrite(t)
    <3>1. slot[t][k] = value[t] /\ count' = count /\ slot' = slot
      BY <1>3, <1>6, <1>10, <2>1 DEF Overwrite
    <3>2. QED
      BY <3>1
  <2>2. CASE StoreValue(t)
    <3>1. slot[t][k] # value[t] /\ loaded[t] = count[k]
      BY <1>1, <1>3, <1>10, <2>2 DEF StoreValue, Relies, KnowsKey
    <3>2. /\ slot' = [slot EXCEPT ![t][k] = value[t]]
          /\ count' = [count EXCEPT ![k] = IF value[t] THEN count[k] + 1 ELSE count[k] - 1]
      BY <1>3, <2>2, <3>1 DEF StoreValue
    <3>3. QED
      BY <1>1, <1>3, <3>1, <3>2 DEF TypeOK
  <2>3. QED
    BY <2>1, <2>2
<1>11. KeysDistinct'
  BY <1>1, <1>4, <1>5 DEF KeysDistinct
<1>12. CountsCover'
  <2>1. /\ k \in Sound => Uses(k)' = IF value[t] THEN Uses(k) \cup {t} ELSE Uses(k) \ {t}
        /\ \A j \in Keys : j # k => Uses(j)' = Uses(j)
    BY <1>3, <1>7, <1>9, <1>10 DEF Uses
  <2>2. ASSUME NEW j \in Sound, j # k PROVE Covered(j)'
    <3>1. count'[j] = count[j] /\ Uses(j)' = Uses(j) /\ Covered(j)
      BY <1>1, <1>8, <2>1, <2>2, KeysAreNumbers DEF CountsCover
    <3>2. QED
      BY <1>4, <1>5, <3>1 DEF Covered
  <2>3. ASSUME k \in Sound PROVE count'[k] > Cardinality(Uses(k)')
    <3>1. /\ count[k] > Cardinality(Uses(k)) /\ Cardinality(Uses(k)) \in Nat
          /\ t \notin Uses(k) => Cardinality(Uses(k) \cup {t}) = Cardinality(Uses(k)) + 1
          /\ t \in Uses(k) => Cardinality(Uses(k) \ {t}) = Cardinality(Uses(k)) - 1
      BY <1>1, <1>3, <2>3, LiveCounts, UsesCounted DEF Uses
    <3>2. t \in Uses(k) <=> slot[t][k]
      BY DEF Uses
    <3>3. CASE slot[t][k] = value[t]
      <4>1. Uses(k)' = Uses(k)
        BY <1>9, <2>1, <2>3, <3>2, <3>3
      <4>2. QED
        BY <1>10, <2>3, <3>1, <3>3, <4>1
    <3>4. CASE slot[t][k] # value[t] /\ value[t]
      <4>1. /\ count'[k] = count[k] + 1
            /\ Uses(k)' = Uses(k) \cup {t} /\ t \notin Uses(k)
        BY <1>9, <1>10, <2>1, <2>3, <3>2, <3>4
      <4>2. QED
        BY <1>6, <2>3, <3>1, <4>1
    <3>5. CASE slot[t][k] # value[t] /\ ~value[t]
      <4>1. /\ count'[k] = count[k] - 1
            /\ Uses(k)' = Uses(k) \ {t} /\ t \in Uses(k)
        BY <1>9, <1>10, <2>1, <2>3, <3>2, <3>5
      <4>2. QED
        BY <1>6, <2>3, <3>1, <4>1
    <3>6. QED
      BY <3>3, <3>4, <3>5
  <2>4. QED
    BY <1>5, <2>2, <2>3 DEF CountsCover, Covered
<1>13. SlotsTold'
  <2>1. SUFFICES ASSUME NEW u \in Threads, NEW p \in Live, key[p] \in Sound
                 PROVE  slot'[u][key[p]] = told'[u][p]
    BY <1>4, <1>5 DEF SlotsTold
  <2>2. CASE u = t /\ p = o
    <3>1. told'[t][o] = value[t]
      BY <1>1, <1>3, <1>4 DEF TypeOK
    <3>2. QED
      BY <1>3, <1>10, <2>1, <2>2, <3>1
  <2>3. CASE u # t \/ p # o
    <3>1. key[p] \in Keys /\ p \in Objects /\ (p # o => key[p] # k)
      BY <1>1, <1>3, <2>1, LiveHasKey, KeysAreNumbers DEF KeysDistinct
    <3>2. slot'[u][key[p]] = slot[u][key[p]]
      BY <1>7, <2>3, <3>1
    <3>3. told'[u][p] = told[u][p]
      BY <1>1, <1>4, <2>3, <3>1 DEF TypeOK
    <3>4. QED
      BY <1>1, <2>1, <3>2, <3>3 DEF SlotsTold
  <2>4. QED
    BY <2>2, <2>3
<1>14. ASSUME NEW u \in Threads \ {t} PROVE Relies(u)'
  <2>1. Relies(u)
    BY <1>1 DEF CallsPlaced
  <2>2. at[u] \in Sound /\ pc[u] \notin {"idle", "find"} => at[u] # k /\ at[u] \in Keys
    BY <1>3, KeysAreNumbers DEF KeysApart
  <2>3. at[u] \in Sound /\ pc[u] \notin {"idle", "find"} => count'[at[u]] = count[at[u]]
    BY <1>8, <2>2
  <2>4. slot'[u] = slot[u]
    BY <1>1 DEF TypeOK, Overwrite, StoreValue
  <2>5. at[u] \in Sound /\ pc[u] \in {"delete", "free"} => \A p \in Live' : key'[p] # at[u]
    BY <1>4, <1>5, <2>1 DEF Relies, KnowsKey
  <2>6. QED
    BY <1>2, <1>4, <1>5, <2>1, <2>3, <2>4, <2>5, OthersRely DEF OthersStay
<1>15. Relies(t)' /\ ObjectsApart'
  BY <1>1, <1>2, EndedRelies, ApartKept
<1>16. QED
  BY <1>11, <1>12, <1>13, <1>14, <1>15 DEF CallsPlaced

\* The slots of a thread go with it.
LEMMA ThreadEndsKeeps ==
    ASSUME TInv, NEW t \in Threads, ThreadEnds(t)
    PROVE  KeysDistinct' /\ CountsCover' /\ SlotsTold' /\ CallsPlaced'
<1>1. TypeOK /\ CallsPlaced /\ CountsCover /\ KeysDistinct /\ SlotsTold
  BY DEF TInv
<1>2. /\ pc[t] = "idle" /\ UNCHANGED <<count, key, pc, callVars, strays>>
      /\ slot' = [slot EXCEPT ![t] = [k \in Keys |-> FALSE]]
      /\ told' = [told EXCEPT ![t] = [o \in Objects |-> FALSE]]
  BY DEF ThreadEnds
<1>3. Live' = Live /\ Sound' = Sound
  BY <1>2 DEF Live, Sound
<1>4. KeysDistinct'
  BY <1>1, <1>2, <1>3 DEF KeysDistinct
<1>5. SlotsTold'
  <2>1. SUFFICES ASSUME NEW u \in Threads, NEW p \in Live, key[p] \in Sound
                 PROVE  slot'[u][key[p]] = told'[u][p]
    <3>1. key' = key
      BY <1>2
    <3>2. QED
      BY <1>3, <3>1 DEF SlotsTold
  <2>2. key[p] \in Keys /\ p \in Objects
    BY <1>1, <2>1, LiveHasKey, KeysAreNumbers
  <2>3. CASE u = t
    BY <1>1, <1>2, <2>2, <2>3 DEF TypeOK
  <2>4. CASE u # t
    BY <1>1, <1>2, <2>1, <2>4 DEF TypeOK, SlotsTold
  <2>5. QED
    BY <2>3, <2>4
<1>6. CountsCover'
  <2>1. SUFFICES ASSUME NEW j \in Sound
                 PROVE  \/ count[j] > Cardinality(Uses(j)')
                        \/ count[j] = 0 /\ Uses(j)' = {} /\ \A p \in Live : key[p] # j
    BY <1>2, <1>3 DEF CountsCover, Covered
  <2>2. Uses(j)' = Uses(j) \ {t}
    BY <1>1, <1>2, KeysAreNumbers DEF Uses, TypeOK
  <2>3. /\ Cardinality(Uses(j) \ {t}) <= Cardinality(Uses(j))
        /\ Cardinality(Uses(j)) \in Nat /\ Cardinality(Uses(j) \ {t}) \in Nat
    <3>1. Uses(j) \subseteq Threads /\ Uses(j) \ {t} \subseteq Threads
      BY DEF Uses
    <3>2. QED
      BY <3>1, UsesCounted
  <2>4. count[j] \in Int
    BY <1>1, KeysAreNumbers DEF TypeOK
  <2>5. \/ count[j] > Cardinality(Uses(j))
        \/ count[j] = 0 /\ Uses(j) = {} /\ \A p \in Live : key[p] # j
    BY <1>1 DEF CountsCover, Covered
  <2>6. QED
    BY <2>2, <2>3, <2>4, <2>5
<1>7. ASSUME NEW u \in Threads PROVE Relies(u)'
  <2>1. Relies(u)
    BY <1>1 DEF CallsPlaced
  <2>2. CASE u = t
    BY <1>2, <1>3, <2>1, <2>2 DEF Relies, KnowsKey, Making, callVars
  <2>3. CASE u # t
    <3>1. slot'[u] = slot[u]
      BY <1>1, <1>2, <2>3 DEF TypeOK
    <3>2. QED
      BY <1>2, <1>3, <2>1, <3>1 DEF Relies, KnowsKey, callVars
  <2>4. QED
    BY <2>2, <2>3
<1>8. ObjectsApart'
  BY <1>1, <1>2 DEF CallsPlaced, ObjectsApart, callVars
<1>9. QED
  BY <1>4, <1>5, <1>6, <1>7, <1>8 DEF CallsPlaced

-----------------------------------------------------------------------------
(* The theorems *)

\* The invariant holds at the start.
LEMMA InitTInv == Init => TInv
<1> SUFFICES ASSUME Init PROVE TInv
  OBVIOUS
<1> USE DEF Init
<1>1. Live = {} /\ 0 \in AnyKey
  BY KeysAreNumbers DEF Live
<1>2. TypeOK /\ AtInTable
  BY <1>1 DEF TypeOK, AtInTable
<1>3. \A k \in Keys : Uses(k) = {}
  BY DEF Uses
<1>4. CountsCover /\ KeysDistinct /\ SlotsTold
  BY <1>1, <1>3, KeysAreNumbers DEF CountsCover, Covered, KeysDistinct, SlotsTold
<1>5. CallsPlaced
  BY DEF CallsPlaced, ObjectsApart, Relies, KnowsKey, Making
<1>6. QED
  BY <1>2, <1>4, <1>5 DEF TInv

\* Every step keeps it, unless two operations on one sound key overlap.
LEMMA NextTInv == TInv /\ KeysApart /\ [Next]_vars => TInv'
<1>1. ASSUME TInv, KeysApart, Next PROVE TInv'
  <2>1. TypeOK' /\ AtInTable'
    BY <1>1, TypesKept, AtInTableKept DEF TInv
  <2>2. PICK t \in Threads : Step(t) \/ Call(t) \/ ThreadEnds(t)
    BY <1>1 DEF Next
  <2>3. KeysDistinct' /\ CountsCover' /\ SlotsTold' /\ CallsPlaced'
    BY <1>1, <2>2, CallGoesOn, NoKeyLeftKeeps, ClaimKeeps, DeleteKeeps, FreeKeyKeeps, SetKeeps,
       ThreadEndsKeeps DEF Step, Call
  <2>4. QED
    BY <2>1, <2>3 DEF TInv
<1>2. ASSUME TInv, UNCHANGED vars PROVE TInv'
  BY <1>2 DEF vars, callVars, TInv, TypeOK, AtInTable, KeysDistinct, CountsCover, Covered,
     SlotsTold, CallsPlaced, ObjectsApart, Relies, KnowsKey, Live, Sound, Uses
<1>3. QED
  BY <1>1, <1>2

\* What the invariant is for.
LEMMA TInvImplies == TInv => ValueIsKept /\ CountCoversUses
<1> SUFFICES ASSUME TInv PROVE ValueIsKept /\ CountCoversUses
  OBVIOUS
<1>1. ValueIsKept
  BY DEF TInv, SlotsTold, ValueIsKept
<1>2. Cardinality({}) = 0
  BY FS_EmptySet
<1>3. CountCoversUses
  BY <1>2 DEF TInv, CountsCover, Covered, CountCoversUses, Uses
<1>4. QED
  BY <1>1, <1>3

\* Every variable keeps its type, however the operations overlap and whatever an
\* uninitialised key is.
THEOREM Types == Spec => []TypeOK
<1>1. Init => TypeOK /\ AtInTable
  BY InitTInv DEF TInv
<1>2. QED
  BY <1>1, TypesKept, AtInTableKept, PTL DEF Spec

\* As long as no two operations on one sound key overlap, GetValue reads what the thread
\* has set: objects made when the table was full spoil only the keys they name.
THEOREM ValuesAreKept == Spec /\ []KeysApart => []ValueIsKept
BY InitTInv, NextTInv, TInvImplies, PTL DEF Spec

\* So long the counts tell the sound keys that are free from those in use.
THEOREM CountsCoverUses == Spec /\ []KeysApart => []CountCoversUses
BY InitTInv, NextTInv, TInvImplies, PTL DEF Spec
===============================================================================
