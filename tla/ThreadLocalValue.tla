---------------------------- MODULE ThreadLocalValue ----------------------------
(***************************************************************************)
(* Thread-local values of the PSP2 port (os/PSP2/ThreadLocalValueImpl):    *)
(* a table of keys, each with a count that is one for the value that was   *)
(* given the key plus one for every thread whose slot is not null.  The    *)
(* counts are plain integers that every thread changes without a lock, so  *)
(* an increment is a load and a later store.                               *)
(*                                                                         *)
(* The scan for a free key is one step.  A slot is null or not: what tells *)
(* one value that is not null from another is left out.                    *)
(*                                                                         *)
(* The build is one without assertions: an object that is made when every  *)
(* key is taken lives on with whatever its uninitialised m_Key holds.      *)
(***************************************************************************)
EXTENDS Integers, FiniteSets

CONSTANTS
    Threads,
    Objects,  \* the ThreadLocalValue objects there can be
    MaxKeys,  \* kTLSMaxKeys
    Overlap,  \* bound: threads inside an operation at the same time
    MaxCount, \* bound: no thread ends once a count has come this far
    NULL

ASSUME ThreadLocalAssumption ==
    /\ IsFiniteSet(Threads)
    /\ MaxKeys \in Nat \ {0}
    /\ NULL \notin Threads \cup Objects \cup -1 .. MaxKeys - 1
    /\ Overlap \in Nat \ {0}
    /\ MaxCount \in Nat

Keys == 0 .. MaxKeys - 1

\* Stands for every number that is no index of the table.
NoKey == -1
AnyKey == Keys \cup {NoKey}

VARIABLES
    count,  \* key -> s_KeyTable[key].count
    slot,   \* thread -> key -> is s_TlsSpecificData[key] not null?
    key,    \* object -> m_Key, or NULL while it does not exist
    pc,     \* thread -> where it stands
    object, \* thread -> object of its current operation
    at,     \* thread -> the key its operation works on
    loaded, \* thread -> the count it has loaded
    value,  \* thread -> is the value of its SetValue not null?
    told,   \* thread -> object -> did its last SetValue give it a value?
    strays  \* observer: the keys that an uninitialised m_Key has named so far

callVars == <<object, at, loaded, value>>
vars == <<count, slot, key, pc, callVars, told, strays>>

Live == {o \in Objects : key[o] # NULL}

\* The keys that only the objects KeyCreate gave them to have ever named.
Sound == Keys \ strays

Init ==
    /\ count = [k \in Keys |-> 0]
    /\ slot = [t \in Threads |-> [k \in Keys |-> FALSE]]
    /\ key = [o \in Objects |-> NULL]
    /\ pc = [t \in Threads |-> "idle"]
    /\ object = [t \in Threads |-> NULL]
    /\ at = [t \in Threads |-> 0]
    /\ loaded = [t \in Threads |-> 0]
    /\ value = [t \in Threads |-> FALSE]
    /\ told = [t \in Threads |-> [o \in Objects |-> FALSE]]
    /\ strays = {}

Goto(t, label) == pc' = [pc EXCEPT ![t] = label]

\* t starts an operation on o.
Start(t, o, label) ==
    /\ pc[t] = "idle"
    /\ Cardinality({u \in Threads : pc[u] # "idle"}) < Overlap
    /\ Goto(t, label)
    /\ object' = [object EXCEPT ![t] = o]

EndCall(t) ==
    /\ Goto(t, "idle")
    /\ object' = [object EXCEPT ![t] = NULL]
    /\ at' = [at EXCEPT ![t] = 0]
    /\ loaded' = [loaded EXCEPT ![t] = 0]
    /\ value' = [value EXCEPT ![t] = FALSE]

-----------------------------------------------------------------------------
(* KeyCreate, from the constructor.  An object is made by one thread. *)

Create(t, o) ==
    /\ o \notin Live
    /\ \A u \in Threads : object[u] # o
    /\ Start(t, o, "find")
    /\ UNCHANGED <<count, slot, key, at, loaded, value, told, strays>>

\* Mutant: the scan goes one past the end of the table.
FindKeyPastTable(t) ==
    /\ pc[t] = "find"
    /\ \E k \in 0 .. MaxKeys :
         /\ k \in Keys => count[k] = 0
         /\ \A j \in Keys : j < k => count[j] # 0
         /\ at' = [at EXCEPT ![t] = k]
    /\ Goto(t, "load")
    /\ UNCHANGED <<count, slot, key, object, loaded, value, told, strays>>

FindKey(t) ==
    /\ pc[t] = "find"
    /\ \E k \in Keys :
         /\ count[k] = 0
         /\ \A j \in Keys : j < k => count[j] # 0
         /\ at' = [at EXCEPT ![t] = k]
    /\ Goto(t, "load")
    /\ UNCHANGED <<count, slot, key, object, loaded, value, told, strays>>

\* A new object holds no value for any thread.
Forget(o) == told' = [u \in Threads |-> [told[u] EXCEPT ![o] = FALSE]]

\* All keys are taken: KeyCreate returns EAGAIN and leaves the key as it was, the
\* assertion on the result is compiled out, and m_Key becomes whatever was there.
NoKeyLeft(t) ==
    /\ pc[t] = "find"
    /\ \A k \in Keys : count[k] # 0
    /\ \E k \in AnyKey :
         /\ key' = [key EXCEPT ![object[t]] = k]
         /\ strays' = strays \cup {k}
    /\ Forget(object[t])
    /\ EndCall(t)
    /\ UNCHANGED <<count, slot>>

LoadToClaim(t) ==
    /\ pc[t] = "load"
    /\ loaded' = [loaded EXCEPT ![t] = count[at[t]]]
    /\ Goto(t, "claim")
    /\ UNCHANGED <<count, slot, key, object, at, value, told, strays>>

Claim(t) ==
    /\ pc[t] = "claim"
    /\ count' = [count EXCEPT ![at[t]] = loaded[t] + 1]
    /\ key' = [key EXCEPT ![object[t]] = at[t]]
    /\ Forget(object[t])
    /\ EndCall(t)
    /\ UNCHANGED <<slot, strays>>

-----------------------------------------------------------------------------
(* KeyDelete, from the destructor.  Nobody uses the object any more. *)

Delete(t, o) ==
    /\ o \in Live
    /\ \A u \in Threads : object[u] # o
    /\ Start(t, o, "delete")
    /\ at' = [at EXCEPT ![t] = key[o]]
    /\ key' = [key EXCEPT ![o] = NULL]
    /\ UNCHANGED <<count, slot, loaded, value, told, strays>>

\* Mutant: the key is freed however many slots are in use.
FreeUsedKey(t) ==
    /\ pc[t] = "delete"
    /\ Goto(t, "free")
    /\ UNCHANGED <<count, slot, key, callVars, told, strays>>

TestForDelete(t) ==
    /\ pc[t] = "delete"
    /\ IF at[t] \in Keys /\ count[at[t]] = 1
       THEN Goto(t, "free") /\ UNCHANGED callVars
       ELSE EndCall(t)
    /\ UNCHANGED <<count, slot, key, told, strays>>

FreeKey(t) ==
    /\ pc[t] = "free"
    /\ count' = [count EXCEPT ![at[t]] = 0]
    /\ EndCall(t)
    /\ UNCHANGED <<slot, key, told, strays>>

-----------------------------------------------------------------------------
(* SetValue: the method the code calls GetSpecific *)

SetValue(t, o, notNull) ==
    /\ o \in Live
    /\ Start(t, o, "test")
    /\ at' = [at EXCEPT ![t] = key[o]]
    /\ value' = [value EXCEPT ![t] = notNull]
    /\ UNCHANGED <<count, slot, key, loaded, told, strays>>

\* What the caller knows once SetValue has returned kErrorCodeSuccess.
Tell(t) == told' = [told EXCEPT ![t][object[t]] = value[t]]

\* The key is no index of the table: EINVAL, and the caller is told so.
Refuse(t) ==
    /\ pc[t] = "test"
    /\ at[t] \notin Keys
    /\ EndCall(t)
    /\ UNCHANGED <<count, slot, key, told, strays>>

\* Mutant: null takes one from the count also when the slot was null before.
OverwriteAndCount(t) ==
    /\ pc[t] = "test"
    /\ at[t] \in Keys
    /\ count[at[t]] # 0
    /\ slot[t][at[t]] = value[t]
    /\ count' = IF value[t] THEN count ELSE [count EXCEPT ![at[t]] = @ - 1]
    /\ Tell(t)
    /\ EndCall(t)
    /\ UNCHANGED <<slot, key, strays>>

\* SetValue succeeds and the count does not change: the slot stays null or stays
\* in use; or the key counts as free and nothing is stored.
Overwrite(t) ==
    /\ pc[t] = "test"
    /\ at[t] \in Keys
    /\ count[at[t]] # 0 => slot[t][at[t]] = value[t]
    /\ Tell(t)
    /\ EndCall(t)
    /\ UNCHANGED <<count, slot, key, strays>>

LoadToCount(t) ==
    /\ \/ /\ pc[t] = "test"
          /\ at[t] \in Keys
          /\ count[at[t]] # 0
          /\ slot[t][at[t]] # value[t]
          /\ Goto(t, "reload")
          /\ UNCHANGED loaded
       \/ /\ pc[t] = "reload"
          /\ loaded' = [loaded EXCEPT ![t] = count[at[t]]]
          /\ Goto(t, "store")
    /\ UNCHANGED <<count, slot, key, object, at, value, told, strays>>

StoreValue(t) ==
    /\ pc[t] = "store"
    /\ count' = [count EXCEPT ![at[t]] =
                    IF value[t] THEN loaded[t] + 1 ELSE loaded[t] - 1]
    /\ slot' = [slot EXCEPT ![t][at[t]] = value[t]]
    /\ Tell(t)
    /\ EndCall(t)
    /\ UNCHANGED <<key, strays>>

\* The thread ends: its slots go with it, but nobody lowers the counts.  A new
\* thread may take its place.
ThreadEnds(t) ==
    /\ pc[t] = "idle"
    /\ \E k \in Keys : slot[t][k]
    /\ \A k \in Keys : count[k] < MaxCount    \* bound
    /\ slot' = [slot EXCEPT ![t] = [k \in Keys |-> FALSE]]
    /\ told' = [told EXCEPT ![t] = [o \in Objects |-> FALSE]]
    /\ UNCHANGED <<count, key, pc, callVars, strays>>

-----------------------------------------------------------------------------
Step(t) ==
    \/ FindKey(t) \/ NoKeyLeft(t) \/ LoadToClaim(t) \/ Claim(t)
    \/ TestForDelete(t) \/ FreeKey(t)
    \/ Refuse(t) \/ Overwrite(t) \/ LoadToCount(t) \/ StoreValue(t)

Call(t) ==
    \E o \in Objects :
        \/ Create(t, o)
        \/ Delete(t, o)
        \/ \E notNull \in BOOLEAN : SetValue(t, o, notNull)

Next == \E t \in Threads : Step(t) \/ Call(t) \/ ThreadEnds(t)

Spec == Init /\ [][Next]_vars

-----------------------------------------------------------------------------
(* What thread-local values promise *)

\* Every variable holds a value of its kind.
TypeOK ==
    /\ count \in [Keys -> Int]
    /\ slot \in [Threads -> [Keys -> BOOLEAN]]
    /\ key \in [Objects -> AnyKey \cup {NULL}]
    /\ pc \in [Threads -> {"idle", "find", "load", "claim", "delete", "free",
                           "test", "reload", "store"}]
    /\ object \in [Threads -> Objects \cup {NULL}]
    /\ at \in [Threads -> AnyKey]
    /\ loaded \in [Threads -> Int]
    /\ value \in [Threads -> BOOLEAN]
    /\ told \in [Threads -> [Objects -> BOOLEAN]]
    /\ strays \subseteq AnyKey

\* What GetValue reads is what the thread has set, and null in a new object:
\* neither another thread nor an older object with the same key shows through.
\* Objects made when the table was full spoil no key but those they name.
ValueIsKept ==
    \A t \in Threads, o \in Live :
        key[o] \in Sound /\ object[t] # o => slot[t][key[o]] = told[t][o]

\* Between operations the count of a key that an object has is more than the
\* number of slots in use, so the test for zero in SetValue never mistakes it for
\* a free key; a key nobody has is free only when no slot holds an old value.
CountCoversUses ==
    (\A t \in Threads : pc[t] = "idle") =>
        \A k \in Sound :
            LET uses == Cardinality({t \in Threads : slot[t][k]}) IN
            \/ count[k] > uses
            \/ count[k] = 0 /\ uses = 0 /\ \A o \in Live : key[o] # k
=============================================================================
