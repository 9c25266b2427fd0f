-------------------------- MODULE KeyedMutexProofs --------------------------
(***************************************************************************)
(* Theorems about KeyedMutex for every set of goroutines and contacts: the *)
(* per-contact lock excludes, a contact never changes its mutex, and the   *)
(* two-level lock implements the safety part of ContactLock.               *)
(***************************************************************************)
EXTENDS KeyedMutex, TLAPS

(* k.mu protects the map: exactly the goroutine between k.mu.Lock and      *)
(* k.mu.Unlock has it.                                                     *)
MapGuarded == \A p \in Procs : (pc[p] \in {"lookup", "insert", "unlockmap"}) <=> (mu = p)

(* Nobody inserted the key since the look-up that missed it.               *)
MissIsFresh == \A p \in Procs : pc[p] = "insert" => m[key[p]] = None

(* The object a goroutine waits on or holds is the one in the map.         *)
WaitsOnEntry == \A p \in Procs : pc[p] \in {"unlockmap", "wait", "in"} => obj[p] = m[key[p]]

(* Whoever is inside has its mutex.                                        *)
InsideOwns == \A p \in Procs : pc[p] = "in" => owner[obj[p]] = p

IInv == TypeOK /\ MapGuarded /\ MissIsFresh /\ WaitsOnEntry /\ InsideOwns

LEMMA InitIInv == Init => IInv
  BY NoneAssumption DEF Init, IInv, TypeOK, Points, Objects, MapGuarded, MissIsFresh,
     WaitsOnEntry, InsideOwns

LEMMA NextIInv == IInv /\ [Next]_vars => IInv'
<1> SUFFICES ASSUME IInv, [Next]_vars PROVE IInv'
  OBVIOUS
<1> USE NoneAssumption DEF Objects, Points, goto
<1>1. ASSUME NEW p \in Procs, NEW k \in Keys, Call(p, k) PROVE IInv'
  <2>1. TypeOK'
    BY <1>1 DEF IInv, TypeOK, Call, WaitsOnEntry
  <2>2. MapGuarded'
    BY <1>1 DEF IInv, TypeOK, MapGuarded, Call
  <2>3. MissIsFresh'
    BY <1>1 DEF IInv, TypeOK, MapGuarded, MissIsFresh, Call
  <2>4. WaitsOnEntry'
    BY <1>1 DEF IInv, TypeOK, MissIsFresh, WaitsOnEntry, Call
  <2>5. InsideOwns'
    BY <1>1 DEF IInv, TypeOK, WaitsOnEntry, InsideOwns, Call
  <2> QED
    BY <2>1, <2>2, <2>3, <2>4, <2>5 DEF IInv
<1>2. ASSUME NEW p \in Procs, LockMap(p) PROVE IInv'
  <2>1. TypeOK'
    BY <1>2 DEF IInv, TypeOK, LockMap, WaitsOnEntry
  <2>2. MapGuarded'
    BY <1>2 DEF IInv, TypeOK, MapGuarded, LockMap
  <2>3. MissIsFresh'
    BY <1>2 DEF IInv, TypeOK, MapGuarded, MissIsFresh, LockMap
  <2>4. WaitsOnEntry'
    BY <1>2 DEF IInv, TypeOK, MissIsFresh, WaitsOnEntry, LockMap
  <2>5. InsideOwns'
    BY <1>2 DEF IInv, TypeOK, WaitsOnEntry, InsideOwns, LockMap
  <2> QED
    BY <2>1, <2>2, <2>3, <2>4, <2>5 DEF IInv
<1>3. ASSUME NEW p \in Procs, Lookup(p) PROVE IInv'
  <2>1. TypeOK'
    BY <1>3 DEF IInv, TypeOK, Lookup, WaitsOnEntry
  <2>2. MapGuarded'
    BY <1>3 DEF IInv, TypeOK, MapGuarded, Lookup
  <2>3. MissIsFresh'
    BY <1>3 DEF IInv, TypeOK, MapGuarded, MissIsFresh, Lookup
  <2>4. WaitsOnEntry'
    BY <1>3 DEF IInv, TypeOK, MissIsFresh, WaitsOnEntry, Lookup
  <2>5. InsideOwns'
    BY <1>3 DEF IInv, TypeOK, WaitsOnEntry, InsideOwns, Lookup
  <2> QED
    BY <2>1, <2>2, <2>3, <2>4, <2>5 DEF IInv
<1>4. ASSUME NEW p \in Procs, Insert(p) PROVE IInv'
  <2>1. TypeOK'
    BY <1>4 DEF IInv, TypeOK, Insert, WaitsOnEntry
  <2>2. MapGuarded'
    BY <1>4 DEF IInv, TypeOK, MapGuarded, Insert
  <2>3. MissIsFresh'
    BY <1>4 DEF IInv, TypeOK, MapGuarded, MissIsFresh, Insert
  <2>4. WaitsOnEntry'
    BY <1>4 DEF IInv, TypeOK, MissIsFresh, WaitsOnEntry, Insert
  <2>5. InsideOwns'
    BY <1>4 DEF IInv, TypeOK, WaitsOnEntry, InsideOwns, Insert
  <2> QED
    BY <2>1, <2>2, <2>3, <2>4, <2>5 DEF IInv
<1>5. ASSUME NEW p \in Procs, UnlockMap(p) PROVE IInv'
  <2>1. TypeOK'
    BY <1>5 DEF IInv, TypeOK, UnlockMap, WaitsOnEntry
  <2>2. MapGuarded'
    BY <1>5 DEF IInv, TypeOK, MapGuarded, UnlockMap
  <2>3. MissIsFresh'
    BY <1>5 DEF IInv, TypeOK, MapGuarded, MissIsFresh, UnlockMap
  <2>4. WaitsOnEntry'
    BY <1>5 DEF IInv, TypeOK, MissIsFresh, WaitsOnEntry, UnlockMap
  <2>5. InsideOwns'
    BY <1>5 DEF IInv, TypeOK, WaitsOnEntry, InsideOwns, UnlockMap
  <2> QED
    BY <2>1, <2>2, <2>3, <2>4, <2>5 DEF IInv
<1>6. ASSUME NEW p \in Procs, Acquire(p) PROVE IInv'
  <2>1. TypeOK'
    BY <1>6 DEF IInv, TypeOK, Acquire, WaitsOnEntry
  <2>2. MapGuarded'
    BY <1>6 DEF IInv, TypeOK, MapGuarded, Acquire
  <2>3. MissIsFresh'
    BY <1>6 DEF IInv, TypeOK, MapGuarded, MissIsFresh, Acquire
  <2>4. WaitsOnEntry'
    BY <1>6 DEF IInv, TypeOK, MissIsFresh, WaitsOnEntry, Acquire
  <2>5. InsideOwns'
    BY <1>6 DEF IInv, TypeOK, WaitsOnEntry, InsideOwns, Acquire
  <2> QED
    BY <2>1, <2>2, <2>3, <2>4, <2>5 DEF IInv
<1>7. ASSUME NEW p \in Procs, Unlock(p) PROVE IInv'
  <2>1. TypeOK'
    BY <1>7 DEF IInv, TypeOK, Unlock, WaitsOnEntry
  <2>2. MapGuarded'
    BY <1>7 DEF IInv, TypeOK, MapGuarded, Unlock
  <2>3. MissIsFresh'
    BY <1>7 DEF IInv, TypeOK, MapGuarded, MissIsFresh, Unlock
  <2>4. WaitsOnEntry'
    BY <1>7 DEF IInv, TypeOK, MissIsFresh, WaitsOnEntry, Unlock
  <2>5. InsideOwns'
    BY <1>7 DEF IInv, TypeOK, WaitsOnEntry, InsideOwns, Unlock
  <2> QED
    BY <2>1, <2>2, <2>3, <2>4, <2>5 DEF IInv
<1>8. CASE UNCHANGED vars
  BY <1>8 DEF vars, IInv, TypeOK, MapGuarded, MissIsFresh, WaitsOnEntry, InsideOwns
<1> QED
  BY <1>1, <1>2, <1>3, <1>4, <1>5, <1>6, <1>7, <1>8 DEF Next, Step

LEMMA InvariantIInv == Spec => []IInv
  BY InitIInv, NextIInv, PTL DEF Spec

----------------------------------------------------------------------------
(* Lock, Insert and Unlock keep the variables within their types, and a    *)
(* goroutine past the look-up has a mutex of the very key it asked for.    *)
THEOREM TypeCorrect == Spec => []TypeOK
  BY InvariantIInv, PTL DEF IInv

(* The per-contact lock excludes, for any number of goroutines and         *)
(* contacts: the two look-ups that race for a new contact end with one     *)
(* mutex, which both then wait on.                                         *)
THEOREM LockExcludes == Spec => []MutualExclusion
<1>1. IInv => MutualExclusion
  BY NoneAssumption DEF IInv, TypeOK, WaitsOnEntry, InsideOwns, MutualExclusion
<1> QED
  BY <1>1, InvariantIInv, PTL

(* No step of any goroutine replaces or removes a map entry.               *)
THEOREM EntriesStay == Spec => EntryIsForever
<1>1. IInv /\ [Next]_vars => [\A k \in Keys : m[k] # None => m'[k] = m[k]]_vars
  <2> SUFFICES ASSUME IInv, Next, NEW k \in Keys, m[k] # None PROVE m'[k] = m[k]
    BY DEF vars
  <2>1. ASSUME NEW p \in Procs, Insert(p) PROVE m'[k] = m[k]
    BY <2>1 DEF Insert, IInv, TypeOK, MissIsFresh
  <2> QED
    BY <2>1 DEF Next, Step, Call, LockMap, Lookup, UnlockMap, Acquire, Unlock
<1> QED
  BY <1>1, InvariantIInv, PTL DEF Spec, EntryIsForever

----------------------------------------------------------------------------
(* Refinement: the initial state maps to ContactLock's, and every step of  *)
(* Lock maps to asking, to being granted, to releasing, or to a stutter.   *)
Wanted == [p \in Procs |-> IF pc[p] \in {"out", "in"} THEN {} ELSE {key[p]}]
Held == [p \in Procs |-> IF pc[p] = "in" THEN {key[p]} ELSE {}]

LEMMA InitRefines == Init => Lock!Init
  BY DEF Init, Lock!Init

LEMMA StepRefines == IInv /\ [Next]_vars => [Lock!Next]_(Lock!vars)
<1> SUFFICES ASSUME IInv, [Next]_vars PROVE Lock!Next \/ UNCHANGED <<Wanted, Held>>
  BY DEF Lock!vars, Wanted, Held
<1> USE DEF Wanted, Held, goto
<1>1. ASSUME NEW p \in Procs, NEW k \in Keys, Call(p, k) PROVE Lock!Ask(p, k)
  BY <1>1 DEF Call, Lock!Ask, IInv, TypeOK
<1>2. ASSUME NEW p \in Procs, NEW k \in Keys, k = key[p], Acquire(p) PROVE Lock!Grant(p, k)
  <2>1. pc[p] = "wait" /\ pc'[p] = "in" /\ key' = key
    BY <1>2 DEF Acquire, IInv, TypeOK
  <2>2. \A q \in Procs : ~(pc[q] = "in" /\ key[q] = k)
    BY <1>2, NoneAssumption DEF Acquire, IInv, TypeOK, WaitsOnEntry, InsideOwns
  <2> QED
    BY <1>2, <2>1, <2>2 DEF Acquire, Lock!Grant, IInv, TypeOK
<1>3. ASSUME NEW p \in Procs, NEW k \in Keys, k = key[p], Unlock(p) PROVE Lock!Release(p, k)
  BY <1>3 DEF Unlock, Lock!Release, IInv, TypeOK
<1>4. ASSUME NEW p \in Procs, LockMap(p) \/ Lookup(p) \/ Insert(p) \/ UnlockMap(p)
      PROVE UNCHANGED <<Wanted, Held>>
  <2>1. key' = key
    BY <1>4 DEF LockMap, Lookup, Insert, UnlockMap
  <2>2. \A q \in Procs : /\ pc[q] \in {"out", "in"} <=> pc'[q] \in {"out", "in"}
                         /\ pc[q] = "in" <=> pc'[q] = "in"
    BY <1>4 DEF LockMap, Lookup, Insert, UnlockMap, IInv, TypeOK
  <2> QED
    BY <2>1, <2>2
<1>5. ASSUME NEW p \in Procs, Acquire(p) \/ Unlock(p) PROVE key[p] \in Keys
  BY <1>5 DEF Acquire, Unlock, IInv, TypeOK
<1>6. ASSUME NEW p \in Procs, NEW k \in Keys,
             Lock!Ask(p, k) \/ Lock!Grant(p, k) \/ Lock!Release(p, k)
      PROVE Lock!Next
  BY <1>6 DEF Lock!Next
<1>8. CASE UNCHANGED vars
  BY <1>8 DEF vars
<1>9. ASSUME NEW p \in Procs, NEW k \in Keys, Call(p, k) PROVE Lock!Next
  BY <1>1, <1>6, <1>9
<1>10. ASSUME NEW p \in Procs, Acquire(p) PROVE Lock!Next
  <2> PICK k \in Keys : k = key[p]
    BY <1>5, <1>10
  <2> QED
    BY <1>2, <1>6, <1>10
<1>11. ASSUME NEW p \in Procs, Unlock(p) PROVE Lock!Next
  <2> PICK k \in Keys : k = key[p]
    BY <1>5, <1>11
  <2> QED
    BY <1>3, <1>6, <1>11
<1> HIDE DEF Wanted, Held
<1> QED
  BY <1>4, <1>8, <1>9, <1>10, <1>11 DEF Next, Step

(* keyedMutex implements the safety of ContactLock: hiding the map and the *)
(* two levels of mutexes, callers see one lock per contact.                *)
THEOREM ImplementsLock == Spec => Lock!Init /\ [][Lock!Next]_(Lock!vars)
  BY InitRefines, StepRefines, InvariantIInv, PTL DEF Spec
=============================================================================
