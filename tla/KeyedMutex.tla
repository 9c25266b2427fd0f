----------------------------- MODULE KeyedMutex -----------------------------
(***************************************************************************)
(* keyedMutex (internal/ports/http/keyedmutex.go): a map from contact id   *)
(* to *sync.Mutex, the map itself behind one more mutex.  Lock(key) is     *)
(* modelled statement by statement, because its correctness lies in what   *)
(* happens between the look-up and the insertion.                          *)
(*                                                                         *)
(* An allocation &sync.Mutex{} is a fresh object; the object that p        *)
(* allocates for key k is named <<k, p>>.  Entries are never removed, so p *)
(* allocates at most once per key and the name is unique.                  *)
(***************************************************************************)
EXTENDS Naturals, FiniteSets

CONSTANTS Procs, Keys, None

ASSUME NoneAssumption == None \notin Procs /\ None \notin (Keys \X Procs)

Objects == Keys \X Procs

VARIABLES mu,      \* who has k.mu, or None
          m,       \* k.m: key -> mutex object, or None where the key is absent
          owner,   \* owner[o]: the goroutine that has mutex object o, or None
          pc,      \* where each goroutine is in Lock / its critical section
          key,     \* the key argument of its current call, or None
          obj      \* its local variable mu: the object found or allocated

vars == <<mu, m, owner, pc, key, obj>>

Init == /\ mu = None
        /\ m = [k \in Keys |-> None]
        /\ owner = [o \in Objects |-> None]
        /\ pc = [p \in Procs |-> "out"]
        /\ key = [p \in Procs |-> None]
        /\ obj = [p \in Procs |-> None]

goto(p, l) == pc' = [pc EXCEPT ![p] = l]

(* The handler calls h.locks.Lock(chatID.ContactID).                       *)
Call(p, k) == /\ pc[p] = "out"
              /\ goto(p, "lockmap")
              /\ key' = [key EXCEPT ![p] = k]
              /\ UNCHANGED <<mu, m, owner, obj>>

(* Mutant: the map is read and written without k.mu.                       *)
LockMapUnguarded(p) == /\ pc[p] = "lockmap"
                       /\ mu' = p
                       /\ goto(p, "lookup")
                       /\ UNCHANGED <<m, owner, key, obj>>

(* k.mu.Lock()                                                             *)
LockMap(p) == /\ pc[p] = "lockmap" /\ mu = None
              /\ mu' = p
              /\ goto(p, "lookup")
              /\ UNCHANGED <<m, owner, key, obj>>

(* Mutant: ok is not looked at, so a missing entry is taken for a mutex.   *)
LookupIgnoringOk(p) == /\ pc[p] = "lookup"
                       /\ obj' = [obj EXCEPT ![p] = m[key[p]]]
                       /\ goto(p, "unlockmap")
                       /\ UNCHANGED <<mu, m, owner, key>>

(* mu, ok := k.m[key]                                                      *)
Lookup(p) == /\ pc[p] = "lookup"
             /\ obj' = [obj EXCEPT ![p] = m[key[p]]]
             /\ goto(p, IF m[key[p]] = None THEN "insert" ELSE "unlockmap")
             /\ UNCHANGED <<mu, m, owner, key>>

(* mu = &sync.Mutex{}; k.m[key] = mu                                       *)
Insert(p) == /\ pc[p] = "insert"
             /\ obj' = [obj EXCEPT ![p] = <<key[p], p>>]
             /\ m' = [m EXCEPT ![key[p]] = <<key[p], p>>]
             /\ goto(p, "unlockmap")
             /\ UNCHANGED <<mu, owner, key>>

(* Mutant: a TryLock in a loop: who finds the mutex taken starts over.     *)
UnlockMapAndRetry(p) == /\ pc[p] = "unlockmap"
                        /\ mu' = None
                        /\ goto(p, IF owner[obj[p]] = None THEN "wait" ELSE "lockmap")
                        /\ UNCHANGED <<m, owner, key, obj>>

(* Mutant: k.mu is still locked while mu.Lock() waits.                     *)
KeepMapLocked(p) == /\ pc[p] = "unlockmap"
                    /\ goto(p, "wait")
                    /\ UNCHANGED <<mu, m, owner, key, obj>>

(* k.mu.Unlock()                                                           *)
UnlockMap(p) == /\ pc[p] = "unlockmap"
                /\ mu' = None
                /\ goto(p, "wait")
                /\ UNCHANGED <<m, owner, key, obj>>

(* mu.Lock(); Lock returns and the critical section begins                 *)
Acquire(p) == /\ pc[p] = "wait" /\ owner[obj[p]] = None
              /\ owner' = [owner EXCEPT ![obj[p]] = p]
              /\ goto(p, "in")
              /\ UNCHANGED <<mu, m, key, obj>>

(* Mutant: a clean-up that removes the entry when its owner is done, to    *)
(* keep the map small.                                                     *)
UnlockAndForget(p) == /\ pc[p] = "in"
                      /\ owner' = [owner EXCEPT ![obj[p]] = None]
                      /\ m' = [m EXCEPT ![key[p]] = None]
                      /\ goto(p, "out")
                      /\ key' = [key EXCEPT ![p] = None]
                      /\ obj' = [obj EXCEPT ![p] = None]
                      /\ UNCHANGED mu

(* the returned mu.Unlock, which the handler defers                        *)
Unlock(p) == /\ pc[p] = "in"
             /\ owner' = [owner EXCEPT ![obj[p]] = None]
             /\ goto(p, "out")
             /\ key' = [key EXCEPT ![p] = None]
             /\ obj' = [obj EXCEPT ![p] = None]
             /\ UNCHANGED <<mu, m>>

Step(p) == \/ LockMap(p) \/ Lookup(p) \/ Insert(p) \/ UnlockMap(p)
           \/ Acquire(p) \/ Unlock(p)

Next == \E p \in Procs : Step(p) \/ \E k \in Keys : Call(p, k)

(* A goroutine in Lock or in its critical section keeps running, and       *)
(* sync.Mutex lets no waiter starve; nothing forces a new call.            *)
Fairness == \A p \in Procs :
               /\ WF_vars(Lookup(p) \/ Insert(p) \/ UnlockMap(p) \/ Unlock(p))
               /\ SF_vars(LockMap(p))
               /\ SF_vars(Acquire(p))

Spec == Init /\ [][Next]_vars
FairSpec == Spec /\ Fairness

----------------------------------------------------------------------------
Points == {"out", "lockmap", "lookup", "insert", "unlockmap", "wait", "in"}

(* Every variable has its type, and a goroutine past the look-up has a     *)
(* mutex object made for the very key it asked for (never a nil *Mutex).   *)
TypeOK == /\ mu \in Procs \cup {None}
          /\ m \in [Keys -> Objects \cup {None}]
          /\ owner \in [Objects -> Procs \cup {None}]
          /\ pc \in [Procs -> Points]
          /\ key \in [Procs -> Keys \cup {None}]
          /\ obj \in [Procs -> Objects \cup {None}]
          /\ \A k \in Keys : m[k] # None => m[k] \in {k} \X Procs
          /\ \A p \in Procs : pc[p] # "out" => key[p] \in Keys
          /\ \A p \in Procs : pc[p] \in {"unlockmap", "wait", "in"} =>
                obj[p] \in {key[p]} \X Procs

(* Two goroutines are never both inside for the same contact, although     *)
(* each found or created the mutex it waits on by itself ("two near-       *)
(* simultaneous messages on the same contact don't read-merge-write the    *)
(* profile and clobber each other").                                       *)
MutualExclusion == \A p, q \in Procs :
   p # q /\ pc[p] = "in" /\ pc[q] = "in" => key[p] # key[q]

(* A contact never changes its mutex: once an object is in the map it is   *)
(* what every later call finds, so a goroutine that is queued on it can    *)
(* not be overtaken through a second object.                               *)
EntryIsForever == [][\A k \in Keys : m[k] # None => m'[k] = m[k]]_vars

(* Every call of Lock returns: nobody waits for ever, whatever the others  *)
(* hold.                                                                   *)
EveryCallReturns == \A p \in Procs : pc[p] = "lockmap" ~> pc[p] = "in"

(* The promise of ContactLock, with the map and the two levels of mutexes  *)
(* hidden: a goroutine wants its key from the call until mu.Lock returns,  *)
(* and has it until it unlocks.                                            *)
Lock == INSTANCE ContactLock WITH
          wanted <- [p \in Procs |-> IF pc[p] \in {"out", "in"} THEN {} ELSE {key[p]}],
          held   <- [p \in Procs |-> IF pc[p] = "in" THEN {key[p]} ELSE {}]
ImplementsContactLock == Lock!Spec
=============================================================================
