--------------------------- MODULE LockedWebhook ---------------------------
(***************************************************************************)
(* The webhook receiver with the lock it really uses: where Webhook takes  *)
(* a contact's mutex in one step, process() (internal/ports/http/          *)
(* webhook.go) runs through the statements of keyedMutex.Lock, which are   *)
(* those of KeyedMutex, and its deferred unlock is the function that Lock  *)
(* returned.  A restart leaves an empty map: the entries are in memory.    *)
(*                                                                         *)
(* lock, Webhook's own variable, is a history variable here: it is written *)
(* when a handler enters and leaves, and no guard reads it.  That the real *)
(* lock lets nobody in whom Webhook's would keep waiting is a property.    *)
(***************************************************************************)
EXTENDS Webhook

VARIABLES mu,      \* the handler that has k.mu, or None
          entry,   \* k.m: contact -> mutex object, or None
          owner,   \* owner[o]: the handler that has mutex object o
          at,      \* where each handler is in Lock, see KeyedMutex
          asked,   \* the contact it called Lock with
          obj      \* the mutex object it found or allocated

mutexVars == <<mu, entry, owner, at, asked, obj>>
lockedVars == <<vars, mutexVars>>

\* The mutex objects are named by the contact and the goroutine.
ASSUME ObjectsAssumption == None \notin Contacts \X Handlers

Mutex == INSTANCE KeyedMutex WITH Procs <- Handlers, Keys <- Contacts,
                                  m <- entry, pc <- at, key <- asked

LockedInit == Init /\ Mutex!Init

(* The statements of Lock but for the last: the handler has not come on.   *)
TakeTurn(h) == /\ \/ pc[h] = "lock" /\ Mutex!Call(h, Contact(h))
                  \/ Mutex!LockMap(h) \/ Mutex!Lookup(h)
                  \/ Mutex!Insert(h) \/ Mutex!UnlockMap(h)
               /\ UNCHANGED vars

(* Mutant: h.locks.Lock(id)() for defer h.locks.Lock(id)(), so that the    *)
(* mutex is given back at once.                                            *)
EnterWithoutDefer(h) == /\ at[h] = "wait" /\ owner[obj[h]] = None
                        /\ at' = [at EXCEPT ![h] = "in"]
                        /\ goto(h, "read")
                        /\ UNCHANGED <<msg, draft, ended, lock, processed, enabled, live, chatwoot>>
                        /\ UNCHANGED <<mu, entry, owner, asked, obj>>

(* Mutant: a wait that the end of the context cuts short goes on unlocked. *)
EnterOrExpire(h) == /\ at[h] = "wait" /\ (owner[obj[h]] = None \/ h \in ended)
                    /\ owner' = [owner EXCEPT ![obj[h]] = IF @ = None THEN h ELSE @]
                    /\ at' = [at EXCEPT ![h] = "in"]
                    /\ goto(h, "read")
                    /\ UNCHANGED <<msg, draft, ended, lock, processed, enabled, live, chatwoot>>
                    /\ UNCHANGED <<mu, entry, asked, obj>>

(* mu.Lock() succeeds and Lock returns: the critical section begins.       *)
Enter(h) == /\ Mutex!Acquire(h)
            /\ lock' = [lock EXCEPT ![Contact(h)] = h]
            /\ goto(h, "read")
            /\ UNCHANGED <<msg, draft, ended, processed, enabled, live, chatwoot>>

(* the deferred unlock(), then writeOK                                     *)
Leave(h) == /\ pc[h] = "unlock" /\ Mutex!Unlock(h)
            /\ lock' = [lock EXCEPT ![Contact(h)] = None]
            /\ Finish(h)
            /\ UNCHANGED <<processed, enabled, live, chatwoot>>

LockedStep(h) == \/ TakeTurn(h) \/ Enter(h) \/ Leave(h)
                 \/ Work(h) /\ UNCHANGED mutexVars

(* newKeyedMutex() makes a new, empty map, and nobody is inside Lock.      *)
Restart == /\ Crash
           /\ mu' = None
           /\ entry' = [c \in Contacts |-> None]
           /\ owner' = [o \in Mutex!Objects |-> None]
           /\ at' = [h \in Handlers |-> "out"]
           /\ asked' = [h \in Handlers |-> None]
           /\ obj' = [h \in Handlers |-> None]

LockedNext == \/ \E h \in Handlers : LockedStep(h)
              \/ Outside /\ UNCHANGED mutexVars
              \/ Restart

LockedSpec == LockedInit /\ [][LockedNext]_lockedVars

(* As in KeyedMutex and Webhook: what can run does, and neither k.mu nor a *)
(* contact's mutex starves who waits for it.                               *)
LockedFairness ==
  /\ \A h \in Handlers : /\ WF_lockedVars(LockedStep(h))
                         /\ SF_lockedVars(Mutex!LockMap(h) /\ UNCHANGED vars)
                         /\ SF_lockedVars(Enter(h))
  /\ WF_lockedVars((\E r \in sent : Apply(r) \/ Refuse(r)) /\ UNCHANGED mutexVars)
LockedFairSpec == LockedSpec /\ LockedFairness

----------------------------------------------------------------------------
(* However long a handler works inside (a call of the LLM takes seconds),  *)
(* it does not hold the mutex of the map, nor does one that waits outside: *)
(* the handlers of other contacts get through Lock meanwhile.              *)
MapIsFree == mu # None => pc[mu] = "lock" /\ at[mu] # "wait"

(* With the statements of Lock hidden the receiver behaves like Webhook:   *)
(* its critical section is exclusive whatever two first messages of a      *)
(* contact, restarts and ended contexts do to the map.                     *)
ImplementsWebhook == Spec
=============================================================================
