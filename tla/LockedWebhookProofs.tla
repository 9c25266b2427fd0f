------------------------ MODULE LockedWebhookProofs ------------------------
(***************************************************************************)
(* The receiver with the statements of keyedMutex implements Webhook, for  *)
(* every set of handlers, messages, contacts and faults, so that all that  *)
(* is proved of Webhook holds with the lock the code has.                  *)
(***************************************************************************)
EXTENDS LockedWebhook, WebhookProofs

Locks == INSTANCE KeyedMutexProofs WITH Procs <- Handlers, Keys <- Contacts,
                                        m <- entry, pc <- at, key <- asked

(* Who is in Lock, or past it, serves a message and asked for its contact; *)
(* who has come through Lock is in the critical section, and only they.    *)
AsksForOwn == \A h \in Handlers : at[h] # "out" =>
                 pc[h] \in {"lock"} \cup Critical /\ asked[h] = Contact(h)
InIsCritical == \A h \in Handlers : at[h] = "in" <=> pc[h] \in Critical

(* What Webhook calls the contact's lock is what the mutexes say.          *)
LockIsMutex == \A c \in Contacts, h \in Handlers :
                  lock[c] = h <=> at[h] = "in" /\ asked[h] = c

LockedInv == TypeOK /\ Locks!IInv /\ AsksForOwn /\ InIsCritical /\ LockIsMutex

LEMMA MutexNames == None \notin Handlers /\ None \notin (Contacts \X Handlers)
  BY NamesAssumption, ObjectsAssumption

----------------------------------------------------------------------------
(* What each kind of step does to the lock.                                *)
LEMMA TakeTurnKeeps ==
  ASSUME LockedInv, NEW h \in Handlers, TakeTurn(h)
  PROVE  /\ Locks!Next
         /\ pc[h] = "lock" /\ at[h] # "in" /\ at'[h] \notin {"in", "out"}
         /\ asked' = [asked EXCEPT ![h] = Contact(h)]
         /\ \A g \in Handlers \ {h} : at'[g] = at[g]
<1>1. pc[h] # "idle" => Contact(h) \in Contacts
  BY EventAssumption DEF LockedInv, TypeOK, Contact
<1>2. Locks!TypeOK
  BY MutexNames DEF LockedInv, Locks!IInv
<1> USE DEF Locks!goto, Mutex!goto
<1>3. CASE pc[h] = "lock" /\ Mutex!Call(h, Contact(h))
  <2>1. Locks!Call(h, Contact(h))
    BY <1>3 DEF Locks!Call, Mutex!Call
  <2> QED
    BY <1>1, <1>2, <1>3, <2>1 DEF Locks!Next, Locks!Call, Locks!TypeOK
<1>4. CASE \/ Mutex!LockMap(h) \/ Mutex!Lookup(h) \/ Mutex!Insert(h) \/ Mutex!UnlockMap(h)
  <2>1. \/ Locks!LockMap(h) \/ Locks!Lookup(h) \/ Locks!Insert(h) \/ Locks!UnlockMap(h)
    BY <1>4 DEF Locks!LockMap, Mutex!LockMap, Locks!Lookup, Mutex!Lookup,
                Locks!Insert, Mutex!Insert, Locks!UnlockMap, Mutex!UnlockMap
  <2>2. Locks!Next
    BY <2>1 DEF Locks!Next, Locks!Step
  <2>3. /\ at[h] \notin {"in", "out"} /\ at'[h] \notin {"in", "out"} /\ asked' = asked
        /\ \A g \in Handlers \ {h} : at'[g] = at[g]
    BY <1>2, <2>1 DEF Locks!LockMap, Locks!Lookup, Locks!Insert, Locks!UnlockMap, Locks!TypeOK
  <2>4. pc[h] = "lock" /\ asked[h] = Contact(h)
    BY <2>3 DEF LockedInv, AsksForOwn, InIsCritical
  <2> QED
    BY <1>2, <2>2, <2>3, <2>4 DEF Locks!TypeOK
<1> QED
  BY <1>3, <1>4 DEF TakeTurn

LEMMA EnterImplements ==
  ASSUME LockedInv, NEW h \in Handlers, Enter(h)
  PROVE  /\ Locks!Next
         /\ Acquire(h)
         /\ at' = [at EXCEPT ![h] = "in"] /\ asked' = asked /\ asked[h] = Contact(h)
<1>1. Locks!TypeOK /\ Locks!WaitsOnEntry /\ Locks!InsideOwns
  BY MutexNames DEF LockedInv, Locks!IInv
<1>2. Locks!Acquire(h)
  BY DEF Enter, Mutex!Acquire, Locks!Acquire, Mutex!goto, Locks!goto
<1>3. at[h] = "wait" /\ owner[obj[h]] = None
      /\ at' = [at EXCEPT ![h] = "in"] /\ asked' = asked
  BY <1>2 DEF Locks!Acquire, Locks!goto
<1>4. pc[h] = "lock" /\ asked[h] = Contact(h)
  BY <1>3 DEF LockedInv, AsksForOwn, InIsCritical
<1>5. Contact(h) \in Contacts
  BY <1>4, EventAssumption DEF LockedInv, TypeOK, Contact
<1>6. ASSUME NEW g \in Handlers, lock[Contact(h)] = g PROVE FALSE
  <2>1. at[g] = "in" /\ asked[g] = Contact(h)
    BY <1>5, <1>6 DEF LockedInv, LockIsMutex
  <2>2. obj[g] = obj[h]
    BY <1>1, <1>3, <1>4, <2>1 DEF Locks!WaitsOnEntry
  <2>3. owner[obj[g]] = g
    BY <1>1, <2>1 DEF Locks!InsideOwns
  <2> QED
    BY <1>3, <2>2, <2>3, NamesAssumption
<1>7. lock[Contact(h)] = None
  BY <1>5, <1>6 DEF LockedInv, TypeOK
<1> QED
  BY <1>2, <1>3, <1>4, <1>7 DEF Enter, Acquire, Locks!Next, Locks!Step

LEMMA LeaveImplements ==
  ASSUME LockedInv, NEW h \in Handlers, Leave(h)
  PROVE  /\ Locks!Next
         /\ Unlock(h)
         /\ at' = [at EXCEPT ![h] = "out"] /\ asked' = [asked EXCEPT ![h] = None]
         /\ at[h] = "in" /\ asked[h] = Contact(h)
<1>1. Locks!Unlock(h)
  BY DEF Leave, Mutex!Unlock, Locks!Unlock, Mutex!goto, Locks!goto
<1>2. /\ at[h] = "in"
      /\ at' = [at EXCEPT ![h] = "out"] /\ asked' = [asked EXCEPT ![h] = None]
  BY <1>1 DEF Locks!Unlock, Locks!goto
<1>3. asked[h] = Contact(h)
  BY <1>2 DEF LockedInv, AsksForOwn
<1> QED
  BY <1>1, <1>2, <1>3 DEF Leave, Unlock, Locks!Next, Locks!Step

(* Other work of a handler neither enters nor leaves the critical section, *)
(* and is not done between the call of Lock and its return.                *)
LEMMA WorkStays ==
  ASSUME TypeOK, NEW h \in Handlers, Work(h)
  PROVE  /\ lock' = lock
         /\ \A g \in Handlers \ {h} : pc'[g] = pc[g] /\ msg'[g] = msg[g]
         /\ \/ pc[h] \notin {"lock"} \cup Critical /\ pc'[h] \notin Critical
            \/ pc[h] \in Critical /\ pc'[h] \in Critical /\ msg'[h] = msg[h]
<1>1. CASE Gate(h) \/ Mark(h)
  BY <1>1 DEF Gate, Mark, Finish, goto, Critical, TypeOK, local
<1>2. CASE Inside(h)
  <2>1. PICK l \in Critical : pc' = [pc EXCEPT ![h] = l]
    BY <1>2, InsideStays
  <2> QED
    BY <1>2, <2>1, InsideStays DEF TypeOK
<1> QED
  BY <1>1, <1>2 DEF Work, Inside

LEMMA OutsideStays ==
  ASSUME TypeOK, Outside
  PROVE  /\ lock' = lock
         /\ \A h \in Handlers :
              \/ pc[h] \notin {"lock"} \cup Critical /\ pc'[h] \notin Critical
              \/ pc'[h] = pc[h] /\ msg'[h] = msg[h]
<1>1. ASSUME NEW h \in Handlers, NEW m \in Msgs, Deliver(h, m)
      PROVE  /\ lock' = lock
             /\ pc[h] \notin {"lock"} \cup Critical /\ pc'[h] \notin Critical
             /\ \A g \in Handlers \ {h} : pc'[g] = pc[g] /\ msg'[g] = msg[g]
  BY <1>1 DEF Deliver, goto, Critical, TypeOK
<1>2. (\E h \in Handlers : ContextEnds(h)) \/ (\E r \in sent : Apply(r) \/ Refuse(r))
      \/ FirstPublish \/ (\E off, on \in AtMostOneInbox : SwitchInbox(off, on))
      \/ (\E c \in Contacts, k \in Keys : AgentSets(c, k))
      \/ (\E v \in Convs, S \in SUBSET Labels : AgentLabels(v, S))
      => UNCHANGED <<pc, msg, lock>>
  BY DEF ContextEnds, Apply, Refuse, FirstPublish, SwitchInbox, AgentSets, AgentLabels, local
<1> QED
  BY <1>1, <1>2 DEF Outside

----------------------------------------------------------------------------
Coupled == AsksForOwn /\ InIsCritical /\ LockIsMutex

LEMMA TakeTurnCoupled == ASSUME LockedInv, NEW h \in Handlers, TakeTurn(h) PROVE Coupled'
<1>1. /\ pc[h] = "lock" /\ at[h] # "in" /\ at'[h] \notin {"in", "out"}
      /\ asked' = [asked EXCEPT ![h] = Contact(h)]
      /\ \A g \in Handlers \ {h} : at'[g] = at[g]
  BY TakeTurnKeeps
<1>2. pc' = pc /\ msg' = msg /\ lock' = lock
  BY DEF TakeTurn, vars, local
<1>3. Locks!TypeOK
  BY MutexNames DEF LockedInv, Locks!IInv
<1>4. /\ asked'[h] = Contact(h) /\ \A g \in Handlers \ {h} : asked'[g] = asked[g]
      /\ \A g \in Handlers : Contact(g)' = Contact(g)
  BY <1>1, <1>2, <1>3 DEF Locks!TypeOK, Contact
<1> QED
  BY <1>1, <1>2, <1>4 DEF LockedInv, Coupled, AsksForOwn, InIsCritical, LockIsMutex, Critical

LEMMA EnterCoupled == ASSUME LockedInv, NEW h \in Handlers, Enter(h) PROVE Coupled'
<1>1. /\ Acquire(h)
      /\ at' = [at EXCEPT ![h] = "in"] /\ asked' = asked /\ asked[h] = Contact(h)
  BY EnterImplements
<1>2. Locks!TypeOK
  BY MutexNames DEF LockedInv, Locks!IInv
<1>3. /\ pc[h] = "lock" /\ pc'[h] = "read" /\ at'[h] = "in"
      /\ \A g \in Handlers \ {h} : pc'[g] = pc[g] /\ at'[g] = at[g]
      /\ \A g \in Handlers : Contact(g)' = Contact(g)
  BY <1>1, <1>2 DEF Acquire, goto, LockedInv, TypeOK, Locks!TypeOK, Contact
<1>4. lock[Contact(h)] = None /\ lock' = [lock EXCEPT ![Contact(h)] = h]
  BY <1>1 DEF Acquire
<1>5. Contact(h) \in Contacts
  BY <1>3, EventAssumption DEF LockedInv, TypeOK, Contact
<1>6. AsksForOwn' /\ InIsCritical'
  BY <1>1, <1>3 DEF LockedInv, AsksForOwn, InIsCritical, Critical
<1>7. ASSUME NEW c \in Contacts, NEW g \in Handlers
      PROVE  lock'[c] = g <=> at'[g] = "in" /\ asked'[g] = c
  <2>1. CASE c = Contact(h)
    <3>1. lock'[c] = h
      BY <1>4, <1>5, <2>1 DEF LockedInv, TypeOK
    <3>2. g # h => ~(at[g] = "in" /\ asked[g] = c)
      BY <1>4, <2>1, NamesAssumption DEF LockedInv, LockIsMutex
    <3> QED
      BY <1>1, <1>3, <2>1, <3>1, <3>2
  <2>2. CASE c # Contact(h)
    BY <1>1, <1>3, <1>4, <2>2 DEF LockedInv, TypeOK, LockIsMutex, InIsCritical, Critical
  <2> QED
    BY <2>1, <2>2
<1> QED
  BY <1>6, <1>7 DEF Coupled, LockIsMutex

LEMMA LeaveCoupled == ASSUME LockedInv, NEW h \in Handlers, Leave(h) PROVE Coupled'
<1>1. /\ Unlock(h)
      /\ at' = [at EXCEPT ![h] = "out"] /\ asked' = [asked EXCEPT ![h] = None]
      /\ at[h] = "in" /\ asked[h] = Contact(h)
  BY LeaveImplements
<1>2. Locks!TypeOK
  BY MutexNames DEF LockedInv, Locks!IInv
<1>3. /\ pc[h] = "unlock" /\ pc'[h] = "idle" /\ at'[h] = "out"
      /\ \A g \in Handlers \ {h} : /\ pc'[g] = pc[g] /\ msg'[g] = msg[g]
                                   /\ at'[g] = at[g] /\ asked'[g] = asked[g]
  BY <1>1, <1>2 DEF Unlock, Finish, goto, LockedInv, TypeOK, Locks!TypeOK
<1>4. lock' = [lock EXCEPT ![Contact(h)] = None]
  BY <1>1 DEF Unlock
<1>5. Contact(h) \in Contacts
  BY <1>3, EventAssumption DEF LockedInv, TypeOK, Contact
<1>6. AsksForOwn' /\ InIsCritical'
  BY <1>1, <1>3 DEF LockedInv, AsksForOwn, InIsCritical, Critical, Contact
<1>7. ASSUME NEW c \in Contacts, NEW g \in Handlers
      PROVE  lock'[c] = g <=> at'[g] = "in" /\ asked'[g] = c
  <2>1. lock[Contact(h)] = h
    BY <1>1, <1>5 DEF LockedInv, LockIsMutex
  <2>2. CASE c = Contact(h)
    <3>1. lock'[c] = None /\ None # g
      BY <1>4, <1>5, <2>2, NamesAssumption DEF LockedInv, TypeOK
    <3>2. g # h => ~(at[g] = "in" /\ asked[g] = c)
      BY <2>1, <2>2 DEF LockedInv, LockIsMutex
    <3> QED
      BY <1>3, <3>1, <3>2
  <2>3. CASE c # Contact(h)
    <3>1. lock'[c] = lock[c]
      BY <1>4, <2>3 DEF LockedInv, TypeOK
    <3>2. lock[c] # h
      BY <1>1, <2>3 DEF LockedInv, LockIsMutex
    <3> QED
      BY <1>3, <3>1, <3>2 DEF LockedInv, LockIsMutex
  <2> QED
    BY <2>2, <2>3
<1> QED
  BY <1>6, <1>7 DEF Coupled, LockIsMutex

(* A step that leaves the mutexes and nobody's side of the border.         *)
LEMMA ElseCoupled ==
  ASSUME LockedInv, UNCHANGED mutexVars, lock' = lock,
         \A h \in Handlers :
            \/ pc[h] \notin {"lock"} \cup Critical /\ pc'[h] \notin Critical
            \/ pc[h] \in Critical /\ pc'[h] \in Critical /\ msg'[h] = msg[h]
            \/ pc'[h] = pc[h] /\ msg'[h] = msg[h]
  PROVE  Coupled'
<1>1. at' = at /\ asked' = asked
  BY DEF mutexVars
<1>2. AsksForOwn'
  BY <1>1 DEF LockedInv, AsksForOwn, Contact
<1>3. InIsCritical'
  BY <1>1 DEF LockedInv, InIsCritical
<1>4. LockIsMutex'
  BY <1>1 DEF LockedInv, LockIsMutex
<1> QED
  BY <1>2, <1>3, <1>4 DEF Coupled

----------------------------------------------------------------------------
LEMMA RestartInit == ASSUME Restart PROVE Locks!Init' /\ Coupled'
<1>1. Locks!Init'
  BY DEF Restart, Locks!Init, Locks!Objects, Mutex!Objects
<1>2. Coupled'
  BY NamesAssumption DEF Restart, Crash, Coupled, AsksForOwn, InIsCritical, LockIsMutex, Critical
<1> QED
  BY <1>1, <1>2

LEMMA StillLocks == Locks!IInv /\ UNCHANGED mutexVars => Locks!IInv'
  BY MutexNames, Locks!NextIInv DEF mutexVars, Locks!vars

LEMMA LockedStepKeeps ==
  LockedInv /\ [LockedNext]_lockedVars =>
     Coupled' /\ [Next]_vars /\ (Locks!IInv' \/ Locks!Init')
<1> SUFFICES ASSUME LockedInv, [LockedNext]_lockedVars
             PROVE  Coupled' /\ [Next]_vars /\ (Locks!IInv' \/ Locks!Init')
  OBVIOUS
<1>1. Locks!Next => Locks!IInv'
  BY MutexNames, Locks!NextIInv DEF LockedInv
<1>2. ASSUME NEW h \in Handlers, TakeTurn(h) PROVE Coupled' /\ UNCHANGED vars /\ Locks!Next
  BY <1>2, TakeTurnKeeps, TakeTurnCoupled DEF TakeTurn
<1>3. ASSUME NEW h \in Handlers, Enter(h) PROVE Coupled' /\ Next /\ Locks!Next
  BY <1>3, EnterImplements, EnterCoupled DEF Next, Step
<1>4. ASSUME NEW h \in Handlers, Leave(h) PROVE Coupled' /\ Next /\ Locks!Next
  BY <1>4, LeaveImplements, LeaveCoupled DEF Next, Step
<1>5. ASSUME NEW h \in Handlers, Work(h), UNCHANGED mutexVars PROVE Coupled' /\ Next /\ Locks!IInv'
  <2>1. TypeOK
    BY DEF LockedInv
  <2>2. Coupled'
    BY <1>5, <2>1, WorkStays, ElseCoupled
  <2> QED
    BY <1>5, <2>2, StillLocks DEF Next, Step, LockedInv
<1>6. ASSUME Outside, UNCHANGED mutexVars PROVE Coupled' /\ Next /\ Locks!IInv'
  <2>1. TypeOK
    BY DEF LockedInv
  <2>2. Coupled'
    BY <1>6, <2>1, OutsideStays, ElseCoupled
  <2> QED
    BY <1>6, <2>2, StillLocks DEF Next, Environment, LockedInv
<1>7. CASE Restart
  BY <1>7, RestartInit DEF Restart, Next, Environment
<1>8. CASE UNCHANGED lockedVars
  <2>1. UNCHANGED vars /\ UNCHANGED mutexVars /\ pc' = pc /\ msg' = msg /\ lock' = lock
    BY <1>8 DEF lockedVars, vars, local
  <2>2. Coupled'
    BY <2>1, ElseCoupled
  <2> QED
    BY <2>1, <2>2, StillLocks DEF LockedInv
<1> QED
  BY <1>1, <1>2, <1>3, <1>4, <1>5, <1>6, <1>7, <1>8 DEF LockedNext, LockedStep

LEMMA LockedInitInv == LockedInit => LockedInv
<1> SUFFICES ASSUME LockedInit PROVE LockedInv
  OBVIOUS
<1>1. Locks!Init
  BY DEF LockedInit, Mutex!Init, Locks!Init, Mutex!Objects, Locks!Objects
<1>2. Locks!IInv
  BY <1>1, MutexNames, Locks!InitIInv
<1>3. Coupled
  BY NamesAssumption DEF LockedInit, Init, Mutex!Init, Coupled, AsksForOwn, InIsCritical,
     LockIsMutex, Critical
<1> QED
  BY <1>2, <1>3, InitType DEF LockedInit, LockedInv, Coupled

LEMMA LockedInvariant == LockedSpec => []LockedInv
<1>1. Locks!Init => Locks!IInv
  BY MutexNames, Locks!InitIInv
<1>2. LockedInv /\ [LockedNext]_lockedVars /\ (Locks!Init' => Locks!IInv') => LockedInv'
  BY LockedStepKeeps, NextType DEF LockedInv, Coupled
<1> QED
  BY <1>1, <1>2, LockedInitInv, PTL DEF LockedSpec

(* Every behaviour of the receiver with the statements of keyedMutex is a  *)
(* behaviour of Webhook: the mutexes made on demand, and made anew by each *)
(* restart, serve as one lock per contact.                                 *)
THEOREM LockedIsWebhook == LockedSpec => ImplementsWebhook
<1>1. LockedInit => Init
  BY DEF LockedInit
<1>2. LockedInv /\ [LockedNext]_lockedVars => [Next]_vars
  BY LockedStepKeeps
<1> QED
  BY <1>1, <1>2, LockedInvariant, PTL DEF LockedSpec, ImplementsWebhook, Spec
(* With the lock the code has, a contact belongs to one handler at a time, *)
(* and its mutex is given back to nobody else's.                           *)
THEOREM LockedContactsAreSerialized == LockedSpec => []OneHandlerPerContact
  BY LockedIsWebhook, ContactsAreSerialized, PTL DEF ImplementsWebhook

(* With the lock the code has, a message gets at most one note.            *)
THEOREM LockedNotesAreUnique == LockedSpec => []AtMostOneNote
  BY LockedIsWebhook, NotesAreUnique, PTL DEF ImplementsWebhook

(* With the lock the code has, the receiver takes a message up once.       *)
THEOREM LockedDraftsOnce == LockedSpec => ImplementsDraftOnce
  BY LockedIsWebhook, WebhookDraftsOnce, PTL DEF ImplementsWebhook

(* With the lock the code has, and without the faults that Undisturbed     *)
(* names, two messages of a contact do not undo each other's attributes.   *)
THEOREM LockedPatchesAreMerged == ASSUME Undisturbed PROVE LockedSpec => PatchesDontClobber
  BY LockedIsWebhook, PatchesAreMerged, PTL DEF ImplementsWebhook

(* Nobody who is inside, or waits for a contact, keeps the map locked.     *)
THEOREM MapStaysFree == LockedSpec => []MapIsFree
<1>1. LockedInv => MapIsFree
  <2> SUFFICES ASSUME LockedInv, mu # None PROVE pc[mu] = "lock" /\ at[mu] # "wait"
    BY DEF MapIsFree
  <2>1. Locks!TypeOK /\ Locks!MapGuarded
    BY MutexNames DEF LockedInv, Locks!IInv
  <2>2. mu \in Handlers /\ at[mu] \in {"lookup", "insert", "unlockmap"}
    BY <2>1 DEF Locks!TypeOK, Locks!MapGuarded
  <2> QED
    BY <2>2 DEF LockedInv, AsksForOwn, InIsCritical
<1> QED
  BY <1>1, LockedInvariant, PTL
=============================================================================
