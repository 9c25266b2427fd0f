--------------------------- MODULE WebhookProofs ---------------------------
(***************************************************************************)
(* Theorems about Webhook for every set of handlers, messages, contacts    *)
(* and faults.                                                             *)
(***************************************************************************)
EXTENDS Webhook, DraftingProofs

LEMMA DraftsAreTyped == Failure \in Drafts /\ Holding \in Drafts /\ Drafted \subseteq Drafts
  BY DraftsKeepPromises

LEMMA InitType == Init => TypeOK
  BY DraftsAreTyped, InboxAssumption DEF Init, TypeOK, Values, May

LEMMA StepType == ASSUME TypeOK, NEW h \in Handlers, Step(h) PROVE TypeOK'
<1> USE EventAssumption DEF goto, local, chatwoot
<1>1. msg[h] \in Msgs /\ Contact(h) \in Contacts /\ Conv(h) \in Convs
  BY DEF TypeOK, Step, Work, Gate, Mark, Acquire, Read, Draft, PostNote, AfterNote, Merge,
         AfterMerge, SetLabels, AfterLabels, Unlock, Contact, Conv
<1>2. CASE Gate(h)
  BY <1>2, DraftsAreTyped DEF TypeOK, Gate, Finish
<1>3. CASE Mark(h)
  BY <1>1, <1>3, DraftsAreTyped DEF TypeOK, Mark, Finish
<1>4. CASE Acquire(h)
  BY <1>1, <1>4 DEF TypeOK, Acquire, Critical
<1>5. CASE Read(h)
  BY <1>5, DraftsAreTyped DEF TypeOK, Read, Critical
<1>6. CASE Draft(h)
  <2>1. PICK d \in Drafted \cup {Holding} : draft' = [draft EXCEPT ![h] = d]
    BY <1>6 DEF Draft
  <2>2. d \in Drafts
    BY DraftsAreTyped
  <2> QED
    BY <1>6, <2>1, <2>2 DEF TypeOK, Draft, Critical
<1>7. CASE PostNote(h)
  <2>1. RenderNote(draft[h]) \in Notes
    BY DEF TypeOK, Drafts, RenderNote, Notes
  <2>2. Request(h, "note", RenderNote(draft[h])) \in Requests
    BY <1>1, <2>1 DEF Request, Requests
  <2> QED
    BY <1>7, <2>2 DEF TypeOK, PostNote, Critical
<1>8. CASE AfterNote(h)
  BY <1>8 DEF TypeOK, AfterNote, Critical
<1>9. CASE Merge(h)
  <2>1. Merged(h) \in [Keys -> Values]
    BY <1>1 DEF TypeOK, Merged, Written, Values
  <2>2. Request(h, "put", Merged(h)) \in Requests
    BY <1>1, <2>1 DEF Request, Requests
  <2> QED
    BY <1>9, <2>2 DEF TypeOK, Merge, Critical
<1>10. CASE AfterMerge(h)
  BY <1>10 DEF TypeOK, AfterMerge, Critical
<1>11. CASE SetLabels(h)
  <2>1. draft[h].status \in Labels \cup {None}
    BY DEF TypeOK, Drafts
  <2>2. draft[h].status # None =>
          Request(h, "labels", labels[Conv(h)] \cup {draft[h].status}) \in Requests
    BY <1>1, <2>1 DEF TypeOK, Request, Requests
  <2> QED
    BY <1>11, <2>2 DEF TypeOK, SetLabels, Critical
<1>12. CASE AfterLabels(h)
  BY <1>12 DEF TypeOK, AfterLabels, Critical
<1>13. CASE Unlock(h)
  BY <1>1, <1>13, DraftsAreTyped DEF TypeOK, Unlock, Finish
<1> QED
  BY <1>2, <1>3, <1>4, <1>5, <1>6, <1>7, <1>8, <1>9, <1>10, <1>11, <1>12, <1>13 DEF Step, Work

LEMMA EnvironmentType == TypeOK /\ Environment => TypeOK'
<1> SUFFICES ASSUME TypeOK, Environment PROVE TypeOK'
  OBVIOUS
<1> USE EventAssumption DEF local, chatwoot
<1>1. ASSUME NEW h \in Handlers, ContextEnds(h) PROVE TypeOK'
  BY <1>1 DEF TypeOK, ContextEnds
<1>2. ASSUME NEW h \in Handlers, NEW m \in Msgs, Deliver(h, m) PROVE TypeOK'
  BY <1>2 DEF TypeOK, Deliver, goto
<1>3. ASSUME NEW r \in sent, Apply(r) PROVE TypeOK'
  <2>1. r \in Requests
    BY DEF TypeOK
  <2>2. /\ r.kind = "put" => r.body \in [Keys -> Values]
        /\ r.kind = "labels" => r.body \in SUBSET Labels
        /\ r.msg \in Msgs
    BY <2>1 DEF Requests
  <2>3. Event[r.msg].contact \in Contacts /\ Event[r.msg].conv \in Convs
    BY <2>2
  <2>4. notes' \in [Msgs -> Nat]
    BY <1>3, <2>2 DEF TypeOK, Apply
  <2>5. profile' \in [Contacts -> [Keys -> Values]]
    BY <1>3, <2>2, <2>3 DEF TypeOK, Apply
  <2>6. labels' \in [Convs -> SUBSET Labels]
    BY <1>3, <2>2, <2>3 DEF TypeOK, Apply
  <2> QED
    BY <1>3, <2>4, <2>5, <2>6 DEF TypeOK, Apply
<1>4. ASSUME NEW r \in sent, Refuse(r) PROVE TypeOK'
  BY <1>4 DEF TypeOK, Refuse
<1>5. CASE Crash
  BY <1>5, DraftsAreTyped DEF TypeOK, Crash
<1>6. CASE FirstPublish
  BY <1>6 DEF TypeOK, FirstPublish
<1>7. ASSUME NEW off \in AtMostOneInbox, NEW on \in AtMostOneInbox, SwitchInbox(off, on)
      PROVE  TypeOK'
  BY <1>7 DEF TypeOK, SwitchInbox, AtMostOneInbox
<1>8. ASSUME NEW c \in Contacts, NEW k \in Keys, AgentSets(c, k) PROVE TypeOK'
  BY <1>8 DEF TypeOK, AgentSets, Values
<1>9. ASSUME NEW v \in Convs, NEW S \in SUBSET Labels, AgentLabels(v, S) PROVE TypeOK'
  BY <1>9 DEF TypeOK, AgentLabels
<1> QED
  BY <1>1, <1>2, <1>3, <1>4, <1>5, <1>6, <1>7, <1>8, <1>9 DEF Environment, Outside

LEMMA NextType == TypeOK /\ [Next]_vars => TypeOK'
<1>1. TypeOK /\ UNCHANGED vars => TypeOK'
  BY DEF TypeOK, vars, local, chatwoot
<1> QED
  BY <1>1, StepType, EnvironmentType DEF Next

(* Every variable keeps its type in every run, whatever goes wrong.        *)
THEOREM TypeCorrect == Spec => []TypeOK
  BY InitType, NextType, PTL DEF Spec

----------------------------------------------------------------------------
(* The lock.  A handler in the critical section has its contact's mutex,   *)
(* and a mutex that is taken is held by a handler in its critical section  *)
(* for that contact: the second half is what makes Unlock give back the    *)
(* right mutex and no path leave one locked.                               *)
CriticalHolds == \A h \in Handlers : pc[h] \in Critical => lock[Contact(h)] = h
LockIsUsed == \A c \in Contacts : lock[c] # None =>
                 pc[lock[c]] \in Critical /\ Contact(lock[c]) = c
LockInv == CriticalHolds /\ LockIsUsed

(* The steps a handler takes without touching any mutex.                   *)
Inside(h) == \/ Read(h) \/ Draft(h) \/ PostNote(h) \/ AfterNote(h) \/ Merge(h)
             \/ AfterMerge(h) \/ SetLabels(h) \/ AfterLabels(h)

LEMMA InsideStays == ASSUME TypeOK, NEW h \in Handlers, Inside(h)
                     PROVE /\ pc[h] \in Critical
                           /\ \E l \in Critical : pc' = [pc EXCEPT ![h] = l]
                           /\ UNCHANGED <<msg, ended, lock, processed, enabled, live>>
                           /\ UNCHANGED <<notes, profile, labels>>
  BY DEF Inside, Read, Draft, PostNote, AfterNote, Merge, AfterMerge, SetLabels, AfterLabels,
         Critical, goto, local, chatwoot, TypeOK

(* A step of one handler that leaves the mutexes and stays on its side of  *)
(* the critical section's border keeps the lock's invariant.               *)
LEMMA FrameLock ==
  ASSUME TypeOK, LockInv, NEW h \in Handlers, lock' = lock,
         \A g \in Handlers \ {h} : pc'[g] = pc[g] /\ msg'[g] = msg[g],
         \/ pc[h] \notin Critical /\ pc'[h] \notin Critical
         \/ pc[h] \in Critical /\ pc'[h] \in Critical /\ msg'[h] = msg[h]
  PROVE  LockInv'
<1> USE DEF Contact, TypeOK
<1>1. CriticalHolds'
  BY DEF LockInv, CriticalHolds
<1>2. LockIsUsed'
  <2> SUFFICES ASSUME NEW c \in Contacts, lock[c] # None
               PROVE pc'[lock[c]] \in Critical /\ Event[msg'[lock[c]]].contact = c
    BY DEF LockIsUsed
  <2>1. lock[c] \in Handlers /\ pc[lock[c]] \in Critical /\ Event[msg[lock[c]]].contact = c
    BY DEF LockInv, LockIsUsed
  <2> QED
    BY <2>1
<1> QED
  BY <1>1, <1>2 DEF LockInv

LEMMA StepLock == ASSUME TypeOK, LockInv, NEW h \in Handlers, Step(h) PROVE LockInv'
<1> USE EventAssumption, NamesAssumption DEF local, chatwoot
<1>1. CASE Gate(h)
  <2>1. pc[h] \notin Critical /\ pc'[h] \notin Critical
    BY <1>1 DEF TypeOK, Gate, Finish, goto, Critical
  <2>2. lock' = lock /\ \A g \in Handlers \ {h} : pc'[g] = pc[g] /\ msg'[g] = msg[g]
    BY <1>1 DEF TypeOK, Gate, Finish, goto
  <2> QED
    BY <2>1, <2>2, FrameLock
<1>2. CASE Mark(h)
  <2>1. pc[h] \notin Critical /\ pc'[h] \notin Critical
    BY <1>2 DEF TypeOK, Mark, Finish, goto, Critical
  <2>2. lock' = lock /\ \A g \in Handlers \ {h} : pc'[g] = pc[g] /\ msg'[g] = msg[g]
    BY <1>2 DEF TypeOK, Mark, Finish, goto
  <2> QED
    BY <2>1, <2>2, FrameLock
<1>3. CASE Acquire(h)
  BY <1>3 DEF Acquire, goto, Critical, LockInv, CriticalHolds, LockIsUsed, TypeOK, Contact
<1>4. CASE Inside(h)
  <2>1. PICK l \in Critical : pc' = [pc EXCEPT ![h] = l]
    BY <1>4, InsideStays
  <2>2. pc[h] \in Critical /\ msg' = msg /\ lock' = lock
    BY <1>4, InsideStays
  <2>3. pc'[h] \in Critical /\ \A g \in Handlers \ {h} : pc'[g] = pc[g]
    BY <2>1 DEF TypeOK
  <2> QED
    BY <2>2, <2>3, FrameLock
<1>5. CASE Unlock(h)
  BY <1>5 DEF Unlock, Finish, goto, Critical, LockInv, CriticalHolds, LockIsUsed, TypeOK, Contact
<1> QED
  BY <1>1, <1>2, <1>3, <1>4, <1>5 DEF Step, Work, Inside

LEMMA EnvironmentLock == TypeOK /\ LockInv /\ Environment => LockInv'
<1> SUFFICES ASSUME TypeOK, LockInv, Environment PROVE LockInv'
  OBVIOUS
<1> USE EventAssumption, NamesAssumption
    DEF LockInv, CriticalHolds, LockIsUsed, TypeOK, Contact, local, chatwoot
<1>1. ASSUME NEW h \in Handlers, NEW m \in Msgs, Deliver(h, m) PROVE LockInv'
  BY <1>1 DEF Deliver, goto, Critical
<1>2. CASE Crash
  BY <1>2 DEF Crash, Critical
<1>3. CASE UNCHANGED <<pc, msg, lock>>
  BY <1>3
<1>4. (\E h \in Handlers : ContextEnds(h)) \/ (\E r \in sent : Apply(r) \/ Refuse(r))
      \/ FirstPublish \/ (\E off, on \in AtMostOneInbox : SwitchInbox(off, on))
      \/ (\E c \in Contacts, k \in Keys : AgentSets(c, k))
      \/ (\E v \in Convs, S \in SUBSET Labels : AgentLabels(v, S))
      => UNCHANGED <<pc, msg, lock>>
  BY DEF ContextEnds, Apply, Refuse, FirstPublish, SwitchInbox, AgentSets, AgentLabels
<1> QED
  BY <1>1, <1>2, <1>3, <1>4 DEF Environment, Outside

LEMMA LockInvariant == Spec => [](TypeOK /\ LockInv)
<1>1. Init => LockInv
  BY DEF Init, LockInv, CriticalHolds, LockIsUsed, Critical
<1>2. TypeOK /\ LockInv /\ [Next]_vars => LockInv'
  <2>1. LockInv /\ UNCHANGED vars => LockInv'
    BY DEF LockInv, CriticalHolds, LockIsUsed, Contact, vars, local
  <2> QED
    BY <2>1, StepLock, EnvironmentLock DEF Next
<1> QED
  BY <1>1, <1>2, TypeCorrect, PTL DEF Spec

(* Two messages of one contact are never between Lock and the deferred     *)
(* unlock at once, and a mutex that is taken has its owner inside.         *)
THEOREM ContactsAreSerialized == Spec => []OneHandlerPerContact
<1>1. LockInv => OneHandlerPerContact
  BY DEF LockInv, CriticalHolds, LockIsUsed, OneHandlerPerContact
<1> QED
  BY <1>1, LockInvariant, PTL

----------------------------------------------------------------------------
(* The notes.  Serving is everything after a successful insert.            *)
Serving == {"lock"} \cup Critical

(* A message being served is in processed_messages, and one handler has it.*)
ServedIsSeen == \A h \in Handlers : pc[h] \in Serving => msg[h] \in processed
ServedByOne == \A g, h \in Handlers :
   pc[g] \in Serving /\ pc[h] \in Serving /\ msg[g] = msg[h] => g = h
(* Its note is neither posted nor on its way before PostPrivateNote.       *)
NoNoteYet == \A h \in Handlers : pc[h] \in BeforeNote =>
   notes[msg[h]] = 0 /\ \A r \in sent : ~(r.kind = "note" /\ r.msg = msg[h])
(* A note on its way is the only one its message has or will have.         *)
OnTheWayIsFirst == \A r \in sent : r.kind = "note" => r.msg \in processed /\ notes[r.msg] = 0
OnTheWayIsAlone == \A r, s \in sent :
   r.kind = "note" /\ s.kind = "note" /\ r.msg = s.msg => r = s
NotesNeedInsert == \A m \in Msgs : notes[m] \in {0, 1} /\ (m \notin processed => notes[m] = 0)

NoteInv == /\ ServedIsSeen /\ ServedByOne /\ NoNoteYet
           /\ OnTheWayIsFirst /\ OnTheWayIsAlone /\ NotesNeedInsert

(* A quiet step takes up no message and sends and applies no note.         *)
Quiet == /\ \A h \in Handlers : pc'[h] \in Serving => pc[h] \in Serving /\ msg'[h] = msg[h]
         /\ \A h \in Handlers : pc'[h] \in BeforeNote => pc[h] \in BeforeNote
         /\ processed' = processed /\ notes' = notes
         /\ \A r \in sent' : r.kind = "note" => r \in sent

TakesUp(h) == /\ pc[h] = "mark" /\ msg[h] \notin processed
              /\ processed' = processed \cup {msg[h]}
              /\ pc' = [pc EXCEPT ![h] = "lock"]
              /\ UNCHANGED <<msg, sent, notes>>

Sends(h) == /\ pc[h] = "note" /\ pc' = [pc EXCEPT ![h] = "noteSent"]
            /\ sent' = sent \cup {Request(h, "note", RenderNote(draft[h]))}
            /\ UNCHANGED <<msg, processed, notes>>

Posts(r) == /\ r \in sent /\ r.kind = "note"
            /\ sent' = sent \ {r}
            /\ notes' = [notes EXCEPT ![r.msg] = @ + 1]
            /\ UNCHANGED <<pc, msg, processed>>

LEMMA StepKinds == ASSUME TypeOK, NEW h \in Handlers, Step(h)
                   PROVE Quiet \/ TakesUp(h) \/ Sends(h)
<1> USE DEF local, chatwoot, goto, Serving, Critical, BeforeNote, TypeOK
<1>1. CASE Gate(h)
  BY <1>1 DEF Gate, Finish, Quiet
<1>2. CASE Mark(h)
  <2>1. CASE processed' = processed /\ Finish(h)
    BY <1>2, <2>1 DEF Mark, Finish, Quiet
  <2> QED
    BY <1>2, <2>1 DEF Mark, TakesUp
<1>3. CASE Acquire(h)
  BY <1>3 DEF Acquire, Quiet
<1>4. CASE Read(h)
  BY <1>4 DEF Read, Quiet
<1>5. CASE Draft(h)
  BY <1>5 DEF Draft, Quiet
<1>6. CASE PostNote(h)
  <2>1. CASE sent' = sent
    BY <1>6, <2>1 DEF PostNote, Quiet
  <2> QED
    BY <1>6, <2>1 DEF PostNote, Sends
<1>7. CASE AfterNote(h) \/ AfterMerge(h) \/ AfterLabels(h)
  BY <1>7 DEF AfterNote, AfterMerge, AfterLabels, Quiet
<1>8. CASE Merge(h)
  BY <1>8 DEF Merge, Request, Quiet
<1>9. CASE SetLabels(h)
  BY <1>9 DEF SetLabels, Request, Quiet
<1>10. CASE Unlock(h)
  BY <1>10 DEF Unlock, Finish, Quiet
<1> QED
  BY <1>1, <1>2, <1>3, <1>4, <1>5, <1>6, <1>7, <1>8, <1>9, <1>10 DEF Step, Work

LEMMA EnvironmentKinds == TypeOK /\ Environment => Quiet \/ \E r \in sent : Posts(r)
<1> SUFFICES ASSUME TypeOK, Environment PROVE Quiet \/ \E r \in sent : Posts(r)
  OBVIOUS
<1> USE DEF local, chatwoot
<1>1. ASSUME NEW h \in Handlers, NEW m \in Msgs, Deliver(h, m) PROVE Quiet
  BY <1>1 DEF Deliver, goto, Quiet, Serving, Critical, BeforeNote, TypeOK
<1>2. CASE Crash
  BY <1>2 DEF Crash, Quiet, Serving, Critical, BeforeNote
<1>3. ASSUME NEW r \in sent, Apply(r) PROVE Quiet \/ Posts(r)
  BY <1>3 DEF Apply, Quiet, Posts
<1>4. (\E h \in Handlers : ContextEnds(h)) \/ (\E r \in sent : Refuse(r))
      \/ FirstPublish \/ (\E off, on \in AtMostOneInbox : SwitchInbox(off, on))
      \/ (\E c \in Contacts, k \in Keys : AgentSets(c, k))
      \/ (\E v \in Convs, S \in SUBSET Labels : AgentLabels(v, S))
      => Quiet
  BY DEF ContextEnds, Refuse, FirstPublish, SwitchInbox, AgentSets, AgentLabels, Quiet
<1> QED
  BY <1>1, <1>2, <1>3, <1>4 DEF Environment, Outside

LEMMA QuietNotes == TypeOK /\ TypeOK' /\ NoteInv /\ Quiet => NoteInv'
<1> SUFFICES ASSUME TypeOK, TypeOK', NoteInv, Quiet PROVE NoteInv'
  OBVIOUS
<1> USE DEF NoteInv, Quiet
<1>1. BeforeNote \subseteq Serving
  BY DEF BeforeNote, Serving, Critical
<1>2. ServedIsSeen'
  BY DEF ServedIsSeen
<1>3. ServedByOne'
  BY DEF ServedByOne
<1>4. NoNoteYet'
  BY <1>1 DEF NoNoteYet
<1>5. OnTheWayIsFirst' /\ OnTheWayIsAlone' /\ NotesNeedInsert'
  BY DEF OnTheWayIsFirst, OnTheWayIsAlone, NotesNeedInsert
<1> QED
  BY <1>2, <1>3, <1>4, <1>5

LEMMA TakeUpNotes == ASSUME TypeOK, NoteInv, NEW h \in Handlers, TakesUp(h) PROVE NoteInv'
<1> USE DEF NoteInv, TakesUp, TypeOK
<1>1. msg[h] \in Msgs
  OBVIOUS
<1>2. ServedIsSeen'
  BY DEF ServedIsSeen, Serving
<1>3. ServedByOne'
  BY DEF ServedByOne, ServedIsSeen, Serving
<1>4. NoNoteYet'
  BY <1>1 DEF NoNoteYet, OnTheWayIsFirst, NotesNeedInsert, BeforeNote
<1>5. OnTheWayIsFirst' /\ OnTheWayIsAlone' /\ NotesNeedInsert'
  BY <1>1 DEF OnTheWayIsFirst, OnTheWayIsAlone, NotesNeedInsert
<1> QED
  BY <1>2, <1>3, <1>4, <1>5

LEMMA SendNotes == ASSUME TypeOK, NoteInv, NEW h \in Handlers, Sends(h) PROVE NoteInv'
<1> USE DEF NoteInv, Sends, TypeOK
<1>1. "note" \in BeforeNote /\ "noteSent" \notin BeforeNote
      /\ "note" \in Serving /\ BeforeNote \subseteq Serving
  BY DEF BeforeNote, Serving, Critical
<1>2. /\ msg[h] \in processed /\ notes[msg[h]] = 0
      /\ \A r \in sent : ~(r.kind = "note" /\ r.msg = msg[h])
  BY <1>1 DEF NoNoteYet, ServedIsSeen
<1>3. \A r \in sent' : r.kind = "note" => r \in sent \/ r.msg = msg[h]
  BY DEF Request
<1>4. \A r \in sent' \ sent : r = Request(h, "note", RenderNote(draft[h]))
  OBVIOUS
<1>5. \A g \in Handlers : /\ pc'[g] \in Serving => pc[g] \in Serving
                          /\ pc'[g] \in BeforeNote => g # h /\ pc[g] \in BeforeNote
  BY <1>1
<1>6. ServedIsSeen' /\ ServedByOne'
  BY <1>5 DEF ServedIsSeen, ServedByOne
<1>7. NoNoteYet'
  BY <1>1, <1>3, <1>5 DEF NoNoteYet, ServedByOne
<1>8. OnTheWayIsFirst'
  BY <1>2, <1>3 DEF OnTheWayIsFirst
<1>9. OnTheWayIsAlone'
  BY <1>2, <1>3, <1>4 DEF OnTheWayIsAlone
<1>10. NotesNeedInsert'
  BY DEF NotesNeedInsert
<1> QED
  BY <1>6, <1>7, <1>8, <1>9, <1>10

LEMMA PostNotes == ASSUME TypeOK, NoteInv, NEW r \in sent, Posts(r) PROVE NoteInv'
<1> USE DEF NoteInv, Posts, TypeOK
<1>1. r.msg \in Msgs
  BY DEF Requests
<1>2. /\ notes[r.msg] = 0 /\ notes'[r.msg] = 1 /\ r.msg \in processed
      /\ \A m \in Msgs \ {r.msg} : notes'[m] = notes[m]
  BY <1>1 DEF OnTheWayIsFirst
<1>3. \A s \in sent' : s.kind = "note" => s.msg # r.msg
  BY DEF OnTheWayIsAlone
<1>4. ServedIsSeen' /\ ServedByOne'
  BY DEF ServedIsSeen, ServedByOne
<1>5. \A h \in Handlers : pc[h] \in BeforeNote => msg[h] # r.msg
  BY DEF NoNoteYet
<1>6. NoNoteYet'
  BY <1>2, <1>5 DEF NoNoteYet
<1>7. OnTheWayIsFirst'
  BY <1>2, <1>3 DEF OnTheWayIsFirst, Requests
<1>8. OnTheWayIsAlone' /\ NotesNeedInsert'
  BY <1>1, <1>2 DEF OnTheWayIsAlone, NotesNeedInsert
<1> QED
  BY <1>4, <1>6, <1>7, <1>8

LEMMA NoteInvariant == Spec => [](TypeOK /\ NoteInv)
<1>1. Init => NoteInv
  BY DEF Init, NoteInv, ServedIsSeen, ServedByOne, NoNoteYet, OnTheWayIsFirst,
         OnTheWayIsAlone, NotesNeedInsert, Serving, Critical, BeforeNote
<1>2. TypeOK /\ TypeOK' /\ NoteInv /\ [Next]_vars => NoteInv'
  <2>1. UNCHANGED vars => Quiet
    BY DEF vars, local, chatwoot, Quiet
  <2> QED
    BY <2>1, StepKinds, EnvironmentKinds, QuietNotes, TakeUpNotes, SendNotes, PostNotes DEF Next
<1> QED
  BY <1>1, <1>2, TypeCorrect, PTL DEF Spec

(* However often a message is delivered and whatever fails, restarts or    *)
(* arrives late, its notes and those on their way are at most one.         *)
THEOREM NotesAreUnique == Spec => []AtMostOneNote
<1>1. TypeOK /\ NoteInv => AtMostOneNote
  <2> SUFFICES ASSUME TypeOK, NoteInv, NEW m \in Msgs
               PROVE notes[m] + Cardinality(NotesOnTheWay(m)) <= 1
    BY DEF AtMostOneNote
  <2>1. notes[m] \in {0, 1}
    BY DEF NoteInv, NotesNeedInsert
  <2>2. CASE NotesOnTheWay(m) = {}
    BY <2>1, <2>2, FS_EmptySet
  <2>3. ASSUME NEW r \in NotesOnTheWay(m) PROVE notes[m] + Cardinality(NotesOnTheWay(m)) <= 1
    <3>1. NotesOnTheWay(m) = {r} /\ notes[m] = 0
      BY DEF NotesOnTheWay, NoteInv, OnTheWayIsFirst, OnTheWayIsAlone
    <3>2. Cardinality({r}) = 1
      BY FS_Singleton
    <3> QED
      BY <3>1, <3>2
  <2> QED
    BY <2>2, <2>3
<1> QED
  BY <1>1, NoteInvariant, PTL

----------------------------------------------------------------------------
(* Refinement of DraftOnce.                                                *)
LEMMA InitOnce == Init => Once!Init
  BY DEF Init, Once!Init, Open, NotesOnTheWay, BeforeNote

(* Only messages that passed shouldProcess come to the insert.             *)
PassedGate == \A h \in Handlers : pc[h] = "mark" => CustomerMessage(msg[h])

LEMMA PassedGateInvariant == Spec => [](TypeOK /\ PassedGate)
<1>1. Init => PassedGate
  BY DEF Init, PassedGate
<1>2. TypeOK /\ PassedGate /\ [Next]_vars => PassedGate'
  <2> SUFFICES ASSUME TypeOK, PassedGate, [Next]_vars PROVE PassedGate'
    OBVIOUS
  <2> USE DEF PassedGate, TypeOK, CustomerMessage
  <2>1. ASSUME NEW h \in Handlers, Step(h) PROVE PassedGate'
    BY <2>1, InsideStays DEF Step, Work, Inside, Gate, Mark, Acquire, Unlock, Finish, goto, Critical
  <2>2. CASE Environment
    BY <2>2 DEF Environment, Outside, ContextEnds, Deliver, Apply, Refuse, Crash, FirstPublish,
       SwitchInbox, AgentSets, AgentLabels, goto, local
  <2>3. CASE UNCHANGED vars
    BY <2>3 DEF vars, local
  <2> QED
    BY <2>1, <2>2, <2>3 DEF Next
<1> QED
  BY <1>1, <1>2, TypeCorrect, PTL DEF Spec

LEMMA QuietOnce == ASSUME TypeOK, Quiet PROVE Once!GiveUp(Open \ Open')
<1>1. Open' \subseteq Open
  BY DEF Quiet, Open, NotesOnTheWay, Serving, BeforeNote, Critical
<1> QED
  BY <1>1 DEF Quiet, Once!GiveUp

LEMMA TakeUpOnce ==
  ASSUME TypeOK, PassedGate, NEW h \in Handlers, TakesUp(h) PROVE Once!TakeUp(msg[h])
<1>1. msg[h] \in {m \in Msgs : CustomerMessage(m)} \ processed
  BY DEF TypeOK, PassedGate, TakesUp
<1>2. Open' = Open \cup {msg[h]}
  <2>1. \A g \in Handlers : pc'[g] \in BeforeNote <=> g = h \/ pc[g] \in BeforeNote
    BY DEF TakesUp, TypeOK, BeforeNote
  <2> QED
    BY <1>1, <2>1 DEF TakesUp, Open, NotesOnTheWay
<1> QED
  BY <1>1, <1>2 DEF TakesUp, Once!TakeUp

LEMMA SendOnce == ASSUME TypeOK, NEW h \in Handlers, Sends(h)
                  PROVE UNCHANGED <<processed, Open, notes>>
<1>1. \A g \in Handlers : pc[g] \in BeforeNote <=> g = h \/ pc'[g] \in BeforeNote
  BY DEF Sends, TypeOK, BeforeNote
<1>2. \A m \in Msgs : (\E r \in sent' : r.kind = "note" /\ r.msg = m)
                      <=> m = msg[h] \/ \E r \in sent : r.kind = "note" /\ r.msg = m
  <2> DEFINE new == Request(h, "note", RenderNote(draft[h]))
  <2>1. new.kind = "note" /\ new.msg = msg[h]
    BY DEF Request
  <2>2. sent' = sent \cup {new}
    BY DEF Sends
  <2> HIDE DEF new
  <2> QED
    BY <2>1, <2>2
<1>3. pc[h] \in BeforeNote
  BY DEF Sends, BeforeNote
<1>4. Open' = Open
  BY <1>1, <1>2, <1>3 DEF Sends, Open, NotesOnTheWay
<1> QED
  BY <1>4 DEF Sends

LEMMA PostOnce == ASSUME TypeOK, NoteInv, NEW r \in sent, Posts(r) PROVE Once!Post(r.msg)
<1>1. r.msg \in Msgs
  BY DEF TypeOK, Requests
<1>2. r.msg \in Open /\ Open' = Open \ {r.msg}
  <2>1. \A h \in Handlers : pc[h] \in BeforeNote => msg[h] # r.msg
    BY DEF NoteInv, NoNoteYet, Posts
  <2>2. \A m \in Msgs : (\E s \in sent' : s.kind = "note" /\ s.msg = m)
                        <=> m # r.msg /\ \E s \in sent : s.kind = "note" /\ s.msg = m
    BY DEF Posts, NoteInv, OnTheWayIsAlone
  <2> QED
    BY <1>1, <2>1, <2>2 DEF Posts, Open, NotesOnTheWay
<1> QED
  BY <1>2 DEF Posts, Once!Post

LEMMA StepOnce == TypeOK /\ NoteInv /\ PassedGate /\ [Next]_vars => [Once!Next]_(Once!vars)
<1> SUFFICES ASSUME TypeOK, NoteInv, PassedGate, [Next]_vars
             PROVE Once!Next \/ UNCHANGED <<processed, Open, notes>>
  BY DEF Once!vars
<1>1. ASSUME Quiet PROVE Once!Next
  <2>1. Open \ Open' \in SUBSET Msgs
    BY DEF Open, NotesOnTheWay
  <2> QED
    BY <1>1, <2>1, QuietOnce DEF Once!Next
<1>2. ASSUME NEW h \in Handlers, TakesUp(h) PROVE Once!Next
  <2>1. msg[h] \in Msgs
    BY <1>2 DEF TakesUp, TypeOK
  <2> QED
    BY <1>2, <2>1, TakeUpOnce DEF Once!Next
<1>3. ASSUME NEW r \in sent, Posts(r) PROVE Once!Next
  <2>1. r.msg \in Msgs
    BY DEF TypeOK, Requests
  <2> QED
    BY <1>3, <2>1, PostOnce DEF Once!Next
<1>4. UNCHANGED vars => Quiet
  BY DEF vars, local, chatwoot, Quiet
<1> QED
  BY <1>1, <1>2, <1>3, <1>4, StepKinds, EnvironmentKinds, SendOnce DEF Next

(* The webhook receiver implements DraftOnce: each step of it is a taking  *)
(* up, a posting or a giving up, or is invisible.                          *)
THEOREM WebhookDraftsOnce == Spec => ImplementsDraftOnce
  BY InitOnce, StepOnce, NoteInvariant, PassedGateInvariant, PTL
     DEF Spec, ImplementsDraftOnce, Once!Spec

----------------------------------------------------------------------------
(* What the drafts promise, carried to Chatwoot.  A draft in a handler's   *)
(* hands and a note on its way keep the promises of DraftsKeepPromises.    *)
DraftsPromise == \A h \in Handlers : Offered(draft[h]) /\ Stopped(draft[h])
NotesPromise == \A r \in sent : r.kind = "note" =>
                   Offered(r.body) /\ (r.body.escalate => r.body.media = {})
PromiseInv == DraftsPromise /\ NotesPromise

(* A step puts a draft into a handler's hands, sends the note of the one   *)
(* it has, or neither drafts nor sends a note.                             *)
Redrafts == \E h \in Handlers, d \in Drafted \cup {Holding, Failure} :
               draft' = [draft EXCEPT ![h] = d] /\ sent' = sent
Forgets == draft' = [h \in Handlers |-> Failure] /\ sent' = sent
Keeps == draft' = draft /\ \A r \in sent' : r.kind = "note" => r \in sent

LEMMA StepDrafts == ASSUME TypeOK, NEW h \in Handlers, Step(h)
                    PROVE Redrafts \/ Keeps \/ (Sends(h) /\ draft' = draft)
<1> USE DEF local, chatwoot, goto, Redrafts, Keeps
<1>1. CASE Gate(h)
  BY <1>1 DEF Gate, Finish
<1>2. CASE Mark(h)
  BY <1>2 DEF Mark, Finish
<1>3. CASE Acquire(h) \/ AfterNote(h) \/ AfterMerge(h) \/ AfterLabels(h)
  BY <1>3 DEF Acquire, AfterNote, AfterMerge, AfterLabels
<1>4. CASE Read(h)
  BY <1>4 DEF Read
<1>5. CASE Draft(h)
  BY <1>5 DEF Draft
<1>6. CASE PostNote(h)
  BY <1>6 DEF PostNote, Sends
<1>7. CASE Merge(h)
  BY <1>7 DEF Merge, Request
<1>8. CASE SetLabels(h)
  BY <1>8 DEF SetLabels, Request
<1>9. CASE Unlock(h)
  BY <1>9 DEF Unlock, Finish
<1> QED
  BY <1>1, <1>2, <1>3, <1>4, <1>5, <1>6, <1>7, <1>8, <1>9 DEF Step, Work

LEMMA EnvironmentDrafts == Environment => Forgets \/ Keeps
<1> SUFFICES ASSUME Environment PROVE Forgets \/ Keeps
  OBVIOUS
<1> USE DEF local, chatwoot, Forgets, Keeps
<1>1. (\E h \in Handlers : ContextEnds(h) \/ \E m \in Msgs : Deliver(h, m)) => Keeps
  BY DEF ContextEnds, Deliver
<1>2. (\E r \in sent : Apply(r) \/ Refuse(r)) => Keeps
  BY DEF Apply, Refuse
<1>3. Crash => Forgets
  BY DEF Crash
<1>4. FirstPublish \/ (\E off, on \in AtMostOneInbox : SwitchInbox(off, on))
      \/ (\E c \in Contacts, k \in Keys : AgentSets(c, k))
      \/ (\E v \in Convs, S \in SUBSET Labels : AgentLabels(v, S)) => Keeps
  BY DEF FirstPublish, SwitchInbox, AgentSets, AgentLabels
<1> QED
  BY <1>1, <1>2, <1>3, <1>4 DEF Environment, Outside

LEMMA PromiseInvariant == Spec => []PromiseInv
<1>1. Init => PromiseInv
  BY DraftsKeepPromises DEF Init, PromiseInv, DraftsPromise, NotesPromise
<1>2. TypeOK /\ PromiseInv /\ [Next]_vars => PromiseInv'
  <2> SUFFICES ASSUME TypeOK, PromiseInv, [Next]_vars PROVE PromiseInv'
    OBVIOUS
  <2> USE DEF PromiseInv, DraftsPromise, NotesPromise
  <2>1. CASE Redrafts
    <3>1. PICK h \in Handlers, d \in Drafted \cup {Holding, Failure} :
             draft' = [draft EXCEPT ![h] = d] /\ sent' = sent
      BY <2>1 DEF Redrafts
    <3>2. Offered(d) /\ Stopped(d)
      BY DraftsKeepPromises
    <3> QED
      BY <3>1, <3>2 DEF TypeOK
  <2>2. CASE Forgets
    BY <2>2, DraftsKeepPromises DEF Forgets
  <2>3. CASE Keeps
    BY <2>3 DEF Keeps
  <2>4. ASSUME NEW h \in Handlers, Sends(h), draft' = draft PROVE PromiseInv'
    <3> DEFINE new == Request(h, "note", RenderNote(draft[h]))
    <3>1. /\ new.body.text = draft[h].text /\ new.body.media = draft[h].media
          /\ new.body.escalate = draft[h].escalate
      BY DEF Request, RenderNote
    <3>2. Offered(new.body) /\ (new.body.escalate => new.body.media = {})
      BY <3>1 DEF Offered, Stopped
    <3>3. sent' = sent \cup {new}
      BY <2>4 DEF Sends
    <3> HIDE DEF new
    <3> QED
      BY <2>4, <3>2, <3>3
  <2>5. CASE UNCHANGED vars
    BY <2>5 DEF vars, local, chatwoot
  <2> QED
    BY <2>1, <2>2, <2>3, <2>4, <2>5, StepDrafts, EnvironmentDrafts DEF Next
<1> QED
  BY <1>1, <1>2, TypeCorrect, PTL DEF Spec

(* Whatever the model writes and the placeholders hold, no note that       *)
(* offers a reply has a token or a "{{" in it, or more than three files.   *)
THEOREM NotesAreRendered == Spec => []OffersAreRendered
<1>1. TypeOK /\ PromiseInv => OffersAreRendered
  <2> SUFFICES ASSUME TypeOK, PromiseInv,
                      NEW r \in sent, r.kind = "note", ~r.body.escalate
               PROVE  /\ Offered(r.body)
                      /\ \A file \in r.body.media : file[2] \in Catalogue
    BY DEF OffersAreRendered, Offered
  <2>1. r.body \in Notes
    BY DEF TypeOK, Requests
  <2>2. r.body.media \in SUBSET (Nat \X Catalogue)
    BY <2>1 DEF Notes
  <2> QED
    BY <2>2 DEF PromiseInv, NotesPromise
<1> QED
  BY <1>1, TypeCorrect, PromiseInvariant, PTL

----------------------------------------------------------------------------
(* The other writes.  A PUT or a POST of labels on its way is of a message *)
(* that was taken up; no handler has a message with such a write until it  *)
(* passed the note, and none whose draft is an escalation ever does.       *)
NoWriteYet == BeforeNote \cup {"noteSent"}
Writes(m) == {r \in sent : r.kind # "note" /\ r.msg = m}
WriteIsSeen == \A r \in sent : r.kind # "note" => r.msg \in processed
WritesAreWanted == \A h \in Handlers :
   pc[h] \in Serving /\ (pc[h] \in NoWriteYet \/ draft[h].escalate) => Writes(msg[h]) = {}
WriteInv == WriteIsSeen /\ WritesAreWanted

(* A step that sends no PUT and no labels: a handler that must not have a  *)
(* write already had none before it, or took its message up just now.      *)
NoNewWrite == /\ processed \subseteq processed'
              /\ \A r \in sent' : r.kind # "note" => r \in sent
              /\ \A h \in Handlers :
                    pc'[h] \in Serving /\ (pc'[h] \in NoWriteYet \/ draft'[h].escalate) =>
                       \/ /\ msg'[h] = msg[h] /\ pc[h] \in Serving
                          /\ pc[h] \in NoWriteYet \/ draft[h].escalate
                       \/ msg'[h] \notin processed

(* A step in which a handler that has a plain reply sends such a write.    *)
SendsWrite(h) == /\ pc[h] \in Serving \ NoWriteYet /\ ~draft[h].escalate
                 /\ \E l \in Serving \ NoWriteYet : pc' = [pc EXCEPT ![h] = l]
                 /\ UNCHANGED <<msg, draft, processed>>
                 /\ \A r \in sent' : r.kind # "note" => r \in sent \/ r.msg = msg[h]

LEMMA StepWrites == ASSUME TypeOK, PromiseInv, NEW h \in Handlers, Step(h)
                    PROVE NoNewWrite \/ SendsWrite(h)
<1> USE DEF local, chatwoot, goto, NoNewWrite, Serving, Critical, NoWriteYet, BeforeNote, TypeOK
<1>1. CASE Gate(h)
  BY <1>1 DEF Gate, Finish
<1>2. CASE Mark(h)
  BY <1>2 DEF Mark, Finish
<1>3. CASE Acquire(h)
  BY <1>3 DEF Acquire
<1>4. CASE Read(h)
  BY <1>4 DEF Read
<1>5. CASE Draft(h)
  BY <1>5 DEF Draft
<1>6. CASE PostNote(h)
  BY <1>6 DEF PostNote, Request
<1>7. CASE AfterNote(h)
  BY <1>7 DEF AfterNote
<1>8. CASE AfterMerge(h) \/ AfterLabels(h)
  BY <1>8 DEF AfterMerge, AfterLabels
<1>9. CASE Merge(h)
  <2>1. CASE sent' = sent
    BY <1>9, <2>1 DEF Merge
  <2>2. CASE draft[h].patch # NoPatch /\ sent' # sent
    <3>1. ~draft[h].escalate
      BY <2>2 DEF PromiseInv, DraftsPromise, Stopped
    <3> QED
      <4>1. /\ pc[h] \in Serving \ NoWriteYet
            /\ pc' = [pc EXCEPT ![h] = "mergeSent"] /\ "mergeSent" \in Serving \ NoWriteYet
            /\ UNCHANGED <<msg, draft, processed>>
        BY <1>9 DEF Merge
      <4>2. \A r \in sent' : r.kind # "note" => r \in sent \/ r.msg = msg[h]
        BY <1>9 DEF Merge, Request
      <4> QED
        BY <3>1, <4>1, <4>2 DEF SendsWrite
  <2> QED
    BY <1>9, <2>1, <2>2 DEF Merge
<1>10. CASE SetLabels(h)
  <2>1. CASE sent' = sent
    BY <1>10, <2>1 DEF SetLabels
  <2>2. CASE draft[h].status # None /\ sent' # sent
    <3>1. ~draft[h].escalate
      BY <2>2 DEF PromiseInv, DraftsPromise, Stopped
    <3> QED
      <4>1. /\ pc[h] \in Serving \ NoWriteYet
            /\ pc' = [pc EXCEPT ![h] = "labelsSent"] /\ "labelsSent" \in Serving \ NoWriteYet
            /\ UNCHANGED <<msg, draft, processed>>
        BY <1>10 DEF SetLabels
      <4>2. \A r \in sent' : r.kind # "note" => r \in sent \/ r.msg = msg[h]
        BY <1>10 DEF SetLabels, Request
      <4> QED
        BY <3>1, <4>1, <4>2 DEF SendsWrite
  <2> QED
    BY <1>10, <2>1, <2>2 DEF SetLabels
<1>11. CASE Unlock(h)
  BY <1>11 DEF Unlock, Finish
<1> QED
  BY <1>1, <1>2, <1>3, <1>4, <1>5, <1>6, <1>7, <1>8, <1>9, <1>10, <1>11 DEF Step, Work

LEMMA EnvironmentWrites == ASSUME TypeOK, Environment PROVE NoNewWrite
<1> USE DEF local, chatwoot, NoNewWrite
<1>1. (\E h \in Handlers : ContextEnds(h)) => NoNewWrite
  BY DEF ContextEnds
<1>2. ASSUME NEW h \in Handlers, NEW m \in Msgs, Deliver(h, m) PROVE NoNewWrite
  BY <1>2 DEF Deliver, goto, Serving, Critical, TypeOK
<1>3. (\E r \in sent : Apply(r) \/ Refuse(r)) => NoNewWrite
  BY DEF Apply, Refuse
<1>4. Crash => NoNewWrite
  BY DEF Crash, Serving, Critical
<1>5. FirstPublish \/ (\E off, on \in AtMostOneInbox : SwitchInbox(off, on))
      \/ (\E c \in Contacts, k \in Keys : AgentSets(c, k))
      \/ (\E v \in Convs, S \in SUBSET Labels : AgentLabels(v, S)) => NoNewWrite
  BY DEF FirstPublish, SwitchInbox, AgentSets, AgentLabels
<1> QED
  BY <1>1, <1>2, <1>3, <1>4, <1>5 DEF Environment, Outside

LEMMA WriteStep == ASSUME TypeOK, PromiseInv, NoteInv, WriteInv, [Next]_vars PROVE WriteInv'
<1>1. CASE NoNewWrite
  <2>1. WriteIsSeen'
    BY <1>1 DEF NoNewWrite, WriteInv, WriteIsSeen
  <2>2. WritesAreWanted'
    BY <1>1 DEF NoNewWrite, WriteInv, WriteIsSeen, WritesAreWanted, Writes
  <2> QED
    BY <2>1, <2>2 DEF WriteInv
<1>2. ASSUME NEW h \in Handlers, SendsWrite(h) PROVE WriteInv'
  <2>1. msg[h] \in processed /\ \A g \in Handlers \ {h} : pc[g] \in Serving => msg[g] # msg[h]
    BY <1>2 DEF SendsWrite, NoteInv, ServedIsSeen, ServedByOne
  <2>2. WriteIsSeen'
    BY <1>2, <2>1 DEF SendsWrite, WriteInv, WriteIsSeen
  <2>3. pc'[h] \notin NoWriteYet /\ ~draft'[h].escalate
        /\ \A g \in Handlers \ {h} : pc'[g] = pc[g]
    BY <1>2 DEF SendsWrite, TypeOK
  <2>4. WritesAreWanted'
    BY <1>2, <2>1, <2>3 DEF SendsWrite, WriteInv, WritesAreWanted, Writes
  <2> QED
    BY <2>2, <2>4 DEF WriteInv
<1>3. UNCHANGED vars => NoNewWrite
  BY DEF vars, local, chatwoot, NoNewWrite
<1> QED
  BY <1>1, <1>2, <1>3, StepWrites, EnvironmentWrites DEF Next

(* An answer that asks for a human brings no file, attribute or label to   *)
(* Chatwoot, whatever else it holds.                                       *)
THEOREM EscalationsStop == Spec => []EscalationsOnlyNote
<1>1. Init => WriteInv
  BY DEF Init, WriteInv, WriteIsSeen, WritesAreWanted, Writes
<1>2. TypeOK /\ PromiseInv /\ WriteInv => EscalationsOnlyNote
  BY DEF TypeOK, PromiseInv, NotesPromise, WriteInv, WritesAreWanted, Writes,
         EscalationsOnlyNote, HasDraft, Serving, Critical
<1> QED
  BY <1>1, <1>2, WriteStep, TypeCorrect, PromiseInvariant, NoteInvariant, PTL DEF Spec

----------------------------------------------------------------------------
(* Every accepted message gets its note, in a deployment where no context  *)
(* ends early, nothing crashes, Chatwoot accepts notes, files are there    *)
(* and something is published; SQLite, reads and the LLM may still fail,   *)
(* answers may be late and people may edit what they like.                 *)
Accepting == ended = {} /\ live /\ AcceptedIsAnswered

THEOREM AcceptedAreAnswered ==
  ASSUME Faults \cap {"ctx", "crash", "write", "media", "empty"} = {}
  PROVE  Spec => []AcceptedIsAnswered
<1> USE DEF May
<1>1. Init => Accepting
  BY DEF Init, Accepting, AcceptedIsAnswered
<1>2. ASSUME TypeOK, Accepting, NEW h \in Handlers, Step(h) PROVE Accepting'
  <2> USE <1>2 DEF Accepting, AcceptedIsAnswered, NotesOnTheWay, BeforeNote, local, chatwoot,
                   goto, TypeOK
  <2>1. CASE Gate(h)
    BY <2>1 DEF Gate, Finish
  <2>2. CASE Mark(h)
    BY <2>2 DEF Mark, Finish
  <2>3. CASE Acquire(h)
    BY <2>3 DEF Acquire
  <2>4. CASE Read(h)
    BY <2>4 DEF Read
  <2>5. CASE Draft(h)
    BY <2>5 DEF Draft
  <2>6. CASE PostNote(h)
    <3> DEFINE new == Request(h, "note", RenderNote(draft[h]))
    <3>1. sent' = sent \cup {new} /\ UNCHANGED <<msg, processed, ended, live, notes>>
      BY <2>6 DEF PostNote
    <3>2. new.kind = "note" /\ new.msg = msg[h]
      BY DEF Request
    <3>3. \A g \in Handlers \ {h} : pc'[g] = pc[g]
      BY <2>6 DEF PostNote
    <3> HIDE DEF new
    <3> QED
      BY <3>1, <3>2, <3>3
  <2>7. CASE AfterNote(h) \/ AfterMerge(h) \/ AfterLabels(h)
    BY <2>7 DEF AfterNote, AfterMerge, AfterLabels
  <2>8. CASE Merge(h)
    BY <2>8 DEF Merge, Request
  <2>9. CASE SetLabels(h)
    BY <2>9 DEF SetLabels, Request
  <2>10. CASE Unlock(h)
    BY <2>10 DEF Unlock, Finish
  <2> QED
    BY <2>1, <2>2, <2>3, <2>4, <2>5, <2>6, <2>7, <2>8, <2>9, <2>10 DEF Step, Work
<1>3. ASSUME TypeOK, Accepting, Environment PROVE Accepting'
  <2> USE <1>3 DEF Accepting, AcceptedIsAnswered, NotesOnTheWay, BeforeNote, local, chatwoot,
                   TypeOK
  <2>1. ASSUME NEW h \in Handlers, NEW m \in Msgs, Deliver(h, m) PROVE Accepting'
    BY <2>1 DEF Deliver, goto
  <2>2. ASSUME NEW r \in sent, Apply(r) PROVE Accepting'
    <3>1. r.msg \in Msgs /\ UNCHANGED <<pc, msg, processed, ended, live>>
      BY <2>2 DEF Apply, Requests
    <3>2. \A m \in Msgs : notes[m] > 0 => notes'[m] > 0
      BY <2>2, <3>1 DEF Apply
    <3>3. \A m \in Msgs : NotesOnTheWay(m) # {} => NotesOnTheWay(m)' # {} \/ notes'[m] > 0
      BY <2>2, <3>1 DEF Apply
    <3> HIDE DEF NotesOnTheWay
    <3>4. ASSUME NEW m \in processed
          PROVE  \/ \E h \in Handlers : msg[h] = m /\ pc[h] \in BeforeNote
                 \/ NotesOnTheWay(m)' # {}
                 \/ notes'[m] > 0
      BY <3>2, <3>3
    <3> QED
      BY <3>1, <3>4
  <2>3. ~(\E h \in Handlers : ContextEnds(h)) /\ ~(\E r \in sent : Refuse(r)) /\ ~Crash
        /\ ~FirstPublish
    BY DEF ContextEnds, Refuse, Crash, FirstPublish
  <2>4. (\E off, on \in AtMostOneInbox : SwitchInbox(off, on))
        \/ (\E c \in Contacts, k \in Keys : AgentSets(c, k))
        \/ (\E v \in Convs, S \in SUBSET Labels : AgentLabels(v, S)) => Accepting'
    BY DEF SwitchInbox, AgentSets, AgentLabels
  <2> QED
    BY <2>1, <2>2, <2>3, <2>4 DEF Environment, Outside
<1>4. Accepting /\ UNCHANGED vars => Accepting'
  BY DEF Accepting, AcceptedIsAnswered, NotesOnTheWay, vars, local, chatwoot
<1>5. TypeOK /\ Accepting /\ [Next]_vars => Accepting'
  BY <1>2, <1>3, <1>4 DEF Next
<1>6. Accepting => AcceptedIsAnswered
  BY DEF Accepting
<1> QED
  BY <1>1, <1>5, <1>6, TypeCorrect, PTL DEF Spec

----------------------------------------------------------------------------
(* The merges.  While no caller gives up on a write before it is applied   *)
(* or refused, and nobody but the assistant edits, a PUT or a POST of      *)
(* labels on its way has a handler waiting for it under the contact's      *)
(* mutex: it is the only one of its kind for that contact, so what it read *)
(* is still what is there.                                                 *)
Waits(kind) == IF kind = "put" THEN "mergeSent" ELSE "labelsSent"
Owned == \A r \in sent : r.kind # "note" =>
            \E h \in Handlers : msg[h] = r.msg /\ pc[h] = Waits(r.kind)
OneEach == \A r, s \in sent :
   /\ r.kind # "note" /\ s.kind = r.kind
   /\ Event[r.msg].contact = Event[s.msg].contact
   => r = s
PutsFit == \A r \in sent : r.kind = "put" => \A k \in Keys :
   \/ r.body[k] = profile[Event[r.msg].contact][k]
   \/ k # Stage /\ (r.body[k] = r.msg \/ (r.body[k] = None /\ Blanks(r.msg, k)))
LabelsFit == \A r \in sent : r.kind = "labels" => labels[Event[r.msg].conv] \subseteq r.body
DraftsClean == \A h \in Handlers : Cleaned(draft[h])
MergeInv == ended = {} /\ Owned /\ OneEach /\ PutsFit /\ LabelsFit /\ DraftsClean

Undisturbed == Faults \cap {"ctx", "crash", "late", "agent"} = {}

(* A step that neither sends nor applies such a write, and in which no     *)
(* handler with one on its way stops waiting.                              *)
Aside == /\ \A r \in sent' : r.kind # "note" => r \in sent
         /\ \A h \in Handlers, r \in sent' :
               r.kind # "note" /\ msg[h] = r.msg /\ pc[h] = Waits(r.kind) =>
                  msg'[h] = msg[h] /\ pc'[h] = pc[h] /\ draft'[h] = draft[h]
         /\ UNCHANGED <<ended, profile, labels>>
         /\ \/ draft' = draft
            \/ \E h \in Handlers, d \in Drafted \cup {Holding, Failure} :
                  draft' = [draft EXCEPT ![h] = d]

SendsOwn(h, kind, body) ==
  /\ pc[h] \in Critical /\ \A k \in {"put", "labels"} : pc[h] # Waits(k)
  /\ pc' = [pc EXCEPT ![h] = Waits(kind)]
  /\ sent' = sent \cup {Request(h, kind, body)}
  /\ UNCHANGED <<msg, draft, ended, profile, labels>>

LEMMA StepMerges ==
  ASSUME Undisturbed, TypeOK, ended = {}, NEW h \in Handlers, Step(h)
  PROVE  Aside \/ SendsOwn(h, "put", Merged(h))
         \/ (draft[h].status # None
             /\ SendsOwn(h, "labels", labels[Conv(h)] \cup {draft[h].status}))
<1> USE DEF local, chatwoot, goto, Aside, Waits, TypeOK
<1>1. CASE Gate(h)
  BY <1>1 DEF Gate, Finish
<1>2. CASE Mark(h)
  BY <1>2 DEF Mark, Finish
<1>3. CASE Acquire(h) \/ AfterNote(h)
  BY <1>3 DEF Acquire, AfterNote
<1>4. CASE Read(h)
  BY <1>4 DEF Read
<1>5. CASE Draft(h)
  BY <1>5 DEF Draft
<1>6. CASE PostNote(h)
  BY <1>6 DEF PostNote, Request
<1>7. CASE AfterMerge(h) \/ AfterLabels(h)
  <2>1. ~May("late")
    BY DEF Undisturbed, May
  <2>2. \A r \in sent : r.kind \in {"note", "put", "labels"}
    BY DEF Requests
  <2>3. \A r \in sent : ~(r.kind # "note" /\ msg[h] = r.msg /\ pc[h] = Waits(r.kind))
    BY <1>7, <2>1, <2>2 DEF AfterMerge, AfterLabels, Answered
  <2>4. /\ \A g \in Handlers \ {h} : pc'[g] = pc[g]
        /\ UNCHANGED <<msg, draft, ended, sent, profile, labels>>
    BY <1>7 DEF AfterMerge, AfterLabels
  <2> QED
    BY <2>3, <2>4
<1>8. CASE Merge(h)
  <2>1. CASE sent' = sent
    BY <1>8, <2>1 DEF Merge
  <2>2. CASE sent' = sent \cup {Request(h, "put", Merged(h))}
    <3>1. pc[h] = "merge" /\ UNCHANGED <<msg, draft, ended, profile, labels>>
          /\ pc' = [pc EXCEPT ![h] = "mergeSent"]
      BY <1>8 DEF Merge
    <3> QED
      BY <2>2, <3>1 DEF SendsOwn, Critical
  <2> QED
    BY <1>8, <2>1, <2>2 DEF Merge
<1>9. CASE SetLabels(h)
  <2>1. CASE sent' = sent
    BY <1>9, <2>1 DEF SetLabels
  <2>2. CASE /\ draft[h].status # None
             /\ sent' = sent \cup {Request(h, "labels", labels[Conv(h)] \cup {draft[h].status})}
    BY <1>9, <2>2 DEF SetLabels, SendsOwn, Critical
  <2> QED
    BY <1>9, <2>1, <2>2 DEF SetLabels
<1>10. CASE Unlock(h)
  BY <1>10 DEF Unlock, Finish
<1> QED
  BY <1>1, <1>2, <1>3, <1>4, <1>5, <1>6, <1>7, <1>8, <1>9, <1>10 DEF Step, Work

LEMMA EnvironmentMerges ==
  ASSUME Undisturbed, TypeOK, Environment
  PROVE  Aside \/ \E r \in sent : Apply(r)
<1> USE DEF local, chatwoot, Aside, Undisturbed, May
<1>1. ASSUME NEW h \in Handlers, NEW m \in Msgs, Deliver(h, m) PROVE Aside
  BY <1>1 DEF Deliver, goto, Waits, TypeOK
<1>2. (\E r \in sent : Refuse(r)) => Aside
  BY DEF Refuse
<1>3. FirstPublish \/ (\E off, on \in AtMostOneInbox : SwitchInbox(off, on)) => Aside
  BY DEF FirstPublish, SwitchInbox
<1>4. ~Crash /\ ~(\E h \in Handlers : ContextEnds(h))
      /\ ~(\E c \in Contacts, k \in Keys : AgentSets(c, k))
      /\ ~(\E v \in Convs, S \in SUBSET Labels : AgentLabels(v, S))
  BY DEF Crash, ContextEnds, AgentSets, AgentLabels
<1> QED
  BY <1>1, <1>2, <1>3, <1>4 DEF Environment, Outside

LEMMA AsideKeeps == ASSUME Undisturbed, TypeOK, MergeInv, Aside PROVE MergeInv'
<1> USE DEF MergeInv, Aside
<1>1. Owned'
  BY DEF Owned
<1>2. OneEach'
  BY DEF OneEach
<1>3. PutsFit' /\ LabelsFit'
  <2>1. ASSUME NEW r \in sent', r.kind = "put", NEW k \in Keys, Blanks(r.msg, k)
        PROVE  Blanks(r.msg, k)'
    BY <2>1 DEF Blanks, Waits
  <2> QED
    BY <2>1 DEF PutsFit, LabelsFit
<1>4. DraftsClean'
  BY DraftsAreCleaned DEF DraftsClean, Undisturbed, TypeOK
<1> QED
  BY <1>1, <1>2, <1>3, <1>4

LEMMA SendingKeeps ==
  ASSUME TypeOK, LockInv, MergeInv, NEW h \in Handlers, NEW kind \in {"put", "labels"},
         NEW body, SendsOwn(h, kind, body),
         kind = "put" => \A k \in Keys :
            \/ body[k] = profile[Contact(h)][k]
            \/ k # Stage /\ (body[k] = msg[h] \/ (body[k] = None /\ Blanks(msg[h], k)')),
         kind = "labels" => labels[Conv(h)] \subseteq body
  PROVE  MergeInv'
<1> DEFINE new == Request(h, kind, body)
<1> USE DEF MergeInv
<1>1. new.kind = kind /\ new.msg = msg[h] /\ new.body = body
  BY DEF Request
<1>2. sent' = sent \cup {new} /\ UNCHANGED <<msg, draft, ended, profile, labels>>
      /\ pc'[h] = Waits(kind) /\ \A g \in Handlers \ {h} : pc'[g] = pc[g]
  BY DEF SendsOwn, TypeOK
<1>3. \A r \in sent : r.kind # "note" =>
         \E g \in Handlers \ {h} : msg[g] = r.msg /\ pc[g] = Waits(r.kind) /\ pc[g] \in Critical
  BY DEF Owned, SendsOwn, Waits, Critical
<1>4. \A r \in sent : r.kind # "note" => Event[r.msg].contact # Event[msg[h]].contact
  BY <1>3 DEF SendsOwn, LockInv, CriticalHolds, Contact
<1> HIDE DEF new
<1>5. Owned'
  BY <1>1, <1>2, <1>3 DEF Owned
<1>6. OneEach'
  BY <1>1, <1>2, <1>4 DEF OneEach
<1>7. PutsFit' /\ LabelsFit'
  <2>1. \A m \in Msgs, k \in Keys : Blanks(m, k) => Blanks(m, k)'
    BY <1>2 DEF Blanks, SendsOwn, Waits
  <2>2. \A r \in sent : r.msg \in Msgs
    BY DEF TypeOK, Requests
  <2> QED
    BY <1>1, <1>2, <2>1, <2>2 DEF PutsFit, LabelsFit, Contact, Conv
<1>8. DraftsClean'
  BY <1>2 DEF DraftsClean
<1> QED
  BY <1>2, <1>5, <1>6, <1>7, <1>8

LEMMA ApplyingKeeps == ASSUME TypeOK, MergeInv, NEW r \in sent, Apply(r) PROVE MergeInv'
<1> USE DEF MergeInv
<1>1. r.msg \in Msgs /\ \A s \in sent : s.msg \in Msgs
  BY DEF TypeOK, Requests
<1>2. sent' = sent \ {r} /\ UNCHANGED <<pc, msg, draft, ended>>
  BY DEF Apply, local
<1>3. Owned' /\ OneEach' /\ DraftsClean'
  BY <1>2 DEF Owned, OneEach, DraftsClean
<1>4. ASSUME NEW s \in sent', s.kind = "put"
      PROVE profile'[Event[s.msg].contact] = profile[Event[s.msg].contact]
  <2>1. r.kind = "put" => Event[r.msg].contact # Event[s.msg].contact
    BY <1>2, <1>4 DEF OneEach
  <2> QED
    BY <2>1 DEF Apply, TypeOK
<1>5. ASSUME NEW s \in sent', s.kind = "labels"
      PROVE labels'[Event[s.msg].conv] = labels[Event[s.msg].conv]
  <2>1. r.kind = "labels" => Event[r.msg].contact # Event[s.msg].contact
    BY <1>2, <1>5 DEF OneEach
  <2>2. r.kind = "labels" => Event[r.msg].conv # Event[s.msg].conv
    BY <1>1, <1>2, <2>1, ConvAssumption
  <2> QED
    BY <2>2 DEF Apply, TypeOK
<1>6. PutsFit' /\ LabelsFit'
  <2>1. \A m \in Msgs, k \in Keys : Blanks(m, k) <=> Blanks(m, k)'
    BY <1>2 DEF Blanks
  <2> QED
    BY <1>1, <1>2, <1>4, <1>5, <2>1 DEF PutsFit, LabelsFit
<1> QED
  BY <1>2, <1>3, <1>6

LEMMA MergeStep ==
  ASSUME Undisturbed, TypeOK, LockInv, MergeInv, [Next]_vars PROVE MergeInv'
<1>1. ASSUME NEW h \in Handlers, SendsOwn(h, "put", Merged(h)) PROVE MergeInv'
  <2>1. \A k \in Keys :
           \/ Merged(h)[k] = profile[Contact(h)][k]
           \/ k # Stage /\ (\/ Merged(h)[k] = msg[h]
                            \/ Merged(h)[k] = None /\ Blanks(msg[h], k)')
    <3>0. pc'[h] = "mergeSent" /\ msg' = msg /\ draft' = draft
      BY <1>1 DEF SendsOwn, Waits, TypeOK
    <3>1. ASSUME NEW k \in Keys, Sets(h, k)
          PROVE  k # Stage /\ (\/ Written(h, k) = msg[h]
                               \/ Written(h, k) = None /\ Blanks(msg[h], k)')
      BY <3>0, <3>1 DEF MergeInv, DraftsClean, Cleaned, Sets, Written, Blanks
    <3>2. ASSUME NEW k \in Keys, Sets(h, k) PROVE Merged(h)[k] = Written(h, k)
      BY <3>2 DEF Merged
    <3>3. ASSUME NEW k \in Keys, ~Sets(h, k) PROVE Merged(h)[k] = profile[Contact(h)][k]
      BY <3>3 DEF Merged
    <3> QED
      BY <3>1, <3>2, <3>3
  <2> QED
    BY <1>1, <2>1, SendingKeeps
<1>2. ASSUME NEW h \in Handlers,
             SendsOwn(h, "labels", labels[Conv(h)] \cup {draft[h].status})
      PROVE  MergeInv'
  BY <1>2, SendingKeeps
<1>3. UNCHANGED vars => Aside
  BY DEF vars, local, chatwoot, Aside
<1>4. ended = {}
  BY DEF MergeInv
<1> QED
  BY <1>1, <1>2, <1>3, <1>4, StepMerges, EnvironmentMerges, AsideKeeps, ApplyingKeeps DEF Next

LEMMA MergeInvariant == ASSUME Undisturbed PROVE Spec => [](TypeOK /\ LockInv /\ MergeInv)
<1>1. Init => MergeInv
  BY DraftsAreCleaned DEF Init, MergeInv, Owned, OneEach, PutsFit, LabelsFit, DraftsClean,
     Undisturbed
<1> QED
  BY <1>1, MergeStep, LockInvariant, PTL DEF Spec

(* What a step may do to an attribute or a label while nobody disturbs.    *)
LEMMA MergedSteps ==
  ASSUME Undisturbed, TypeOK, MergeInv, [Next]_vars,
         NEW c \in Contacts, NEW k \in Keys, profile'[c][k] # profile[c][k]
  PROVE  k # Stage /\ \E r \in sent \ sent' :
            /\ r.kind = "put"
            /\ profile'[c][k] = r.msg \/ (profile'[c][k] = None /\ Blanks(r.msg, k))
<1>1. PICK r \in sent : Apply(r)
  <2>1. profile' # profile
    OBVIOUS
  <2>2. Aside => profile' = profile
    BY DEF Aside
  <2>3. \A h \in Handlers : \A kind, body : SendsOwn(h, kind, body) => profile' = profile
    BY DEF SendsOwn
  <2>4. UNCHANGED vars => profile' = profile
    BY DEF vars, chatwoot
  <2> QED
    BY <2>1, <2>2, <2>3, <2>4, StepMerges, EnvironmentMerges DEF Next, MergeInv
<1>2. r.kind = "put" /\ c = Event[r.msg].contact /\ profile'[c] = r.body
  BY <1>1 DEF Apply, TypeOK
<1> QED
  BY <1>1, <1>2 DEF Apply, MergeInv, PutsFit

(* Two messages of a contact never clobber each other's attributes, and    *)
(* none sets the stage.                                                    *)
THEOREM PatchesAreMerged == ASSUME Undisturbed PROVE Spec => PatchesDontClobber
<1>1. TypeOK /\ MergeInv /\ [Next]_vars =>
        [\A c \in Contacts, k \in Keys : profile'[c][k] # profile[c][k] =>
           \/ sent' = sent
           \/ /\ k # Stage
              /\ \E r \in sent \ sent' :
                   /\ r.kind = "put"
                   /\ profile'[c][k] = r.msg \/ (profile'[c][k] = None /\ Blanks(r.msg, k))]_vars
  BY MergedSteps
<1> QED
  BY <1>1, MergeInvariant, PTL DEF Spec, PatchesDontClobber

(* The counterpart of the run webhook_blank: if the model empties no       *)
(* attribute, one that is known stays known, as long as nobody else edits. *)
THEOREM KnownStaysKnown == ASSUME Undisturbed, NoBlanks PROVE Spec => KnownFieldStays
<1>1. ASSUME TypeOK, MergeInv, [Next]_vars, NEW c \in Contacts, NEW k \in Keys,
             profile[c][k] # None
      PROVE  profile'[c][k] # None
  <2>1. CASE profile'[c][k] # profile[c][k]
    <3>1. PICK r \in sent : profile'[c][k] = r.msg
      <4>1. \A m \in Msgs : ~Blanks(m, k)
        BY <1>1 DEF Blanks, MergeInv, DraftsClean, Cleaned
      <4>2. \A r \in sent : r.msg \in Msgs
        BY <1>1 DEF TypeOK, Requests
      <4> QED
        BY <1>1, <2>1, <4>1, <4>2, MergedSteps
    <3>2. r.msg \in Msgs
      BY <1>1 DEF TypeOK, Requests
    <3> QED
      BY <3>1, <3>2, NamesAssumption
  <2> QED
    BY <1>1, <2>1
<1>2. TypeOK /\ MergeInv /\ [Next]_vars =>
        [\A c \in Contacts, k \in Keys : profile[c][k] # None => profile'[c][k] # None]_vars
  BY <1>1
<1> QED
  BY <1>2, MergeInvariant, PTL DEF Spec, KnownFieldStays

(* A label that was put on a conversation is not dropped by a later POST.  *)
THEOREM LabelsAreMerged == ASSUME Undisturbed PROVE Spec => LabelsKept
<1>1. ASSUME TypeOK, MergeInv, [Next]_vars, NEW v \in Convs PROVE labels[v] \subseteq labels'[v]
  <2>1. ASSUME NEW r \in sent, Apply(r) PROVE labels[v] \subseteq labels'[v]
    BY <1>1, <2>1 DEF Apply, TypeOK, MergeInv, LabelsFit
  <2>2. Aside => labels' = labels
    BY DEF Aside
  <2>3. \A h \in Handlers : \A kind, body : SendsOwn(h, kind, body) => labels' = labels
    BY DEF SendsOwn
  <2>4. UNCHANGED vars => labels' = labels
    BY DEF vars, chatwoot
  <2> QED
    BY <1>1, <2>1, <2>2, <2>3, <2>4, StepMerges, EnvironmentMerges DEF Next, MergeInv
<1>2. TypeOK /\ MergeInv /\ [Next]_vars => [\A v \in Convs : labels[v] \subseteq labels'[v]]_vars
  BY <1>1
<1> QED
  BY <1>2, MergeInvariant, PTL DEF Spec, LabelsKept
=============================================================================
