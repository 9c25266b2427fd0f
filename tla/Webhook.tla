------------------------------ MODULE Webhook ------------------------------
(***************************************************************************)
(* The webhook receiver (internal/ports/http/webhook.go) with the brain it *)
(* calls (internal/usecase/assistant/brain.go; Drafting has what becomes   *)
(* of the LLM's answer) and the Chatwoot client it writes through          *)
(* (internal/infrastructure/chatwoot/client.go).                           *)
(*                                                                         *)
(* One handler is one goroutine of the HTTP server serving one delivery.   *)
(* Chatwoot delivers any event at any time and any number of times.  A     *)
(* write to Chatwoot is first in flight (sent) and later applied, refused  *)
(* or, if its caller gave up, applied when nobody waits for it any more.   *)
(*                                                                         *)
(* A value in a contact's attributes is the message whose draft wrote it,  *)
(* so that an update of one message that undoes another's is visible.      *)
(***************************************************************************)
EXTENDS Drafting

CONSTANTS
  Handlers,   \* goroutines that serve deliveries at the same time
  Msgs,       \* Chatwoot message ids
  Event,      \* Event[m]: the fields of m's payload the handler looks at
  Contacts, Convs, Inboxes,
  Fallback,   \* inbox ids from CHATWOOT_INBOX_ID(S)
  Managed,    \* inboxes whose AI is enabled in whatsapp_instances at start
  Faults,     \* what may go wrong in this instance, see FaultKinds
  Agent       \* the value of an attribute that a human agent set

FaultKinds ==
  { "db",       \* SQLite returns an error
    "read",     \* a GET to Chatwoot fails
    "llm",      \* the LLM call fails or answers no JSON object
    "write",    \* Chatwoot refuses a POST or PUT
    "media",    \* a file attached to a note is missing from MEDIA_DIR
    "late",     \* a POST or PUT outlives its caller's HTTP client timeout
    "ctx",      \* the request's context ends: 30 s, or Chatwoot hung up
    "crash",    \* the process is killed and started again
    "agent",    \* a human agent edits the contact and the labels
    "admin",    \* an administrator attaches and detaches inboxes
    "empty" }   \* the service starts with nothing published

ASSUME FaultsAssumption == Faults \subseteq FaultKinds
ASSUME NamesAssumption == None \notin Handlers \cup Msgs \cup Labels
ASSUME InboxAssumption == Managed \subseteq Inboxes /\ Fallback \subseteq Inboxes
ASSUME EventAssumption ==
  Event \in [Msgs -> [event: {"message_created", "message_updated"},
                      type: {"incoming", "outgoing", "template"}, private: BOOLEAN,
                      contact: Contacts, conv: Convs, inbox: Inboxes]]
\* A conversation has one contact, so its lock covers the labels too.
ASSUME ConvAssumption ==
  \A a, b \in Msgs : Event[a].conv = Event[b].conv => Event[a].contact = Event[b].contact

VARIABLES
  pc,         \* where each handler is
  msg,        \* the message it serves, or None
  draft,      \* the draft HandleMessage returned to it
  ended,      \* handlers whose request context has ended
  lock,       \* lock[c]: the handler that has contact c's mutex, or None
  processed,  \* the table processed_messages
  enabled,    \* inboxes with ai_enabled = 1 in whatsapp_instances
  live,       \* domain.Content holds a snapshot
  sent,       \* writes on their way to Chatwoot
  notes,      \* notes[m]: private notes in Chatwoot for m
  profile,    \* profile[c][k]: contact attributes in Chatwoot
  labels      \* labels[v]: labels of conversation v in Chatwoot

local == <<pc, msg, draft, ended>>
chatwoot == <<sent, notes, profile, labels>>
vars == <<local, lock, processed, enabled, live, chatwoot>>

----------------------------------------------------------------------------
Contact(h) == Event[msg[h]].contact
Conv(h) == Event[msg[h]].conv

CustomerMessage(m) == /\ Event[m].event = "message_created"
                      /\ Event[m].type = "incoming" /\ ~Event[m].private

(* AllowsInbox: the managed rows decide alone as soon as there is one.     *)
Allows(i) == i \in (IF enabled # {} THEN enabled ELSE Fallback)

goto(h, l) == pc' = [pc EXCEPT ![h] = l]
May(f) == f \in Faults

Init == /\ pc = [h \in Handlers |-> "idle"]
        /\ msg = [h \in Handlers |-> None]
        /\ draft = [h \in Handlers |-> Failure]
        /\ ended = {}
        /\ lock = [c \in Contacts |-> None]
        /\ processed = {}
        /\ enabled = Managed
        /\ live = ~May("empty")
        /\ sent = {}
        /\ notes = [m \in Msgs |-> 0]
        /\ profile = [c \in Contacts |-> [k \in Keys |-> None]]
        /\ labels = [v \in Convs |-> {}]

----------------------------------------------------------------------------
(* Chatwoot calls the webhook; the secret and the body are in order.       *)
Deliver(h, m) == /\ pc[h] = "idle"
                 /\ goto(h, "gate")
                 /\ msg' = [msg EXCEPT ![h] = m]
                 /\ UNCHANGED <<draft, ended, lock, processed, enabled, live, chatwoot>>

(* writeOK and return: the goroutine is free, its locals and context gone. *)
Finish(h) == /\ goto(h, "idle")
             /\ msg' = [msg EXCEPT ![h] = None]
             /\ draft' = [draft EXCEPT ![h] = Failure]
             /\ ended' = ended \ {h}

(* Mutant: the inbox gate alone, so notes answer notes.                    *)
GateByInboxOnly(h) ==
  /\ pc[h] = "gate"
  /\ \/ /\ Allows(Event[msg[h]].inbox)
        /\ goto(h, "mark")
        /\ UNCHANGED <<msg, draft, ended>>
     \/ /\ ~Allows(Event[msg[h]].inbox) \/ May("db")
        /\ Finish(h)
  /\ UNCHANGED <<lock, processed, enabled, live, chatwoot>>

(* shouldProcess: the event's kind, then the inbox gate (one query).       *)
Gate(h) ==
  /\ pc[h] = "gate"
  /\ \/ /\ CustomerMessage(msg[h]) /\ Allows(Event[msg[h]].inbox)
        /\ goto(h, "mark")
        /\ UNCHANGED <<msg, draft, ended>>
     \/ /\ ~(CustomerMessage(msg[h]) /\ Allows(Event[msg[h]].inbox)) \/ May("db")
        /\ Finish(h)
  /\ UNCHANGED <<lock, processed, enabled, live, chatwoot>>

(* Mutant: RowsAffected is not looked at, a duplicate goes on.             *)
MarkIgnoringResult(h) ==
  /\ pc[h] = "mark"
  /\ processed' = processed \cup {msg[h]}
  /\ goto(h, "lock")
  /\ UNCHANGED <<msg, draft, ended, lock, enabled, live, chatwoot>>

(* MarkProcessed (INSERT OR IGNORE): only the delivery whose insert took   *)
(* effect goes on; an error is answered like a duplicate.                  *)
Mark(h) ==
  /\ pc[h] = "mark"
  /\ \/ /\ msg[h] \notin processed
        /\ processed' = processed \cup {msg[h]}
        /\ goto(h, "lock")
        /\ UNCHANGED <<msg, draft, ended>>
     \/ /\ msg[h] \in processed \/ May("db")
        /\ Finish(h)
        /\ UNCHANGED processed
  /\ UNCHANGED <<lock, enabled, live, chatwoot>>

(* h.locks.Lock(ContactID): waits without looking at the context.          *)
Acquire(h) == /\ pc[h] = "lock" /\ lock[Contact(h)] = None
              /\ lock' = [lock EXCEPT ![Contact(h)] = h]
              /\ goto(h, "read")
              /\ UNCHANGED <<msg, draft, ended, processed, enabled, live, chatwoot>>

(* Mutant: an error of HandleMessage is logged and nothing is posted.      *)
ReadFailingSilently(h) ==
  /\ pc[h] = "read"
  /\ \/ /\ live /\ h \notin ended /\ goto(h, "llm")
     \/ (~live \/ h \in ended \/ May("read")) /\ goto(h, "unlock")
  /\ UNCHANGED <<msg, draft, ended, lock, processed, enabled, live, chatwoot>>

(* HandleMessage up to the LLM: no snapshot means no draft at all; then    *)
(* Window and Profile, whose failure becomes the failure note.             *)
Read(h) ==
  /\ pc[h] = "read"
  /\ \/ ~live /\ goto(h, "unlock") /\ UNCHANGED draft
     \/ live /\ h \notin ended /\ goto(h, "llm") /\ UNCHANGED draft
     \/ /\ live /\ (h \in ended \/ May("read"))
        /\ draft' = [draft EXCEPT ![h] = Failure]
        /\ goto(h, "note")
  /\ UNCHANGED <<msg, ended, lock, processed, enabled, live, chatwoot>>

(* Drafter.Draft and postProcess, or the holding reply when the call fails *)
(* (it always does once the context has ended).                            *)
Draft(h) ==
  /\ pc[h] = "llm"
  /\ \/ /\ h \notin ended
        /\ \E d \in Drafted : draft' = [draft EXCEPT ![h] = d]
     \/ /\ h \in ended \/ May("llm")
        /\ draft' = [draft EXCEPT ![h] = Holding]
  /\ goto(h, "note")
  /\ UNCHANGED <<msg, ended, lock, processed, enabled, live, chatwoot>>

----------------------------------------------------------------------------
(* Writes.  A request leaves only while the context lives.                 *)
Request(h, kind, body) == [kind |-> kind, msg |-> msg[h], body |-> body]

(* PostPrivateNote, for a draft or for the failure text.  One attachment   *)
(* that cannot be opened keeps the whole note from leaving.                *)
PostNote(h) ==
  /\ pc[h] = "note"
  /\ \/ /\ h \notin ended
        /\ sent' = sent \cup {Request(h, "note", RenderNote(draft[h]))}
     \/ /\ h \in ended \/ (draft[h].media # {} /\ May("media"))
        /\ UNCHANGED sent
  /\ goto(h, "noteSent")
  /\ UNCHANGED <<msg, draft, ended, lock, processed, enabled, live, notes, profile, labels>>

Sets(h, k) == k \in DOMAIN draft[h].patch /\ draft[h].patch[k] # "null"
Written(h, k) == IF draft[h].patch[k] = "blank" THEN None ELSE msg[h]

(* MergeContactAttributes: GET the attributes and PUT the whole object     *)
(* back with the patch over it, but for its nulls.  What was read travels  *)
(* in the PUT: the window for others' edits is the time it is in flight.   *)
Merged(h) == [k \in Keys |-> IF Sets(h, k) THEN Written(h, k) ELSE profile[Contact(h)][k]]
Merge(h) ==
  /\ pc[h] = "merge"
  /\ \/ /\ draft[h].patch # NoPatch /\ h \notin ended
        /\ sent' = sent \cup {Request(h, "put", Merged(h))}
     \/ /\ draft[h].patch = NoPatch \/ h \in ended \/ May("read")
        /\ UNCHANGED sent
  /\ goto(h, "mergeSent")
  /\ UNCHANGED <<msg, draft, ended, lock, processed, enabled, live, notes, profile, labels>>

(* Mutant: the status alone is posted, as if the API added labels.         *)
SetLabelsAlone(h) ==
  /\ pc[h] = "labels"
  /\ \/ /\ draft[h].status # None /\ h \notin ended
        /\ sent' = sent \cup {Request(h, "labels", {draft[h].status})}
     \/ /\ draft[h].status = None \/ h \in ended
        /\ UNCHANGED sent
  /\ goto(h, "labelsSent")
  /\ UNCHANGED <<msg, draft, ended, lock, processed, enabled, live, notes, profile, labels>>

(* SetLabels: GET the labels and POST the union with the status.           *)
SetLabels(h) ==
  /\ pc[h] = "labels"
  /\ \/ /\ draft[h].status # None /\ h \notin ended
        /\ sent' = sent \cup {Request(h, "labels", labels[Conv(h)] \cup {draft[h].status})}
     \/ /\ draft[h].status = None \/ h \in ended \/ May("read")
        /\ UNCHANGED sent
  /\ goto(h, "labelsSent")
  /\ UNCHANGED <<msg, draft, ended, lock, processed, enabled, live, notes, profile, labels>>

(* The caller has its answer, good or bad (an error is only logged), or    *)
(* stops waiting for it and leaves the request behind.                     *)
Answered(h, kind) == \/ \A r \in sent : ~(r.kind = kind /\ r.msg = msg[h])
                     \/ h \in ended
                     \/ May("late")

(* Mutant: unlock() at the end of write, which an escalation leaves early. *)
AfterNoteLeaking(h) ==
  /\ pc[h] = "noteSent" /\ Answered(h, "note")
  /\ \/ /\ draft[h].escalate
        /\ Finish(h)
     \/ /\ ~draft[h].escalate
        /\ goto(h, "merge")
        /\ UNCHANGED <<msg, draft, ended>>
  /\ UNCHANGED <<lock, processed, enabled, live, chatwoot>>

(* write: after the note an escalation returns, a draft goes on.           *)
AfterNote(h) ==
  /\ pc[h] = "noteSent" /\ Answered(h, "note")
  /\ goto(h, IF draft[h].escalate THEN "unlock" ELSE "merge")
  /\ UNCHANGED <<msg, draft, ended, lock, processed, enabled, live, chatwoot>>

AfterMerge(h) ==
  /\ pc[h] = "mergeSent" /\ Answered(h, "put")
  /\ goto(h, "labels")
  /\ UNCHANGED <<msg, draft, ended, lock, processed, enabled, live, chatwoot>>

AfterLabels(h) ==
  /\ pc[h] = "labelsSent" /\ Answered(h, "labels")
  /\ goto(h, "unlock")
  /\ UNCHANGED <<msg, draft, ended, lock, processed, enabled, live, chatwoot>>

(* the deferred unlock, then writeOK                                       *)
Unlock(h) == /\ pc[h] = "unlock"
             /\ lock' = [lock EXCEPT ![Contact(h)] = None]
             /\ Finish(h)
             /\ UNCHANGED <<processed, enabled, live, chatwoot>>

(* Everything a handler does but for taking and giving back the mutex.     *)
Work(h) == \/ Gate(h) \/ Mark(h) \/ Read(h) \/ Draft(h)
           \/ PostNote(h) \/ AfterNote(h) \/ Merge(h) \/ AfterMerge(h)
           \/ SetLabels(h) \/ AfterLabels(h)

Step(h) == Work(h) \/ Acquire(h) \/ Unlock(h)

----------------------------------------------------------------------------
(* Chatwoot applies a write, or refuses it.                                *)
Apply(r) ==
  /\ r \in sent
  /\ sent' = sent \ {r}
  /\ notes' = IF r.kind = "note" THEN [notes EXCEPT ![r.msg] = @ + 1] ELSE notes
  /\ profile' = IF r.kind = "put" THEN [profile EXCEPT ![Event[r.msg].contact] = r.body]
                ELSE profile
  /\ labels' = IF r.kind = "labels" THEN [labels EXCEPT ![Event[r.msg].conv] = r.body]
               ELSE labels
  /\ UNCHANGED <<local, lock, processed, enabled, live>>

Refuse(r) == /\ May("write") /\ r \in sent
             /\ sent' = sent \ {r}
             /\ UNCHANGED <<local, lock, processed, enabled, live, notes, profile, labels>>

(* middleware.Timeout(30s), or Chatwoot closes the connection.             *)
ContextEnds(h) == /\ May("ctx") /\ pc[h] # "idle" /\ h \notin ended
                  /\ ended' = ended \cup {h}
                  /\ UNCHANGED <<pc, msg, draft, lock, processed, enabled, live, chatwoot>>

(* The process dies and comes back: goroutines and mutexes are gone, the   *)
(* database stays, and so do the requests that already left.               *)
Crash == /\ May("crash")
         /\ pc' = [h \in Handlers |-> "idle"]
         /\ msg' = [h \in Handlers |-> None]
         /\ draft' = [h \in Handlers |-> Failure]
         /\ ended' = {}
         /\ lock' = [c \in Contacts |-> None]
         /\ UNCHANGED <<processed, enabled, live, chatwoot>>

(* The first publish puts a snapshot into domain.Content.                  *)
FirstPublish == /\ ~live /\ live' = TRUE
                /\ UNCHANGED <<local, lock, processed, enabled, chatwoot>>

(* The admin's WhatsApp page writes one managed row: the inbox it enabled  *)
(* may go, the one it has now may come, and each may be none (a write that *)
(* leaves the same inboxes enabled is no step).                            *)
AtMostOneInbox == {{}} \cup {{i} : i \in Inboxes}
SwitchInbox(off, on) == /\ May("admin")
                        /\ enabled' = (enabled \ off) \cup on
                        /\ enabled' # enabled
                        /\ UNCHANGED <<local, lock, processed, live, chatwoot>>

(* A human agent sets an attribute or the labels of a conversation.        *)
AgentSets(c, k) == /\ May("agent")
                   /\ profile' = [profile EXCEPT ![c][k] = Agent]
                   /\ UNCHANGED <<local, lock, processed, enabled, live, sent, notes, labels>>

AgentLabels(v, S) == /\ May("agent")
                     /\ labels' = [labels EXCEPT ![v] = S]
                     /\ UNCHANGED <<local, lock, processed, enabled, live, sent, notes, profile>>

Outside == \/ \E h \in Handlers : ContextEnds(h) \/ \E m \in Msgs : Deliver(h, m)
           \/ \E r \in sent : Apply(r) \/ Refuse(r)
           \/ FirstPublish
           \/ \E off, on \in AtMostOneInbox : SwitchInbox(off, on)
           \/ \E c \in Contacts, k \in Keys : AgentSets(c, k)
           \/ \E v \in Convs, S \in SUBSET Labels : AgentLabels(v, S)
Environment == Outside \/ Crash

Next == (\E h \in Handlers : Step(h)) \/ Environment

Spec == Init /\ [][Next]_vars

(* A goroutine that can run does; sync.Mutex starves nobody; Chatwoot      *)
(* answers or refuses what it was sent.  Nothing else has to happen.       *)
Fairness == /\ \A h \in Handlers : WF_vars(Step(h)) /\ SF_vars(Acquire(h))
            /\ WF_vars(\E r \in sent : Apply(r) \/ Refuse(r))
FairSpec == Spec /\ Fairness

----------------------------------------------------------------------------
Values == Msgs \cup {Agent, None}
Requests == [kind: {"note"}, msg: Msgs, body: Notes]
            \cup [kind: {"put"}, msg: Msgs, body: [Keys -> Values]]
            \cup [kind: {"labels"}, msg: Msgs, body: SUBSET Labels]

BeforeNote == {"lock", "read", "llm", "note"}
Critical == {"read", "llm", "note", "noteSent", "merge", "mergeSent", "labels",
             "labelsSent", "unlock"}
HasDraft == Critical \ {"read", "llm"}

(* Every variable has its type; a handler that serves has a message.       *)
TypeOK ==
  /\ pc \in [Handlers -> {"idle", "gate", "mark", "lock"} \cup Critical]
  /\ msg \in [Handlers -> Msgs \cup {None}]
  /\ draft \in [Handlers -> Drafts]
  /\ ended \subseteq Handlers
  /\ lock \in [Contacts -> Handlers \cup {None}]
  /\ processed \subseteq Msgs
  /\ enabled \subseteq Inboxes
  /\ live \in BOOLEAN
  /\ sent \subseteq Requests
  /\ notes \in [Msgs -> Nat]
  /\ profile \in [Contacts -> [Keys -> Values]]
  /\ labels \in [Convs -> SUBSET Labels]
  /\ \A h \in Handlers : pc[h] # "idle" => msg[h] \in Msgs

NotesOnTheWay(m) == {r \in sent : r.kind = "note" /\ r.msg = m}

(* However often Chatwoot redelivers a message, to however many goroutines *)
(* at once, before and after restarts and with notes that arrive late: the *)
(* notes it has and those on their way are never more than one.            *)
AtMostOneNote == \A m \in Msgs : notes[m] + Cardinality(NotesOnTheWay(m)) <= 1

(* Between Lock and the deferred unlock a contact belongs to one handler:  *)
(* no way out of process() skips the unlock or unlocks another's contact.  *)
OneHandlerPerContact ==
  /\ \A g, h \in Handlers :
        g # h /\ pc[g] \in Critical /\ pc[h] \in Critical => Contact(g) # Contact(h)
  /\ \A c \in Contacts : lock[c] # None =>
        pc[lock[c]] \in Critical /\ Contact(lock[c]) = c

(* The handler that serves m waits for its PUT, and the answer it merges   *)
(* empties k.                                                              *)
Blanks(m, k) == \E h \in Handlers :
  /\ msg[h] = m /\ pc[h] = "mergeSent"
  /\ k \in DOMAIN draft[h].patch /\ draft[h].patch[k] = "blank"

(* The PUT of one message changes no attribute but those its draft sets or *)
(* empties: it never brings back what another message has overwritten      *)
(* (docs/06, Concurrency: messages don't read-merge-write the profile and  *)
(* clobber each other), and it never sets the stage, which is a label.     *)
PatchesDontClobber ==
  [][\A c \in Contacts, k \in Keys : profile'[c][k] # profile[c][k] =>
        \/ sent' = sent
        \/ /\ k # Stage
           /\ \E r \in sent \ sent' :
                /\ r.kind = "put"
                /\ profile'[c][k] = r.msg \/ (profile'[c][k] = None /\ Blanks(r.msg, k))]_vars

(* docs/02: "never null/blank a field that was already known": an          *)
(* attribute that has a value in Chatwoot never loses it, whatever the     *)
(* model answers about it.                                                 *)
KnownFieldStays ==
  [][\A c \in Contacts, k \in Keys : profile[c][k] # None => profile'[c][k] # None]_vars

(* What a note offers as a reply has no token and no "{{" left, whatever   *)
(* the model wrote and whatever the placeholders hold (Render: "the caller *)
(* must not ship a half-rendered price"), and its files are at most three, *)
(* all from the catalogue: an invented ref attaches nothing.               *)
OffersAreRendered ==
  \A r \in sent : r.kind = "note" /\ ~r.body.escalate =>
     /\ \A i \in DOMAIN r.body.text : r.body.text[i].ns = "" /\ r.body.text[i] # Brace
     /\ Cardinality(r.body.media) <= 3
     /\ \A file \in r.body.media : file[2] \in Catalogue

(* "Flag for a human and stop": from an answer that asks for a human come  *)
(* no file, no attribute and no label, not even those in the same object.  *)
EscalationsOnlyNote ==
  /\ \A r \in sent : r.kind = "note" /\ r.body.escalate => r.body.media = {}
  /\ \A h \in Handlers, r \in sent :
        pc[h] \in HasDraft /\ r.msg = msg[h] /\ r.kind # "note" => ~draft[h].escalate

(* SetLabels posts the union with what is there: a label that one message  *)
(* put on a conversation is not dropped by the next one's POST.            *)
LabelsKept == [][\A v \in Convs : labels[v] \subseteq labels'[v]]_vars

(* ServeHTTP: "never 500 on a recoverable error -- it posts an escalation  *)
(* note instead": when nobody works on a message any more and no note is   *)
(* on its way, a message that was taken up has its note, be it a draft, an *)
(* escalation or the failure text.                                         *)
AcceptedIsAnswered ==
  \A m \in processed :
     \/ \E h \in Handlers : msg[h] = m /\ pc[h] \in BeforeNote
     \/ NotesOnTheWay(m) # {}
     \/ notes[m] > 0

(* Every delivery is answered: no handler waits for a contact for ever,    *)
(* whatever path the ones before it took out of the critical section.      *)
EveryDeliveryReturns == \A h \in Handlers : pc[h] # "idle" ~> pc[h] = "idle"

(* The promise of DraftOnce: a message is open from the insert into        *)
(* processed_messages until its note is in Chatwoot or has been given up.  *)
Open == {m \in Msgs : \/ \E h \in Handlers : msg[h] = m /\ pc[h] \in BeforeNote
                      \/ NotesOnTheWay(m) # {}}
Once == INSTANCE DraftOnce WITH Eligible <- {m \in Msgs : CustomerMessage(m)},
                                seen <- processed, open <- Open, notes <- notes
ImplementsDraftOnce == Once!Spec
=============================================================================
