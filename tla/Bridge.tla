------------------------------- MODULE Bridge -------------------------------
(***************************************************************************)
(* The WhatsApp bridge (internal/usecase/whatsapp/service.go): Attach,     *)
(* Detach and FixWebhooks, call by call, against Evolution, Chatwoot and   *)
(* the table managed_whatsapp_instances, with the inbox gate that reads    *)
(* the table (internal/ports/http/webhook.go) and the audit page.          *)
(*                                                                         *)
(* Settings are one value, conf: Evolution's and Chatwoot's sides hold the *)
(* settings they were given, so that mixed ones show.  What is modelled of *)
(* Evolution and Chatwoot is the server and the account the settings point *)
(* to: a save may point them elsewhere, to what others left there, and the *)
(* managed rows then keep ids of the old account.  Every call can fail or  *)
(* take effect with its answer lost; the request then ends in an error.    *)
(***************************************************************************)
EXTENDS Naturals, FiniteSets

CONSTANTS
  Requests,   \* POSTs of the WhatsApp page served at the same time
  Instances,  \* WhatsApp instances known to Evolution
  Confs,      \* values of the connection settings
  Accounts,   \* what a Chatwoot account may hold when the settings come to it
  Servers,    \* what an Evolution server may hold when they come to it
  Fallback,   \* inbox ids from CHATWOOT_INBOX_ID(S)
  MaxInboxes, \* bound: ids Chatwoot gives to inboxes
  MaxHooks,   \* bound: account webhooks to the brain, more count as MaxHooks
  Faults,     \* what may go wrong in this instance, see FaultKinds
  None

FaultKinds ==
  { "call",    \* a call to Evolution or Chatwoot fails
    "lost",    \* a call takes effect, its answer does not arrive
    "db",      \* SQLite returns an error
    "crash",   \* the process is killed and started again
    "late",    \* a call whose client gave up takes effect when its request is over
    "delete",  \* somebody deletes an inbox or account webhooks in Chatwoot
    "twin",    \* somebody makes an inbox by hand, of a name that may be taken
    "stray",   \* Detach or FixWebhooks of an instance attached in another account
    "clash",   \* requests, or one and a deletion or late call, meet at one instance
    "conf" }   \* the settings are saved while requests are served

Ops == {"attach", "detach", "fix"}
Inbox == [id : 1..MaxInboxes, name : Instances, hook : Confs \cup {None}]

(* conf None: settings of another account.                                 *)
Integration == [enabled : BOOLEAN, conf : Confs \cup {None}]

(* Of a row, the columns that somebody reads; here is history: the id is   *)
(* one of the account that the settings point to.                          *)
Found == [inbox : 1..MaxInboxes, here : BOOLEAN]
Row == [inbox : 1..MaxInboxes, here : BOOLEAN, ai : BOOLEAN]

Account == [inboxes : SUBSET Inbox, made : 0..MaxInboxes, hooks : 0..MaxHooks]
Server == [chatwoot : [Instances -> Integration \cup {None}],
           events : [Instances -> Confs \cup {None}]]

ASSUME FaultsAssumption == Faults \subseteq FaultKinds
ASSUME BoundsAssumption == MaxInboxes \in Nat /\ MaxHooks \in Nat \ {0}
ASSUME FallbackAssumption == Fallback \subseteq Nat
ASSUME NoneAssumption ==
  /\ None \notin Requests \cup Instances \cup Confs \cup Ops
  /\ None \notin Integration \cup Row \cup Found
ASSUME AccountsAssumption ==
  /\ Accounts \subseteq Account
  /\ \A a \in Accounts : \A b \in a.inboxes :
       b.id <= a.made /\ \A c \in a.inboxes : b.id = c.id => b = c
ASSUME ServersAssumption == Servers \subseteq Server

VARIABLES
  pc,        \* where each request is
  op,        \* what it does: "attach", "detach" or "fix"
  inst,      \* its instance, or None
  cfg,       \* the settings it read into a local, or None
  row,       \* the inbox of the row it read or is to write, or None
  conf,      \* the service's atomic pointer to its Config
  chatwoot,  \* chatwoot[i]: Evolution's Chatwoot integration of i, or None
  events,    \* events[i]: settings of Evolution's event webhook of i, or None
  inboxes,   \* inboxes in Chatwoot; hook None is an empty webhook URL
  made,      \* number of inbox ids Chatwoot has given out
  hooks,     \* number of account webhooks to the brain in Chatwoot
  rows,      \* rows[i]: the row of i in managed_whatsapp_instances, or None
  done       \* history: done[i], the request on i that ended last and well

local == <<pc, op, inst, cfg, row>>
remote == <<chatwoot, events, inboxes, made, hooks>>
vars == <<local, conf, remote, rows, done>>

May(f) == f \in Faults
goto(r, l) == pc' = [pc EXCEPT ![r] = l]
Named(i) == {b \in inboxes : b.name = i}
Unattended(i) == May("clash") \/ \A q \in Requests : inst[q] # i
Strays(i) == rows[i] # None /\ ~rows[i].here
Key(id, here) == [inbox |-> id, here |-> here]
With(w, on) == [inbox |-> w.inbox, here |-> w.here, ai |-> on]

(* ManagedInboxGate.AllowsInbox over AIEnabledInboxIDs.                    *)
AIEnabled == {rows[i].inbox : i \in {j \in Instances : rows[j] # None /\ rows[j].ai}}
Allows(id) == id \in (IF AIEnabled # {} THEN AIEnabled ELSE Fallback)

(* evaluate: what the page says of instance i, whichever inbox of its name *)
(* is the first that Chatwoot lists.                                       *)
BridgeOK(i) == /\ chatwoot[i] # None /\ chatwoot[i].enabled
               /\ Named(i) # {} /\ \A b \in Named(i) : b.hook = conf
EventWebhookOK(i) == events[i] = conf
AccountWebhookOK == hooks > 0
Status(i) ==
  IF /\ BridgeOK(i) /\ EventWebhookOK(i) /\ AccountWebhookOK
     /\ rows[i] # None /\ rows[i].ai
  THEN "ready"
  ELSE IF rows[i] # None /\ ~rows[i].ai THEN "detached" ELSE "needs_attention"

Init == /\ pc = [r \in Requests |-> "idle"]
        /\ op = [r \in Requests |-> None]
        /\ inst = [r \in Requests |-> None]
        /\ cfg = [r \in Requests |-> None]
        /\ row = [r \in Requests |-> None]
        /\ conf \in Confs
        /\ \E e \in Servers : chatwoot = e.chatwoot /\ events = e.events
        /\ \E a \in Accounts : inboxes = a.inboxes /\ made = a.made /\ hooks = a.hooks
        /\ rows = [i \in Instances |-> None]
        /\ done = [i \in Instances |-> None]

(* The handler returns; a verdict on its instance stands only if it ended  *)
(* well and nobody else is at work on the instance.                        *)
Return(r, verdict) ==
  /\ goto(r, "idle")
  /\ op' = [op EXCEPT ![r] = None]
  /\ inst' = [inst EXCEPT ![r] = None]
  /\ cfg' = [cfg EXCEPT ![r] = None]
  /\ row' = [row EXCEPT ![r] = None]
  /\ done' = [done EXCEPT ![inst[r]] =
                IF \E q \in Requests \ {r} : inst[q] = inst[r] THEN None ELSE verdict]

(* One write to Evolution or Chatwoot, with its error path.                *)
Call(r, effect, unchanged, next) ==
  /\ \/ /\ effect
        /\ goto(r, next)
        /\ UNCHANGED <<op, inst, cfg, row, done>>
     \/ May("lost") /\ effect /\ Return(r, None)
     \/ May("call") /\ unchanged /\ Return(r, None)
  /\ UNCHANGED <<conf, rows>>

(* The first call of each operation.                                       *)
First == [attach |-> "findInstance", detach |-> "findChatwoot", fix |-> "setWebhook"]

(* POST /whatsapp/attach, detach or fix; the page that offered the button  *)
(* may be an old one, so any of them can come at any time.                 *)
Start(r, o, i) ==
  /\ pc[r] = "idle"
  /\ Unattended(i)
  /\ o # "attach" /\ Strays(i) => May("stray")
  /\ goto(r, First[o])
  /\ op' = [op EXCEPT ![r] = o]
  /\ inst' = [inst EXCEPT ![r] = i]
  /\ done' = [done EXCEPT ![i] = None]
  /\ UNCHANGED <<cfg, row, conf, remote, rows>>

(* Attach: cfg := s.config(), then findInstance.                           *)
FindInstance(r) ==
  /\ pc[r] = "findInstance"
  /\ \/ /\ cfg' = [cfg EXCEPT ![r] = conf]
        /\ goto(r, "setChatwoot")
        /\ UNCHANGED <<op, inst, row, done>>
     \/ May("call") /\ Return(r, None)
  /\ UNCHANGED <<conf, remote, rows>>

SetIntegration(i, on, c) ==
  /\ chatwoot' = [chatwoot EXCEPT ![i] = [enabled |-> on, conf |-> c]]
  /\ UNCHANGED <<events, inboxes, made, hooks>>

(* Mutant: an integration that is already enabled is left as it is.        *)
SetChatwootIfOff(r) ==
  /\ pc[r] = "setChatwoot"
  /\ IF chatwoot[inst[r]] # None /\ chatwoot[inst[r]].enabled
     THEN goto(r, "setWebhook") /\ UNCHANGED <<op, inst, cfg, row, conf, remote, rows, done>>
     ELSE Call(r, SetIntegration(inst[r], TRUE, cfg[r]), UNCHANGED remote, "setWebhook")

(* Attach: evolution.SetChatwoot with the settings captured at the start.  *)
SetChatwoot(r) ==
  /\ pc[r] = "setChatwoot"
  /\ Call(r, SetIntegration(inst[r], TRUE, cfg[r]), UNCHANGED remote, "setWebhook")

(* Attach and FixWebhooks: evolution.SetWebhook with the current settings. *)
SetWebhook(r) ==
  /\ pc[r] = "setWebhook"
  /\ Call(r,
          events' = [events EXCEPT ![inst[r]] = conf]
            /\ UNCHANGED <<chatwoot, inboxes, made, hooks>>,
          UNCHANGED remote,
          IF op[r] = "attach" THEN "waitForInbox" ELSE "readRow")

(* Mutant: the first inbox of the list instead of the one with the name.   *)
WaitForAnyInbox(r) ==
  /\ pc[r] = "waitForInbox"
  /\ \/ \E b \in inboxes : /\ row' = [row EXCEPT ![r] = Key(b.id, TRUE)]
                           /\ goto(r, "inboxHook")
                           /\ UNCHANGED <<op, inst, cfg, done>>
     \/ (Named(inst[r]) = {} \/ May("call")) /\ Return(r, None)
  /\ UNCHANGED <<conf, remote, rows>>

(* Attach: waitForInbox polls ListInboxes; it gives up after six tries or  *)
(* when the list cannot be read.  findInbox takes the first of the name.   *)
WaitForInbox(r) ==
  /\ pc[r] = "waitForInbox"
  /\ \/ \E b \in Named(inst[r]) : /\ row' = [row EXCEPT ![r] = Key(b.id, TRUE)]
                                  /\ goto(r, "inboxHook")
                                  /\ UNCHANGED <<op, inst, cfg, done>>
     \/ (Named(inst[r]) = {} \/ May("call")) /\ Return(r, None)
  /\ UNCHANGED <<conf, remote, rows>>

SetHook(id, h) ==
  /\ inboxes' = {IF b.id = id THEN [b EXCEPT !.hook = h] ELSE b : b \in inboxes}
  /\ UNCHANGED <<chatwoot, events, made, hooks>>

(* UpdateInboxWebhook of whatever inbox has the id in the account of now;  *)
(* an inbox that is gone answers 404, an error.                            *)
HookCall(r, h, next) ==
  IF \E b \in inboxes : b.id = row[r].inbox
  THEN Call(r, SetHook(row[r].inbox, h), UNCHANGED remote, next)
  ELSE Return(r, None) /\ UNCHANGED <<conf, remote, rows>>

(* Mutant: FixWebhooks counts on the account webhook that Attach created.  *)
InboxHookOnly(r) ==
  pc[r] = "inboxHook" /\ HookCall(r, conf, IF op[r] = "fix" THEN "upsert" ELSE "listHooks")

(* Attach and FixWebhooks: the inbox calls Evolution for agents' replies.  *)
InboxHook(r) == pc[r] = "inboxHook" /\ HookCall(r, conf, "listHooks")

(* ensureAccountWebhook: the list is read, and only then created from.     *)
(* main never leaves BrainWebhookURL empty, so the step is never skipped.  *)
ListHooks(r) ==
  /\ pc[r] = "listHooks"
  /\ \/ /\ goto(r, IF AccountWebhookOK THEN "upsert" ELSE "createHook")
        /\ UNCHANGED <<op, inst, cfg, row, done>>
     \/ May("call") /\ Return(r, None)
  /\ UNCHANGED <<conf, remote, rows>>

AddHook == /\ hooks' = IF hooks < MaxHooks THEN hooks + 1 ELSE hooks
           /\ UNCHANGED <<chatwoot, events, inboxes, made>>

(* CreateAccountWebhook: an error of the first POST, even of one that took *)
(* effect, is answered by a second one with another body.                  *)
CreateHook(r) ==
  /\ pc[r] = "createHook"
  /\ \/ AddHook /\ goto(r, "upsert")
     \/ May("lost") /\ AddHook /\ goto(r, "createHookAgain")
     \/ May("call") /\ UNCHANGED remote /\ goto(r, "createHookAgain")
  /\ UNCHANGED <<op, inst, cfg, row, conf, rows, done>>

CreateHookAgain(r) == /\ pc[r] = "createHookAgain"
                      /\ Call(r, AddHook, UNCHANGED remote, "upsert")

(* Mutant: the managed row is written before the account webhook is there. *)
UpsertEarly(r) ==
  /\ pc[r] \in {"listHooks", "upsert"}
  /\ \/ /\ rows' = [rows EXCEPT ![inst[r]] = With(row[r], TRUE)]
        /\ Return(r, op[r])
     \/ May("db") /\ Return(r, None) /\ UNCHANGED rows
  /\ UNCHANGED <<conf, remote>>

(* UpsertManagedWhatsAppInstance, the end of Attach and FixWebhooks, with  *)
(* the AI enabled whatever the table says.                                 *)
Upsert(r) ==
  /\ pc[r] = "upsert"
  /\ \/ /\ rows' = [rows EXCEPT ![inst[r]] = With(row[r], TRUE)]
        /\ Return(r, op[r])
     \/ May("db") /\ Return(r, None) /\ UNCHANGED rows
  /\ UNCHANGED <<conf, remote>>

(* Detach: cfg := s.config() and FindChatwoot, whose error is dropped: an  *)
(* integration that is not found is disabled with the current settings.    *)
FindChatwoot(r) ==
  LET found == chatwoot[inst[r]] IN
  /\ pc[r] = "findChatwoot"
  /\ cfg' \in {[cfg EXCEPT ![r] = c] :
                c \in (IF found # None THEN {found.conf} ELSE {conf})
                      \cup (IF May("call") THEN {conf} ELSE {})}
  /\ goto(r, "disable")
  /\ UNCHANGED <<op, inst, row, conf, remote, rows, done>>

Disable(r) ==
  /\ pc[r] = "disable"
  /\ Call(r, SetIntegration(inst[r], FALSE, cfg[r]), UNCHANGED remote, "readRow")

(* Detach and FixWebhooks: ManagedWhatsAppInstance.  Detach goes on when   *)
(* there is no row or the query failed, FixWebhooks does not.              *)
ReadRow(r) ==
  /\ pc[r] = "readRow"
  /\ \/ /\ rows[inst[r]] # None
        /\ row' = [row EXCEPT ![r] = Key(rows[inst[r]].inbox, rows[inst[r]].here)]
        /\ goto(r, IF op[r] = "fix" THEN "inboxHook" ELSE "clearHook")
        /\ UNCHANGED <<op, inst, cfg, done>>
     \/ /\ rows[inst[r]] = None \/ May("db")
        /\ op[r] = "detach"
        /\ goto(r, "markDetached")
        /\ UNCHANGED <<op, inst, cfg, row, done>>
     \/ /\ rows[inst[r]] = None \/ May("db")
        /\ op[r] = "fix"
        /\ Return(r, None)
  /\ UNCHANGED <<conf, remote, rows>>

ClearHook(r) == pc[r] = "clearHook" /\ HookCall(r, None, "markDetached")

(* Mutant: the instance is recorded as detached, the AI is left as it was. *)
MarkBridgeOnly(r) ==
  /\ pc[r] = "markDetached"
  /\ Return(r, op[r])
  /\ UNCHANGED <<conf, remote, rows>>

(* Mutant: an upsert, which adds a row, of no inbox, when there is none.   *)
MarkAnyDetached(r) ==
  /\ pc[r] = "markDetached"
  /\ rows' = [rows EXCEPT ![inst[r]] = IF @ = None THEN [inbox |-> 0, here |-> TRUE, ai |-> FALSE]
                                                  ELSE With(@, FALSE)]
  /\ Return(r, op[r])
  /\ UNCHANGED <<conf, remote>>

(* SetManagedWhatsAppDetached: an UPDATE, which adds no row.               *)
MarkDetached(r) ==
  /\ pc[r] = "markDetached"
  /\ \/ /\ rows' = [rows EXCEPT ![inst[r]] = IF @ = None THEN @ ELSE With(@, FALSE)]
        /\ Return(r, op[r])
     \/ May("db") /\ Return(r, None) /\ UNCHANGED rows
  /\ UNCHANGED <<conf, remote>>

(* A save of the settings that stays with the account, or leaves it: the   *)
(* rows, and what Evolution and the requests were told, are of the old one.*)
SameAccount == UNCHANGED <<inboxes, made, hooks, cfg, row, rows>>
Away(w) == IF w = None THEN None ELSE [w EXCEPT !.here = FALSE]
OtherAccount ==
  /\ \E a \in Accounts : inboxes' = a.inboxes /\ made' = a.made /\ hooks' = a.hooks
  /\ cfg' = [r \in Requests |-> None]
  /\ row' = [r \in Requests |-> Away(row[r])]
  /\ rows' = [i \in Instances |-> Away(rows[i])]

OldIntegrations ==
  [i \in Instances |-> IF chatwoot[i] = None THEN None ELSE [chatwoot[i] EXCEPT !.conf = None]]
OtherServer == \E e \in Servers : chatwoot' = e.chatwoot /\ events' = e.events

(* ApplyBridge from the settings page: both clients and the service take   *)
(* the new settings; no attached instance is told, no row is looked at.    *)
SetConfig ==
  /\ May("conf") \/ \A r \in Requests : pc[r] = "idle"
  /\ conf' \in Confs
  /\ \/ /\ conf' # conf /\ SameAccount /\ UNCHANGED <<chatwoot, events>>
        /\ done' = [i \in Instances |-> IF done[i] = "detach" THEN "detach" ELSE None]
     \/ /\ \/ OtherAccount /\ chatwoot' = OldIntegrations /\ UNCHANGED events
           \/ (SameAccount \/ OtherAccount) /\ OtherServer
        /\ done' = [i \in Instances |-> None]
  /\ UNCHANGED <<pc, op, inst>>

Crash == /\ May("crash")
         /\ pc' = [r \in Requests |-> "idle"]
         /\ op' = [r \in Requests |-> None]
         /\ inst' = [r \in Requests |-> None]
         /\ cfg' = [r \in Requests |-> None]
         /\ row' = [r \in Requests |-> None]
         /\ UNCHANGED <<conf, remote, rows, done>>

NewInbox(i) ==
  /\ made < MaxInboxes
  /\ made' = made + 1
  /\ inboxes' = inboxes \cup {[id |-> made + 1, name |-> i, hook |-> None]}
  /\ UNCHANGED <<local, conf, chatwoot, events, hooks, rows, done>>

(* Evolution (autoCreate) makes the inbox that an enabled integration      *)
(* lacks in the account it was told of.                                    *)
EvolutionMakesInbox(i) ==
  /\ chatwoot[i] # None /\ chatwoot[i].enabled /\ chatwoot[i].conf # None
  /\ Named(i) = {}
  /\ NewInbox(i)

MakeInbox(i) == May("twin") /\ NewInbox(i)

(* Somebody deletes an inbox in Chatwoot.                                  *)
DeleteInbox(b) ==
  /\ May("delete") /\ Unattended(b.name)
  /\ inboxes' = inboxes \ {b}
  /\ done' = [done EXCEPT ![b.name] = None]
  /\ UNCHANGED <<local, conf, chatwoot, events, made, hooks, rows>>

(* Somebody deletes account webhooks, while nobody counts on having one.   *)
DeleteHooks ==
  /\ May("delete") /\ hooks > 0
  /\ May("clash") \/ \A r \in Requests : pc[r] # "upsert"
  /\ hooks' \in 0..(hooks - 1)
  /\ done' = [i \in Instances |-> IF done[i] = "detach" THEN "detach" ELSE None]
  /\ UNCHANGED <<local, conf, chatwoot, events, inboxes, made, rows>>

(* A call that its client gave up after 30 s takes effect after all, when  *)
(* the request that made it is over and others may have come and gone.     *)
LateCall(i) ==
  /\ May("late") /\ Unattended(i)
  /\ \/ \E on \in BOOLEAN, c \in Confs : SetIntegration(i, on, c)
     \/ /\ events' \in {[events EXCEPT ![i] = c] : c \in Confs}
        /\ UNCHANGED <<chatwoot, inboxes, made, hooks>>
     \/ \E b \in Named(i), h \in Confs \cup {None} : SetHook(b.id, h)
     \/ AddHook
  /\ done' = [done EXCEPT ![i] = None]
  /\ UNCHANGED <<local, conf, rows>>

Serve(r) ==
  \/ FindInstance(r) \/ SetChatwoot(r) \/ SetWebhook(r) \/ WaitForInbox(r)
  \/ InboxHook(r) \/ ListHooks(r) \/ CreateHook(r) \/ CreateHookAgain(r) \/ Upsert(r)
  \/ FindChatwoot(r) \/ Disable(r) \/ ReadRow(r) \/ ClearHook(r) \/ MarkDetached(r)

Next == \/ \E r \in Requests : \/ \E o \in Ops, i \in Instances : Start(r, o, i)
                              \/ Serve(r)
        \/ SetConfig \/ Crash
        \/ \E i \in Instances : EvolutionMakesInbox(i) \/ MakeInbox(i) \/ LateCall(i)
        \/ \E b \in inboxes : DeleteInbox(b)
        \/ DeleteHooks

Spec == Init /\ [][Next]_vars

----------------------------------------------------------------------------
Steps == { "idle", "findInstance", "setChatwoot", "setWebhook", "waitForInbox", "inboxHook",
           "listHooks", "createHook", "createHookAgain", "upsert", "findChatwoot", "disable",
           "readRow", "clearHook", "markDetached" }

TypeOK == /\ pc \in [Requests -> Steps]
          /\ op \in [Requests -> Ops \cup {None}]
          /\ inst \in [Requests -> Instances \cup {None}]
          /\ cfg \in [Requests -> Confs \cup {None}]
          /\ row \in [Requests -> Found \cup {None}]
          /\ conf \in Confs
          /\ chatwoot \in [Instances -> Integration \cup {None}]
          /\ events \in [Instances -> Confs \cup {None}]
          /\ inboxes \subseteq Inbox /\ made \in 0..MaxInboxes /\ hooks \in 0..MaxHooks
          /\ rows \in [Instances -> Row \cup {None}]
          /\ done \in [Instances -> Ops \cup {None}]

(* Whatever failed, was lost, came late or was left half done before, with *)
(* whatever settings, in whatever account: one Attach that ends well       *)
(* leaves Evolution with the current token and address, of which the       *)
(* page's verdict says nothing, and an inbox of the instance with its      *)
(* webhook set inside the gate; unless it has two inboxes, it is ready.    *)
AttachedIsReady ==
  \A i \in Instances : done[i] = "attach" =>
    /\ chatwoot[i] # None /\ chatwoot[i].conf = conf
    /\ \E b \in Named(i) : b.hook = conf /\ Allows(b.id)
    /\ (\A b, c \in Named(i) : b = c) => Status(i) = "ready"

(* A Detach that ended well leaves the integration disabled and, if the    *)
(* instance had ever been attached, the brain deaf to its inbox until      *)
(* somebody attaches or fixes it again - or a row that is left from        *)
(* another account happens to have the inbox's id.                         *)
DetachedIsQuiet ==
  \A i \in Instances : done[i] = "detach" =>
    /\ chatwoot[i] # None /\ ~chatwoot[i].enabled
    /\ rows[i] # None => \A b \in Named(i) :
         Allows(b.id) => \E w \in {rows[j] : j \in Instances} \ {None} :
                           w.ai /\ ~w.here /\ w.inbox = b.id

(* FixWebhooks ("webhooks refreshed"): one that ends well leaves all three *)
(* in place with the current settings, whatever was saved, deleted or left *)
(* undone since the Attach, and the AI on for that very inbox.             *)
(* The integration it does not touch: it may be off, or have old settings. *)
FixedIsWired ==
  \A i \in Instances : done[i] = "fix" =>
    /\ EventWebhookOK(i) /\ AccountWebhookOK
    /\ rows[i] # None /\ rows[i].ai
    /\ \E b \in Named(i) : b.id = rows[i].inbox /\ b.hook = conf

(* The AI is never turned on for an instance whose webhooks are not all in *)
(* place, by Attach or FixWebhooks, whatever calls failed on the way.      *)
AITurnsOnWired ==
  [][\A i \in Instances :
       rows'[i] # None /\ rows'[i].ai /\ (rows[i] = None \/ ~rows[i].ai) =>
         /\ EventWebhookOK(i) /\ AccountWebhookOK
         /\ \E b \in Named(i) : b.id = rows'[i].inbox /\ b.hook = conf]_vars

(* No instance is recorded with the inbox that another one has in the      *)
(* account: the gate would let the brain answer where nobody attached it.  *)
(* An id that is left from another account may be anybody's in this one.   *)
RowsNameOwnInbox ==
  \A i \in Instances, b \in inboxes :
    rows[i] # None /\ rows[i].here /\ rows[i].inbox = b.id => b.name = i

(* What the receiver's gate has to reckon with: a step of these requests   *)
(* takes one inbox at most from the enabled ones and adds one at most, as  *)
(* Webhook assumes of the operator.                                        *)
SwitchesOneInbox ==
  [][\E off, on \in {{}} \cup {{b} : b \in 1..MaxInboxes} :
        AIEnabled' = (AIEnabled \ off) \cup on]_vars
=============================================================================
