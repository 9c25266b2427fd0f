---------------------------- MODULE BridgeProofs ----------------------------
(***************************************************************************)
(* Theorems about Bridge for every set of requests, instances, settings    *)
(* and inboxes, and for whatever accounts and servers the settings go to.  *)
(* The first part allows every fault; the second needs that requests do    *)
(* not meet at one instance, that the settings do not change while they    *)
(* are served, and that nobody detaches or fixes an instance that was      *)
(* attached in another account.                                            *)
(***************************************************************************)
EXTENDS Bridge, FiniteSetTheorems, TLAPS

(* What a request has in its locals, by where it is.                       *)
Ending == {"listHooks", "createHook", "createHookAgain", "upsert"}
Fixing == {"inboxHook"} \cup Ending
Holding == {"clearHook"} \cup Fixing
Locals == \A r \in Requests :
  /\ pc[r] = "idle" => inst[r] = None /\ row[r] = None
  /\ pc[r] # "idle" => inst[r] \in Instances
  /\ pc[r] \in Holding => row[r] # None

(* A Chatwoot account gives an id to one inbox, once.                      *)
Ids == \A b \in inboxes : b.id <= made /\ \A c \in inboxes : b.id = c.id => b = c

(* An id that was given out, and to nobody else's inbox.                   *)
Own(id, i) == id <= made /\ \A b \in inboxes : b.id = id => b.name = i

RowsOwn == \A i \in Instances : rows[i] # None /\ rows[i].here => Own(rows[i].inbox, i)
LocalsOwn == \A r \in Requests : row[r] # None /\ row[r].here => Own(row[r].inbox, inst[r])

Base == TypeOK /\ Locals /\ Ids /\ RowsOwn /\ LocalsOwn

LEMMA InitBase == Init => Base
<1> SUFFICES ASSUME Init PROVE Base
  OBVIOUS
<1>1. PICK a \in Accounts : inboxes = a.inboxes /\ made = a.made /\ hooks = a.hooks
  BY DEF Init
<1>2. TypeOK
  <2>1. inboxes \subseteq Inbox /\ made \in 0..MaxInboxes /\ hooks \in 0..MaxHooks
    BY <1>1, AccountsAssumption DEF Account
  <2>2. /\ chatwoot \in [Instances -> Integration \cup {None}]
        /\ events \in [Instances -> Confs \cup {None}]
    BY ServersAssumption DEF Init, Server
  <2> QED
    BY <2>1, <2>2 DEF Init, TypeOK, Steps, Ops
<1>3. Locals /\ RowsOwn /\ LocalsOwn
  BY DEF Init, Locals, RowsOwn, LocalsOwn, Holding, Fixing, Ending
<1>4. Ids
  BY <1>1, AccountsAssumption DEF Ids
<1> QED
  BY <1>2, <1>3, <1>4 DEF Base

----------------------------------------------------------------------------
(* What a step may do to inboxes: change their hooks, add one with a new   *)
(* id, remove some; and to rows: copy them between the table and the       *)
(* locals of requests for their instance, or make one for its inbox.       *)
InboxesFollow ==
  /\ made <= made'
  /\ \A b \in inboxes' : \/ \E c \in inboxes : b.id = c.id /\ b.name = c.name
                         \/ b.id > made

RowsFollow ==
  /\ \A r \in Requests : row'[r] # None /\ row'[r].here =>
                            inst'[r] = inst[r] /\ Own(row'[r].inbox, inst[r])
  /\ \A i \in Instances : rows'[i] # None /\ rows'[i].here => Own(rows'[i].inbox, i)

LEMMA FollowOwn ==
  ASSUME TypeOK, TypeOK', InboxesFollow, RowsFollow PROVE RowsOwn' /\ LocalsOwn'
<1>1. ASSUME NEW id \in Nat, NEW i, Own(id, i)
      PROVE  id <= made' /\ \A b \in inboxes' : b.id = id => b.name = i
  BY <1>1 DEF TypeOK, Inbox, InboxesFollow, Own
<1>2. ASSUME NEW i \in Instances, rows'[i] # None, rows'[i].here PROVE Own(rows[i].inbox, i)'
  <2>1. rows'[i].inbox \in Nat /\ Own(rows'[i].inbox, i)
    BY <1>2 DEF TypeOK, Row, RowsFollow
  <2> QED
    BY <1>1, <2>1 DEF Own
<1>3. ASSUME NEW r \in Requests, row'[r] # None, row'[r].here PROVE Own(row[r].inbox, inst[r])'
  <2>1. row'[r].inbox \in Nat /\ Own(row'[r].inbox, inst[r]) /\ inst'[r] = inst[r]
    BY <1>3 DEF TypeOK, Found, RowsFollow
  <2> QED
    BY <1>1, <2>1 DEF Own
<1> QED
  BY <1>2, <1>3 DEF RowsOwn, LocalsOwn

(* Each step is cut into what it does to the locals, to Evolution and      *)
(* Chatwoot, and to the rows.                                              *)
LocalsType == /\ pc \in [Requests -> Steps]
              /\ op \in [Requests -> Ops \cup {None}]
              /\ inst \in [Requests -> Instances \cup {None}]
              /\ cfg \in [Requests -> Confs \cup {None}]
              /\ row \in [Requests -> Found \cup {None}]
              /\ done \in [Instances -> Ops \cup {None}]
RemoteType == /\ chatwoot \in [Instances -> Integration \cup {None}]
              /\ events \in [Instances -> Confs \cup {None}]
              /\ inboxes \subseteq Inbox /\ made \in 0..MaxInboxes /\ hooks \in 0..MaxHooks
RowsType == rows \in [Instances -> Row \cup {None}]

LocalStep == LocalsType' /\ Locals'
RemoteStep == RemoteType' /\ Ids' /\ InboxesFollow
RowStep == RowsType' /\ RowsFollow
KeepsRow == \A q \in Requests : row'[q] # None => row'[q] = row[q] /\ inst'[q] = inst[q]

LEMMA Assemble ==
  ASSUME Base, LocalStep, RemoteStep, RowStep, conf' \in Confs PROVE Base'
<1>1. TypeOK'
  BY DEF TypeOK, LocalStep, LocalsType, RemoteStep, RemoteType, RowStep, RowsType
<1> QED
  BY <1>1, FollowOwn DEF Base, LocalStep, RemoteStep, RowStep

LEMMA KeepRows == ASSUME Base, UNCHANGED rows, KeepsRow PROVE RowStep
  BY DEF Base, TypeOK, RowsOwn, LocalsOwn, RowsFollow, KeepsRow, RowStep, RowsType

LEMMA KeepRemote == ASSUME Base, UNCHANGED remote PROVE RemoteStep
  BY DEF Base, TypeOK, remote, RemoteStep, RemoteType, Ids, InboxesFollow

LEMMA IntegrationStep ==
  ASSUME Base, NEW i \in Instances, NEW on \in BOOLEAN, NEW c \in Confs \cup {None},
         SetIntegration(i, on, c)
  PROVE  RemoteStep
<1>1. [enabled |-> on, conf |-> c] \in Integration
  BY DEF Integration
<1> QED
  BY <1>1 DEF Base, TypeOK, SetIntegration, RemoteStep, RemoteType, Ids, InboxesFollow

LEMMA HookStep ==
  ASSUME Base, NEW id, NEW h \in Confs \cup {None}, SetHook(id, h) PROVE RemoteStep
<1>1. inboxes' \subseteq Inbox
  BY DEF Base, TypeOK, SetHook, Inbox
<1>2. \A b \in inboxes' : \E c \in inboxes :
        b = IF c.id = id THEN [c EXCEPT !.hook = h] ELSE c
  BY DEF SetHook
<1>3. \A b \in inboxes' : \E c \in inboxes :
        /\ b = IF c.id = id THEN [c EXCEPT !.hook = h] ELSE c
        /\ b.id = c.id /\ b.name = c.name
  BY <1>2 DEF Base, TypeOK, Inbox
<1>4. Ids'
  BY <1>3 DEF Base, Ids, SetHook
<1>5. InboxesFollow
  BY <1>3 DEF Base, TypeOK, SetHook, InboxesFollow
<1> QED
  BY <1>1, <1>4, <1>5 DEF Base, TypeOK, SetHook, RemoteStep, RemoteType

LEMMA AddHookStep == ASSUME Base, AddHook PROVE RemoteStep
  BY BoundsAssumption DEF Base, TypeOK, AddHook, RemoteStep, RemoteType, Ids, InboxesFollow

----------------------------------------------------------------------------
(* The locals of a request that returns, goes on, or comes back from a     *)
(* call.                                                                   *)
GoesOn(r, l) == goto(r, l) /\ UNCHANGED <<op, inst, cfg, row, done>>
AfterCall(r, l) == GoesOn(r, l) \/ Return(r, None)

LEMMA ReturnLocal ==
  ASSUME Base, NEW r \in Requests, pc[r] # "idle", NEW v \in Ops \cup {None}, Return(r, v)
  PROVE  LocalStep /\ KeepsRow
<1> USE DEF Base, Return, goto, TypeOK
<1>1. LocalsType'
  BY DEF LocalsType, Steps, Locals
<1>2. Locals'
  BY DEF Locals, Holding, Fixing, Ending
<1>3. KeepsRow
  BY DEF KeepsRow
<1> QED
  BY <1>1, <1>2, <1>3 DEF LocalStep

LEMMA GoesOnLocal ==
  ASSUME Base, NEW r \in Requests, pc[r] # "idle",
         NEW l \in Steps \ {"idle"}, l \in Holding => row[r] # None, GoesOn(r, l)
  PROVE  LocalStep /\ KeepsRow
  BY DEF Base, GoesOn, goto, TypeOK, LocalsType, Locals, KeepsRow, LocalStep

LEMMA AfterCallLocal ==
  ASSUME Base, NEW r \in Requests, pc[r] # "idle",
         NEW l \in Steps \ {"idle"}, l \in Holding => row[r] # None, AfterCall(r, l)
  PROVE  LocalStep /\ KeepsRow
  BY ReturnLocal, GoesOnLocal DEF AfterCall

----------------------------------------------------------------------------
(* The steps of Attach, Detach and FixWebhooks.                            *)
LEMMA FindInstanceBase == ASSUME Base, NEW r \in Requests, FindInstance(r) PROVE Base'
<1>1. LocalStep /\ KeepsRow
  <2>1. CASE Return(r, None)
    BY <2>1, ReturnLocal DEF FindInstance
  <2>2. CASE /\ cfg' = [cfg EXCEPT ![r] = conf]
             /\ goto(r, "setChatwoot")
             /\ UNCHANGED <<op, inst, row, done>>
    BY <2>2 DEF Base, FindInstance, goto, TypeOK, LocalsType, Locals, KeepsRow, LocalStep, Steps,
                Holding, Fixing, Ending
  <2> QED
    BY <2>1, <2>2 DEF FindInstance
<1> QED
  BY <1>1, KeepRows, KeepRemote, Assemble DEF FindInstance, Base, TypeOK

LEMMA SetChatwootBase == ASSUME Base, NEW r \in Requests, SetChatwoot(r) PROVE Base'
<1>1. /\ AfterCall(r, "setWebhook") /\ UNCHANGED <<conf, rows>> /\ pc[r] = "setChatwoot"
      /\ SetIntegration(inst[r], TRUE, cfg[r]) \/ UNCHANGED remote
  BY DEF SetChatwoot, Call, AfterCall, GoesOn
<1>2. inst[r] \in Instances /\ cfg[r] \in Confs \cup {None}
  BY <1>1 DEF Base, Locals, TypeOK
<1>3. RemoteStep
  BY <1>1, <1>2, IntegrationStep, KeepRemote
<1>4. LocalStep /\ KeepsRow
  BY <1>1, AfterCallLocal DEF Steps, Holding, Fixing, Ending
<1> QED
  BY <1>1, <1>3, <1>4, KeepRows, Assemble DEF Base, TypeOK

LEMMA SetWebhookBase == ASSUME Base, NEW r \in Requests, SetWebhook(r) PROVE Base'
<1> DEFINE l == IF op[r] = "attach" THEN "waitForInbox" ELSE "readRow"
           Sets == /\ events' = [events EXCEPT ![inst[r]] = conf]
                   /\ UNCHANGED <<chatwoot, inboxes, made, hooks>>
<1>1. /\ AfterCall(r, l) /\ UNCHANGED <<conf, rows>> /\ pc[r] = "setWebhook"
      /\ Sets \/ UNCHANGED remote
  BY DEF SetWebhook, Call, AfterCall, GoesOn
<1>2. ASSUME Sets PROVE RemoteStep
  <2>1. RemoteType'
    BY <1>2 DEF Base, TypeOK, RemoteType
  <2>2. Ids' /\ InboxesFollow
    BY <1>2 DEF Base, TypeOK, Ids, InboxesFollow
  <2> QED
    BY <2>1, <2>2 DEF RemoteStep
<1>3. RemoteStep
  BY <1>1, <1>2, KeepRemote
<1>4. LocalStep /\ KeepsRow
  <2>1. l \in Steps \ {"idle"} /\ l \notin Holding
    BY DEF Steps, Holding, Fixing, Ending
  <2> QED
    BY <1>1, <2>1, AfterCallLocal
<1> QED
  BY <1>1, <1>3, <1>4, KeepRows, Assemble DEF Base, TypeOK

LEMMA WaitForInboxBase == ASSUME Base, NEW r \in Requests, WaitForInbox(r) PROVE Base'
<1>1. RemoteStep /\ conf' \in Confs /\ pc[r] = "waitForInbox" /\ inst[r] \in Instances
  BY KeepRemote DEF WaitForInbox, Base, TypeOK, Locals
<1>2. CASE Return(r, None)
  BY <1>1, <1>2, ReturnLocal, KeepRows, Assemble DEF WaitForInbox
<1>3. ASSUME NEW b \in Named(inst[r]), row' = [row EXCEPT ![r] = Key(b.id, TRUE)],
             goto(r, "inboxHook"), UNCHANGED <<op, inst, cfg, done>>
      PROVE  Base'
  <2>1. b \in inboxes /\ b.name = inst[r] /\ b.id \in 1..MaxInboxes
    BY <1>3 DEF Named, Base, TypeOK, Inbox
  <2>2. Key(b.id, TRUE) \in Found /\ Key(b.id, TRUE).inbox = b.id
    BY <2>1 DEF Key, Found
  <2>3. Own(b.id, inst[r])
    BY <2>1 DEF Own, Base, Ids
  <2>4. LocalStep
    BY <1>1, <1>3, <2>2, NoneAssumption
       DEF Base, goto, TypeOK, LocalsType, Locals, LocalStep, Steps
  <2>5. RowStep
    BY <1>3, <2>2, <2>3 DEF WaitForInbox, Base, TypeOK, RowsOwn, LocalsOwn, RowStep, RowsFollow, RowsType
  <2> QED
    BY <1>1, <2>4, <2>5, Assemble
<1> QED
  BY <1>2, <1>3 DEF WaitForInbox

LEMMA HookCallBase ==
  ASSUME Base, NEW r \in Requests, pc[r] # "idle", NEW h \in Confs \cup {None},
         NEW l \in Steps \ {"idle"}, row[r] # None, HookCall(r, h, l)
  PROVE  Base'
<1>1. /\ AfterCall(r, l) /\ UNCHANGED <<conf, rows>>
      /\ SetHook(row[r].inbox, h) \/ UNCHANGED remote
  BY DEF HookCall, Call, AfterCall, GoesOn
<1>2. RemoteStep
  BY <1>1, HookStep, KeepRemote
<1>3. LocalStep /\ KeepsRow
  BY <1>1, AfterCallLocal
<1> QED
  BY <1>1, <1>2, <1>3, KeepRows, Assemble DEF Base, TypeOK

LEMMA InboxHookBase ==
  ASSUME Base, NEW r \in Requests, InboxHook(r) \/ ClearHook(r) PROVE Base'
<1>1. conf \in Confs /\ row[r] # None
  BY DEF Base, TypeOK, Locals, Holding, Fixing, InboxHook, ClearHook
<1> QED
  BY <1>1, HookCallBase DEF InboxHook, ClearHook, Steps

LEMMA ListHooksBase == ASSUME Base, NEW r \in Requests, ListHooks(r) PROVE Base'
<1> DEFINE l == IF AccountWebhookOK THEN "upsert" ELSE "createHook"
<1>1. AfterCall(r, l) /\ UNCHANGED <<conf, remote, rows>> /\ pc[r] = "listHooks"
  BY DEF ListHooks, AfterCall, GoesOn
<1>2. l \in Steps \ {"idle"} /\ row[r] # None
  BY <1>1 DEF Steps, Base, Locals, Holding, Fixing, Ending
<1>3. LocalStep /\ KeepsRow
  BY <1>1, <1>2, AfterCallLocal
<1> QED
  BY <1>1, <1>3, KeepRemote, KeepRows, Assemble DEF Base, TypeOK

LEMMA CreateHookBase ==
  ASSUME Base, NEW r \in Requests, CreateHook(r) \/ CreateHookAgain(r) PROVE Base'
<1>1. /\ UNCHANGED <<conf, rows>> /\ pc[r] # "idle"
      /\ \E l \in {"upsert", "createHookAgain"} : AfterCall(r, l)
      /\ AddHook \/ UNCHANGED remote
  BY DEF CreateHook, CreateHookAgain, Call, AfterCall, GoesOn
<1>2. RemoteStep
  BY <1>1, AddHookStep, KeepRemote
<1>3. row[r] # None
  BY DEF CreateHook, CreateHookAgain, Base, Locals, Holding, Fixing, Ending
<1>4. LocalStep /\ KeepsRow
  BY <1>1, <1>3, AfterCallLocal DEF Steps
<1> QED
  BY <1>1, <1>2, <1>4, KeepRows, Assemble DEF Base, TypeOK

LEMMA UpsertBase == ASSUME Base, NEW r \in Requests, Upsert(r) PROVE Base'
<1>1. /\ RemoteStep /\ conf' \in Confs /\ pc[r] # "idle" /\ inst[r] \in Instances
      /\ op[r] \in Ops \cup {None} /\ row[r] \in Found
  BY KeepRemote DEF Upsert, Base, TypeOK, Locals, Holding, Fixing, Ending
<1>2. LocalStep /\ KeepsRow
  BY <1>1, ReturnLocal DEF Upsert
<1>3. CASE UNCHANGED rows
  BY <1>1, <1>2, <1>3, KeepRows, Assemble
<1>4. CASE rows' = [rows EXCEPT ![inst[r]] = With(row[r], TRUE)]
  <2> DEFINE w == With(row[r], TRUE)
  <2>1. w \in Row /\ w.inbox = row[r].inbox /\ w.here = row[r].here
    BY <1>1 DEF With, Row, Found
  <2>2. Own(row[r].inbox, inst[r]) \/ ~w.here
    BY <1>1, <2>1, NoneAssumption DEF Base, LocalsOwn
  <2> HIDE DEF w
  <2>3. RowsType'
    BY <1>1, <1>4, <2>1 DEF RowsType, Base, TypeOK, w
  <2>4. ASSUME NEW i \in Instances, rows'[i] # None, rows'[i].here PROVE Own(rows'[i].inbox, i)
    <3>1. rows' = [rows EXCEPT ![inst[r]] = w]
      BY <1>4 DEF w
    <3>2. CASE i = inst[r]
      BY <1>1, <2>1, <2>2, <2>4, <3>1, <3>2 DEF Base, TypeOK
    <3>3. CASE i # inst[r]
      BY <2>4, <3>1, <3>3 DEF Base, TypeOK, RowsOwn
    <3> QED
      BY <3>2, <3>3
  <2>5. RowsFollow
    BY <1>2, <2>4 DEF RowsFollow, KeepsRow, Base, LocalsOwn
  <2> QED
    BY <1>1, <1>2, <2>3, <2>5, Assemble DEF RowStep
<1> QED
  BY <1>3, <1>4 DEF Upsert

LEMMA FindChatwootBase == ASSUME Base, NEW r \in Requests, FindChatwoot(r) PROVE Base'
<1>1. PICK c \in Confs \cup {None} : cfg' = [cfg EXCEPT ![r] = c]
  BY DEF FindChatwoot, Base, TypeOK, Locals, Integration
<1>2. LocalStep /\ KeepsRow
  BY <1>1 DEF Base, FindChatwoot, goto, TypeOK, LocalsType, Locals, KeepsRow, LocalStep, Steps,
              Holding, Fixing, Ending
<1> QED
  BY <1>2, KeepRows, KeepRemote, Assemble DEF FindChatwoot, Base, TypeOK

LEMMA DisableBase == ASSUME Base, NEW r \in Requests, Disable(r) PROVE Base'
<1>1. /\ AfterCall(r, "readRow") /\ UNCHANGED <<conf, rows>> /\ pc[r] = "disable"
      /\ SetIntegration(inst[r], FALSE, cfg[r]) \/ UNCHANGED remote
  BY DEF Disable, Call, AfterCall, GoesOn
<1>2. inst[r] \in Instances /\ cfg[r] \in Confs \cup {None}
  BY <1>1 DEF Base, Locals, TypeOK
<1>3. RemoteStep
  BY <1>1, <1>2, IntegrationStep, KeepRemote
<1>4. LocalStep /\ KeepsRow
  BY <1>1, AfterCallLocal DEF Steps, Holding, Fixing, Ending
<1> QED
  BY <1>1, <1>3, <1>4, KeepRows, Assemble DEF Base, TypeOK

LEMMA ReadRowBase == ASSUME Base, NEW r \in Requests, ReadRow(r) PROVE Base'
<1>1. /\ RemoteStep /\ conf' \in Confs /\ pc[r] # "idle" /\ inst[r] \in Instances
      /\ UNCHANGED rows
  BY KeepRemote DEF ReadRow, Base, TypeOK, Locals
<1>2. CASE Return(r, None) \/ GoesOn(r, "markDetached")
  BY <1>1, <1>2, ReturnLocal, GoesOnLocal, KeepRows, Assemble DEF Steps, Holding, Fixing, Ending
<1>3. CASE /\ rows[inst[r]] # None
           /\ row' = [row EXCEPT ![r] = Key(rows[inst[r]].inbox, rows[inst[r]].here)]
           /\ goto(r, IF op[r] = "fix" THEN "inboxHook" ELSE "clearHook")
           /\ UNCHANGED <<op, inst, cfg, done>>
  <2> DEFINE w == Key(rows[inst[r]].inbox, rows[inst[r]].here)
  <2>1. rows[inst[r]] \in Row /\ (rows[inst[r]].here => Own(rows[inst[r]].inbox, inst[r]))
    BY <1>1, <1>3 DEF Base, TypeOK, RowsOwn
  <2>2. w \in Found /\ w.inbox = rows[inst[r]].inbox /\ w.here = rows[inst[r]].here
    BY <2>1 DEF Row, Found, Key
  <2>3. row' = [row EXCEPT ![r] = w]
    BY <1>3
  <2> HIDE DEF w
  <2>4. LocalStep
    <3>1. \E l \in {"inboxHook", "clearHook"} : pc' = [pc EXCEPT ![r] = l]
      BY <1>3 DEF goto
    <3>2. LocalsType'
      <4>1. row' \in [Requests -> Found \cup {None}]
        BY <2>2, <2>3 DEF Base, TypeOK
      <4>2. pc' \in [Requests -> Steps]
        BY <3>1 DEF Base, TypeOK, Steps
      <4> QED
        BY <1>3, <4>1, <4>2 DEF Base, TypeOK, LocalsType
    <3>3. Locals'
      BY <1>1, <1>3, <2>2, <2>3, <3>1, NoneAssumption
         DEF Base, TypeOK, Locals, Holding, Fixing, Ending
    <3> QED
      BY <3>2, <3>3 DEF LocalStep
  <2>5. RowStep
    BY <1>1, <1>3, <2>1, <2>2, <2>3
       DEF Base, TypeOK, RowsOwn, LocalsOwn, RowStep, RowsFollow, RowsType
  <2> QED
    BY <1>1, <2>4, <2>5, Assemble
<1> QED
  BY <1>2, <1>3 DEF ReadRow, GoesOn

LEMMA MarkDetachedBase == ASSUME Base, NEW r \in Requests, MarkDetached(r) PROVE Base'
<1>1. /\ RemoteStep /\ conf' \in Confs /\ pc[r] # "idle" /\ inst[r] \in Instances
      /\ op[r] \in Ops \cup {None}
  BY KeepRemote DEF MarkDetached, Base, TypeOK, Locals
<1>2. LocalStep /\ KeepsRow
  BY <1>1, ReturnLocal DEF MarkDetached
<1>3. CASE UNCHANGED rows
  BY <1>1, <1>2, <1>3, KeepRows, Assemble
<1>4. CASE rows' = [rows EXCEPT ![inst[r]] = IF @ = None THEN @ ELSE With(@, FALSE)]
  <2>1. \A w \in Row : /\ With(w, FALSE) \in Row
                       /\ With(w, FALSE).inbox = w.inbox /\ With(w, FALSE).here = w.here
    BY DEF With, Row
  <2>2. RowsType'
    BY <1>1, <1>4, <2>1 DEF RowsType, Base, TypeOK
  <2>3. RowsFollow
    BY <1>1, <1>2, <1>4, <2>1 DEF RowsFollow, KeepsRow, Base, TypeOK, RowsOwn, LocalsOwn
  <2> QED
    BY <1>1, <1>2, <2>2, <2>3, Assemble DEF RowStep
<1> QED
  BY <1>3, <1>4 DEF MarkDetached
----------------------------------------------------------------------------
(* Every step of the system keeps Base.                                    *)
LEMMA ServeBase == ASSUME Base, NEW r \in Requests, Serve(r) PROVE Base'
  BY FindInstanceBase, SetChatwootBase, SetWebhookBase, WaitForInboxBase, InboxHookBase,
     ListHooksBase, CreateHookBase, UpsertBase, FindChatwootBase, DisableBase, ReadRowBase,
     MarkDetachedBase DEF Serve

LEMMA StartBase ==
  ASSUME Base, NEW r \in Requests, NEW o \in Ops, NEW i \in Instances, Start(r, o, i)
  PROVE  Base'
<1>1. First[o] \in {"findInstance", "findChatwoot", "setWebhook"}
  BY DEF First, Ops
<1>2. LocalsType'
  BY <1>1 DEF Start, goto, Base, TypeOK, LocalsType, Steps
<1>3. Locals' /\ KeepsRow
  BY <1>1, NoneAssumption DEF Start, goto, Base, TypeOK, Locals, KeepsRow, Holding, Fixing, Ending
<1> QED
  BY <1>2, <1>3, KeepRows, KeepRemote, Assemble DEF Start, LocalStep, Base, TypeOK

LEMMA AwayIs ==
  /\ Away(None) = None
  /\ \A w \in Row \cup Found : w # None => Away(w) # None /\ ~Away(w).here
  /\ \A w \in Row : Away(w) \in Row /\ Away(w).inbox = w.inbox /\ (Away(w).ai <=> w.ai)
  /\ \A w \in Found : Away(w) \in Found
  BY NoneAssumption DEF Away, Row, Found

(* The requests keep an inbox if they had one, of the account or not.      *)
LEMMA SetConfigLocal == ASSUME Base, SetConfig PROVE LocalStep
<1>1. /\ UNCHANGED <<pc, op, inst>>
      /\ done' \in [Instances -> Ops \cup {None}]
      /\ \/ UNCHANGED <<cfg, row>>
         \/ /\ cfg' = [r \in Requests |-> None]
            /\ row' = [r \in Requests |-> Away(row[r])]
  BY DEF SetConfig, SameAccount, OtherAccount, Ops
<1>2. row' \in [Requests -> Found \cup {None}]
  BY <1>1, AwayIs DEF Base, TypeOK
<1>3. \A r \in Requests : row'[r] = None <=> row[r] = None
  BY <1>1, AwayIs DEF Base, TypeOK
<1> QED
  BY <1>1, <1>2, <1>3 DEF Base, TypeOK, LocalsType, Locals, LocalStep

(* In another account no id is of an instance until one is found there.    *)
LEMMA OtherAccountBase == ASSUME Base, SetConfig, OtherAccount PROVE Base'
<1>1. PICK a \in Accounts : inboxes' = a.inboxes /\ made' = a.made /\ hooks' = a.hooks
  BY DEF OtherAccount
<1>2. inboxes' \subseteq Inbox /\ made' \in 0..MaxInboxes /\ hooks' \in 0..MaxHooks
  BY <1>1, AccountsAssumption DEF Account
<1>3. Ids'
  BY <1>1, AccountsAssumption DEF Ids
<1>4. /\ chatwoot' \in [Instances -> Integration \cup {None}]
      /\ events' \in [Instances -> Confs \cup {None}]
  <2>1. CASE OtherServer
    BY <2>1, ServersAssumption DEF OtherServer, Server
  <2>2. CASE chatwoot' = OldIntegrations /\ UNCHANGED events
    BY <2>2 DEF OldIntegrations, Base, TypeOK, Integration
  <2>3. CASE SameAccount /\ UNCHANGED <<chatwoot, events>>
    BY <2>3 DEF Base, TypeOK
  <2> QED
    BY <2>1, <2>2, <2>3 DEF SetConfig
<1>5. rows' \in [Instances -> Row \cup {None}]
  BY AwayIs DEF OtherAccount, Base, TypeOK
<1>6. TypeOK' /\ Locals'
  BY <1>2, <1>4, <1>5, SetConfigLocal DEF TypeOK, LocalStep, LocalsType, SetConfig
<1>7. ASSUME NEW i \in Instances, rows'[i] # None PROVE ~rows'[i].here
  BY <1>7, AwayIs DEF OtherAccount, Base, TypeOK
<1>8. ASSUME NEW r \in Requests, row'[r] # None PROVE ~row'[r].here
  BY <1>8, AwayIs DEF OtherAccount, Base, TypeOK
<1> QED
  BY <1>3, <1>6, <1>7, <1>8 DEF Base, RowsOwn, LocalsOwn

LEMMA SetConfigBase == ASSUME Base, SetConfig PROVE Base'
<1>1. CASE OtherAccount
  BY <1>1, OtherAccountBase
<1>2. CASE SameAccount
  <2>1. KeepsRow /\ UNCHANGED rows
    BY <1>2 DEF SetConfig, SameAccount, KeepsRow
  <2>2. /\ chatwoot' \in [Instances -> Integration \cup {None}]
        /\ events' \in [Instances -> Confs \cup {None}]
    <3>1. CASE OtherServer
      BY <3>1, ServersAssumption DEF OtherServer, Server
    <3>2. CASE OtherAccount /\ chatwoot' = OldIntegrations /\ UNCHANGED events
      BY <3>2 DEF OldIntegrations, Base, TypeOK, Integration
    <3>3. CASE UNCHANGED <<chatwoot, events>>
      BY <3>3 DEF Base, TypeOK
    <3> QED
      BY <3>1, <3>2, <3>3 DEF SetConfig
  <2>3. RemoteStep
    BY <1>2, <2>2 DEF SameAccount, Base, TypeOK, RemoteStep, RemoteType, Ids, InboxesFollow
  <2> QED
    BY <2>1, <2>3, SetConfigLocal, KeepRows, Assemble DEF SetConfig
<1> QED
  BY <1>1, <1>2 DEF SetConfig

LEMMA CrashBase == ASSUME Base, Crash PROVE Base'
<1>1. LocalStep /\ KeepsRow
  BY DEF Crash, Base, TypeOK, LocalsType, Locals, LocalStep, KeepsRow, Steps, Holding, Fixing, Ending
<1> QED
  BY <1>1, KeepRows, KeepRemote, Assemble DEF Crash, Base, TypeOK

LEMMA NewInboxBase == ASSUME Base, NEW i \in Instances, NewInbox(i) PROVE Base'
<1> DEFINE b == [id |-> made + 1, name |-> i, hook |-> None]
<1>1. b \in Inbox /\ b.id = made + 1
  BY BoundsAssumption DEF NewInbox, Inbox, Base, TypeOK
<1>2. inboxes' = inboxes \cup {b} /\ made' = made + 1
  BY DEF NewInbox
<1> HIDE DEF b
<1>3. RemoteType'
  BY <1>1, <1>2, BoundsAssumption DEF NewInbox, Base, TypeOK, RemoteType
<1>4. \A c \in inboxes : c.id <= made /\ c.id \in Nat
  BY DEF Base, TypeOK, Ids, Inbox
<1>5. Ids'
  BY <1>1, <1>2, <1>4 DEF Base, TypeOK, Ids
<1>6. InboxesFollow
  BY <1>1, <1>2 DEF Base, TypeOK, InboxesFollow
<1>7. LocalStep /\ KeepsRow
  BY DEF NewInbox, local, Base, TypeOK, LocalsType, Locals, LocalStep, KeepsRow
<1> QED
  BY <1>3, <1>5, <1>6, <1>7, KeepRows, Assemble DEF NewInbox, RemoteStep, Base, TypeOK

LEMMA DeleteInboxBase == ASSUME Base, NEW b \in inboxes, DeleteInbox(b) PROVE Base'
<1>1. RemoteStep
  BY DEF DeleteInbox, Base, TypeOK, RemoteStep, RemoteType, Ids, InboxesFollow
<1>2. LocalStep /\ KeepsRow
  BY DEF DeleteInbox, local, Base, TypeOK, LocalsType, Locals, LocalStep, KeepsRow
<1> QED
  BY <1>1, <1>2, KeepRows, Assemble DEF DeleteInbox, Base, TypeOK

LEMMA DeleteHooksBase == ASSUME Base, DeleteHooks PROVE Base'
<1>1. RemoteStep
  BY BoundsAssumption DEF DeleteHooks, Base, TypeOK, RemoteStep, RemoteType, Ids, InboxesFollow
<1>2. LocalStep /\ KeepsRow
  BY DEF DeleteHooks, local, Base, TypeOK, LocalsType, Locals, LocalStep, KeepsRow, Ops
<1> QED
  BY <1>1, <1>2, KeepRows, Assemble DEF DeleteHooks, Base, TypeOK

LEMMA LateCallBase == ASSUME Base, NEW i \in Instances, LateCall(i) PROVE Base'
<1>1. LocalStep /\ KeepsRow
  BY DEF LateCall, local, Base, TypeOK, LocalsType, Locals, LocalStep, KeepsRow
<1>2. ASSUME NEW c \in Confs, events' = [events EXCEPT ![i] = c],
             UNCHANGED <<chatwoot, inboxes, made, hooks>>
      PROVE  RemoteStep
  BY <1>2 DEF Base, TypeOK, RemoteStep, RemoteType, Ids, InboxesFollow
<1>3. RemoteStep
  BY <1>2, IntegrationStep, HookStep, AddHookStep DEF LateCall
<1> QED
  BY <1>1, <1>3, KeepRows, Assemble DEF LateCall, Base, TypeOK

LEMMA NextBase == Base /\ [Next]_vars => Base'
<1>1. ASSUME Base, UNCHANGED vars PROVE Base'
  <2>1. LocalStep /\ KeepsRow
    BY <1>1 DEF vars, local, Base, TypeOK, LocalsType, Locals, LocalStep, KeepsRow
  <2> QED
    BY <1>1, <2>1, KeepRows, KeepRemote, Assemble DEF vars, Base, TypeOK
<1>2. ASSUME Base, Next PROVE Base'
  <2>1. ASSUME NEW r \in Requests, NEW o \in Ops, NEW i \in Instances, Start(r, o, i)
        PROVE  Base'
    BY <1>2, <2>1, StartBase
  <2>2. ASSUME NEW b \in inboxes, DeleteInbox(b) PROVE Base'
    BY <1>2, <2>2, DeleteInboxBase
  <2> QED
    BY <1>2, <2>1, <2>2, ServeBase, SetConfigBase, CrashBase, NewInboxBase, LateCallBase,
       DeleteHooksBase DEF Next, EvolutionMakesInbox, MakeInbox
<1> QED
  BY <1>1, <1>2

LEMMA InvariantBase == Spec => []Base
  BY InitBase, NextBase, PTL DEF Spec

(* Every variable keeps its type, whatever fails and whoever meets.        *)
THEOREM TypeCorrect == Spec => []TypeOK
<1>1. Base => TypeOK
  BY DEF Base
<1> QED
  BY InvariantBase, <1>1, PTL

(* Attach, FixWebhooks and Detach never record an instance with the inbox  *)
(* that another one has in the account, whatever fails, even when two of   *)
(* them meet at an instance, inboxes are deleted, made again and of one    *)
(* name, and the settings go from account to account meanwhile.            *)
THEOREM RowsAreOwn == Spec => []RowsNameOwnInbox
<1>1. Base => RowsNameOwnInbox
  BY DEF Base, RowsOwn, Own, RowsNameOwnInbox
<1> QED
  BY InvariantBase, <1>1, PTL

(* A row that changes, alone, moves one inbox out of the enabled ones and  *)
(* one into them at most: another row may enable the same inbox.           *)
LEMMA OneRowSwitches ==
  ASSUME TypeOK, TypeOK', NEW i \in Instances, \A j \in Instances : j # i => rows'[j] = rows[j]
  PROVE  \E off, on \in {{}} \cup {{b} : b \in 1..MaxInboxes} :
            AIEnabled' = (AIEnabled \ off) \cup on
<1> DEFINE Has(w) == w # None /\ w.ai
           one == {{}} \cup {{b} : b \in 1..MaxInboxes}
           others == {rows[j].inbox : j \in {k \in Instances : k # i /\ Has(rows[k])}}
           was == IF Has(rows[i]) THEN {rows[i].inbox} ELSE {}
           is == IF Has(rows'[i]) THEN {rows'[i].inbox} ELSE {}
           off == IF was \subseteq others THEN {} ELSE was
<1>1. was \in one /\ is \in one
  BY NoneAssumption DEF TypeOK, Row
<1>2. AIEnabled = others \cup was
  BY DEF AIEnabled
<1>3. AIEnabled' = others \cup is
  BY DEF AIEnabled
<1>4. off \in one
  BY <1>1
<1>5. (others \cup was) \ off = others
  OBVIOUS
<1> HIDE DEF one, others, was, is, off
<1>6. AIEnabled' = (AIEnabled \ off) \cup is
  BY <1>2, <1>3, <1>5
<1> QED
  BY <1>1, <1>4, <1>6 DEF one

(* The bridge does to the gate what Webhook lets its operator do, whatever *)
(* fails and whoever meets: Webhook's theorems hold with it at work.       *)
THEOREM GateMovesByOne == Spec => SwitchesOneInbox
<1> DEFINE A == \E off, on \in {{}} \cup {{b} : b \in 1..MaxInboxes} :
                   AIEnabled' = (AIEnabled \ off) \cup on
<1>1. ASSUME Base, Next PROVE A
  <2>1. TypeOK /\ TypeOK'
    BY <1>1, NextBase DEF Base
  <2>2. ASSUME UNCHANGED rows PROVE A
    <3>1. AIEnabled' = (AIEnabled \ {}) \cup {}
      BY <2>2 DEF AIEnabled
    <3> QED
      BY <3>1
  <2>3. ASSUME NEW r \in Requests, Upsert(r) \/ MarkDetached(r), rows' # rows PROVE A
    <3>1. inst[r] \in Instances
      BY <1>1, <2>3 DEF Base, Locals, Upsert, MarkDetached
    <3>2. \A j \in Instances : j # inst[r] => rows'[j] = rows[j]
      BY <2>1, <2>3 DEF Upsert, MarkDetached, TypeOK
    <3> QED
      BY <2>1, <3>1, <3>2, OneRowSwitches
  <2>4. ASSUME OtherAccount PROVE A
    <3>1. ASSUME NEW i \in Instances
          PROVE  /\ rows'[i] = None <=> rows[i] = None
                 /\ rows[i] # None => rows'[i].inbox = rows[i].inbox
                 /\ rows[i] # None => (rows'[i].ai <=> rows[i].ai)
      BY <2>1, <2>4, AwayIs DEF OtherAccount, TypeOK
    <3>2. \A x : x \in AIEnabled' <=> x \in AIEnabled
      <4>1. ASSUME NEW x, x \in AIEnabled' PROVE x \in AIEnabled
        <5>1. PICK i \in Instances : rows'[i] # None /\ rows'[i].ai /\ x = rows'[i].inbox
          BY <4>1 DEF AIEnabled
        <5>2. rows[i] # None /\ rows[i].ai /\ x = rows[i].inbox
          BY <3>1, <5>1
        <5> QED
          BY <5>2 DEF AIEnabled
      <4>2. ASSUME NEW x, x \in AIEnabled PROVE x \in AIEnabled'
        <5>1. PICK i \in Instances : rows[i] # None /\ rows[i].ai /\ x = rows[i].inbox
          BY <4>2 DEF AIEnabled
        <5>2. rows'[i] # None /\ rows'[i].ai /\ x = rows'[i].inbox
          BY <3>1, <5>1
        <5> QED
          BY <5>2 DEF AIEnabled
      <4> QED
        BY <4>1, <4>2
    <3>3. {} \in {{}} \cup {{b} : b \in 1..MaxInboxes}
      OBVIOUS
    <3>4. AIEnabled' = (AIEnabled \ {}) \cup {}
      BY <3>2
    <3> QED
      BY <3>3, <3>4
  <2>5. ASSUME NEW r \in Requests, Serve(r) PROVE A
    BY <2>2, <2>3, <2>5
    DEF Serve, FindInstance, SetChatwoot, SetWebhook, WaitForInbox, InboxHook, HookCall, ListHooks,
        CreateHook, CreateHookAgain, Call, FindChatwoot, Disable, ReadRow, ClearHook, remote
  <2> QED
    BY <1>1, <2>2, <2>4, <2>5
    DEF Next, Start, SetConfig, SameAccount, Crash, EvolutionMakesInbox, MakeInbox, NewInbox,
        DeleteInbox, DeleteHooks, LateCall
<1>2. Base /\ [Next]_vars => [A]_vars
  BY <1>1
<1> QED
  BY <1>2, InvariantBase, PTL DEF Spec, SwitchesOneInbox

----------------------------------------------------------------------------
(* From here on an instance has one request at a time, the settings stay   *)
(* what they are while requests are served, and an instance is detached or *)
(* fixed in the account that it was attached in.                           *)
Calm == ~May("clash") /\ ~May("conf") /\ ~May("stray")

Alone == \A q, r \in Requests : q # r /\ inst[q] # None => inst[q] # inst[r]
DoneIdle == \A i \in Instances : done[i] # None => \A r \in Requests : inst[r] # i

Enabled(i) == chatwoot[i] # None /\ chatwoot[i].enabled /\ chatwoot[i].conf = conf
Disabled(i) == chatwoot[i] # None /\ ~chatwoot[i].enabled
Wired(i, id) == \E b \in inboxes : b.name = i /\ b.id = id /\ b.hook = conf

(* What a request has reached by where it is: the operation it serves, the *)
(* integration, the event webhook, the row to write, the inbox's webhook   *)
(* and the account webhook, one after the other.                           *)
Serves(r) ==
  /\ pc[r] \in {"findInstance", "setChatwoot", "waitForInbox"} => op[r] = "attach"
  /\ pc[r] \in {"findChatwoot", "disable", "clearHook", "markDetached"} => op[r] = "detach"
  /\ pc[r] \in {"setWebhook"} \cup Fixing => op[r] \in {"attach", "fix"}
  /\ pc[r] = "readRow" => op[r] \in {"detach", "fix"}

Reached(r) ==
  /\ pc[r] = "setChatwoot" => cfg[r] = conf
  /\ op[r] = "attach" /\ pc[r] \in {"setWebhook", "waitForInbox"} \cup Fixing => Enabled(inst[r])
  /\ op[r] = "detach" /\ pc[r] \in {"readRow", "clearHook", "markDetached"} => Disabled(inst[r])
  /\ op[r] = "fix" /\ pc[r] = "readRow" => events[inst[r]] = conf
  /\ pc[r] \in {"waitForInbox"} \cup Fixing => events[inst[r]] = conf
  /\ pc[r] # "idle" /\ op[r] # "attach" => ~Strays(inst[r])
  /\ pc[r] \in Holding => row[r].here
  /\ pc[r] \in Ending => Wired(inst[r], row[r].inbox)
  /\ pc[r] = "upsert" => hooks > 0

(* What the last request on an instance left behind.                       *)
Finished(i) ==
  /\ done[i] = "attach" =>
       /\ Enabled(i) /\ events[i] = conf /\ hooks > 0
       /\ rows[i] # None /\ rows[i].ai /\ Wired(i, rows[i].inbox)
  /\ done[i] = "fix" =>
       /\ events[i] = conf /\ hooks > 0
       /\ rows[i] # None /\ rows[i].ai /\ Wired(i, rows[i].inbox)
  /\ done[i] = "detach" => Disabled(i) /\ (rows[i] = None \/ ~rows[i].ai)

CInv == /\ Alone /\ DoneIdle
        /\ \A r \in Requests : Serves(r) /\ Reached(r)
        /\ \A i \in Instances : Finished(i)

LEMMA InitCInv == Init => CInv
  BY NoneAssumption
     DEF Init, CInv, Alone, DoneIdle, Serves, Reached, Finished, Ending, Fixing, Holding, Ops

----------------------------------------------------------------------------
(* A step that leaves an instance alone leaves alone what was reached for  *)
(* it.                                                                     *)
Untouched(i) == /\ chatwoot'[i] = chatwoot[i] /\ events'[i] = events[i] /\ rows'[i] = rows[i]
                /\ conf' = conf /\ (hooks > 0 => hooks' > 0)
                /\ \A b \in inboxes : b.name = i => b \in inboxes'
SameLocals(r) == /\ pc'[r] = pc[r] /\ op'[r] = op[r]
                 /\ inst'[r] = inst[r] /\ row'[r] = row[r] /\ cfg'[r] = cfg[r]

LEMMA FrameRequest ==
  ASSUME NEW r \in Requests, Serves(r), Reached(r), Untouched(inst[r]), SameLocals(r)
  PROVE  (Serves(r) /\ Reached(r))'
<1>1. Serves(r)'
  BY DEF Serves, SameLocals
<1>2. \A id : Wired(inst[r], id) => Wired(inst[r], id)'
  BY DEF Wired, Untouched, SameLocals
<1>3. Wired(inst[r], row[r].inbox) => Wired(inst[r], row[r].inbox)'
  BY DEF Wired, Untouched, SameLocals
<1>4. Reached(r)'
  BY <1>3 DEF Reached, Untouched, SameLocals, Enabled, Disabled, Strays
<1> QED
  BY <1>1, <1>4

LEMMA FrameInstance ==
  ASSUME NEW i \in Instances, Finished(i), Untouched(i), done'[i] \in {done[i], None}
  PROVE  Finished(i)'
<1>1. Wired(i, rows[i].inbox) => Wired(i, rows[i].inbox)'
  BY DEF Wired, Untouched
<1> QED
  BY <1>1, NoneAssumption DEF Finished, Ops, Untouched, Enabled, Disabled

(* A request that works on its own instance only.                          *)
Touches(r) == /\ \A i \in Instances : i # inst[r] => Untouched(i)
              /\ conf' = conf
OthersSame(r) == \A q \in Requests : q # r => SameLocals(q)

LEMMA OthersKeep ==
  ASSUME Base, CInv, NEW r \in Requests, pc[r] # "idle", Touches(r), OthersSame(r),
         NEW q \in Requests, q # r
  PROVE  (Serves(q) /\ Reached(q))'
<1>1. SameLocals(q) /\ Serves(q) /\ Reached(q)
  BY DEF OthersSame, CInv
<1>2. CASE pc[q] = "idle"
  BY <1>1, <1>2 DEF SameLocals, Serves, Reached, Ending, Fixing, Holding
<1>3. CASE pc[q] # "idle"
  <2>1. inst[q] \in Instances /\ inst[q] # inst[r]
    BY <1>3, NoneAssumption DEF Base, Locals, CInv, Alone
  <2> QED
    BY <1>1, <2>1, FrameRequest DEF Touches
<1> QED
  BY <1>2, <1>3

LEMMA Goes ==
  ASSUME Base, CInv, NEW r \in Requests, pc[r] # "idle", Touches(r), OthersSame(r),
         UNCHANGED <<inst, done>>, (Serves(r) /\ Reached(r))'
  PROVE  CInv'
<1>1. \A q \in Requests : (Serves(q) /\ Reached(q))'
  BY OthersKeep
<1>2. (Alone /\ DoneIdle)'
  BY DEF CInv, Alone, DoneIdle
<1>3. ASSUME NEW i \in Instances, i # inst[r] PROVE Finished(i)'
  BY <1>3, FrameInstance DEF CInv, Touches
<1>4. inst[r] \in Instances /\ done'[inst[r]] = None
  BY DEF Base, Locals, CInv, DoneIdle
<1>5. Finished(inst[r])'
  BY <1>4, NoneAssumption DEF Finished, Ops
<1> QED
  BY <1>1, <1>2, <1>3, <1>4, <1>5 DEF CInv, Touches

LEMMA Ends ==
  ASSUME Base, CInv, NEW r \in Requests, pc[r] # "idle", Touches(r),
         NEW v \in Ops \cup {None}, Return(r, v),
         \A i \in Instances : i = inst[r] /\ done'[i] = v /\ v # None => Finished(i)'
  PROVE  CInv'
<1>1. inst[r] \in Instances /\ pc'[r] = "idle" /\ inst'[r] = None
  BY DEF Base, TypeOK, Locals, Return, goto
<1>2. OthersSame(r)
  BY DEF Base, TypeOK, Return, goto, OthersSame, SameLocals
<1>3. \A q \in Requests : (Serves(q) /\ Reached(q))'
  <2>1. (Serves(r) /\ Reached(r))'
    BY <1>1 DEF Serves, Reached, Ending, Fixing, Holding
  <2> QED
    BY <1>2, <2>1, OthersKeep
<1>4. done' = [done EXCEPT ![inst[r]] = v]
  BY <1>1, NoneAssumption DEF CInv, Alone, Return
<1>5. Alone'
  BY <1>1, <1>2 DEF CInv, Alone, OthersSame, SameLocals
<1>6. DoneIdle'
  BY <1>1, <1>2, <1>4, NoneAssumption
     DEF Base, TypeOK, CInv, Alone, DoneIdle, OthersSame, SameLocals
<1>7. ASSUME NEW i \in Instances, i # inst[r] PROVE Finished(i)'
  <2>1. done'[i] = done[i]
    BY <1>4, <1>7 DEF Base, TypeOK
  <2> QED
    BY <1>7, <2>1, FrameInstance DEF CInv, Touches
<1>8. ASSUME NEW i \in Instances, i = inst[r] PROVE Finished(i)'
  <2>1. done'[i] = v
    BY <1>4, <1>8 DEF Base, TypeOK
  <2>2. CASE v = None
    BY <2>1, <2>2, NoneAssumption DEF Finished, Ops
  <2> QED
    BY <1>8, <2>1, <2>2
<1> QED
  BY <1>1, <1>3, <1>5, <1>6, <1>7, <1>8 DEF CInv, Touches

----------------------------------------------------------------------------
(* Each effect on Evolution, Chatwoot and the rows is the instance's own.  *)
LEMMA TouchRows ==
  ASSUME Base, CInv, NEW r \in Requests, UNCHANGED <<remote, conf>>,
         \A i \in Instances : i # inst[r] => rows'[i] = rows[i]
  PROVE  Touches(r)
  BY DEF CInv, Touches, Untouched, remote

LEMMA TouchIntegration ==
  ASSUME Base, CInv, NEW r \in Requests, NEW on, NEW c, SetIntegration(inst[r], on, c),
         UNCHANGED <<rows, conf>>
  PROVE  Touches(r)
  BY DEF Base, TypeOK, CInv, Touches, Untouched, SetIntegration

LEMMA TouchEvents ==
  ASSUME Base, CInv, NEW r \in Requests, events' = [events EXCEPT ![inst[r]] = conf],
         UNCHANGED <<chatwoot, inboxes, made, hooks, rows, conf>>
  PROVE  Touches(r)
  BY DEF Base, TypeOK, CInv, Touches, Untouched

LEMMA TouchAddHook ==
  ASSUME Base, CInv, NEW r \in Requests, AddHook, UNCHANGED <<rows, conf>>
  PROVE  Touches(r) /\ hooks' > 0
  BY BoundsAssumption DEF Base, TypeOK, CInv, Touches, Untouched, AddHook

LEMMA TouchHook ==
  ASSUME Base, CInv, NEW r \in Requests, row[r] # None, row[r].here, NEW h,
         SetHook(row[r].inbox, h),
         UNCHANGED <<rows, conf>>
  PROVE  Touches(r)
<1> DEFINE Set(b) == IF b.id = row[r].inbox THEN [b EXCEPT !.hook = h] ELSE b
<1>1. inboxes' = {Set(b) : b \in inboxes}
  BY DEF SetHook
<1>2. \A b \in inboxes : b.name # inst[r] => Set(b) = b
  BY DEF Base, LocalsOwn, Own
<1> HIDE DEF Set
<1>3. ASSUME NEW i \in Instances, i # inst[r] PROVE Untouched(i)
  BY <1>1, <1>2, <1>3 DEF Untouched, SetHook
<1> QED
  BY <1>3 DEF Touches

----------------------------------------------------------------------------
(* The steps of Attach, Detach and FixWebhooks again.                      *)
LEMMA Fails ==
  ASSUME Base, CInv, NEW r \in Requests, pc[r] # "idle", Touches(r), Return(r, None)
  PROVE  CInv'
  BY Ends

LEMMA GoesOnOthers ==
  ASSUME Base, NEW r \in Requests, NEW l, goto(r, l), UNCHANGED <<op, inst>>,
         \A q \in Requests : q # r => row'[q] = row[q] /\ cfg'[q] = cfg[q]
  PROVE  OthersSame(r)
  BY DEF Base, TypeOK, goto, OthersSame, SameLocals

LEMMA FindInstanceCInv ==
  ASSUME Base, CInv, NEW r \in Requests, FindInstance(r) \/ FindChatwoot(r) PROVE CInv'
<1>1. Touches(r) /\ pc[r] # "idle" /\ UNCHANGED rows
  BY TouchRows DEF FindInstance, FindChatwoot
<1>2. CASE Return(r, None)
  BY <1>1, <1>2, Fails
<1>3. ASSUME NEW l \in {"setChatwoot", "disable"}, goto(r, l), UNCHANGED <<op, inst, row, done>>,
             \A q \in Requests : q # r => cfg'[q] = cfg[q],
             l = "setChatwoot" => pc[r] = "findInstance" /\ cfg'[r] = conf,
             l = "disable" => pc[r] = "findChatwoot"
      PROVE  CInv'
  <2>1. (Serves(r) /\ Reached(r))'
    BY <1>1, <1>3
       DEF Base, TypeOK, CInv, goto, Touches, Serves, Reached, Ending, Fixing, Holding, Strays
  <2>2. OthersSame(r)
    BY <1>3, GoesOnOthers
  <2> QED
    BY <1>1, <1>3, <2>1, <2>2, Goes
<1>4. CASE FindInstance(r)
  <2>1. cfg' = [cfg EXCEPT ![r] = conf] => cfg'[r] = conf /\ \A q \in Requests : q # r => cfg'[q] = cfg[q]
    BY DEF Base, TypeOK
  <2> QED
    BY <1>2, <1>3, <1>4, <2>1 DEF FindInstance
<1>5. CASE FindChatwoot(r)
  <2>1. \A c : cfg' = [cfg EXCEPT ![r] = c] => \A q \in Requests : q # r => cfg'[q] = cfg[q]
    BY DEF Base, TypeOK
  <2>2. \A q \in Requests : q # r => cfg'[q] = cfg[q]
    BY <1>5, <2>1 DEF FindChatwoot
  <2> QED
    BY <1>3, <1>5, <2>2 DEF FindChatwoot
<1> QED
  BY <1>4, <1>5

LEMMA SetChatwootCInv ==
  ASSUME Base, CInv, NEW r \in Requests, SetChatwoot(r) PROVE CInv'
<1>1. /\ pc[r] = "setChatwoot" /\ UNCHANGED <<conf, rows>>
      /\ SetIntegration(inst[r], TRUE, cfg[r]) \/ UNCHANGED remote
      /\ Return(r, None) \/ /\ GoesOn(r, "setWebhook")
                            /\ SetIntegration(inst[r], TRUE, cfg[r])
  BY DEF SetChatwoot, Call, GoesOn
<1>2. Touches(r)
  BY <1>1, TouchIntegration, TouchRows
<1>3. CASE Return(r, None)
  BY <1>1, <1>2, <1>3, Fails
<1>4. CASE GoesOn(r, "setWebhook") /\ SetIntegration(inst[r], TRUE, cfg[r])
  <2>1. [enabled |-> TRUE, conf |-> cfg[r]] \in Integration /\ inst[r] \in Instances
    BY <1>1 DEF Base, Locals, TypeOK, Integration
  <2>2. Enabled(inst[r])'
    <3>1. chatwoot'[inst[r]] = [enabled |-> TRUE, conf |-> cfg[r]] /\ inst' = inst
      BY <1>4, <2>1 DEF Base, TypeOK, SetIntegration, GoesOn
    <3>2. cfg[r] = conf /\ conf' = conf
      BY <1>1 DEF CInv, Reached
    <3> QED
      BY <2>1, <3>1, <3>2, NoneAssumption DEF Enabled
  <2>3. (Serves(r) /\ Reached(r))'
    BY <1>1, <1>4, <2>2
       DEF Base, TypeOK, CInv, GoesOn, goto, Serves, Reached, Ending, Fixing, Holding
  <2>4. OthersSame(r)
    BY <1>4, GoesOnOthers DEF GoesOn
  <2> QED
    BY <1>1, <1>2, <1>4, <2>3, <2>4, Goes DEF GoesOn
<1> QED
  BY <1>1, <1>3, <1>4

LEMMA DisableCInv ==
  ASSUME Base, CInv, NEW r \in Requests, Disable(r) PROVE CInv'
<1>1. /\ pc[r] = "disable" /\ UNCHANGED <<conf, rows>>
      /\ SetIntegration(inst[r], FALSE, cfg[r]) \/ UNCHANGED remote
      /\ Return(r, None) \/ /\ GoesOn(r, "readRow")
                            /\ SetIntegration(inst[r], FALSE, cfg[r])
  BY DEF Disable, Call, GoesOn
<1>2. Touches(r)
  BY <1>1, TouchIntegration, TouchRows
<1>3. CASE Return(r, None)
  BY <1>1, <1>2, <1>3, Fails
<1>4. CASE GoesOn(r, "readRow") /\ SetIntegration(inst[r], FALSE, cfg[r])
  <2>1. [enabled |-> FALSE, conf |-> cfg[r]] \in Integration /\ inst[r] \in Instances
    BY <1>1 DEF Base, Locals, TypeOK, Integration
  <2>2. Disabled(inst[r])'
    BY <1>4, <2>1, NoneAssumption DEF Base, TypeOK, SetIntegration, GoesOn, Disabled
  <2>3. (Serves(r) /\ Reached(r))'
    BY <1>1, <1>4, <2>2
       DEF Base, TypeOK, CInv, GoesOn, goto, Serves, Reached, Ending, Fixing, Holding, Strays
  <2>4. OthersSame(r)
    BY <1>4, GoesOnOthers DEF GoesOn
  <2> QED
    BY <1>1, <1>2, <1>4, <2>3, <2>4, Goes DEF GoesOn
<1> QED
  BY <1>1, <1>3, <1>4

LEMMA SetWebhookCInv ==
  ASSUME Base, CInv, NEW r \in Requests, SetWebhook(r) PROVE CInv'
<1> DEFINE l == IF op[r] = "attach" THEN "waitForInbox" ELSE "readRow"
           Sets == /\ events' = [events EXCEPT ![inst[r]] = conf]
                   /\ UNCHANGED <<chatwoot, inboxes, made, hooks>>
<1>1. /\ pc[r] = "setWebhook" /\ UNCHANGED <<conf, rows>>
      /\ Sets \/ UNCHANGED remote
      /\ Return(r, None) \/ (GoesOn(r, l) /\ Sets)
  BY DEF SetWebhook, Call, GoesOn
<1>2. Touches(r)
  BY <1>1, TouchEvents, TouchRows
<1>3. CASE Return(r, None)
  BY <1>1, <1>2, <1>3, Fails
<1>4. CASE GoesOn(r, l) /\ Sets
  <2>1. pc' = [pc EXCEPT ![r] = l] /\ UNCHANGED <<op, inst, row, done, conf, chatwoot, rows>>
    BY <1>1, <1>4 DEF GoesOn, goto
  <2>2. /\ op[r] \in {"attach", "fix"} /\ (op[r] = "attach" => Enabled(inst[r]))
        /\ op[r] # "attach" => ~Strays(inst[r])
    BY <1>1 DEF CInv, Serves, Reached
  <2>3. inst[r] \in Instances /\ events'[inst[r]] = conf'
    BY <1>1, <1>4 DEF Base, TypeOK, Locals
  <2>4. (Serves(r) /\ Reached(r))'
    BY <2>1, <2>2, <2>3
       DEF Base, TypeOK, Serves, Reached, Ending, Fixing, Holding, Enabled, Strays
  <2>5. OthersSame(r)
    BY <1>4, GoesOnOthers DEF GoesOn
  <2> QED
    BY <1>1, <1>2, <1>4, <2>4, <2>5, Goes DEF GoesOn
<1> QED
  BY <1>1, <1>3, <1>4

LEMMA WaitForInboxCInv ==
  ASSUME Base, CInv, NEW r \in Requests, WaitForInbox(r) PROVE CInv'
<1>1. Touches(r) /\ pc[r] = "waitForInbox" /\ UNCHANGED <<conf, remote, rows>>
  BY TouchRows DEF WaitForInbox
<1>2. CASE Return(r, None)
  BY <1>1, <1>2, Fails
<1>3. ASSUME NEW b \in Named(inst[r]), row' = [row EXCEPT ![r] = Key(b.id, TRUE)],
             goto(r, "inboxHook"), UNCHANGED <<op, inst, cfg, done>>
      PROVE  CInv'
  <2>1. op[r] = "attach"
    BY <1>1 DEF CInv, Serves
  <2>2. row'[r].here
    BY <1>3 DEF Base, TypeOK, Key
  <2>3. (Serves(r) /\ Reached(r))'
    BY <1>1, <1>3, <2>1, <2>2
       DEF Base, TypeOK, CInv, goto, Serves, Reached, Ending, Fixing, Holding, Enabled, remote
  <2>4. OthersSame(r)
    BY <1>3, GoesOnOthers DEF Base, TypeOK
  <2> QED
    BY <1>1, <1>3, <2>3, <2>4, Goes
<1> QED
  BY <1>2, <1>3 DEF WaitForInbox

(* The webhook of the inbox, set for an Attach or a fix or cleared.        *)
LEMMA InboxHookCInv ==
  ASSUME Base, CInv, NEW r \in Requests, InboxHook(r) \/ ClearHook(r) PROVE CInv'
<1>1. PICK h \in Confs \cup {None}, l \in {"listHooks", "markDetached"} :
        /\ HookCall(r, h, l)
        /\ l = "listHooks" => pc[r] = "inboxHook" /\ h = conf
        /\ l = "markDetached" => pc[r] = "clearHook"
  BY DEF InboxHook, ClearHook, Base, TypeOK
<1>2. /\ UNCHANGED <<conf, rows>> /\ pc[r] # "idle" /\ row[r] # None /\ row[r].here
      /\ SetHook(row[r].inbox, h) \/ UNCHANGED remote
      /\ \/ Return(r, None)
         \/ /\ GoesOn(r, l) /\ SetHook(row[r].inbox, h)
            /\ \E b \in inboxes : b.id = row[r].inbox
  BY <1>1 DEF HookCall, Call, GoesOn, Base, Locals, CInv, Reached, Fixing, Holding
<1>3. Touches(r)
  BY <1>2, TouchHook, TouchRows
<1>4. CASE Return(r, None)
  BY <1>2, <1>3, <1>4, Fails
<1>5. ASSUME GoesOn(r, l), SetHook(row[r].inbox, h), NEW b \in inboxes, b.id = row[r].inbox
      PROVE  CInv'
  <2>1. /\ pc' = [pc EXCEPT ![r] = l]
        /\ UNCHANGED <<op, inst, row, done, conf, chatwoot, events, rows>>
    BY <1>2, <1>5 DEF GoesOn, goto, SetHook
  <2>2. b.name = inst[r] /\ [b EXCEPT !.hook = h] \in inboxes'
    BY <1>2, <1>5 DEF Base, LocalsOwn, Own, SetHook
  <2>3. h = conf => Wired(inst[r], row[r].inbox)'
    BY <1>2, <1>5, <2>1, <2>2 DEF Wired, Base, TypeOK, Inbox
  <2>4. (Serves(r) /\ Reached(r))'
    BY <1>1, <2>1, <2>3
       DEF Base, TypeOK, CInv, Serves, Reached, Ending, Fixing, Holding, Enabled, Disabled, Strays
  <2>5. OthersSame(r)
    BY <1>5, GoesOnOthers DEF GoesOn
  <2> QED
    BY <1>2, <1>3, <1>5, <2>4, <2>5, Goes DEF GoesOn
<1> QED
  BY <1>2, <1>4, <1>5

(* The account webhook: read, created, created again.                      *)
LEMMA AccountHookCInv ==
  ASSUME Base, CInv, NEW r \in Requests,
         ListHooks(r) \/ CreateHook(r) \/ CreateHookAgain(r)
  PROVE  CInv'
<1>1. /\ pc[r] \in {"listHooks", "createHook", "createHookAgain"}
      /\ UNCHANGED <<conf, rows>>
      /\ AddHook \/ UNCHANGED remote
      /\ \/ Return(r, None)
         \/ \E l \in {"createHook", "createHookAgain", "upsert"} :
               GoesOn(r, l) /\ (l = "upsert" => AddHook \/ (hooks > 0 /\ UNCHANGED remote))
  BY DEF ListHooks, CreateHook, CreateHookAgain, Call, GoesOn, AccountWebhookOK
<1>2. Touches(r) /\ (AddHook => hooks' > 0)
  BY <1>1, TouchAddHook, TouchRows
<1>3. CASE Return(r, None)
  BY <1>1, <1>2, <1>3, Fails
<1>4. ASSUME NEW l \in {"createHook", "createHookAgain", "upsert"}, GoesOn(r, l),
             l = "upsert" => AddHook \/ (hooks > 0 /\ UNCHANGED remote)
      PROVE  CInv'
  <2>1. /\ pc' = [pc EXCEPT ![r] = l] /\ (l = "upsert" => hooks' > 0)
        /\ UNCHANGED <<op, inst, row, done, conf, chatwoot, events, inboxes, rows>>
    BY <1>1, <1>2, <1>4 DEF GoesOn, goto, AddHook, remote
  <2>2. Wired(inst[r], row[r].inbox)'
    BY <1>1, <2>1 DEF CInv, Reached, Ending, Wired
  <2>3. (Serves(r) /\ Reached(r))'
    BY <1>1, <2>1, <2>2
       DEF Base, TypeOK, CInv, Serves, Reached, Ending, Fixing, Holding, Enabled, Disabled, Strays
  <2>4. OthersSame(r)
    BY <1>4, GoesOnOthers DEF GoesOn
  <2> QED
    BY <1>1, <1>2, <1>4, <2>3, <2>4, Goes DEF GoesOn
<1> QED
  BY <1>1, <1>3, <1>4

LEMMA UpsertCInv ==
  ASSUME Base, CInv, NEW r \in Requests, Upsert(r) PROVE CInv'
<1>1. /\ pc[r] = "upsert" /\ UNCHANGED <<conf, remote>> /\ inst[r] \in Instances
      /\ op[r] \in {"attach", "fix"} /\ op[r] \in Ops
      /\ \A i \in Instances : i # inst[r] => rows'[i] = rows[i]
  BY DEF Upsert, Base, TypeOK, Locals, CInv, Serves, Fixing, Ending, Ops
<1>2. Touches(r)
  BY <1>1, TouchRows
<1>3. CASE Return(r, None)
  BY <1>1, <1>2, <1>3, Fails
<1>4. CASE rows' = [rows EXCEPT ![inst[r]] = With(row[r], TRUE)] /\ Return(r, op[r])
  <2>1. row[r] \in Found /\ With(row[r], TRUE) \in Row
    BY <1>1 DEF With, Found, Row, Base, TypeOK, Locals, Holding, Fixing, Ending
  <2>2. rows'[inst[r]] = With(row[r], TRUE) /\ rows'[inst[r]] # None
    BY <1>1, <1>4, <2>1, NoneAssumption DEF Base, TypeOK
  <2>3. rows'[inst[r]].ai /\ rows'[inst[r]].inbox = row[r].inbox
    BY <2>2 DEF With
  <2>4. ASSUME NEW i \in Instances, i = inst[r], done'[i] = op[r] PROVE Finished(i)'
    <3>1. /\ op[r] = "attach" => Enabled(i)
          /\ events[i] = conf /\ hooks > 0 /\ Wired(i, row[r].inbox)
      BY <1>1, <2>4 DEF CInv, Reached, Fixing, Ending
    <3>2. Wired(i, row[r].inbox) => Wired(i, rows[i].inbox)'
      BY <1>1, <2>3, <2>4 DEF Wired, remote
    <3> QED
      BY <1>1, <2>2, <2>3, <2>4, <3>1, <3>2 DEF Finished, Enabled, remote
  <2> QED
    BY <1>1, <1>2, <1>4, <2>4, Ends
<1> QED
  BY <1>3, <1>4 DEF Upsert

LEMMA ReadRowCInv ==
  ASSUME Base, CInv, NEW r \in Requests, ReadRow(r) PROVE CInv'
<1>1. /\ Touches(r) /\ pc[r] = "readRow" /\ UNCHANGED <<conf, remote, rows>>
      /\ inst[r] \in Instances /\ op[r] \in {"detach", "fix"} /\ ~Strays(inst[r])
  BY TouchRows DEF ReadRow, CInv, Serves, Reached, Base, Locals
<1>2. CASE Return(r, None)
  BY <1>1, <1>2, Fails
<1>3. ASSUME NEW l \in {"inboxHook", "clearHook", "markDetached"}, goto(r, l),
             UNCHANGED <<op, inst, cfg, done>>, \A q \in Requests : q # r => row'[q] = row[q],
             l = "inboxHook" => op[r] = "fix",
             l # "inboxHook" => op[r] = "detach",
             l # "markDetached" => row'[r].here
      PROVE  CInv'
  <2>1. (Serves(r) /\ Reached(r))'
    BY <1>1, <1>3
       DEF Base, TypeOK, CInv, goto, Serves, Reached, Ending, Fixing, Holding, Enabled, Disabled,
           Strays, remote
  <2>2. OthersSame(r)
    BY <1>3, GoesOnOthers
  <2> QED
    BY <1>1, <1>3, <2>1, <2>2, Goes
<1>4. CASE GoesOn(r, "markDetached") /\ op[r] = "detach"
  BY <1>3, <1>4 DEF GoesOn
<1>5. CASE /\ rows[inst[r]] # None
           /\ row' = [row EXCEPT ![r] = Key(rows[inst[r]].inbox, rows[inst[r]].here)]
           /\ goto(r, IF op[r] = "fix" THEN "inboxHook" ELSE "clearHook")
           /\ UNCHANGED <<op, inst, cfg, done>>
  <2>1. rows[inst[r]].here
    BY <1>1, <1>5 DEF Strays
  <2>2. row'[r].here /\ \A q \in Requests : q # r => row'[q] = row[q]
    BY <1>5, <2>1 DEF Base, TypeOK, Key
  <2> QED
    BY <1>1, <1>3, <1>5, <2>2
<1> QED
  BY <1>2, <1>4, <1>5 DEF ReadRow, GoesOn

LEMMA MarkDetachedCInv ==
  ASSUME Base, CInv, NEW r \in Requests, MarkDetached(r) PROVE CInv'
<1>1. /\ pc[r] = "markDetached" /\ UNCHANGED <<conf, remote>> /\ inst[r] \in Instances
      /\ op[r] = "detach" /\ op[r] \in Ops /\ Disabled(inst[r])
      /\ \A i \in Instances : i # inst[r] => rows'[i] = rows[i]
  BY DEF MarkDetached, Base, TypeOK, Locals, CInv, Serves, Reached, Ops
<1>2. Touches(r)
  BY <1>1, TouchRows
<1>3. CASE Return(r, None)
  BY <1>1, <1>2, <1>3, Fails
<1>4. CASE /\ rows' = [rows EXCEPT ![inst[r]] = IF @ = None THEN @ ELSE With(@, FALSE)]
           /\ Return(r, op[r])
  <2>1. \A w \in Row : ~With(w, FALSE).ai
    BY DEF With
  <2>2. rows'[inst[r]] = None \/ ~rows'[inst[r]].ai
    BY <1>1, <1>4, <2>1 DEF Base, TypeOK
  <2>3. ASSUME NEW i \in Instances, i = inst[r], done'[i] = op[r] PROVE Finished(i)'
    BY <1>1, <2>2, <2>3 DEF Finished, Disabled, remote
  <2> QED
    BY <1>1, <1>2, <1>4, <2>3, Ends
<1> QED
  BY <1>3, <1>4 DEF MarkDetached

LEMMA ServeCInv == ASSUME Base, CInv, NEW r \in Requests, Serve(r) PROVE CInv'
  BY FindInstanceCInv, SetChatwootCInv, SetWebhookCInv, WaitForInboxCInv, InboxHookCInv,
     AccountHookCInv, UpsertCInv, DisableCInv, ReadRowCInv, MarkDetachedCInv DEF Serve

----------------------------------------------------------------------------
(* The steps of nobody's request.                                          *)
LEMMA StartCInv ==
  ASSUME Calm, Base, CInv, NEW r \in Requests, NEW o \in Ops, NEW i \in Instances, Start(r, o, i)
  PROVE  CInv'
<1>1. /\ pc[r] = "idle" /\ (\A q \in Requests : inst[q] # i) /\ (o # "attach" => ~Strays(i))
      /\ pc' = [pc EXCEPT ![r] = First[o]] /\ op' = [op EXCEPT ![r] = o]
      /\ inst' = [inst EXCEPT ![r] = i] /\ done' = [done EXCEPT ![i] = None]
      /\ UNCHANGED <<cfg, row, conf, chatwoot, events, inboxes, hooks, rows>>
  BY DEF Calm, Start, Unattended, goto, remote
<1>2. (Alone /\ DoneIdle)'
  BY <1>1 DEF Base, TypeOK, Locals, CInv, Alone, DoneIdle
<1>3. ASSUME NEW q \in Requests PROVE (Serves(q) /\ Reached(q))'
  <2>1. CASE q = r
    BY <1>1, <2>1
       DEF Base, TypeOK, Serves, Reached, Ending, Fixing, Holding, Strays, First, Ops
  <2>2. CASE q # r
    <3>1. SameLocals(q) /\ Untouched(inst[q])
      BY <1>1, <2>2 DEF Base, TypeOK, SameLocals, Untouched
    <3> QED
      BY <3>1, FrameRequest DEF CInv
  <2> QED
    BY <2>1, <2>2
<1>4. ASSUME NEW j \in Instances PROVE Finished(j)'
  <2>1. Untouched(j) /\ done'[j] \in {done[j], None}
    BY <1>1 DEF Base, TypeOK, Untouched
  <2> QED
    BY <2>1, FrameInstance DEF CInv
<1> QED
  BY <1>2, <1>3, <1>4 DEF CInv

LEMMA SetConfigCInv == ASSUME Calm, Base, CInv, SetConfig PROVE CInv'
<1>1. /\ \A r \in Requests : pc'[r] = "idle" /\ inst'[r] = None
      /\ \/ \A i \in Instances : done'[i] = None
         \/ /\ UNCHANGED <<chatwoot, rows>>
            /\ done' = [i \in Instances |-> IF done[i] = "detach" THEN "detach" ELSE None]
  BY DEF Calm, SetConfig, SameAccount, Base, Locals
<1>2. (Alone /\ DoneIdle)'
  BY <1>1, NoneAssumption DEF CInv, Alone, DoneIdle
<1>3. \A q \in Requests : (Serves(q) /\ Reached(q))'
  BY <1>1 DEF Serves, Reached, Ending, Fixing, Holding
<1>4. \A i \in Instances : Finished(i)'
  BY <1>1, NoneAssumption DEF CInv, Finished, Disabled, Ops
<1> QED
  BY <1>2, <1>3, <1>4 DEF CInv

LEMMA CrashCInv == ASSUME Base, CInv, Crash PROVE CInv'
<1>1. /\ \A r \in Requests : pc'[r] = "idle" /\ inst'[r] = None
      /\ UNCHANGED <<conf, chatwoot, events, inboxes, hooks, rows, done>>
  BY DEF Crash, remote
<1>2. (Alone /\ DoneIdle)'
  BY <1>1, NoneAssumption DEF CInv, Alone, DoneIdle
<1>3. \A q \in Requests : (Serves(q) /\ Reached(q))'
  BY <1>1 DEF Serves, Reached, Ending, Fixing, Holding
<1>4. ASSUME NEW i \in Instances PROVE Finished(i)'
  BY <1>1, FrameInstance DEF CInv, Untouched
<1> QED
  BY <1>2, <1>3, <1>4 DEF CInv

LEMMA WorldCInv ==
  ASSUME Base, CInv, UNCHANGED local,
         \A i \in Instances : done'[i] \in {done[i], None},
         \A i \in Instances : Untouched(i) \/ (done'[i] = None /\ \A r \in Requests : inst[r] # i)
  PROVE  CInv'
<1>1. (Alone /\ DoneIdle)'
  BY DEF local, CInv, Alone, DoneIdle
<1>2. ASSUME NEW q \in Requests PROVE (Serves(q) /\ Reached(q))'
  <2>1. CASE pc[q] = "idle"
    BY <2>1 DEF local, Serves, Reached, Ending, Fixing, Holding
  <2>2. CASE pc[q] # "idle"
    <3>1. Untouched(inst[q]) /\ SameLocals(q)
      BY <2>2 DEF local, SameLocals, Base, Locals
    <3> QED
      BY <3>1, FrameRequest DEF CInv
  <2> QED
    BY <2>1, <2>2
<1>3. ASSUME NEW i \in Instances PROVE Finished(i)'
  <2>1. CASE Untouched(i)
    BY <2>1, FrameInstance DEF CInv
  <2>2. CASE done'[i] = None
    BY <2>2, NoneAssumption DEF Finished, Ops
  <2> QED
    BY <2>1, <2>2
<1> QED
  BY <1>1, <1>2, <1>3 DEF CInv

LEMMA NewInboxCInv == ASSUME Base, CInv, NEW i \in Instances, NewInbox(i) PROVE CInv'
<1>1. \A j \in Instances : Untouched(j)
  BY DEF NewInbox, Untouched
<1> QED
  BY <1>1, WorldCInv DEF NewInbox

LEMMA DeleteInboxCInv ==
  ASSUME Calm, Base, CInv, NEW b \in inboxes, DeleteInbox(b) PROVE CInv'
<1>1. b.name \in Instances
  BY DEF Base, TypeOK, Inbox
<1>2. ASSUME NEW i \in Instances
      PROVE  /\ done'[i] \in {done[i], None}
             /\ Untouched(i) \/ (done'[i] = None /\ \A r \in Requests : inst[r] # i)
  <2>1. CASE i = b.name
    BY <2>1 DEF Calm, DeleteInbox, Unattended, Base, TypeOK
  <2>2. CASE i # b.name
    BY <2>2 DEF DeleteInbox, Base, TypeOK, Untouched
  <2> QED
    BY <2>1, <2>2
<1> QED
  BY <1>2, WorldCInv DEF DeleteInbox

LEMMA LateCallCInv ==
  ASSUME Calm, Base, CInv, NEW i \in Instances, LateCall(i) PROVE CInv'
<1>1. /\ UNCHANGED <<local, conf, rows>> /\ done' = [done EXCEPT ![i] = None]
      /\ \A r \in Requests : inst[r] # i
  BY DEF Calm, LateCall, Unattended
<1>2. ASSUME NEW j \in Instances, j # i PROVE Untouched(j)
  <2>1. ASSUME NEW on \in BOOLEAN, NEW c \in Confs, SetIntegration(i, on, c) PROVE Untouched(j)
    BY <1>1, <1>2, <2>1 DEF Base, TypeOK, SetIntegration, Untouched
  <2>2. ASSUME NEW c \in Confs, events' = [events EXCEPT ![i] = c],
               UNCHANGED <<chatwoot, inboxes, made, hooks>>
        PROVE  Untouched(j)
    BY <1>1, <1>2, <2>2 DEF Base, TypeOK, Untouched
  <2>3. ASSUME NEW b \in Named(i), NEW h \in Confs \cup {None}, SetHook(b.id, h)
        PROVE  Untouched(j)
    <3>1. \A c \in inboxes : c.name = j => c.id # b.id
      BY <1>2, <2>3 DEF Base, Ids, Named
    <3>2. \A c \in inboxes : c.name = j => c \in inboxes'
      BY <2>3, <3>1 DEF SetHook
    <3> QED
      BY <1>1, <2>3, <3>2 DEF SetHook, Untouched
  <2>4. CASE AddHook
    BY <1>1, <2>4, BoundsAssumption DEF Base, TypeOK, AddHook, Untouched
  <2> QED
    BY <2>1, <2>2, <2>3, <2>4 DEF LateCall
<1>3. \A j \in Instances : done'[j] = (IF j = i THEN None ELSE done[j])
  BY <1>1 DEF Base, TypeOK
<1> QED
  BY <1>1, <1>2, <1>3, WorldCInv

(* No request that counts on the account webhook is under way.             *)
LEMMA DeleteHooksCInv == ASSUME Calm, Base, CInv, DeleteHooks PROVE CInv'
<1>1. /\ UNCHANGED <<pc, op, inst, cfg, row, conf, chatwoot, events, inboxes, rows>>
      /\ \A r \in Requests : pc[r] # "upsert"
      /\ done' = [i \in Instances |-> IF done[i] = "detach" THEN "detach" ELSE None]
  BY DEF Calm, DeleteHooks, local
<1>2. (Alone /\ DoneIdle)'
  BY <1>1, NoneAssumption DEF CInv, Alone, DoneIdle
<1>3. ASSUME NEW r \in Requests PROVE (Serves(r) /\ Reached(r))'
  BY <1>1 DEF CInv, Serves, Reached, Enabled, Disabled, Strays, Wired
<1>4. \A i \in Instances : Finished(i)'
  BY <1>1, NoneAssumption DEF CInv, Finished, Disabled, Ops
<1> QED
  BY <1>2, <1>3, <1>4 DEF CInv

LEMMA NextCInv == Calm => (Base /\ CInv /\ [Next]_vars => CInv')
<1>1. ASSUME Calm, Base, CInv, UNCHANGED vars PROVE CInv'
  <2>1. \A i \in Instances : Untouched(i) /\ done'[i] = done[i]
    BY <1>1 DEF vars, remote, Untouched
  <2> QED
    BY <1>1, <2>1, WorldCInv DEF vars
<1>2. ASSUME Calm, Base, CInv, Next PROVE CInv'
  BY <1>2, ServeCInv, StartCInv, SetConfigCInv, CrashCInv, NewInboxCInv, LateCallCInv,
     DeleteInboxCInv, DeleteHooksCInv DEF Next, EvolutionMakesInbox, MakeInbox
<1> QED
  BY <1>1, <1>2

LEMMA InvariantCInv == ASSUME Calm PROVE Spec => [](Base /\ CInv)
<1>1. Base /\ CInv /\ [Next]_vars => (Base /\ CInv)'
  BY NextBase, NextCInv
<1> QED
  BY InitBase, InitCInv, <1>1, PTL DEF Spec

----------------------------------------------------------------------------
(* Requests do not meet at an instance: an Attach that ends well leaves it *)
(* on the current settings, an inbox of it wired and inside the gate, and  *)
(* ready if it is the only one, whatever calls failed, were lost, came     *)
(* late or were cut off by a crash before, in whatever account.            *)
THEOREM AttachRepairs == ASSUME Calm PROVE Spec => []AttachedIsReady
<1>1. ASSUME Base, CInv, NEW i \in Instances, done[i] = "attach"
      PROVE  /\ chatwoot[i] # None /\ chatwoot[i].conf = conf
             /\ \E b \in Named(i) : b.hook = conf /\ Allows(b.id)
             /\ (\A b, c \in Named(i) : b = c) => Status(i) = "ready"
  <2>1. /\ Enabled(i) /\ events[i] = conf /\ hooks > 0
        /\ rows[i] # None /\ rows[i].ai /\ Wired(i, rows[i].inbox)
    BY <1>1 DEF CInv, Finished
  <2>2. PICK b \in Named(i) : b.id = rows[i].inbox /\ b.hook = conf
    BY <2>1 DEF Wired, Named
  <2>3. (\A a, c \in Named(i) : a = c) => Status(i) = "ready"
    BY <2>1, <2>2 DEF Status, BridgeOK, EventWebhookOK, AccountWebhookOK, Enabled
  <2>4. Allows(b.id)
    <3>1. rows[i].inbox \in AIEnabled
      BY <2>1 DEF AIEnabled
    <3> QED
      BY <2>2, <3>1 DEF Allows
  <2> QED
    BY <2>1, <2>2, <2>3, <2>4 DEF Enabled
<1>2. Base /\ CInv => AttachedIsReady
  BY <1>1 DEF AttachedIsReady
<1> QED
  BY InvariantCInv, <1>2, PTL

(* A Detach that ends well leaves the integration off and the brain deaf   *)
(* to the inboxes of an instance it ever managed - but for ids that rows   *)
(* have from another account - provided that the environment does not name *)
(* one of Chatwoot's WhatsApp inboxes: the run bridge_detach shows what    *)
(* happens when it does.                                                   *)
THEOREM DetachSilences ==
  ASSUME Calm, Fallback \cap (1..MaxInboxes) = {} PROVE Spec => []DetachedIsQuiet
<1> DEFINE Left(b) == \E w \in {rows[j] : j \in Instances} \ {None} :
                        w.ai /\ ~w.here /\ w.inbox = b.id
<1>1. ASSUME Base, CInv, NEW i \in Instances, done[i] = "detach"
      PROVE  /\ chatwoot[i] # None /\ ~chatwoot[i].enabled
             /\ rows[i] # None => \A b \in Named(i) : Allows(b.id) => Left(b)
  <2>1. Disabled(i) /\ (rows[i] = None \/ ~rows[i].ai)
    BY <1>1 DEF CInv, Finished
  <2>2. ASSUME rows[i] # None, NEW b \in Named(i), Allows(b.id) PROVE Left(b)
    <3>1. b \in inboxes /\ b.name = i /\ b.id \in 1..MaxInboxes
      BY <1>1, <2>2 DEF Named, Base, TypeOK, Inbox
    <3>2. b.id \notin Fallback
      BY <3>1
    <3>3. PICK j \in Instances : rows[j] # None /\ rows[j].ai /\ rows[j].inbox = b.id
      BY <2>2, <3>2 DEF Allows, AIEnabled
    <3>4. ~rows[j].here
      BY <1>1, <2>1, <2>2, <3>1, <3>3 DEF Base, RowsOwn, Own
    <3> QED
      BY <3>3, <3>4
  <2> QED
    BY <2>1, <2>2 DEF Disabled
<1>2. Base /\ CInv => DetachedIsQuiet
  BY <1>1 DEF DetachedIsQuiet
<1> QED
  BY InvariantCInv, <1>2, PTL

(* A FixWebhooks that ends well, of an instance attached in this account   *)
(* and alone at it, leaves the three webhooks in place with the settings   *)
(* of now, though inboxes and account webhooks had been deleted and the    *)
(* settings saved again and again since the Attach.                        *)
THEOREM FixRepairs == ASSUME Calm PROVE Spec => []FixedIsWired
<1>1. ASSUME CInv, NEW i \in Instances, done[i] = "fix"
      PROVE  /\ EventWebhookOK(i) /\ AccountWebhookOK
             /\ rows[i] # None /\ rows[i].ai
             /\ \E b \in Named(i) : b.id = rows[i].inbox /\ b.hook = conf
  BY <1>1 DEF CInv, Finished, Wired, Named, EventWebhookOK, AccountWebhookOK
<1>2. Base /\ CInv => FixedIsWired
  BY <1>1 DEF FixedIsWired
<1> QED
  BY InvariantCInv, <1>2, PTL

(* The steps that may write a managed row; only Upsert turns an AI on.     *)
LEMMA OthersKeepRows ==
  ASSUME NEW r \in Requests, Serve(r), ~Upsert(r), ~MarkDetached(r) PROVE UNCHANGED rows
  BY DEF Serve, FindInstance, SetChatwoot, SetWebhook, WaitForInbox, InboxHook, HookCall, Call,
         ListHooks, CreateHook, CreateHookAgain, FindChatwoot, Disable, ReadRow, ClearHook

(* Requests do not meet at an instance: Attach and FixWebhooks turn its AI *)
(* on only when its event webhook, the account webhook and the webhook of  *)
(* the very inbox they record are all in place with the current settings.  *)
THEOREM AITurnsOnLast == ASSUME Calm PROVE Spec => AITurnsOnWired
<1> DEFINE TurnsOn(i) == rows'[i] # None /\ rows'[i].ai /\ (rows[i] = None \/ ~rows[i].ai)
           AllWired(i) == /\ EventWebhookOK(i) /\ AccountWebhookOK
                          /\ \E b \in Named(i) : b.id = rows'[i].inbox /\ b.hook = conf
           Step == \A i \in Instances : TurnsOn(i) => AllWired(i)
<1>1. ASSUME Base, CInv, NEW r \in Requests, Upsert(r), NEW i \in Instances, TurnsOn(i)
      PROVE  AllWired(i)
  <2>1. pc[r] = "upsert" /\ inst[r] \in Instances
    BY <1>1 DEF Upsert, Base, Locals
  <2>2. i = inst[r] /\ rows'[i] = With(row[r], TRUE)
    BY <1>1, <2>1 DEF Upsert, Base, TypeOK
  <2>3. events[i] = conf /\ hooks > 0 /\ Wired(i, row[r].inbox)
    BY <1>1, <2>1, <2>2 DEF CInv, Reached, Fixing, Ending
  <2> QED
    BY <2>2, <2>3 DEF EventWebhookOK, AccountWebhookOK, Wired, Named, With
<1>2. ASSUME Base, NEW r \in Requests, MarkDetached(r), NEW i \in Instances PROVE ~TurnsOn(i)
  <2>1. \A w \in Row : ~With(w, FALSE).ai
    BY DEF With
  <2>2. CASE rows' = [rows EXCEPT ![inst[r]] = IF @ = None THEN @ ELSE With(@, FALSE)]
    <3>1. CASE i = inst[r]
      BY <1>2, <2>1, <2>2, <3>1 DEF Base, TypeOK
    <3>2. CASE i # inst[r]
      BY <1>2, <2>2, <3>2 DEF Base, TypeOK
    <3> QED
      BY <3>1, <3>2
  <2> QED
    BY <1>2, <2>2 DEF MarkDetached
<1>3. ASSUME UNCHANGED rows PROVE Step
  BY <1>3
<1>4. ASSUME Base, OtherAccount PROVE Step
  BY <1>4, AwayIs DEF OtherAccount, Base, TypeOK
<1>5. ASSUME Base, CInv, [Next]_vars PROVE Step
  <2>1. ASSUME NEW r \in Requests, Serve(r) PROVE Step
    BY <1>1, <1>2, <1>3, <1>5, <2>1, OthersKeepRows
  <2>2. ASSUME ~\E r \in Requests : Serve(r) PROVE UNCHANGED rows \/ OtherAccount
    BY <1>5, <2>2
       DEF Next, vars, Start, SetConfig, SameAccount, Crash, EvolutionMakesInbox, MakeInbox,
           NewInbox, DeleteInbox, DeleteHooks, LateCall
  <2> QED
    BY <1>3, <1>4, <1>5, <2>1, <2>2
<1>6. Base /\ CInv /\ [Next]_vars => [Step]_vars
  BY <1>5
<1> QED
  BY InvariantCInv, <1>6, PTL DEF Spec, AITurnsOnWired
=============================================================================
