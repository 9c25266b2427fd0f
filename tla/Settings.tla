------------------------------ MODULE Settings ------------------------------
(***************************************************************************)
(* The connection settings: the page's save (settingsSave in               *)
(* internal/ports/http/admin/handlers.go), the service and its table       *)
(* (usecase/settings, sqlite/settings_store.go), the live clients the      *)
(* values are applied to, and the overlay at boot (cmd/main.go).           *)
(*                                                                         *)
(* Each administrator is the goroutine of one POST; nothing orders two of  *)
(* them.  A field holds what the form sent (raw) until Save trims it.      *)
(***************************************************************************)
EXTENDS Naturals

CONSTANTS
  Admins,   \* requests that save settings at the same time
  Fields,   \* settings, the keys of app_settings
  Secrets,  \* the fields whose form input is a password left blank to keep
  Raw,      \* what a form field may hold
  Blank,    \* the empty string
  Trim,     \* Trim[r]: r without surrounding space and trailing slashes
  Env,      \* the values of the environment, defaults of all fields, as they are
  Uses,     \* Uses[c]: the fields client c works with
  Faults,   \* what may go wrong in this instance, see FaultKinds
  None      \* a key that is not in app_settings

Clients == {"evolution", "chatwoot", "whatsapp"}
Values == {r \in Raw : Trim[r] = r}
FaultKinds ==
  { "read",    \* SELECT from app_settings fails
    "write",   \* the transaction fails
    "blank",   \* an administrator empties a field that is no secret
    "crash" }  \* the process is killed and started again

ASSUME FaultsAssumption == Faults \subseteq FaultKinds
ASSUME SecretsAssumption == Secrets \subseteq Fields
ASSUME TrimAssumption == /\ Blank \in Raw /\ None \notin Raw
                         /\ Trim \in [Raw -> Raw] /\ Trim[Blank] = Blank
                         /\ \A r \in Raw : Trim[Trim[r]] = Trim[r]
ASSUME EnvAssumption == Env \in [Fields -> Raw]
ASSUME UsesAssumption == Uses \in [Clients -> SUBSET Fields]

VARIABLES
  pc,     \* where each save is
  form,   \* the Bridge it works on
  table,  \* the table app_settings
  live,   \* live[c]: the settings client c holds
  up,     \* the process runs
  saved,  \* history: every Bridge the table has held or boot has used
  typed   \* history: the secrets each save was given a new value for

vars == <<pc, form, table, live, up, saved, typed>>

May(f) == f \in Faults
goto(a, l) == pc' = [pc EXCEPT ![a] = l]
NoForm == [f \in Fields |-> Blank]

(* merge: stored values that are not empty, over the environment's, which  *)
(* config.Load does not trim (but for a slash at the end of some).         *)
Merge(kv) == [f \in Fields |-> IF kv[f] \in {None, Blank} THEN Env[f] ELSE kv[f]]
Part(b, c) == [f \in Uses[c] |-> b[f]]
Quiet == up /\ \A a \in Admins : pc[a] = "idle"

Init == /\ pc = [a \in Admins |-> "idle"]
        /\ form = [a \in Admins |-> NoForm]
        /\ table = [f \in Fields |-> None]
        /\ live = [c \in Clients |-> Part(Env, c)]
        /\ up = FALSE
        /\ saved = {Env}
        /\ typed = [a \in Admins |-> {}]

(* POST /settings.  The browser sends every field, changed or not.         *)
Submit(a) == /\ up /\ pc[a] = "idle"
             /\ \E b \in [Fields -> Raw] :
                  /\ May("blank") \/ \A f \in Fields \ Secrets : Trim[b[f]] # Blank
                  /\ form' = [form EXCEPT ![a] = b]
                  /\ typed' = [typed EXCEPT ![a] = {f \in Secrets : Trim[b[f]] # Blank}]
             /\ goto(a, "current")
             /\ UNCHANGED <<table, live, up, saved>>

Keep(b, cur) ==
  [f \in Fields |-> IF f \in Secrets /\ Trim[b[f]] = Blank THEN cur[f] ELSE b[f]]

(* Mutant: blank secrets are kept as the table has them, not as merged.    *)
KeepFromTable(a) ==
  /\ pc[a] = "current"
  /\ form' = [form EXCEPT ![a] = Keep(@, table)]
  /\ goto(a, "save")
  /\ UNCHANGED <<table, live, up, saved, typed>>

(* Mutant: a secret of nothing but spaces does not count as blank.         *)
KeepIfEmpty(a) ==
  /\ pc[a] = "current"
  /\ form' = [form EXCEPT ![a] = [f \in Fields |->
                IF f \in Secrets /\ @[f] = Blank THEN Merge(table)[f] ELSE @[f]]]
  /\ goto(a, "save")
  /\ UNCHANGED <<table, live, up, saved, typed>>

(* cur, _ := Current(): blank secrets become the current ones, and empty   *)
(* when the query fails, whose error is dropped.                           *)
KeepSecrets(a) ==
  /\ pc[a] = "current"
  /\ \E cur \in {Merge(table)} \cup (IF May("read") THEN {NoForm} ELSE {}) :
       form' = [form EXCEPT ![a] = Keep(@, cur)]
  /\ goto(a, "save")
  /\ UNCHANGED <<table, live, up, saved, typed>>

Normalized(b) == [f \in Fields |-> Trim[b[f]]]

(* Mutant: the table gets the form's values, only the clients' are trimmed. *)
SaveAsTyped(a) ==
  /\ pc[a] = "save"
  /\ table' = form[a]
  /\ saved' = saved \cup {Merge(Normalized(form[a])), Normalized(form[a])}
  /\ form' = [form EXCEPT ![a] = Normalized(@)]
  /\ goto(a, "evolution")
  /\ UNCHANGED <<live, up, typed>>

(* Mutant: a failed transaction is applied all the same.                   *)
SaveOrNot(a) ==
  /\ pc[a] = "save"
  /\ form' = [form EXCEPT ![a] = Normalized(@)]
  /\ goto(a, "evolution")
  /\ \/ /\ table' = Normalized(form[a])
        /\ saved' = saved \cup {Merge(Normalized(form[a])), Normalized(form[a])}
     \/ May("write") /\ UNCHANGED <<table, saved>>
  /\ UNCHANGED <<live, up, typed>>

(* Save: normalized, then SaveBridgeSettings writes every key in one       *)
(* transaction; only what was committed is applied.                        *)
Save(a) ==
  /\ pc[a] = "save"
  /\ \/ /\ table' = Normalized(form[a])
        /\ saved' = saved \cup {Merge(Normalized(form[a])), Normalized(form[a])}
        /\ form' = [form EXCEPT ![a] = Normalized(@)]
        /\ goto(a, "evolution")
     \/ /\ May("write")
        /\ form' = [form EXCEPT ![a] = NoForm]
        /\ goto(a, "idle")
        /\ UNCHANGED <<table, saved>>
  /\ UNCHANGED <<live, up, typed>>

After == [evolution |-> "chatwoot", chatwoot |-> "whatsapp", whatsapp |-> "idle"]

(* Mutant: ApplyBridge without the WhatsApp service's SetConfig.           *)
ConfigureClientsOnly(a) ==
  /\ pc[a] \in Clients
  /\ live' = IF pc[a] = "whatsapp" THEN live ELSE [live EXCEPT ![pc[a]] = Part(form[a], pc[a])]
  /\ form' = IF pc[a] = "whatsapp" THEN [form EXCEPT ![a] = NoForm] ELSE form
  /\ goto(a, After[pc[a]])
  /\ UNCHANGED <<table, up, saved, typed>>

(* ApplyBridge: evo.Configure, cw.Configure and wa.SetConfig, each of them *)
(* atomic (a mutex, a mutex, an atomic pointer), one after the other.      *)
Configure(a) ==
  /\ pc[a] \in Clients
  /\ live' = [live EXCEPT ![pc[a]] = Part(form[a], pc[a])]
  /\ form' = IF pc[a] = "whatsapp" THEN [form EXCEPT ![a] = NoForm] ELSE form
  /\ goto(a, After[pc[a]])
  /\ UNCHANGED <<table, up, saved, typed>>

Crash == /\ May("crash") /\ up
         /\ up' = FALSE
         /\ pc' = [a \in Admins |-> "idle"]
         /\ form' = [a \in Admins |-> NoForm]
         /\ UNCHANGED <<table, live, saved, typed>>

(* run: the clients are built from the environment, then overlaid by       *)
(* Current before the first request; a failing query leaves them there.    *)
Boot == /\ ~up
        /\ up' = TRUE
        /\ \E b \in {Merge(table)} \cup (IF May("read") THEN {Env} ELSE {}) :
             live' = [c \in Clients |-> Part(b, c)]
        /\ UNCHANGED <<pc, form, table, saved, typed>>

Next == \/ \E a \in Admins : Submit(a) \/ KeepSecrets(a) \/ Save(a) \/ Configure(a)
        \/ Crash
        \/ Boot

Spec == Init /\ [][Next]_vars

----------------------------------------------------------------------------
Steps == {"idle", "current", "save"} \cup Clients

TypeOK == /\ pc \in [Admins -> Steps]
          /\ form \in [Admins -> [Fields -> Raw]]
          /\ table \in [Fields -> Values \cup {None}]
          /\ up \in BOOLEAN
          /\ live = [c \in Clients |-> live[c]]
          /\ \A c \in Clients : live[c] \in [Uses[c] -> Raw]
          /\ saved \subseteq [Fields -> Raw]
          /\ typed \in [Admins -> SUBSET Secrets]

(* Between two saves the three clients work with exactly what the settings *)
(* page shows and what a restart would bring back, so that neither a save  *)
(* nor a crash in the middle of one leaves them on different connections.  *)
(* Only an environment value of nothing but space is empty to the one and  *)
(* not to the other.                                                       *)
SameSetting(v, w) == v = w \/ (Trim[v] = Blank /\ Trim[w] = Blank)
LiveIsCurrent ==
  Quiet => \A c \in Clients : \A f \in Uses[c] : SameSetting(live[c][f], Merge(table)[f])

(* No client ever works with a value that is not committed: one of a save  *)
(* whose transaction failed, or that was never submitted.                  *)
NothingUnsavedIsLive ==
  \A c \in Clients : \E b \in saved : live[c] = Part(b, c)

(* "Leave blank to keep": the commit of a save leaves a secret that nobody *)
(* typed at what was in force before, in the table or by default, but for  *)
(* the space around it: the environment's is stored trimmed by the first   *)
(* save.                                                                   *)
SecretsAreKept ==
  [][\A a \in Admins : pc[a] = "save" /\ pc'[a] = "evolution" =>
       \A f \in Secrets \ typed[a] : table'[f] = Trim[Merge(table)[f]]]_vars
=============================================================================
