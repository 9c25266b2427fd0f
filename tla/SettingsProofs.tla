--------------------------- MODULE SettingsProofs ---------------------------
(***************************************************************************)
(* Proofs about Settings.  Nothing uncommitted is ever in use for any      *)
(* administrators and any faults; that the clients agree with the table    *)
(* and that blank secrets are kept holds for one administrator at a time,  *)
(* whose queries do not fail and who empties no field.                     *)
(***************************************************************************)
EXTENDS Settings, TLAPS

Server == Crash \/ Boot

(* What every Bridge the model computes is made of.                        *)
LEMMA MergeType ==
  ASSUME NEW kv \in [Fields -> Values \cup {None}]
  PROVE  Merge(kv) \in [Fields -> Raw]
BY EnvAssumption DEF Merge, Values

LEMMA NormalizedType ==
  ASSUME NEW b \in [Fields -> Raw]
  PROVE  Normalized(b) \in [Fields -> Values]
BY TrimAssumption DEF Normalized, Values

LEMMA PartType ==
  ASSUME NEW b \in [Fields -> Raw], NEW c \in Clients
  PROVE  Part(b, c) \in [Uses[c] -> Raw]
BY UsesAssumption DEF Part

LEMMA NoFormType == NoForm \in [Fields -> Values]
BY TrimAssumption DEF NoForm, Values

LEMMA ValuesAreRaw == Values \subseteq Raw
BY DEF Values

----------------------------------------------------------------------------
(* A save that has committed holds trimmed values, all of them in saved,   *)
(* and so does whatever a restart would load.                              *)
Committed == \A a \in Admins :
               pc[a] \in Clients => form[a] \in [Fields -> Values] /\ form[a] \in saved
Bootable == Env \in saved /\ Merge(table) \in saved

IInv == TypeOK /\ Committed /\ Bootable /\ NothingUnsavedIsLive

LEMMA InitIInv == Init => IInv
<1> SUFFICES ASSUME Init PROVE IInv
  OBVIOUS
<1>1. TypeOK
  BY EnvAssumption, UsesAssumption, NoFormType, ValuesAreRaw, PartType
     DEF Init, TypeOK, Steps, Clients
<1>2. Merge(table) = Env
  BY EnvAssumption DEF Init, Merge
<1> QED
  BY <1>1, <1>2 DEF Init, IInv, Committed, Bootable, NothingUnsavedIsLive, Clients

LEMMA SubmitIInv ==
  ASSUME IInv, NEW a \in Admins, Submit(a) PROVE IInv'
<1>1. TypeOK'
  BY DEF IInv, Submit, TypeOK, goto, Steps
<1>2. Committed' /\ Bootable' /\ NothingUnsavedIsLive'
  BY DEF IInv, Submit, TypeOK, goto, Steps, Clients, Committed, Bootable, NothingUnsavedIsLive, Merge
<1> QED
  BY <1>1, <1>2 DEF IInv

LEMMA KeepSecretsIInv ==
  ASSUME IInv, NEW a \in Admins, KeepSecrets(a) PROVE IInv'
<1>1. PICK cur \in [Fields -> Raw] : form' = [form EXCEPT ![a] = Keep(@, cur)]
  <2>1. Merge(table) \in [Fields -> Raw]
    BY MergeType DEF IInv, TypeOK
  <2> QED
    BY <2>1, NoFormType, ValuesAreRaw DEF KeepSecrets
<1>2. Keep(form[a], cur) \in [Fields -> Raw]
  BY ValuesAreRaw DEF IInv, TypeOK, Keep
<1>3. TypeOK'
  BY <1>1, <1>2 DEF IInv, KeepSecrets, TypeOK, goto, Steps
<1>4. Committed' /\ Bootable' /\ NothingUnsavedIsLive'
  BY <1>1 DEF IInv, KeepSecrets, TypeOK, goto, Steps, Clients, Committed, Bootable, NothingUnsavedIsLive, Merge
<1> QED
  BY <1>3, <1>4 DEF IInv

LEMMA SaveIInv ==
  ASSUME IInv, NEW a \in Admins, Save(a) PROVE IInv'
<1> DEFINE b == Normalized(form[a])
<1>1. b \in [Fields -> Values]
  BY NormalizedType DEF IInv, TypeOK
<1>2. b \in [Fields -> Values \cup {None}]
  BY <1>1
<1>3. Merge(b) \in [Fields -> Raw]
  BY <1>2, MergeType
<1>4. CASE /\ table' = b
           /\ saved' = saved \cup {Merge(b), b}
           /\ form' = [form EXCEPT ![a] = b]
           /\ goto(a, "evolution")
  <2> HIDE DEF b
  <2>1. TypeOK'
    BY <1>1, <1>2, <1>3, <1>4, ValuesAreRaw DEF IInv, Save, TypeOK, goto, Steps, Clients
  <2>2. Merge(table') \in saved' /\ Env \in saved'
    BY <1>4 DEF IInv, Bootable
  <2>3. Bootable'
    BY <2>2 DEF Bootable, Merge
  <2>4. Committed'
    BY <1>1, <1>4 DEF IInv, Committed, TypeOK, goto, Steps, Clients
  <2>5. NothingUnsavedIsLive'
    BY <1>4 DEF IInv, Save, NothingUnsavedIsLive
  <2> QED
    BY <2>1, <2>3, <2>4, <2>5 DEF IInv
<1>5. CASE /\ form' = [form EXCEPT ![a] = NoForm]
           /\ goto(a, "idle")
           /\ UNCHANGED <<table, saved>>
  <2>1. TypeOK'
    BY <1>5, NoFormType, ValuesAreRaw DEF IInv, Save, TypeOK, goto, Steps
  <2>2. Committed' /\ Bootable' /\ NothingUnsavedIsLive'
    BY <1>5 DEF IInv, Save, TypeOK, goto, Steps, Clients, Committed, Bootable, NothingUnsavedIsLive, Merge
  <2> QED
    BY <2>1, <2>2 DEF IInv
<1> QED
  BY <1>4, <1>5 DEF Save

LEMMA ConfigureIInv ==
  ASSUME IInv, NEW a \in Admins, Configure(a) PROVE IInv'
<1>1. pc[a] \in Clients /\ form[a] \in [Fields -> Values] /\ form[a] \in saved
  BY DEF IInv, Committed, Configure
<1>2. Part(form[a], pc[a]) \in [Uses[pc[a]] -> Raw]
  BY <1>1, ValuesAreRaw, PartType
<1>3. After[pc[a]] \in Clients \cup {"idle"}
  BY <1>1 DEF After, Clients
<1>4. form' \in [Admins -> [Fields -> Raw]]
  BY NoFormType, ValuesAreRaw DEF Configure, IInv, TypeOK
<1>5. TypeOK'
  BY <1>1, <1>2, <1>3, <1>4 DEF IInv, Configure, TypeOK, goto, Steps
<1>6. After[pc[a]] \in Clients => form' = form
  BY <1>1 DEF Configure, After, Clients
<1>7. Committed'
  BY <1>1, <1>3, <1>6 DEF IInv, Configure, Committed, TypeOK, goto
<1>8. NothingUnsavedIsLive'
  BY <1>1 DEF IInv, Configure, NothingUnsavedIsLive, TypeOK, Part
<1>9. Bootable'
  BY DEF IInv, Configure, Bootable, Merge
<1> QED
  BY <1>5, <1>7, <1>8, <1>9 DEF IInv

LEMMA ServerIInv ==
  ASSUME IInv, Server PROVE IInv'
<1>1. CASE Crash
  <2>1. TypeOK'
    BY <1>1, NoFormType, ValuesAreRaw DEF Crash, IInv, TypeOK, Steps
  <2> QED
    BY <2>1, <1>1 DEF Crash, IInv, Committed, Bootable, NothingUnsavedIsLive, Merge, Clients
<1>2. CASE Boot
  <2>1. PICK b \in saved : live' = [c \in Clients |-> Part(b, c)]
    BY <1>2 DEF Boot, IInv, Bootable
  <2>2. b \in [Fields -> Raw]
    BY DEF IInv, TypeOK
  <2>3. TypeOK'
    BY <1>2, <2>1, <2>2, PartType DEF Boot, IInv, TypeOK
  <2>4. NothingUnsavedIsLive'
    BY <1>2, <2>1 DEF Boot, NothingUnsavedIsLive
  <2> QED
    BY <2>3, <2>4, <1>2 DEF Boot, IInv, Committed, Bootable, Merge
<1> QED
  BY <1>1, <1>2 DEF Server

LEMMA NextIInv == IInv /\ [Next]_vars => IInv'
<1> SUFFICES ASSUME IInv, [Next]_vars PROVE IInv'
  OBVIOUS
<1>1. CASE UNCHANGED vars
  BY <1>1 DEF vars, IInv, TypeOK, Committed, Bootable, NothingUnsavedIsLive, Merge
<1>2. CASE Next
  BY <1>2, SubmitIInv, KeepSecretsIInv, SaveIInv, ConfigureIInv, ServerIInv DEF Next, Server
<1> QED
  BY <1>1, <1>2

THEOREM InvariantIInv == Spec => []IInv
<1> QED
  BY InitIInv, NextIInv, PTL DEF Spec

(* Every variable of the settings keeps its type, under every fault.       *)
THEOREM TypeCorrect == Spec => []TypeOK
<1>1. IInv => TypeOK
  BY DEF IInv
<1> QED
  BY InvariantIInv, <1>1, PTL

(* Only what was committed, or is the environment's, is ever in use, for   *)
(* any number of administrators and every fault.                           *)
THEOREM OnlySavedIsLive == Spec => []NothingUnsavedIsLive
<1>1. IInv => NothingUnsavedIsLive
  BY DEF IInv
<1> QED
  BY InvariantIInv, <1>1, PTL

----------------------------------------------------------------------------
(* One administrator at a time, whose queries do not fail and who empties  *)
(* no field.  A save is then alone with the table it read, and a value it  *)
(* commits is empty only where the environment's is too, or is nothing but *)
(* space, so that merging makes no difference to a client.                 *)
Alone == /\ \A a, b \in Admins : a = b
         /\ ~May("read") /\ ~May("blank")

Filled(b) == \A f \in Fields : Trim[b[f]] = Blank => Trim[Env[f]] = Blank
Alike(b, d) == \A f \in Fields : SameSetting(b[f], d[f])
LiveHas(b, c) == live[c] = Part(b, c)

FormInv ==
  \A a \in Admins :
    /\ pc[a] = "current" =>
         /\ \A f \in Fields \ Secrets : Trim[form[a][f]] # Blank
         /\ \A f \in Secrets \ typed[a] : Trim[form[a][f]] = Blank
    /\ pc[a] = "save" =>
         /\ Filled(form[a])
         /\ \A f \in Secrets \ typed[a] : form[a][f] = Merge(table)[f]
    /\ pc[a] \in Clients => Alike(form[a], Merge(table))

AppliedInv ==
  \A a \in Admins :
    /\ pc[a] \in {"chatwoot", "whatsapp"} => LiveHas(form[a], "evolution")
    /\ pc[a] = "whatsapp" => LiveHas(form[a], "chatwoot")

StoppedInv == ~up => \A a \in Admins : pc[a] = "idle"
SettledInv ==
  up /\ (\A a \in Admins : pc[a] \notin Clients)
  => \A c \in Clients : \A f \in Uses[c] : SameSetting(live[c][f], Merge(table)[f])

AInv == FormInv /\ AppliedInv /\ StoppedInv /\ SettledInv

LEMMA MergedIsFilled ==
  ASSUME NEW kv \in [Fields -> Values \cup {None}] PROVE Filled(Merge(kv))
<1>1. \A v \in Values : Trim[v] = v
  BY DEF Values
<1> QED
  BY <1>1, TrimAssumption DEF Filled, Merge

LEMMA MergeFilled ==
  ASSUME NEW b \in [Fields -> Raw], Filled(b)
  PROVE  Alike(Normalized(b), Merge(Normalized(b)))
<1>1. Normalized(b) \in [Fields -> Values]
  BY NormalizedType
<1>2. ASSUME NEW f \in Fields
      PROVE  SameSetting(Normalized(b)[f],
               IF Normalized(b)[f] \in {None, Blank} THEN Env[f] ELSE Normalized(b)[f])
  BY <1>1, TrimAssumption DEF Normalized, Filled, Values, SameSetting
<1> QED
  BY <1>1, <1>2 DEF Merge, Alike

LEMMA InitAInv == Init => AInv
<1> SUFFICES ASSUME Init PROVE AInv
  OBVIOUS
<1>1. Merge(table) = Env
  BY EnvAssumption DEF Init, Merge
<1> QED
  BY <1>1 DEF Init, AInv, FormInv, AppliedInv, StoppedInv, SettledInv, Clients

LEMMA SubmitAInv ==
  ASSUME IInv, AInv, Alone, NEW a \in Admins, Submit(a) PROVE AInv'
<1>1. pc'[a] = "current" /\ \A b \in Admins : b = a
  BY DEF Alone, Submit, goto, IInv, TypeOK
<1>2. FormInv'
  BY <1>1 DEF Alone, Submit, FormInv, Clients, IInv, TypeOK
<1>3. AppliedInv' /\ StoppedInv'
  BY <1>1 DEF Submit, AppliedInv, StoppedInv
<1>4. SettledInv'
  BY <1>1 DEF Submit, AInv, SettledInv, Merge, Clients
<1> QED
  BY <1>2, <1>3, <1>4 DEF AInv

LEMMA KeepSecretsAInv ==
  ASSUME IInv, AInv, Alone, NEW a \in Admins, KeepSecrets(a) PROVE AInv'
<1>1. pc[a] = "current" /\ pc'[a] = "save" /\ \A b \in Admins : b = a
  BY DEF Alone, KeepSecrets, goto, IInv, TypeOK
<1>2. form'[a] = Keep(form[a], Merge(table)) /\ UNCHANGED <<table, live, up, typed>>
  BY DEF Alone, KeepSecrets, IInv, TypeOK
<1>3. Merge(table)' = Merge(table)
  BY <1>2 DEF Merge
<1>4. Filled(Merge(table))
  BY MergedIsFilled DEF IInv, TypeOK
<1>5. Filled(form'[a])
  BY <1>1, <1>2, <1>4 DEF Filled, Keep, AInv, FormInv
<1>6. \A f \in Secrets \ typed[a] : form'[a][f] = Merge(table)[f]
  BY <1>1, <1>2, SecretsAssumption DEF Keep, AInv, FormInv
<1>7. FormInv'
  BY <1>1, <1>2, <1>3, <1>5, <1>6 DEF FormInv, Clients
<1>8. AppliedInv' /\ StoppedInv'
  BY <1>1, <1>2 DEF AppliedInv, StoppedInv, AInv
<1>9. SettledInv'
  BY <1>1, <1>2, <1>3 DEF AInv, SettledInv, Clients
<1> QED
  BY <1>7, <1>8, <1>9 DEF AInv

LEMMA SaveAInv ==
  ASSUME IInv, AInv, Alone, NEW a \in Admins, Save(a) PROVE AInv'
<1>1. pc[a] = "save" /\ up /\ \A b \in Admins : b = a
  BY DEF Alone, Save, AInv, StoppedInv
<1>2. CASE /\ table' = Normalized(form[a])
           /\ form' = [form EXCEPT ![a] = Normalized(@)]
           /\ goto(a, "evolution")
  <2>1. Alike(Normalized(form[a]), Merge(Normalized(form[a])))
    BY <1>1, MergeFilled DEF IInv, TypeOK, AInv, FormInv
  <2>2. form'[a] = Normalized(form[a]) /\ Merge(table)' = Merge(Normalized(form[a]))
    BY <1>2 DEF Merge, IInv, TypeOK
  <2>3. Alike(form[a], Merge(table))' /\ pc'[a] = "evolution"
    BY <2>1, <2>2, <1>2 DEF Alike, IInv, TypeOK, goto
  <2> QED
    BY <1>1, <2>3 DEF Save, AInv, FormInv, AppliedInv, StoppedInv, SettledInv, Clients
<1>3. CASE goto(a, "idle") /\ UNCHANGED <<table, saved>>
  <2>1. pc'[a] = "idle" /\ Merge(table)' = Merge(table)
    BY <1>3 DEF Merge, IInv, TypeOK, goto
  <2> QED
    BY <1>1, <2>1 DEF Save, AInv, FormInv, AppliedInv, StoppedInv, SettledInv, Clients
<1> QED
  BY <1>2, <1>3 DEF Save

LEMMA ConfigureAInv ==
  ASSUME IInv, AInv, Alone, NEW a \in Admins, Configure(a) PROVE AInv'
<1>1. /\ pc[a] \in Clients /\ pc'[a] = After[pc[a]] /\ up /\ up'
      /\ \A b \in Admins : b = a
  BY DEF Alone, Configure, goto, IInv, TypeOK, AInv, StoppedInv, Clients
<1>2. /\ live'[pc[a]] = Part(form[a], pc[a])
      /\ \A c \in Clients \ {pc[a]} : live'[c] = live[c]
  BY <1>1 DEF Configure, IInv, TypeOK
<1>3. Merge(table)' = Merge(table) /\ Alike(form[a], Merge(table))
  BY <1>1 DEF Configure, Merge, AInv, FormInv
<1>4. After[pc[a]] \in Clients => form'[a] = form[a]
  BY <1>1 DEF Configure, After, Clients
<1>5. FormInv'
  BY <1>1, <1>3, <1>4 DEF FormInv, Alike, After, Clients
<1>6. AppliedInv'
  BY <1>1, <1>2, <1>4 DEF AInv, AppliedInv, LiveHas, After, Clients
<1>7. SettledInv'
  <2>1. CASE pc[a] = "whatsapp"
    <3>1. \A c \in Clients : live'[c] = Part(form[a], c)
      BY <1>1, <1>2, <2>1 DEF AInv, AppliedInv, LiveHas, Clients
    <3>2. \A c \in Clients : \A f \in Uses[c] : f \in Fields /\ live'[c][f] = form[a][f]
      BY <3>1, UsesAssumption DEF Part
    <3> QED
      BY <1>3, <3>2 DEF SettledInv, Alike
  <2>2. CASE pc[a] # "whatsapp"
    BY <1>1, <2>2 DEF SettledInv, After, Clients
  <2> QED
    BY <2>1, <2>2
<1> QED
  BY <1>1, <1>5, <1>6, <1>7 DEF AInv, StoppedInv

LEMMA ServerAInv ==
  ASSUME IInv, AInv, Alone, Server PROVE AInv'
<1>1. CASE Crash
  BY <1>1 DEF Crash, AInv, FormInv, AppliedInv, StoppedInv, SettledInv, Clients
<1>2. CASE Boot
  <2>1. /\ \A c \in Clients : live'[c] = Part(Merge(table), c)
        /\ Merge(table)' = Merge(table) /\ up'
        /\ \A a \in Admins : pc[a] = "idle" /\ pc'[a] = "idle"
    BY <1>2 DEF Boot, Alone, AInv, StoppedInv, Merge
  <2>2. \A c \in Clients : \A f \in Uses[c] : SameSetting(live'[c][f], Merge(table)[f])
    BY <2>1 DEF Part, SameSetting
  <2> QED
    BY <2>1, <2>2 DEF AInv, FormInv, AppliedInv, StoppedInv, SettledInv, Clients
<1> QED
  BY <1>1, <1>2 DEF Server

LEMMA NextAInv == Alone => (IInv /\ AInv /\ [Next]_vars => AInv')
<1> SUFFICES ASSUME Alone, IInv, AInv, [Next]_vars PROVE AInv'
  OBVIOUS
<1>1. CASE UNCHANGED vars
  BY <1>1 DEF vars, AInv, FormInv, AppliedInv, StoppedInv, SettledInv, LiveHas, Merge
<1>2. CASE Next
  BY <1>2, SubmitAInv, KeepSecretsAInv, SaveAInv, ConfigureAInv, ServerAInv DEF Next, Server
<1> QED
  BY <1>1, <1>2

THEOREM InvariantAInv == ASSUME Alone PROVE Spec => []AInv
<1>1. IInv /\ AInv /\ [Next]_vars => AInv'
  BY NextAInv
<1> QED
  BY InitAInv, <1>1, InvariantIInv, PTL DEF Spec

(* One administrator at a time: between two saves, and after any crash,    *)
(* the clients work with what the page shows and a restart would load.     *)
THEOREM ClientsFollowTable == ASSUME Alone PROVE Spec => []LiveIsCurrent
<1>1. AInv => LiveIsCurrent
  BY DEF AInv, SettledInv, LiveIsCurrent, Quiet, Clients
<1> QED
  BY InvariantAInv, <1>1, PTL

(* One administrator at a time: a secret that nobody typed is the one that *)
(* was in force but for the space around it, whatever the other fields are *)
(* changed to.                                                             *)
THEOREM BlankSecretsStay == ASSUME Alone PROVE Spec => SecretsAreKept
<1>1. ASSUME IInv, AInv, [Next]_vars, NEW a \in Admins, pc[a] = "save", pc'[a] = "evolution",
             NEW f \in Secrets \ typed[a]
      PROVE  table'[f] = Trim[Merge(table)[f]]
  <2>1. table' = Normalized(form[a])
    BY <1>1 DEF Next, vars, Submit, KeepSecrets, Save, Configure, Crash, Boot, goto, Clients,
                After, IInv, TypeOK, Alone
  <2>2. form[a][f] = Merge(table)[f] /\ f \in Fields
    BY <1>1, SecretsAssumption DEF AInv, FormInv
  <2> QED
    BY <2>1, <2>2 DEF Normalized
<1> DEFINE Kept == \A a \in Admins : pc[a] = "save" /\ pc'[a] = "evolution" =>
                     \A f \in Secrets \ typed[a] : table'[f] = Trim[Merge(table)[f]]
<1>2. IInv /\ AInv /\ [Next]_vars => [Kept]_vars
  BY <1>1
<1> QED
  BY InvariantIInv, InvariantAInv, <1>2, PTL DEF Spec, SecretsAreKept
=============================================================================
