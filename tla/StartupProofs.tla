----------------------------- MODULE StartupProofs -----------------------------
(***************************************************************************)
(* Proofs about Startup: a start, however often it was cut off, serves     *)
(* only a migrated database; a database that was served is never migrated  *)
(* again; and the whole start is invisible to Settings, whose theorems     *)
(* therefore hold of it.                                                   *)
(***************************************************************************)
EXTENDS Startup, SettingsProofs

LEMMA SizeType == Len(Size) \in Nat /\ \A f \in Files : Size[f] \in Nat /\ Size[f] > 0
<1>1. Size \in [1..Len(Size) -> Nat \ {0}] /\ Len(Size) \in Nat
  BY SizeAssumption
<1> QED
  BY <1>1 DEF Files

LEMMA StatementsAre ==
  \A f, i : <<f, i>> \in Statements <=> f \in Files /\ i \in 1..Size[f]
BY DEF Statements

----------------------------------------------------------------------------
(* The start is a stuttering step of Settings, or its Boot.                *)
LEMMA StepRefines == [StartupNext]_allVars => [Next]_vars
<1> SUFFICES ASSUME [StartupNext]_allVars PROVE [Next]_vars
  OBVIOUS
<1>1. CASE UNCHANGED allVars
  BY <1>1 DEF allVars
<1>2. CASE LoadSettings
  BY <1>2 DEF LoadSettings, Next
<1>3. CASE Serve
  BY <1>3 DEF Serve, Next
<1>4. CASE Kill
  BY <1>4 DEF Kill, Next
<1>5. CASE Start \/ Check \/ Exec \/ Record \/ LoadContent \/ EditContent
  BY <1>5 DEF Start, Check, Exec, Record, LoadContent, EditContent, Refuse
<1> QED
  BY <1>1, <1>2, <1>3, <1>4, <1>5 DEF StartupNext, StartStep

(* The process from its start on behaves as Settings says.                 *)
THEOREM StartupImplementsSettings == StartupSpec => Spec
<1>1. StartupInit => Init
  BY DEF StartupInit
<1> QED
  BY <1>1, StepRefines, PTL DEF StartupSpec, Spec

----------------------------------------------------------------------------
(* Where a start is, it has been through all files before, and through the *)
(* statements before of its file; served implies that there is no file     *)
(* left to run; and a start gets past the snapshot only if it validates.   *)
StartType ==
  /\ at \in {"down", "refused", "serving"} \cup Starting
  /\ file \in 1..(Len(Size) + 1)
  /\ stmt \in Nat
  /\ ledger \subseteq Files
  /\ times \in [Statements -> 0..2]
  /\ sound \in BOOLEAN
  /\ troubles \in 0..MaxTroubles
  /\ served \in BOOLEAN

Behind == at \in {"check", "exec", "record"} => 1..(file - 1) \subseteq ledger
Within ==
  /\ at \in {"exec", "record"} => /\ file \in Files \ ledger
                                  /\ stmt \in 1..Size[file]
                                  /\ \A i \in 1..(stmt - 1) : times[<<file, i>>] > 0
  /\ at = "record" => \A i \in 1..Size[file] : times[<<file, i>>] > 0
Complete == served \/ at \in {"content", "settings", "serving"} => ledger = Files
Validated == at = "settings" => sound
Open == /\ up <=> at = "serving"
        /\ \A a \in Admins : pc[a] # "idle" => at = "serving"

SInv == StartType /\ RecordedIsApplied /\ Behind /\ Within /\ Complete /\ Validated /\ Open

LEMMA InitSInv == StartupInit => SInv
<1> SUFFICES ASSUME StartupInit PROVE SInv
  OBVIOUS
<1>1. PICK old \in 0..Len(Size) :
        /\ times = [s \in Statements |-> IF s[1] <= old THEN 1 ELSE 0]
        /\ ledger = 1..old \/ ledger = {}
  BY DEF StartupInit
<1>2. ledger \subseteq Files /\ \A f \in ledger : f <= old /\ 1..f \subseteq ledger
  BY <1>1, SizeType DEF Files
<1>3. \A f \in ledger : \A i \in 1..Size[f] : times[<<f, i>>] = 1
  BY <1>1, <1>2, StatementsAre
<1>4. times \in [Statements -> 0..2]
  BY <1>1
<1>5. 0 \in 0..MaxTroubles /\ 1 \in 1..(Len(Size) + 1)
  BY SizeType, StartFaultsAssumption
<1>6. StartType
  BY <1>2, <1>4, <1>5 DEF StartupInit, StartType
<1>7. RecordedIsApplied
  BY <1>2, <1>3 DEF RecordedIsApplied
<1> QED
  BY <1>6, <1>7 DEF StartupInit, Init, SInv, Behind, Within, Complete, Validated, Open

LEMMA RefuseSInv ==
  ASSUME SInv, Refuse, troubles' \in 0..MaxTroubles,
         at \in Starting
  PROVE  SInv'
<1>1. StartType'
  BY DEF SInv, StartType, Refuse
<1>2. Open'
  BY DEF SInv, Open, Refuse, vars, Starting
<1> QED
  BY <1>1, <1>2 DEF SInv, Refuse, RecordedIsApplied, Behind, Within, Complete, Validated

LEMMA TroubleType ==
  ASSUME SInv, NEW f, Trouble(f) PROVE troubles' \in 0..MaxTroubles
BY StartFaultsAssumption DEF SInv, StartType, Trouble

LEMMA StartSInv == ASSUME SInv, Start PROVE SInv'
<1>1. StartType'
  BY SizeType DEF SInv, StartType, Start, Starting
<1> QED
  BY <1>1 DEF SInv, Start, RecordedIsApplied, Behind, Within, Complete, Validated, Open, vars

LEMMA CheckSInv == ASSUME SInv, Check PROVE SInv'
<1>1. CASE file \in ledger /\ file' = file + 1 /\ UNCHANGED <<vars, at, stmt, ledger, times, sound, troubles, served>>
  <2>1. StartType'
    BY <1>1, SizeType DEF SInv, StartType, Files
  <2>2. Behind'
    BY <1>1, SizeType DEF SInv, StartType, Behind, RecordedIsApplied, Files
  <2> QED
    BY <1>1, <2>1, <2>2 DEF Check, SInv, RecordedIsApplied, Within, Complete, Validated, Open, vars
<1>2. CASE /\ file <= Len(Size) /\ file \notin ledger
           /\ at' = "exec" /\ stmt' = 1
           /\ UNCHANGED <<vars, file, ledger, times, sound, troubles, served>>
  <2>1. file \in Files
    BY <1>2, SizeType DEF SInv, StartType, Files
  <2>2. StartType'
    BY <1>2 DEF SInv, StartType, Starting
  <2>3. Within'
    BY <1>2, <2>1, SizeType DEF Within
  <2> QED
    BY <1>2, <2>1, <2>2, <2>3 DEF Check, SInv, RecordedIsApplied, Behind, Complete, Validated, Open, vars
<1>3. CASE file > Len(Size) /\ at' = "content" /\ UNCHANGED <<vars, migration, sound, troubles, served>>
  <2>1. file - 1 = Len(Size) /\ 1..(file - 1) \subseteq ledger /\ ledger \subseteq 1..Len(Size)
    BY <1>3, SizeType DEF Check, SInv, StartType, Behind, Files
  <2>2. ledger = Files
    BY <2>1 DEF Files
  <2>3. StartType'
    BY <1>3 DEF SInv, StartType, Starting, migration
  <2> QED
    BY <1>3, <2>2, <2>3 DEF Check, SInv, RecordedIsApplied, Behind, Within, Complete, Validated, Open, vars, migration
<1>4. CASE Trouble("sql") /\ Refuse
  BY <1>4, TroubleType, RefuseSInv DEF Check, Starting
<1> QED
  BY <1>1, <1>2, <1>3, <1>4 DEF Check

LEMMA ExecSInv == ASSUME SInv, Exec PROVE SInv'
<1>1. CASE /\ troubles' = troubles \/ Trouble("sql")
           /\ Refuse
  <2>1. troubles' \in 0..MaxTroubles
    BY <1>1, TroubleType DEF SInv, StartType
  <2> QED
    BY <1>1, <2>1, RefuseSInv DEF Exec, Starting
<1>2. CASE /\ Executed(<<file, stmt>>)
           /\ IF stmt = Size[file] THEN at' = "record" /\ stmt' = stmt
                                   ELSE at' = at /\ stmt' = stmt + 1
           /\ UNCHANGED <<vars, file, ledger, troubles, served>>
  <2>1. file \in Files \ ledger /\ stmt \in 1..Size[file] /\ Size[file] \in Nat
    BY SizeType DEF Exec, SInv, Within
  <2>2. <<file, stmt>> \in Statements
    BY <2>1, StatementsAre
  <2>3. /\ times' \in [Statements -> 0..2] /\ times'[<<file, stmt>>] > 0
        /\ \A s \in Statements : times[s] > 0 => times'[s] > 0
    BY <1>2, <2>2 DEF Executed, SInv, StartType
  <2>4. \A f \in Files : \A i \in 1..Size[f] : times[<<f, i>>] > 0 => times'[<<f, i>>] > 0
    BY <2>3, StatementsAre
  <2>5. StartType'
    BY <1>2, <2>1, <2>3 DEF Exec, Executed, SInv, StartType, Starting
  <2>6. RecordedIsApplied'
    BY <1>2, <2>4 DEF SInv, StartType, RecordedIsApplied
  <2>7. \A i \in 1..stmt : times'[<<file, i>>] > 0
    BY <2>1, <2>3, <2>4 DEF Exec, SInv, Within
  <2>8. Within'
    BY <1>2, <2>1, <2>7 DEF Exec, Within
  <2> QED
    BY <1>2, <2>5, <2>6, <2>8 DEF Exec, SInv, Behind, Complete, Validated, Open, vars
<1> QED
  BY <1>1, <1>2 DEF Exec

LEMMA RecordSInv == ASSUME SInv, Record PROVE SInv'
<1>1. CASE Trouble("sql") /\ Refuse
  BY <1>1, TroubleType, RefuseSInv DEF Record, Starting
<1>2. CASE /\ ledger' = ledger \cup {file}
           /\ file' = file + 1 /\ at' = "check"
           /\ UNCHANGED <<vars, stmt, times, sound, troubles, served>>
  <2>1. file \in Files /\ 1..(file - 1) \subseteq ledger
    BY DEF Record, SInv, Within, Behind
  <2>2. 1..file \subseteq ledger'
    BY <1>2, <2>1 DEF Files
  <2>3. StartType'
    BY <1>2, <2>1, SizeType DEF SInv, StartType, Starting, Files
  <2>4. RecordedIsApplied'
    BY <1>2, <2>2 DEF Record, SInv, Within, RecordedIsApplied
  <2>5. Behind'
    BY <1>2, <2>1, <2>2, SizeType DEF Behind, Files
  <2>6. Complete'
    BY <1>2, <2>1 DEF SInv, Complete, Record
  <2> QED
    BY <1>2, <2>3, <2>4, <2>5, <2>6 DEF Record, SInv, Within, Validated, Open, vars
<1> QED
  BY <1>1, <1>2 DEF Record

LEMMA LoadSInv == ASSUME SInv, LoadContent \/ LoadSettings PROVE SInv'
<1>1. CASE at = "content" /\ (troubles' = troubles \/ Trouble("sql")) /\ Refuse
  <2>1. troubles' \in 0..MaxTroubles
    BY <1>1, TroubleType DEF SInv, StartType
  <2> QED
    BY <1>1, <2>1, RefuseSInv DEF Starting
<1>2. CASE /\ at = "content" /\ sound /\ at' = "settings"
           /\ UNCHANGED <<vars, migration, sound, troubles, served>>
  BY <1>2 DEF SInv, StartType, Starting, RecordedIsApplied, Behind, Within, Complete, Validated, Open,
              vars, migration
<1>3. CASE LoadSettings
  BY <1>3 DEF LoadSettings, Boot, SInv, StartType, Starting, RecordedIsApplied, Behind, Within,
              Complete, Validated, Open, migration
<1> QED
  BY <1>1, <1>2, <1>3 DEF LoadContent

LEMMA EditSInv == ASSUME SInv, EditContent PROVE SInv'
BY DEF SInv, EditContent, StartType, RecordedIsApplied, Behind, Within, Complete, Validated, Open, migration, vars

LEMMA ServeSInv == ASSUME SInv, Serve PROVE SInv'
<1>1. at' = "serving" /\ UNCHANGED <<up, startVars>>
  BY DEF Serve, Submit, KeepSecrets, Save, Configure, startVars
<1> QED
  BY <1>1 DEF SInv, StartType, RecordedIsApplied, Behind, Within, Complete, Validated, Open, startVars

LEMMA KillSInv == ASSUME SInv, Kill PROVE SInv'
<1>1. at' = "down" /\ troubles' \in 0..MaxTroubles
  BY TroubleType DEF Kill, SInv, StartType
<1>2. ~up' /\ \A a \in Admins : pc'[a] = "idle"
  BY DEF Kill, Crash, SInv, Open, vars, Starting
<1> QED
  BY <1>1, <1>2 DEF Kill, SInv, StartType, RecordedIsApplied, Behind, Within, Complete, Validated, Open, migration

LEMMA NextSInv == SInv /\ [StartupNext]_allVars => SInv'
<1> SUFFICES ASSUME SInv, [StartupNext]_allVars PROVE SInv'
  OBVIOUS
<1>1. CASE UNCHANGED allVars
  BY <1>1 DEF allVars, vars, startVars, SInv, StartType, RecordedIsApplied, Behind, Within, Complete, Validated, Open
<1>2. CASE StartupNext
  BY <1>2, StartSInv, CheckSInv, ExecSInv, RecordSInv, LoadSInv, ServeSInv, EditSInv, KillSInv
     DEF StartupNext, StartStep
<1> QED
  BY <1>1, <1>2

THEOREM InvariantSInv == StartupSpec => []SInv
BY InitSInv, NextSInv, PTL DEF StartupSpec

(* Every variable keeps its type, under every fault.                       *)
THEOREM StartupTypeCorrect == StartupSpec => []StartupTypeOK
<1>1. SInv /\ TypeOK => StartupTypeOK
  BY DEF SInv, StartType, StartupTypeOK
<1> QED
  BY <1>1, InvariantSInv, StartupImplementsSettings, TypeCorrect, PTL

(* The ledger never claims more than was executed, in order, for any       *)
(* number of files and any disturbances.                                   *)
THEOREM LedgerIsTrue == StartupSpec => []RecordedIsApplied
<1>1. SInv => RecordedIsApplied
  BY DEF SInv
<1> QED
  BY <1>1, InvariantSInv, PTL

(* Only a fully migrated database is loaded and served.                    *)
THEOREM ServedIsMigrated == StartupSpec => []ServesMigrated
<1>1. SInv => ServesMigrated
  BY DEF SInv, Complete, Open, ServesMigrated
<1> QED
  BY <1>1, InvariantSInv, PTL

(* Once served, no migration runs again.                                   *)
THEOREM ServedStays == StartupSpec => EditsStay
<1>1. SInv /\ [StartupNext]_allVars => [served => times' = times]_allVars
  <2> SUFFICES ASSUME SInv, StartupNext, served PROVE times' = times
    OBVIOUS
  <2>1. ~Exec
    BY DEF Exec, SInv, Within, Complete
  <2> QED
    BY <2>1 DEF StartupNext, StartStep, Start, Check, Record, LoadContent, LoadSettings, Serve,
                EditContent, Kill, Refuse, migration, startVars
<1> QED
  BY <1>1, InvariantSInv, PTL DEF StartupSpec, EditsStay

(* From the first start on, one administrator at a time: clients, page and *)
(* the next start agree between two saves.                                 *)
THEOREM StartedFollowsTable == ASSUME Alone PROVE StartupSpec => []LiveIsCurrent
BY StartupImplementsSettings, ClientsFollowTable, PTL

----------------------------------------------------------------------------
(* A one-shot statement that is done, unrecorded, and not behind the start *)
(* under way: the start has yet to come to it, and to fail there.          *)
DoneAndAhead(s) == /\ times[s] > 0 /\ s[1] \notin ledger
                   /\ ~(at = "record" /\ file = s[1])
                   /\ ~(at = "exec" /\ file = s[1] /\ stmt > s[2])
DoneUnrecorded == \E s \in OneShot : DoneAndAhead(s)

LEMMA WedgeStays == SInv /\ DoneUnrecorded /\ [StartupNext]_allVars => DoneUnrecorded'
<1> SUFFICES ASSUME SInv, NEW s \in OneShot, DoneAndAhead(s), [StartupNext]_allVars
             PROVE  DoneAndAhead(s)'
  BY DEF DoneUnrecorded
<1>1. PICK f \in Files : \E i \in 1..Size[f] : s = <<f, i>>
  BY OneShotAssumption DEF Statements
<1> PICK i \in 1..Size[f] : s = <<f, i>>
  BY <1>1
<1>2. f \notin ledger /\ times[s] > 0 /\ s \in Statements /\ Size[f] \in Nat
  BY <1>1, OneShotAssumption, SizeType DEF DoneAndAhead
<1>3. CASE Check
  BY <1>1, <1>2, <1>3 DEF Check, Refuse, migration, DoneAndAhead
<1>4. CASE Exec
  <2>1. /\ file \in Files \ ledger /\ stmt \in 1..Size[file] /\ Size[file] \in Nat
        /\ times \in [Statements -> 0..2]
    BY <1>4, SizeType DEF Exec, SInv, Within, StartType
  <2>2. CASE at' = "refused" /\ UNCHANGED <<ledger, times>>
    BY <1>1, <1>2, <2>2 DEF DoneAndAhead
  <2>3. CASE /\ ~Fails(<<file, stmt>>) /\ Executed(<<file, stmt>>)
             /\ IF stmt = Size[file] THEN at' = "record" /\ stmt' = stmt
                                     ELSE at' = at /\ stmt' = stmt + 1
             /\ UNCHANGED <<file, ledger>>
    <3>1. <<file, stmt>> # s
      BY <1>2, <2>3 DEF Fails
    <3>2. times'[s] > 0
      BY <1>2, <2>1, <2>3 DEF Executed
    <3>3. file = f => stmt < i
      BY <1>1, <1>4, <2>1, <3>1 DEF DoneAndAhead, Exec
    <3> QED
      BY <1>1, <1>2, <1>4, <2>1, <2>3, <3>2, <3>3 DEF DoneAndAhead, Exec
  <2> QED
    BY <1>4, <2>2, <2>3 DEF Exec, Refuse
<1>5. CASE Record
  BY <1>1, <1>2, <1>5 DEF Record, Refuse, DoneAndAhead
<1>6. CASE \/ Start \/ LoadContent \/ LoadSettings
           \/ Serve \/ EditContent \/ Kill \/ UNCHANGED allVars
  BY <1>1, <1>2, <1>6 DEF Start, LoadContent, LoadSettings, Serve, EditContent, Kill, Refuse, migration, startVars,
                          allVars, DoneAndAhead
<1> QED
  BY <1>3, <1>4, <1>5, <1>6 DEF StartupNext, StartStep

(* A database left between a one-shot statement and its record is never    *)
(* served again by this release: every start fails at that statement.      *)
THEOREM WedgedForGood == StartupSpec => WedgedIsForGood
<1>1. Wedged => DoneUnrecorded
  BY DEF Wedged, DoneUnrecorded, DoneAndAhead
<1>2. SInv /\ DoneUnrecorded => ~up
  BY OneShotAssumption DEF SInv, Complete, Open, DoneUnrecorded, DoneAndAhead, Statements
<1> QED
  BY <1>1, <1>2, WedgeStays, InvariantSInv, PTL DEF StartupSpec, WedgedIsForGood

(* What is published does not validate, and nobody is served who could     *)
(* mend it: every start is refused before it serves, until the tables are  *)
(* changed from outside.                                                   *)
Unserved == ledger = Files /\ ~sound /\ at \notin {"settings", "serving"}

LEMMA BarStays == SInv /\ Unserved /\ [StartupNext]_allVars => Unserved'
<1> SUFFICES ASSUME SInv, Unserved, [StartupNext]_allVars PROVE Unserved'
  OBVIOUS
<1>1. ~Exec /\ ~Record
  BY DEF Exec, Record, SInv, Within, Unserved
<1>2. CASE Check \/ Start \/ LoadContent \/ Kill \/ UNCHANGED allVars
  BY <1>2 DEF Check, Start, LoadContent, Kill, Refuse, Unserved, migration, allVars, startVars
<1>3. ~LoadSettings /\ ~Serve /\ ~EditContent
  BY DEF LoadSettings, Serve, EditContent, Unserved
<1> QED
  BY <1>1, <1>2, <1>3 DEF StartupNext, StartStep

(* Content that does not validate when the process ends ends every start   *)
(* of this release: only a change of the tables from outside mends it.     *)
THEOREM BarredForGood == StartupSpec => BarredIsForGood
<1>1. Barred => Unserved
  BY DEF Barred, Unserved
<1>2. SInv /\ Unserved => ~up
  BY DEF SInv, Open, Unserved
<1> QED
  BY <1>1, <1>2, BarStays, InvariantSInv, PTL DEF StartupSpec, BarredIsForGood

(* No start is refused but for a failure in it, a wedged database, or      *)
(* content that does not validate.                                         *)
THEOREM RefusalsAreCaused == StartupSpec => RefusalsHaveCause
<1>1. SInv /\ [StartupNext]_allVars =>
        [at # "refused" /\ at' = "refused" => troubles' > troubles \/ Wedged' \/ Barred']_allVars
  <2> SUFFICES ASSUME SInv, StartupNext, at # "refused", at' = "refused"
               PROVE  troubles' > troubles \/ Wedged' \/ Barred'
    OBVIOUS
  <2>1. ASSUME NEW f, Trouble(f) PROVE troubles' > troubles
    BY <2>1, StartFaultsAssumption DEF Trouble, SInv, StartType
  <2>2. CASE Exec /\ Fails(<<file, stmt>>) /\ Refuse
    <3>1. file \notin ledger
      BY <2>2 DEF Exec, SInv, Within
    <3> QED
      BY <2>2, <3>1 DEF Fails, Wedged, Refuse
  <2>3. CASE at = "content" /\ ~sound /\ Refuse
    BY <2>3 DEF SInv, Complete, Barred, Refuse
  <2>4. CASE ~(Exec /\ Fails(<<file, stmt>>) /\ Refuse) /\ ~(at = "content" /\ ~sound /\ Refuse)
    BY <2>1, <2>4 DEF StartupNext, StartStep, Start, Check, Exec, Record, LoadContent, LoadSettings,
                      Serve, EditContent, Kill, startVars
  <2> QED
    BY <2>2, <2>3, <2>4
<1> QED
  BY <1>1, InvariantSInv, PTL DEF StartupSpec, RefusalsHaveCause
=============================================================================
