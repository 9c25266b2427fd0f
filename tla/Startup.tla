-------------------------------- MODULE Startup --------------------------------
(***************************************************************************)
(* The start of the process (run in cmd/main.go), composed with Settings:  *)
(* the migrator (migrate in sqlite/store.go), the snapshot, the overlay of *)
(* the saved settings, and only then requests.                             *)
(*                                                                         *)
(* Migrations are the embedded files in lexical order.  A file is executed *)
(* as one text of several statements, none of them in a transaction: each  *)
(* is committed on its own, and the file's record in schema_migrations is  *)
(* a statement after them.  What a process that ends leaves behind is what *)
(* the next one finds.                                                     *)
(***************************************************************************)
EXTENDS Settings, Sequences, FiniteSets

CONSTANTS
  Size,        \* Size[f]: how many statements file f has
  OneShot,     \* the statements that fail on a database that has their effect
  Seeds,       \* the files that write prices, topics, assets or configs
  StartFaults, \* what may go wrong during a start, see StartFaultKinds
  MaxTroubles  \* bound: how often starts are disturbed in a behaviour

Files == 1..Len(Size)
Statements == UNION {{f} \X (1..Size[f]) : f \in Files}
StartFaultKinds ==
  { "sql",    \* a statement fails (a locked or full database)
    "kill" }  \* the process is killed while it starts

ASSUME SizeAssumption == Size \in Seq(Nat \ {0})
ASSUME OneShotAssumption == OneShot \subseteq Statements
ASSUME SeedsAssumption == Seeds \subseteq Files
ASSUME StartFaultsAssumption == StartFaults \subseteq StartFaultKinds /\ MaxTroubles \in Nat

VARIABLES
  at,       \* what the process is doing
  file,     \* the file migrate is at
  stmt,     \* the statement of it that is executed next
  ledger,   \* the table schema_migrations
  times,    \* times[s]: how often statement s took effect, 2 for more
  sound,    \* the published snapshot validates, or nothing is published
  troubles, \* disturbances so far
  served    \* history: this release has served requests

startVars == <<at, file, stmt, ledger, times, sound, troubles, served>>
migration == <<file, stmt, ledger, times>>
allVars == <<vars, startVars>>

(* Databases this release may find: an empty one, one an older release     *)
(* with fewer files left, or one from before there was a ledger, when      *)
(* every file was executed at every start and therefore had to bear it.    *)
(* What administrators left in a database that is not empty validates or   *)
(* does not; in an empty one nothing is published.                         *)
StartupInit ==
  /\ Init
  /\ at = "down" /\ file = 1 /\ stmt = 1
  /\ \E old \in 0..Len(Size) :
       /\ times = [s \in Statements |-> IF s[1] <= old THEN 1 ELSE 0]
       /\ \/ ledger = 1..old
          \/ ledger = {} /\ \A s \in OneShot : s[1] > old
       /\ sound \in BOOLEAN /\ (old = 0 => sound)
  /\ troubles = 0
  /\ served = FALSE

Trouble(f) == /\ f \in StartFaults /\ troubles < MaxTroubles
              /\ troubles' = troubles + 1

(* An error of Open, LoadSnapshot or ValidateSnapshot ends run, and with   *)
(* it the process.                                                         *)
Refuse == at' = "refused" /\ UNCHANGED <<vars, file, stmt, ledger, times, sound, served>>

(* The process is started, again if it ended (restart: unless-stopped);    *)
(* Open makes schema_migrations if it is not there.                        *)
Start == /\ at \in {"down", "refused"}
         /\ at' = "check" /\ file' = 1 /\ stmt' = 1
         /\ UNCHANGED <<vars, ledger, times, sound, troubles, served>>

(* Mutant: the record is inserted as the check, before the file is run.    *)
CheckByInsert ==
  /\ at = "check"
  /\ \/ /\ file <= Len(Size)
        /\ IF file \in ledger THEN file' = file + 1 /\ at' = at ELSE file' = file /\ at' = "exec"
        /\ ledger' = ledger \cup {file}
        /\ stmt' = 1
        /\ UNCHANGED <<vars, times, sound, troubles, served>>
     \/ /\ file > Len(Size) /\ at' = "content"
        /\ UNCHANGED <<vars, migration, sound, troubles, served>>

(* Mutant: any error of the SELECT counts as not applied yet.              *)
CheckAnyError ==
  /\ at = "check"
  /\ \/ /\ file \in ledger /\ file' = file + 1
        /\ UNCHANGED <<vars, at, stmt, ledger, times, sound, troubles, served>>
     \/ /\ file <= Len(Size) /\ at' = "exec" /\ stmt' = 1
        /\ IF file \in ledger THEN Trouble("sql") ELSE troubles' = troubles
        /\ UNCHANGED <<vars, file, ledger, times, sound, served>>
     \/ /\ file > Len(Size) /\ at' = "content"
        /\ UNCHANGED <<vars, migration, sound, troubles, served>>

(* SELECT name FROM schema_migrations: an applied file is skipped, and     *)
(* after the last one migrate returns.                                     *)
Check ==
  /\ at = "check"
  /\ \/ /\ file \in ledger /\ file' = file + 1
        /\ UNCHANGED <<vars, at, stmt, ledger, times, sound, troubles, served>>
     \/ /\ file <= Len(Size) /\ file \notin ledger
        /\ at' = "exec" /\ stmt' = 1
        /\ UNCHANGED <<vars, file, ledger, times, sound, troubles, served>>
     \/ /\ file > Len(Size) /\ at' = "content"
        /\ UNCHANGED <<vars, migration, sound, troubles, served>>
     \/ file <= Len(Size) /\ Trouble("sql") /\ Refuse

(* Mutant: no statement bears repetition (CREATE TABLE, INSERT).           *)
FailsIfRepeated(s) == times[s] > 0

(* CREATE ... IF NOT EXISTS, INSERT OR IGNORE, upserts and deletes may be  *)
(* repeated, ALTER TABLE ... ADD COLUMN may not.                           *)
Fails(s) == s \in OneShot /\ times[s] > 0

(* A file that writes content may break what administrators made of it     *)
(* (0003 deletes a tariff that a topic of theirs may name) or mend it.     *)
Executed(s) == /\ times' = [times EXCEPT ![s] = IF @ = 0 THEN 1 ELSE 2]
               /\ sound' \in BOOLEAN /\ (s[1] \in Seeds \/ sound' = sound)

(* Mutant: a file that fails is logged and passed over.                    *)
ExecOrSkip ==
  /\ at = "exec"
  /\ LET s == <<file, stmt>> IN
     \/ /\ ~Fails(s) /\ Executed(s)
        /\ IF stmt = Size[file] THEN at' = "record" /\ stmt' = stmt
                                ELSE at' = at /\ stmt' = stmt + 1
        /\ UNCHANGED <<vars, file, ledger, troubles, served>>
     \/ /\ (Fails(s) /\ troubles' = troubles) \/ Trouble("sql")
        /\ at' = "check" /\ file' = file + 1
        /\ UNCHANGED <<vars, stmt, ledger, times, sound, served>>

(* One statement of Exec(file).                                            *)
Exec ==
  /\ at = "exec"
  /\ LET s == <<file, stmt>> IN
     \/ /\ ~Fails(s) /\ Executed(s)
        /\ IF stmt = Size[file] THEN at' = "record" /\ stmt' = stmt
                                ELSE at' = at /\ stmt' = stmt + 1
        /\ UNCHANGED <<vars, file, ledger, troubles, served>>
     \/ /\ (Fails(s) /\ troubles' = troubles) \/ Trouble("sql")
        /\ Refuse

(* INSERT INTO schema_migrations.                                          *)
Record ==
  /\ at = "record"
  /\ \/ /\ ledger' = ledger \cup {file}
        /\ file' = file + 1 /\ at' = "check"
        /\ UNCHANGED <<vars, stmt, times, sound, troubles, served>>
     \/ Trouble("sql") /\ Refuse

(* LoadSnapshot and ValidateSnapshot, modelled in Content: a failing query *)
(* ends the start, and so does, every time, a published snapshot that does *)
(* not validate; no published config does not.                             *)
LoadContent ==
  /\ at = "content"
  /\ \/ /\ sound /\ at' = "settings"
        /\ UNCHANGED <<vars, migration, sound, troubles, served>>
     \/ ((~sound /\ troubles' = troubles) \/ Trouble("sql")) /\ Refuse

(* The overlay of the saved settings, then ListenAndServe.                 *)
LoadSettings == /\ at = "settings" /\ Boot
                /\ at' = "serving" /\ served' = TRUE
                /\ UNCHANGED <<migration, sound, troubles>>

(* The content pages, modelled in Content: an edit of prices, topics or    *)
(* assets, which nobody validates, a rollback, which is committed before   *)
(* it is validated, or a publish.                                          *)
EditContent == /\ at = "serving" /\ sound' \in BOOLEAN
               /\ UNCHANGED <<vars, migration, at, troubles, served>>

Serve == /\ at = "serving"
         /\ \E a \in Admins : Submit(a) \/ KeepSecrets(a) \/ Save(a) \/ Configure(a)
         /\ UNCHANGED startVars

Starting == {"check", "exec", "record", "content", "settings"}
Kill == /\ at' = "down"
        /\ \/ at = "serving" /\ Crash /\ UNCHANGED troubles
           \/ at \in Starting /\ Trouble("kill") /\ UNCHANGED vars
        /\ UNCHANGED <<migration, sound, served>>

StartStep == Start \/ Check \/ Exec \/ Record \/ LoadContent \/ LoadSettings
StartupNext == StartStep \/ Serve \/ EditContent \/ Kill

StartupSpec == StartupInit /\ [][StartupNext]_allVars

(* A process that runs goes on, and one that ended is started again.       *)
FairStartup == StartupSpec /\ WF_allVars(StartStep)

----------------------------------------------------------------------------
StartupTypeOK ==
  /\ TypeOK
  /\ at \in {"down", "refused", "serving"} \cup Starting
  /\ file \in 1..(Len(Size) + 1)
  /\ stmt \in Nat
  /\ ledger \subseteq Files
  /\ times \in [Statements -> 0..2]
  /\ sound \in BOOLEAN
  /\ troubles \in 0..MaxTroubles
  /\ served \in BOOLEAN

(* schema_migrations never claims more than was done, wherever a start was *)
(* cut off: a recorded file has been executed to its last statement, and   *)
(* every file before it is recorded too.                                   *)
RecordedIsApplied ==
  \A f \in ledger : /\ \A i \in 1..Size[f] : times[<<f, i>>] > 0
                    /\ 1..f \subseteq ledger

(* Nothing is loaded and no request is served before every file of this    *)
(* release is recorded, however many starts that took; clients hold saved  *)
(* settings and administrators are served only by such a process.          *)
ServesMigrated ==
  /\ at \in {"content", "settings", "serving"} => ledger = Files
  /\ up <=> at = "serving"
  /\ \A a \in Admins : pc[a] # "idle" => at = "serving"

(* Once this release has served, no start of it runs a migration again:    *)
(* what administrators edited since is never seeded over or reset.         *)
EditsStay == [][served => times' = times]_allVars

(* The process has ended, and a one-shot statement of a file that is not   *)
(* recorded has its effect: the next start fails at that statement.        *)
Wedged == /\ at \in {"down", "refused"}
          /\ \E s \in OneShot : times[s] > 0 /\ s[1] \notin ledger

(* The process has ended, and what is published does not validate: the     *)
(* next start is refused once more, and the pages that could mend it are   *)
(* not served.                                                             *)
Barred == at \in {"down", "refused"} /\ ledger = Files /\ ~sound

(* A start that was disturbed anywhere is made good by a later one, except *)
(* when it was cut off between a one-shot statement and its record, or     *)
(* when an edit, a rollback or a migration left content that does not      *)
(* validate.                                                               *)
StartsUnlessStuck == at # "serving" ~> at = "serving" \/ Wedged \/ Barred

(* migrate: "applies every embedded *.sql file in lexical order, each      *)
(* exactly once ... the ledger lets later migrations use one-shot          *)
(* statements ... safely": it fails only if one of its own statements      *)
(* does, never because of how far an earlier start got.                    *)
RestartIsSafe ==
  [][at' = "refused" /\ at \in {"check", "exec", "record"} => troubles' > troubles]_allVars

(* What remains of that promise for a whole start: it is refused for a     *)
(* statement that fails in it, because an earlier one left the database    *)
(* wedged, or because what is published does not validate.                 *)
RefusalsHaveCause ==
  [][at # "refused" /\ at' = "refused" => troubles' > troubles \/ Wedged' \/ Barred']_allVars

(* A wedged database is never served again, however often it is started,   *)
(* and neither is one whose published content does not validate: nothing   *)
(* this program does mends them.                                           *)
WedgedIsForGood == [](Wedged => []~up)
BarredIsForGood == [](Barred => []~up)
=============================================================================
