------------------------------ MODULE Content ------------------------------
(***************************************************************************)
(* The content lifecycle: the admin service (internal/usecase/admin),      *)
(* its SQLite tables (internal/infrastructure/sqlite), the live snapshot   *)
(* the brain reads (domain.Content) and its loading at boot (cmd/main.go). *)
(*                                                                         *)
(* An administrator is one goroutine serving one admin request; nothing    *)
(* orders the requests of two of them.  Each SQL statement is one step, a  *)
(* transaction too: the pool has a single connection, which a transaction  *)
(* keeps until it commits.                                                 *)
(*                                                                         *)
(* Of the knowledge base only what ValidateSnapshot looks at is kept: the  *)
(* tariff keys and placeholders that exist, the tokens each active topic   *)
(* uses (an inactive topic and one without tokens are the same to it), and *)
(* the active assets with an empty URL.  A config's text never matters to  *)
(* it; a row is known by its id, its index in rows.  The audit log, to     *)
(* which every write appends without looking at the outcome, is left out.  *)
(***************************************************************************)
EXTENDS Naturals, Sequences

CONSTANTS Admins,   \* goroutines that serve admin requests at the same time
          Texts,    \* what a config may say
          Tariffs, Placeholders,  \* the tokens a topic's body may use
          Topics, Assets,
          MaxRows,  \* bound: rows of assistant_config that are ever inserted
          Faults,   \* what may go wrong: "crash", "db"
          None

ASSUME BoundAssumption == MaxRows \in Nat \ {0}
ASSUME TextAssumption == Texts # {}

VARIABLES rows,     \* assistant_config, by id
          prices,   \* tokens that have a row in tariffs or placeholders
          topics,   \* topics[t]: the tokens its body uses, none if not active
          dead,     \* active assets whose URL is empty
          live,     \* the snapshot in domain.Content (of the last process)
          up,       \* the process serves requests
          pc,       \* where each admin request is
          goal,     \* what its snapshot is for: "publish" or "reload"
          snap,     \* the snapshot it is loading
          next,     \* the text and version SaveDraftConfig will insert
          ever      \* history, not in the code: the rows that were ever published

tables == <<rows, ever, prices, topics, dead>>
local == <<pc, goal, snap, next>>
vars == <<tables, live, up, local>>

----------------------------------------------------------------------------
Tokens == Tariffs \cup Placeholders

Row(version, status, text) == [version |-> version, status |-> status, text |-> text]
WithStatus(s) == {i \in DOMAIN rows : rows[i].status = s}

(* What every write of assistant_config adds to the history.  The table    *)
(* does not tell it, as a rollback archives the drafts too; nothing here   *)
(* reads it.                                                               *)
Recorded == ever' = ever \cup WithStatus("published")'

(* SELECT MAX(version), 0 when there is no row                             *)
MaxVersion == LET V == {rows[i].version : i \in DOMAIN rows}
              IN  IF V = {} THEN 0 ELSE CHOOSE v \in V : \A w \in V : w <= v

MaxAsRead == {MaxVersion} \cup IF "db" \in Faults THEN {0} ELSE {}

(* What priceBook reads of one of its tables: nobody asks rows.Err(), so   *)
(* that an iteration which fails looks like one that has come to its end.  *)
PartsRead(S) == {S} \cup IF "db" \in Faults THEN SUBSET S ELSE {}

(* ORDER BY version DESC LIMIT 1: rows of equal version come in any order. *)
Newest(s) == {i \in WithStatus(s) :
                \A j \in WithStatus(s) : rows[j].version <= rows[i].version}

Snapshot(r, p, t, d) == [row |-> r, prices |-> p, topics |-> t, dead |-> d]
Blank == Snapshot(0, {}, [t \in Topics |-> {}], {})

(* ValidateSnapshot: every token resolves, every asset has a URL.          *)
Valid(s) == /\ \A t \in Topics : s.topics[t] \subseteq s.prices
            /\ s.dead = {}

goto(a, l) == pc' = [pc EXCEPT ![a] = l]

(* The request is answered; its locals are gone.                           *)
Finish(a) == /\ goto(a, "idle")
             /\ goal' = [goal EXCEPT ![a] = None]
             /\ snap' = [snap EXCEPT ![a] = Blank]
             /\ next' = [next EXCEPT ![a] = None]

(* After the migrations: the seed's version 1 is published and valid.      *)
Init == /\ \E b \in Texts : rows = <<Row(1, "published", b)>>
        /\ prices = Tokens
        /\ topics = [t \in Topics |-> Tokens]
        /\ dead = {}
        /\ live = Snapshot(1, prices, topics, dead)
        /\ up = TRUE
        /\ pc = [a \in Admins |-> "idle"]
        /\ goal = [a \in Admins |-> None]
        /\ snap = [a \in Admins |-> Blank]
        /\ next = [a \in Admins |-> None]
        /\ ever = WithStatus("published")

----------------------------------------------------------------------------
(* Mutant: an INSERT without looking for a draft to update.                *)
SaveDraftAnew(a, b) ==
  /\ up /\ pc[a] = "idle"
  /\ goto(a, "max")
  /\ next' = [next EXCEPT ![a] = [text |-> b, version |-> 0]]
  /\ UNCHANGED <<tables, live, up, goal, snap>>

(* SaveDraftConfig: UPDATE every draft; only if there was none, SELECT     *)
(* MAX(version) and INSERT, outside any transaction.  The error of the     *)
(* SELECT is dropped: a maximum that could not be read counts as 0.        *)
SaveDraft(a, b) ==
  /\ up /\ pc[a] = "idle"
  /\ \/ /\ WithStatus("draft") # {}
        /\ rows' = [i \in DOMAIN rows |->
                      IF rows[i].status = "draft" THEN [rows[i] EXCEPT !.text = b] ELSE rows[i]]
        /\ UNCHANGED local
     \/ /\ WithStatus("draft") = {}
        /\ goto(a, "max")
        /\ next' = [next EXCEPT ![a] = [text |-> b, version |-> 0]]
        /\ UNCHANGED <<rows, goal, snap>>
  /\ Recorded
  /\ UNCHANGED <<prices, topics, dead, live, up>>

(* Mutant: the maximum itself is the new version.                          *)
SelectMaxUncounted(a) ==
  /\ pc[a] = "max"
  /\ \E m \in MaxAsRead : next' = [next EXCEPT ![a].version = m]
  /\ goto(a, "insert")
  /\ UNCHANGED <<tables, live, up, goal, snap>>

SelectMax(a) ==
  /\ pc[a] = "max"
  /\ \E m \in MaxAsRead : next' = [next EXCEPT ![a].version = m + 1]
  /\ goto(a, "insert")
  /\ UNCHANGED <<tables, live, up, goal, snap>>

InsertDraft(a) ==
  /\ pc[a] = "insert" /\ Len(rows) < MaxRows
  /\ rows' = Append(rows, Row(next[a].version, "draft", next[a].text))
  /\ Recorded
  /\ Finish(a)
  /\ UNCHANGED <<prices, topics, dead, live, up>>

----------------------------------------------------------------------------
(* Publish starts with LoadDraftSnapshot, whose config is the draft or,    *)
(* failing that, the published one; with neither the request ends.         *)
Publish(a) ==
  /\ up /\ pc[a] = "idle"
  /\ WithStatus("draft") \cup WithStatus("published") # {}
  /\ goto(a, "tariffs")
  /\ goal' = [goal EXCEPT ![a] = "publish"]
  /\ UNCHANGED <<tables, live, up, snap, next>>

(* Mutant: reload takes the newest config whatever its status.             *)
LoadNewestConfig(a) ==
  /\ pc[a] = "config"
  /\ snap' = [snap EXCEPT ![a].row = CHOOSE i \in DOMAIN rows : rows[i].version = MaxVersion]
  /\ goto(a, "tariffs")
  /\ UNCHANGED <<tables, live, up, goal, next>>

(* reload starts with LoadSnapshot, whose config is the published one.     *)
LoadConfig(a) ==
  /\ pc[a] = "config"
  /\ \/ \E i \in Newest("published") :
          /\ snap' = [snap EXCEPT ![a].row = i]
          /\ goto(a, "tariffs")
          /\ UNCHANGED <<goal, next>>
     \/ Newest("published") = {} /\ Finish(a)
  /\ UNCHANGED <<tables, live, up>>

(* priceBook: SELECT the tariffs, then the placeholders, each of which may *)
(* be cut short without anybody noticing.                                  *)
LoadTariffs(a) ==
  /\ pc[a] = "tariffs"
  /\ \E read \in PartsRead(prices \cap Tariffs) :
       snap' = [snap EXCEPT ![a].prices = read]
  /\ goto(a, "placeholders")
  /\ UNCHANGED <<tables, live, up, goal, next>>

LoadPlaceholders(a) ==
  /\ pc[a] = "placeholders"
  /\ \E read \in PartsRead(prices \cap Placeholders) :
       snap' = [snap EXCEPT ![a].prices = @ \cup read]
  /\ goto(a, "topics")
  /\ UNCHANGED <<tables, live, up, goal, next>>

LoadTopics(a) ==
  /\ pc[a] = "topics"
  /\ snap' = [snap EXCEPT ![a].topics = topics]
  /\ goto(a, "assets")
  /\ UNCHANGED <<tables, live, up, goal, next>>

(* Mutant: the snapshot is not validated.                                  *)
LoadAssetsUnchecked(a) ==
  /\ pc[a] = "assets"
  /\ snap' = [snap EXCEPT ![a].dead = dead]
  /\ goto(a, IF goal[a] = "publish" THEN "promote" ELSE "set")
  /\ UNCHANGED <<tables, live, up, goal, next>>

(* The last query, then ValidateSnapshot on what the four have returned.   *)
LoadAssets(a) ==
  /\ pc[a] = "assets"
  /\ LET s == [snap[a] EXCEPT !.dead = dead]
     IN  \/ /\ Valid(s)
            /\ snap' = [snap EXCEPT ![a] = s]
            /\ goto(a, IF goal[a] = "publish" THEN "promote" ELSE "set")
            /\ UNCHANGED <<goal, next>>
         \/ ~Valid(s) /\ Finish(a)
  /\ UNCHANGED <<tables, live, up>>

(* Mutant: what was published stays so.                                    *)
PromotedBeside(i) == [rows EXCEPT ![i].status = "published"]

(* PublishDraft (a transaction): archive what is published, promote the    *)
(* newest draft; without a draft the request ends in an error.             *)
Promoted(i) == [j \in DOMAIN rows |->
                  IF j = i THEN [rows[j] EXCEPT !.status = "published"]
                  ELSE IF rows[j].status = "published" THEN [rows[j] EXCEPT !.status = "archived"]
                  ELSE rows[j]]
PublishDraft(a) ==
  /\ pc[a] = "promote"
  /\ \/ \E i \in Newest("draft") :
          /\ rows' = Promoted(i)
          /\ goto(a, "config")
          /\ goal' = [goal EXCEPT ![a] = "reload"]
          /\ snap' = [snap EXCEPT ![a] = Blank]
          /\ UNCHANGED next
     \/ Newest("draft") = {} /\ Finish(a) /\ UNCHANGED rows
  /\ Recorded
  /\ UNCHANGED <<prices, topics, dead, live, up>>

(* Mutant: the old row itself is published again.                          *)
RolledBackInPlace(i, max) == [Promoted(i) EXCEPT ![i].version = max + 1]

(* RollbackTo (a transaction): archive the published row and the drafts,   *)
(* insert a published copy of any row of that version; nothing is          *)
(* validated before the commit.                                            *)
RolledBack(i, max) == Append([j \in DOMAIN rows |->
                           IF rows[j].status \in {"published", "draft"}
                           THEN [rows[j] EXCEPT !.status = "archived"] ELSE rows[j]],
                        Row(max + 1, "published", rows[i].text))
(* Mutant: the config is read before RollbackTo commits.                   *)
RollbackAfterRead(a) ==
  /\ up /\ pc[a] = "idle" /\ Len(rows) < MaxRows
  /\ \E i \in DOMAIN rows, m \in MaxAsRead : rows' = RolledBack(i, m)
  /\ Recorded
  /\ snap' = [snap EXCEPT ![a].row = CHOOSE i \in Newest("published") : TRUE]
  /\ goto(a, "tariffs")
  /\ goal' = [goal EXCEPT ![a] = "reload"]
  /\ UNCHANGED <<prices, topics, dead, live, up, next>>

Rollback(a) ==
  /\ up /\ pc[a] = "idle" /\ Len(rows) < MaxRows
  /\ \E i \in DOMAIN rows, m \in MaxAsRead : rows' = RolledBack(i, m)
  /\ Recorded
  /\ goto(a, "config")
  /\ goal' = [goal EXCEPT ![a] = "reload"]
  /\ UNCHANGED <<prices, topics, dead, live, up, snap, next>>

(* content.Set, the last statement of reload                               *)
SetLive(a) ==
  /\ pc[a] = "set"
  /\ live' = snap[a]
  /\ Finish(a)
  /\ UNCHANGED <<tables, up>>

----------------------------------------------------------------------------
(* Saving and deleting prices, topics and assets: one statement each,      *)
(* validated by nobody.                                                    *)
EditPrice(a, t) == /\ up /\ pc[a] = "idle"
                   /\ prices' \in {prices \cup {t}, prices \ {t}}
                   /\ UNCHANGED <<rows, ever, topics, dead, live, up, local>>

EditTopic(a, t) == /\ up /\ pc[a] = "idle"
                   /\ \E body \in SUBSET Tokens :
                        topics' = [topics EXCEPT ![t] = body]
                   /\ UNCHANGED <<rows, ever, prices, dead, live, up, local>>

EditAsset(a, x) == /\ up /\ pc[a] = "idle"
                   /\ dead' \in {dead \cup {x}, dead \ {x}}
                   /\ UNCHANGED <<rows, ever, prices, topics, live, up, local>>

----------------------------------------------------------------------------
(* A query fails and the request with it, whatever it has done so far.     *)
QueryFails(a) == /\ "db" \in Faults /\ pc[a] \notin {"idle", "max", "set"}
                 /\ Finish(a)
                 /\ UNCHANGED <<tables, live, up>>

(* The process is killed: its requests are gone, the tables stay.          *)
Crash == /\ "crash" \in Faults /\ up
         /\ up' = FALSE
         /\ pc' = [a \in Admins |-> "idle"]
         /\ goal' = [a \in Admins |-> None]
         /\ snap' = [a \in Admins |-> Blank]
         /\ next' = [a \in Admins |-> None]
         /\ UNCHANGED <<tables, live>>

(* run(): nothing else runs before the server listens, so the queries of   *)
(* LoadSnapshot see one state, if all of it.  An invalid snapshot ends the *)
(* process, and the admin pages that could mend it with it.                *)
Boot == /\ ~up
        /\ \E i \in Newest("published"), read \in PartsRead(prices) :
             /\ live' = Snapshot(i, read, topics, dead)
             /\ Valid(live')
        /\ up' = TRUE
        /\ UNCHANGED <<tables, local>>

Step(a) == \/ SelectMax(a) \/ InsertDraft(a)
           \/ LoadConfig(a) \/ LoadTariffs(a) \/ LoadPlaceholders(a)
           \/ LoadTopics(a) \/ LoadAssets(a) \/ PublishDraft(a) \/ SetLive(a)

Request(a) == \/ Publish(a) \/ Rollback(a)
              \/ \E b \in Texts : SaveDraft(a, b)
              \/ \E t \in Tokens : EditPrice(a, t)
              \/ \E t \in Topics : EditTopic(a, t)
              \/ \E x \in Assets : EditAsset(a, x)

Next == \/ \E a \in Admins : Step(a) \/ Request(a) \/ QueryFails(a)
        \/ Crash \/ Boot

Spec == Init /\ [][Next]_vars

----------------------------------------------------------------------------
Stages == {"idle", "max", "insert", "config", "tariffs", "placeholders", "topics", "assets", "promote", "set"}
Rows == [version: Nat \ {0}, status: {"draft", "published", "archived"}, text: Texts]
Snapshots == [row: Nat, prices: SUBSET Tokens, topics: [Topics -> SUBSET Tokens],
              dead: SUBSET Assets]

(* Every variable has its type, and a snapshot that was loaded to go live  *)
(* is that of an existing config.                                          *)
TypeOK ==
  /\ rows \in Seq(Rows) /\ rows # <<>>
  /\ prices \in SUBSET Tokens
  /\ topics \in [Topics -> SUBSET Tokens]
  /\ dead \in SUBSET Assets
  /\ live \in Snapshots /\ live.row \in DOMAIN rows
  /\ up \in BOOLEAN
  /\ pc \in [Admins -> Stages]
  /\ goal \in [Admins -> {None, "publish", "reload"}]
  /\ snap \in [Admins -> Snapshots]
  /\ next \in [Admins -> {None} \cup [text: Texts, version: Nat]]
  /\ ever \subseteq DOMAIN rows

(* The brain never works from content that does not validate, although the *)
(* queries of a load may each see another state of the tables and anybody  *)
(* may break them between the validation of a publish and its reload.      *)
LiveIsValid == Valid(live)

(* An edit is "a draft until you publish": the brain never works from a    *)
(* config that is still a draft, whichever row LoadSnapshot met.           *)
LiveWasPublished == rows[live.row].status # "draft"

(* One config is published at any moment (the partial unique index), also  *)
(* for a boot between the steps of any request: publishing and rolling     *)
(* back never leave none or two.                                           *)
OnePublished == \E i \in DOMAIN rows : WithStatus("published") = {i}

KeepsHistory ==
  \A i \in DOMAIN rows :
     /\ i \in DOMAIN rows' /\ rows'[i].version = rows[i].version
     /\ rows[i].status # "draft" => rows'[i].text = rows[i].text
     /\ rows[i].status = "published" => rows'[i].status \in {"published", "archived"}
     /\ rows[i].status = "archived" => rows'[i].status = "archived"

(* History: rows are never deleted, a config that has been published keeps *)
(* its text and version, and a status only moves draft -> published ->     *)
(* archived (a rollback archives a draft).                                 *)
HistoryIsKept == [][KeepsHistory]_vars

(* A hot reload installs the config that is published at that moment.      *)
InstallsPublished == live' # live /\ up => rows[live'.row].status = "published"
ReloadIsCurrent == [][InstallsPublished]_vars

(* Publish: "If validation fails, nothing is promoted": a snapshot that    *)
(* was validated and promoted by a publish is not refused by its reload.   *)
(* (A rollback promises no such thing.)                                    *)
PromotesValid == \A a \in Admins : pc[a] = "promote" /\ pc'[a] = "config"
                                    => Valid(Snapshot(0, prices, topics, dead))
PublishRefusesFirst == [][PromotesValid]_vars

(* SaveDraftConfig "upserts the single working draft".                     *)
SingleDraft == /\ \A i, j \in WithStatus("draft") : i = j
               /\ \A i, j \in DOMAIN rows : rows[i].version = rows[j].version => i = j

(* docs/08: "the live bot keeps serving the published snapshot", whenever  *)
(* no admin request is under way.                                          *)
LiveServesPublished == up /\ (\A a \in Admins : pc[a] = "idle") =>
                          rows[live.row].status = "published"

(* No reload ends because what it loaded is not valid.                     *)
ReloadsAreTaken ==
  [][\A a \in Admins : LoadAssets(a) /\ goal[a] = "reload" => pc'[a] = "set"]_vars

(* Nobody edits prices, topics or assets.                                  *)
KnowledgeIsLeft == [][UNCHANGED <<prices, topics, dead>>]_vars

(* docs/08: an edit is "a draft until you publish": a restart that finds   *)
(* the same config published serves the same content as before.            *)
EditsWaitForPublish == [][~up /\ up' /\ live'.row = live.row => live' = live]_vars

----------------------------------------------------------------------------
(* WHERE status='published'                                                *)
Current == CHOOSE i \in DOMAIN rows : rows[i].status = "published"

Abstract == INSTANCE Publication WITH Configs <- Nat, current <- Current, served <- live.row

(* Whatever the statements of any administrators, failing queries and      *)
(* restarts do: configs are published one after the other, each row once,  *)
(* what a reload installs has been published as it stands, not only been   *)
(* archived as a draft, and a restart serves what is published then.       *)
ImplementsPublication == Abstract!Spec
=============================================================================
