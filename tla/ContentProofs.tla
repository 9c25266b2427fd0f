--------------------------- MODULE ContentProofs ---------------------------
(***************************************************************************)
(* Theorems about Content for every set of administrators, texts, tokens,  *)
(* topics and assets and any faults.                                       *)
(***************************************************************************)
EXTENDS Content, SequenceTheorems, TLAPS

----------------------------------------------------------------------------
(* The inductive invariant.  What a request carries between its statements *)
(* matters: a reload in progress has the row of a config that is no draft, *)
(* and what waits to go live is valid.                                     *)
Loading == {"tariffs", "placeholders", "topics", "assets"}

GoalIsKnown == \A a \in Admins :
  /\ pc[a] \in Loading => goal[a] \in {"publish", "reload"}
  /\ pc[a] \in {"config", "set"} => goal[a] = "reload"

ReloadsPublished == \A a \in Admins :
  pc[a] \in Loading \cup {"set"} /\ goal[a] = "reload" =>
     snap[a].row \in DOMAIN rows /\ rows[snap[a].row].status # "draft"

WaitsValid == \A a \in Admins : pc[a] = "set" => Valid(snap[a])

InsertsRow == \A a \in Admins :
  /\ pc[a] \in {"max", "insert"} => next[a] \in [text: Texts, version: Nat]
  /\ pc[a] = "insert" => next[a].version # 0

(* SELECT MAX(version) has a result.                                       *)
SomeNewest == \E i \in DOMAIN rows : \A j \in DOMAIN rows :
                 rows[j].version <= rows[i].version

RowsInv == rows \in Seq(Rows) /\ OnePublished /\ SomeNewest

(* A row that was ever published is no draft, and never will be again.     *)
EverRows == /\ ever \subseteq DOMAIN rows /\ WithStatus("published") \subseteq ever
            /\ \A i \in ever : rows[i].status # "draft"

IInv == /\ TypeOK /\ RowsInv /\ EverRows
        /\ GoalIsKnown /\ ReloadsPublished /\ WaitsValid /\ InsertsRow
        /\ LiveIsValid /\ LiveWasPublished

----------------------------------------------------------------------------
(* The maximum that SelectMax and RollbackTo read is a number.             *)
LEMMA MaxIsNat == ASSUME RowsInv PROVE MaxAsRead \subseteq Nat
<1> DEFINE V == {rows[i].version : i \in DOMAIN rows}
<1>1. V \subseteq Nat
  <2>1. \A i \in DOMAIN rows : rows[i] \in Rows
    BY DEF RowsInv
  <2>2. \A i \in DOMAIN rows : rows[i].version \in Nat
    BY <2>1 DEF Rows
  <2> QED
    BY <2>2
<1>2. PICK i \in DOMAIN rows : \A j \in DOMAIN rows : rows[j].version <= rows[i].version
  BY DEF RowsInv, SomeNewest
<1>3. rows[i].version \in V /\ \A w \in V : w <= rows[i].version
  BY <1>2
<1>4. MaxVersion \in V
  BY <1>3 DEF MaxVersion
<1> QED
  BY <1>1, <1>4 DEF MaxAsRead

(* What priceBook reads of a table is in it, and is all of it where no     *)
(* query fails.                                                            *)
LEMMA PartsAre == \A S : \A read \in PartsRead(S) : read \subseteq S
  BY DEF PartsRead

LEMMA AllIsRead == ASSUME "db" \notin Faults PROVE \A S : PartsRead(S) = {S}
  BY DEF PartsRead

(* A statement that rewrites rows one by one keeps their number.           *)
LEMMA MappedRows ==
  ASSUME NEW s \in Seq(Rows), NEW t \in [DOMAIN s -> Rows]
  PROVE  t \in Seq(Rows) /\ DOMAIN t = DOMAIN s /\ Len(t) = Len(s)
<1>1. DOMAIN s = 1 .. Len(s) /\ Len(s) \in Nat
  OBVIOUS
<1>2. t \in [1 .. Len(s) -> Rows]
  BY <1>1
<1> QED
  BY <1>1, <1>2

(* Inserting a row.                                                        *)
LEMMA AppendedRows ==
  ASSUME NEW s \in Seq(Rows), NEW r \in Rows
  PROVE  /\ Append(s, r) \in Seq(Rows)
         /\ DOMAIN Append(s, r) = DOMAIN s \cup {Len(s) + 1}
         /\ Len(s) + 1 \notin DOMAIN s
         /\ \A i \in DOMAIN s : Append(s, r)[i] = s[i]
         /\ Append(s, r)[Len(s) + 1] = r
  OBVIOUS

(* What an INSERT leaves of SomeNewest.                                    *)
LEMMA InsertKeepsNewest ==
  ASSUME NEW s \in Seq(Rows), NEW r \in Rows,
         \E i \in DOMAIN s : \A j \in DOMAIN s : s[j].version <= s[i].version
  PROVE  \E i \in DOMAIN Append(s, r) : \A j \in DOMAIN Append(s, r) :
            Append(s, r)[j].version <= Append(s, r)[i].version
<1> DEFINE t == Append(s, r)
           n == Len(s) + 1
<1>1. PICK i \in DOMAIN s : \A j \in DOMAIN s : s[j].version <= s[i].version
  OBVIOUS
<1>2. \A j \in DOMAIN s : s[j].version \in Nat
  <2>1. \A j \in DOMAIN s : s[j] \in Rows
    OBVIOUS
  <2> QED
    BY <2>1 DEF Rows
<1>3. r.version \in Nat
  BY DEF Rows
<1>4. /\ DOMAIN t = DOMAIN s \cup {n} /\ n \in DOMAIN t /\ t[n] = r
      /\ \A j \in DOMAIN s : t[j] = s[j]
  BY AppendedRows
<1> HIDE DEF t, n
<1>5. CASE r.version <= s[i].version
  <2>1. \A j \in DOMAIN t : t[j].version <= t[i].version
    BY <1>1, <1>2, <1>3, <1>4, <1>5
  <2> QED
    BY <1>4, <2>1 DEF t
<1>6. CASE s[i].version <= r.version
  <2>1. \A j \in DOMAIN t : t[j].version <= t[n].version
    BY <1>1, <1>2, <1>3, <1>4, <1>6
  <2> QED
    BY <1>4, <2>1 DEF t
<1>7. r.version <= s[i].version \/ s[i].version <= r.version
  BY <1>2, <1>3
<1> QED
  BY <1>5, <1>6, <1>7

----------------------------------------------------------------------------
(* Every statement leaves well-formed rows, one of them published, and     *)
(* keeps the history.                                                      *)
LEMMA UnchangedRows == ASSUME RowsInv, UNCHANGED rows PROVE RowsInv' /\ KeepsHistory
  BY DEF RowsInv, OnePublished, WithStatus, SomeNewest, KeepsHistory, Rows

LEMMA SaveDraftRows ==
  ASSUME RowsInv, NEW a \in Admins, NEW b \in Texts, SaveDraft(a, b)
  PROVE  RowsInv' /\ KeepsHistory
<1>1. CASE UNCHANGED rows
  BY <1>1, UnchangedRows
<1>2. CASE rows' = [i \in DOMAIN rows |->
                      IF rows[i].status = "draft" THEN [rows[i] EXCEPT !.text = b] ELSE rows[i]]
  <2>1. \A i \in DOMAIN rows : rows[i] \in Rows
    BY DEF RowsInv
  <2>2. \A i \in DOMAIN rows : /\ rows'[i] \in Rows
                               /\ rows'[i].version = rows[i].version
                               /\ rows'[i].status = rows[i].status
                               /\ rows[i].status # "draft" => rows'[i] = rows[i]
    BY <1>2, <2>1 DEF Rows
  <2>3. rows' \in [DOMAIN rows -> Rows]
    BY <1>2, <2>2
  <2>4. rows' \in Seq(Rows) /\ DOMAIN rows' = DOMAIN rows
    BY <2>3, MappedRows DEF RowsInv
  <2>5. WithStatus("published")' = WithStatus("published")
    BY <2>2, <2>4 DEF WithStatus
  <2> QED
    BY <2>1, <2>2, <2>4, <2>5 DEF RowsInv, OnePublished, SomeNewest, KeepsHistory, Rows
<1> QED
  BY <1>1, <1>2 DEF SaveDraft

LEMMA InsertDraftRows ==
  ASSUME RowsInv, InsertsRow, NEW a \in Admins, InsertDraft(a)
  PROVE  RowsInv' /\ KeepsHistory
<1> DEFINE r == Row(next[a].version, "draft", next[a].text)
<1>1. r \in Rows
  BY DEF InsertDraft, InsertsRow, Row, Rows
<1>2. rows' = Append(rows, r) /\ r.status = "draft"
  BY DEF InsertDraft, Row
<1> HIDE DEF r
<1>3. /\ rows' \in Seq(Rows)
      /\ DOMAIN rows' = DOMAIN rows \cup {Len(rows) + 1}
      /\ rows'[Len(rows) + 1] = r
      /\ \A i \in DOMAIN rows : rows'[i] = rows[i]
  BY <1>1, <1>2, AppendedRows DEF RowsInv
<1>4. SomeNewest'
  BY <1>1, <1>2, InsertKeepsNewest DEF RowsInv, SomeNewest
<1>5. WithStatus("published")' = WithStatus("published")
  BY <1>2, <1>3 DEF WithStatus
<1> QED
  BY <1>3, <1>4, <1>5 DEF RowsInv, OnePublished, KeepsHistory

LEMMA PublishDraftRows ==
  ASSUME RowsInv, NEW a \in Admins, PublishDraft(a)
  PROVE  RowsInv' /\ KeepsHistory
<1>1. CASE UNCHANGED rows
  BY <1>1, UnchangedRows
<1>2. ASSUME NEW d \in Newest("draft"), rows' = Promoted(d)
      PROVE  RowsInv' /\ KeepsHistory
  <2>1. d \in DOMAIN rows /\ rows[d].status = "draft"
    BY <1>2 DEF Newest, WithStatus
  <2>2. \A i \in DOMAIN rows : rows[i] \in Rows
    BY DEF RowsInv
  <2>3. \A i \in DOMAIN rows : /\ rows'[i] \in Rows
                               /\ rows'[i].version = rows[i].version
                               /\ rows'[i].text = rows[i].text
                               /\ rows'[i].status = "published" <=> i = d
                               /\ i # d /\ rows[i].status = "published" => rows'[i].status = "archived"
                               /\ i # d /\ rows[i].status # "published" => rows'[i] = rows[i]
    BY <1>2, <2>2 DEF Rows, Promoted
  <2>4. rows' \in [DOMAIN rows -> Rows]
    BY <1>2, <2>3 DEF Promoted
  <2>5. rows' \in Seq(Rows) /\ DOMAIN rows' = DOMAIN rows
    BY <2>4, MappedRows DEF RowsInv
  <2>6. WithStatus("published")' = {d}
    BY <2>1, <2>3, <2>5 DEF WithStatus
  <2> QED
    BY <2>1, <2>2, <2>3, <2>5, <2>6 DEF RowsInv, OnePublished, SomeNewest, KeepsHistory, Rows
<1> QED
  BY <1>1, <1>2 DEF PublishDraft

LEMMA RollbackRows ==
  ASSUME RowsInv, NEW a \in Admins, Rollback(a)
  PROVE  RowsInv' /\ KeepsHistory
<1>1. PICK i \in DOMAIN rows, max \in MaxAsRead : rows' = RolledBack(i, max)
  BY DEF Rollback
<1> DEFINE s == [j \in DOMAIN rows |-> IF rows[j].status \in {"published", "draft"}
                                       THEN [rows[j] EXCEPT !.status = "archived"] ELSE rows[j]]
           r == Row(max + 1, "published", rows[i].text)
<1>2. \A j \in DOMAIN rows : rows[j] \in Rows
  BY DEF RowsInv
<1>3. max \in Nat
  BY MaxIsNat
<1>4. r \in Rows /\ r.status = "published"
  BY <1>2, <1>3 DEF Row, Rows
<1>5. \A j \in DOMAIN rows : /\ s[j] \in Rows /\ s[j].status = "archived"
                             /\ s[j].version = rows[j].version /\ s[j].text = rows[j].text
  BY <1>2 DEF Rows
<1>6. s \in [DOMAIN rows -> Rows]
  BY <1>5
<1>7. s \in Seq(Rows) /\ DOMAIN s = DOMAIN rows
  BY <1>6, MappedRows DEF RowsInv
<1>8. rows' = Append(s, r)
  BY <1>1 DEF RolledBack
<1> HIDE DEF s, r
<1>9. /\ rows' \in Seq(Rows)
      /\ DOMAIN rows' = DOMAIN rows \cup {Len(s) + 1}
      /\ Len(s) + 1 \notin DOMAIN rows
      /\ rows'[Len(s) + 1] = r
      /\ \A j \in DOMAIN rows : rows'[j] = s[j]
  BY <1>4, <1>7, <1>8, AppendedRows
<1>10. SomeNewest'
  <2>1. \E k \in DOMAIN s : \A j \in DOMAIN s : s[j].version <= s[k].version
    BY <1>5, <1>7 DEF RowsInv, SomeNewest
  <2> QED
    BY <1>4, <1>7, <1>8, <2>1, InsertKeepsNewest DEF SomeNewest
<1>11. WithStatus("published")' = {Len(s) + 1}
  BY <1>4, <1>5, <1>9 DEF WithStatus
<1> QED
  BY <1>2, <1>5, <1>9, <1>10, <1>11 DEF RowsInv, OnePublished, KeepsHistory

LEMMA StepRows == ASSUME IInv, Next PROVE RowsInv' /\ KeepsHistory
<1> SUFFICES ASSUME ~UNCHANGED rows PROVE RowsInv' /\ KeepsHistory
  BY UnchangedRows DEF IInv
<1>1. ASSUME NEW a \in Admins, NEW b \in Texts, SaveDraft(a, b) PROVE RowsInv' /\ KeepsHistory
  BY <1>1, SaveDraftRows DEF IInv
<1>2. ASSUME NEW a \in Admins, InsertDraft(a) PROVE RowsInv' /\ KeepsHistory
  BY <1>2, InsertDraftRows DEF IInv
<1>3. ASSUME NEW a \in Admins, PublishDraft(a) PROVE RowsInv' /\ KeepsHistory
  BY <1>3, PublishDraftRows DEF IInv
<1>4. ASSUME NEW a \in Admins, Rollback(a) PROVE RowsInv' /\ KeepsHistory
  BY <1>4, RollbackRows DEF IInv
<1> QED
  BY <1>1, <1>2, <1>3, <1>4
  DEF Next, Step, Request, QueryFails, Crash, Boot, Publish, LoadConfig, LoadTariffs,
      LoadPlaceholders, LoadTopics, LoadAssets, SelectMax, SetLive, EditPrice, EditTopic,
      EditAsset, tables

(* A config that is no draft never becomes one.                            *)
LEMMA NoDraftAgain ==
  ASSUME RowsInv, RowsInv', KeepsHistory
  PROVE  \A i \in DOMAIN rows : /\ i \in DOMAIN rows'
                                /\ rows[i].status # "draft" => rows'[i].status # "draft"
<1>1. \A i \in DOMAIN rows : rows[i] \in Rows
  BY DEF RowsInv
<1> QED
  BY <1>1 DEF KeepsHistory, Rows

----------------------------------------------------------------------------
(* The rest of the invariant, part by part.                                *)
LEMMA BlankIsSnapshot == Blank \in Snapshots
  BY DEF Blank, Snapshot, Snapshots

LEMMA InitIInv == Init => IInv
<1> SUFFICES ASSUME Init PROVE IInv
  OBVIOUS
<1>1. PICK b \in Texts : rows = <<Row(1, "published", b)>>
  BY DEF Init
<1>2. Row(1, "published", b) \in Rows /\ Row(1, "published", b).status = "published"
  BY DEF Row, Rows
<1> DEFINE r == Row(1, "published", b)
<1> HIDE DEF r
<1>3. rows \in Seq(Rows) /\ DOMAIN rows = {1} /\ rows[1] = r /\ rows # <<>>
  BY <1>1, <1>2 DEF r
<1>4. r \in Rows /\ r.status = "published" /\ r.version \in Nat
  BY <1>2 DEF r, Row
<1>5. RowsInv
  BY <1>3, <1>4 DEF RowsInv, OnePublished, WithStatus, SomeNewest
<1>6. live \in Snapshots /\ live.row = 1 /\ Valid(live)
  BY DEF Init, Snapshot, Snapshots, Valid, Tokens
<1>7. EverRows
  BY <1>3, <1>4 DEF Init, EverRows, WithStatus
<1>8. TypeOK
  BY <1>3, <1>6, <1>7, BlankIsSnapshot DEF Init, TypeOK, Stages, EverRows
<1> QED
  BY <1>3, <1>4, <1>5, <1>6, <1>7, <1>8
  DEF Init, IInv, GoalIsKnown, ReloadsPublished, WaitsValid, InsertsRow, LiveIsValid,
      LiveWasPublished, Loading

(* What the request of an administrator becomes at the end.                *)
LEMMA FinishType ==
  ASSUME TypeOK, NEW a \in Admins, Finish(a)
  PROVE  /\ pc' \in [Admins -> Stages]
         /\ goal' \in [Admins -> {None, "publish", "reload"}]
         /\ snap' \in [Admins -> Snapshots]
         /\ next' \in [Admins -> {None} \cup [text: Texts, version: Nat]]
  BY BlankIsSnapshot DEF TypeOK, Finish, goto, Stages

LEMMA StepLocalType ==
  ASSUME IInv, Next
  PROVE  /\ pc' \in [Admins -> Stages]
         /\ goal' \in [Admins -> {None, "publish", "reload"}]
         /\ snap' \in [Admins -> Snapshots]
         /\ next' \in [Admins -> {None} \cup [text: Texts, version: Nat]]
<1> USE DEF goto, Stages
<1> DEFINE Goal == /\ pc' \in [Admins -> Stages]
                   /\ goal' \in [Admins -> {None, "publish", "reload"}]
                   /\ snap' \in [Admins -> Snapshots]
                   /\ next' \in [Admins -> {None} \cup [text: Texts, version: Nat]]
<1>1. ASSUME NEW a \in Admins, SelectMax(a) PROVE Goal
  <2>1. PICK m \in MaxAsRead : next' = [next EXCEPT ![a].version = m + 1]
    BY <1>1 DEF SelectMax
  <2>2. m \in Nat /\ next[a] \in [text: Texts, version: Nat]
    BY <1>1, MaxIsNat DEF IInv, InsertsRow, SelectMax
  <2>3. [next[a] EXCEPT !.version = m + 1] \in [text: Texts, version: Nat]
    BY <2>2
  <2>4. next' \in [Admins -> {None} \cup [text: Texts, version: Nat]]
    BY <2>1, <2>3 DEF IInv, TypeOK
  <2> QED
    BY <1>1, <2>4 DEF IInv, TypeOK, SelectMax
<1>2. ASSUME NEW a \in Admins, InsertDraft(a) PROVE Goal
  BY <1>2, FinishType DEF IInv, InsertDraft
<1>3. ASSUME NEW a \in Admins, LoadConfig(a) PROVE Goal
  <2>1. CASE Finish(a)
    BY <2>1, FinishType DEF IInv
  <2>2. ASSUME NEW i \in Newest("published"), snap' = [snap EXCEPT ![a].row = i]
        PROVE  snap' \in [Admins -> Snapshots]
    <3>1. i \in Nat
      BY DEF Newest, WithStatus, IInv, RowsInv
    <3>2. snap[a] \in Snapshots
      BY DEF IInv, TypeOK
    <3>3. [snap[a] EXCEPT !.row = i] \in Snapshots
      BY <3>1, <3>2 DEF Snapshots
    <3> QED
      BY <2>2, <3>3 DEF IInv, TypeOK
  <2> QED
    BY <1>3, <2>1, <2>2 DEF LoadConfig, IInv, TypeOK
<1>4. ASSUME NEW a \in Admins, LoadTariffs(a) PROVE Goal
  <2>1. PICK read \in PartsRead(prices \cap Tariffs) : snap' = [snap EXCEPT ![a].prices = read]
    BY <1>4 DEF LoadTariffs
  <2>2. [snap[a] EXCEPT !.prices = read] \in Snapshots
    BY PartsAre DEF IInv, TypeOK, Snapshots
  <2> QED
    BY <1>4, <2>1, <2>2 DEF LoadTariffs, IInv, TypeOK
<1>5. ASSUME NEW a \in Admins, LoadPlaceholders(a) PROVE Goal
  <2>1. PICK read \in PartsRead(prices \cap Placeholders) :
          snap' = [snap EXCEPT ![a].prices = @ \cup read]
    BY <1>5 DEF LoadPlaceholders
  <2>2. [snap[a] EXCEPT !.prices = @ \cup read] \in Snapshots
    BY PartsAre DEF IInv, TypeOK, Snapshots
  <2> QED
    BY <1>5, <2>1, <2>2 DEF LoadPlaceholders, IInv, TypeOK
<1>6. ASSUME NEW a \in Admins, LoadTopics(a) PROVE Goal
  <2>1. [snap[a] EXCEPT !.topics = topics] \in Snapshots
    BY DEF IInv, TypeOK, Snapshots
  <2> QED
    BY <1>6, <2>1 DEF LoadTopics, IInv, TypeOK
<1>7. ASSUME NEW a \in Admins, LoadAssets(a) PROVE Goal
  <2>1. [snap[a] EXCEPT !.dead = dead] \in Snapshots
    BY DEF IInv, TypeOK, Snapshots
  <2> QED
    BY <1>7, <2>1, FinishType DEF LoadAssets, IInv, TypeOK
<1>8. ASSUME NEW a \in Admins, PublishDraft(a) PROVE Goal
  BY <1>8, FinishType, BlankIsSnapshot DEF PublishDraft, IInv, TypeOK
<1>9. ASSUME NEW a \in Admins, SetLive(a) PROVE Goal
  BY <1>9, FinishType DEF SetLive, IInv
<1>10. ASSUME NEW a \in Admins, Publish(a) \/ Rollback(a) PROVE Goal
  BY <1>10 DEF Publish, Rollback, IInv, TypeOK
<1>11. ASSUME NEW a \in Admins, NEW b \in Texts, SaveDraft(a, b) PROVE Goal
  <2>1. [text |-> b, version |-> 0] \in [text: Texts, version: Nat]
    OBVIOUS
  <2> QED
    BY <1>11, <2>1 DEF SaveDraft, local, IInv, TypeOK
<1>12. ASSUME UNCHANGED local PROVE Goal
  BY <1>12 DEF local, IInv, TypeOK
<1>13. ASSUME NEW a \in Admins, QueryFails(a) PROVE Goal
  BY <1>13, FinishType DEF QueryFails, IInv
<1>14. CASE Crash
  BY <1>14, BlankIsSnapshot DEF Crash
<1> QED
  BY <1>1, <1>2, <1>3, <1>4, <1>5, <1>6, <1>7, <1>8, <1>9, <1>10, <1>11, <1>12, <1>13, <1>14
  DEF Next, Step, Request, EditPrice, EditTopic, EditAsset, Boot

(* What is known of one request, so that a step is looked at only from the *)
(* request it belongs to.                                                  *)
Carries(a) ==
  /\ pc[a] \in Loading => goal[a] \in {"publish", "reload"}
  /\ pc[a] \in {"config", "set"} => goal[a] = "reload"
  /\ pc[a] \in Loading \cup {"set"} /\ goal[a] = "reload" =>
        snap[a].row \in DOMAIN rows /\ rows[snap[a].row].status # "draft"
  /\ pc[a] = "set" => Valid(snap[a])
  /\ pc[a] \in {"max", "insert"} => next[a] \in [text: Texts, version: Nat]
  /\ pc[a] = "insert" => next[a].version # 0

LEMMA AllCarry == (GoalIsKnown /\ ReloadsPublished /\ WaitsValid /\ InsertsRow)
                    <=> \A a \in Admins : Carries(a)
  BY DEF GoalIsKnown, ReloadsPublished, WaitsValid, InsertsRow, Carries

LEMMA OthersCarry ==
  ASSUME IInv, RowsInv', KeepsHistory, NEW b \in Admins,
         pc'[b] = pc[b], goal'[b] = goal[b], snap'[b] = snap[b], next'[b] = next[b]
  PROVE  Carries(b)'
<1>1. Carries(b)
  BY AllCarry DEF IInv
<1>2. snap[b].row \in DOMAIN rows /\ rows[snap[b].row].status # "draft" =>
         snap[b].row \in DOMAIN rows' /\ rows'[snap[b].row].status # "draft"
  BY NoDraftAgain DEF IInv
<1>3. Valid(snap[b]) => Valid(snap'[b])
  BY DEF Valid
<1> QED
  BY <1>1, <1>2, <1>3 DEF Carries, Valid

LEMMA IdleCarries == ASSUME NEW b \in Admins, pc'[b] = "idle" PROVE Carries(b)'
  BY DEF Carries, Loading

(* A step of a touches the locals of no other request.                     *)
LEMMA OwnLocals ==
  ASSUME TypeOK, NEW a \in Admins, NEW b \in Admins, b # a,
         Step(a) \/ Request(a) \/ QueryFails(a)
  PROVE  pc'[b] = pc[b] /\ goal'[b] = goal[b] /\ snap'[b] = snap[b] /\ next'[b] = next[b]
<1> USE DEF TypeOK, goto, local, Finish
<1>1. CASE Step(a)
  BY <1>1 DEF Step, SelectMax, InsertDraft, LoadConfig, LoadTariffs, LoadPlaceholders,
              LoadTopics, LoadAssets, PublishDraft, SetLive
<1>2. CASE Request(a)
  BY <1>2 DEF Request, Publish, Rollback, SaveDraft, EditPrice, EditTopic, EditAsset
<1>3. CASE QueryFails(a)
  BY <1>3 DEF QueryFails
<1> QED
  BY <1>1, <1>2, <1>3

LEMMA OwnCarries ==
  ASSUME IInv, RowsInv', KeepsHistory, NEW a \in Admins,
         Step(a) \/ Request(a) \/ QueryFails(a)
  PROVE  Carries(a)'
<1> USE DEF goto
<1>0. Carries(a)
  BY AllCarry DEF IInv
<1>1. pc[a] \in Stages /\ TypeOK
  BY DEF IInv, TypeOK
<1>2. CASE Finish(a)
  BY <1>1, <1>2, IdleCarries DEF Finish, TypeOK
<1>3. CASE UNCHANGED local
  BY <1>3, OthersCarry DEF local
<1>4. CASE SelectMax(a)
  <2>1. PICK m \in MaxAsRead : next' = [next EXCEPT ![a].version = m + 1]
    BY <1>4 DEF SelectMax
  <2>2. m \in Nat /\ next[a] \in [text: Texts, version: Nat]
    BY <1>0, <1>4, MaxIsNat DEF Carries, SelectMax, IInv
  <2>3. next'[a] = [next[a] EXCEPT !.version = m + 1]
    BY <1>1, <2>1 DEF TypeOK
  <2>4. next'[a] \in [text: Texts, version: Nat] /\ next'[a].version # 0
    BY <2>2, <2>3
  <2>5. pc'[a] = "insert"
    BY <1>1, <1>4 DEF SelectMax, TypeOK
  <2> QED
    BY <2>4, <2>5 DEF Carries, Loading
<1>5. ASSUME NEW b \in Texts, SaveDraft(a, b), ~UNCHANGED local PROVE Carries(a)'
  BY <1>1, <1>5 DEF SaveDraft, Carries, Loading, TypeOK
<1>6. CASE Publish(a)
  BY <1>1, <1>6 DEF Publish, Carries, Loading, TypeOK
<1>7. CASE Rollback(a)
  BY <1>1, <1>7 DEF Rollback, Carries, Loading, TypeOK
<1>8. CASE PublishDraft(a) /\ ~Finish(a)
  BY <1>1, <1>8 DEF PublishDraft, Carries, Loading, TypeOK
<1>9. CASE LoadConfig(a) /\ ~Finish(a)
  <2>1. PICK i \in Newest("published") : /\ snap' = [snap EXCEPT ![a].row = i]
                                         /\ pc' = [pc EXCEPT ![a] = "tariffs"]
                                         /\ goal' = goal
    BY <1>9 DEF LoadConfig
  <2>2. i \in DOMAIN rows /\ rows[i].status # "draft" /\ rows' = rows
    BY <1>9 DEF Newest, WithStatus, LoadConfig, tables
  <2>3. pc'[a] = "tariffs" /\ snap'[a].row = i
    BY <1>1, <2>1 DEF TypeOK, Snapshots
  <2>4. goal'[a] = "reload"
    BY <1>0, <1>9, <2>1 DEF Carries, LoadConfig
  <2> QED
    BY <2>2, <2>3, <2>4 DEF Carries, Loading
<1>10. CASE LoadTariffs(a) \/ LoadPlaceholders(a) \/ LoadTopics(a)
  <2>1. pc[a] \in Loading /\ goal' = goal /\ rows' = rows
    BY <1>10 DEF LoadTariffs, LoadPlaceholders, LoadTopics, Loading, tables
  <2>2. pc'[a] \in Loading /\ pc'[a] # "set" /\ pc'[a] \notin {"config", "max", "insert"}
    BY <1>1, <1>10 DEF LoadTariffs, LoadPlaceholders, LoadTopics, Loading, TypeOK
  <2>3. snap'[a].row = snap[a].row
    BY <1>1, <1>10 DEF LoadTariffs, LoadPlaceholders, LoadTopics, TypeOK, Snapshots
  <2> QED
    BY <1>0, <2>1, <2>2, <2>3 DEF Carries
<1>11. CASE LoadAssets(a) /\ ~Finish(a)
  <2>1. /\ snap' = [snap EXCEPT ![a] = [snap[a] EXCEPT !.dead = dead]]
        /\ Valid([snap[a] EXCEPT !.dead = dead])
        /\ pc' = [pc EXCEPT ![a] = IF goal[a] = "publish" THEN "promote" ELSE "set"]
        /\ goal' = goal /\ rows' = rows /\ pc[a] = "assets"
    BY <1>11 DEF LoadAssets, tables
  <2>2. /\ snap'[a] = [snap[a] EXCEPT !.dead = dead]
        /\ snap'[a].row = snap[a].row
    BY <1>1, <2>1 DEF TypeOK, Snapshots
  <2>3. Valid(snap'[a])
    BY <2>1, <2>2
  <2>4. Valid(snap[a])' <=> Valid(snap'[a])
    BY DEF Valid
  <2>5. pc'[a] = IF goal[a] = "publish" THEN "promote" ELSE "set"
    BY <1>1, <2>1 DEF TypeOK
  <2>6. goal[a] \in {"publish", "reload"} /\ (goal[a] = "reload" =>
           snap[a].row \in DOMAIN rows /\ rows[snap[a].row].status # "draft")
    BY <1>0, <2>1 DEF Carries, Loading
  <2>7. CASE goal[a] = "publish"
    BY <2>1, <2>5, <2>7 DEF Carries, Loading
  <2>8. CASE goal[a] = "reload"
    <3>1. pc'[a] = "set"
      BY <2>5, <2>8
    <3> QED
      BY <2>1, <2>2, <2>3, <2>4, <2>6, <2>8, <3>1 DEF Carries, Loading
  <2> QED
    BY <2>6, <2>7, <2>8
<1> QED
  BY <1>2, <1>3, <1>4, <1>5, <1>6, <1>7, <1>8, <1>9, <1>10, <1>11
  DEF Step, Request, QueryFails, InsertDraft, SetLive, EditPrice, EditTopic, EditAsset

LEMMA StepCarries == ASSUME IInv, RowsInv', KeepsHistory, Next PROVE \A b \in Admins : Carries(b)'
<1>1. ASSUME NEW b \in Admins, NEW a \in Admins, Step(a) \/ Request(a) \/ QueryFails(a)
      PROVE  Carries(b)'
  BY <1>1, OwnCarries, OwnLocals, OthersCarry DEF IInv
<1>2. ASSUME NEW b \in Admins, Crash PROVE Carries(b)'
  BY <1>2, IdleCarries DEF Crash
<1>3. ASSUME NEW b \in Admins, Boot PROVE Carries(b)'
  BY <1>3, OthersCarry DEF Boot, local
<1> QED
  BY <1>1, <1>2, <1>3 DEF Next

(* The live snapshot: only the end of a reload and a boot replace it.      *)
LEMMA StepLive ==
  ASSUME IInv, RowsInv', KeepsHistory, Next
  PROVE  /\ live' \in Snapshots /\ live'.row \in DOMAIN rows'
         /\ Valid(live') /\ rows'[live'.row].status # "draft"
<1>1. CASE live' = live
  BY <1>1, NoDraftAgain DEF IInv, TypeOK, LiveIsValid, LiveWasPublished
<1>2. ASSUME NEW a \in Admins, SetLive(a)
      PROVE  /\ live' \in Snapshots /\ live'.row \in DOMAIN rows'
             /\ Valid(live') /\ rows'[live'.row].status # "draft"
  <2>1. live' = snap[a] /\ pc[a] = "set" /\ rows' = rows
    BY <1>2 DEF SetLive, tables
  <2>2. Carries(a) /\ goal[a] = "reload"
    BY <2>1, AllCarry DEF IInv, Carries
  <2> QED
    BY <2>1, <2>2 DEF Carries, IInv, TypeOK
<1>3. CASE Boot
  <2>1. PICK i \in Newest("published"), read \in PartsRead(prices) :
          live' = Snapshot(i, read, topics, dead) /\ Valid(live')
    BY <1>3 DEF Boot
  <2>2. i \in DOMAIN rows /\ rows[i].status = "published" /\ i \in Nat /\ rows' = rows
    BY <1>3 DEF Newest, WithStatus, Boot, tables, IInv, RowsInv
  <2>3. live'.row = i
    BY <2>1 DEF Snapshot
  <2>4. live' \in Snapshots
    BY <2>1, <2>2, PartsAre DEF Snapshot, Snapshots, IInv, TypeOK
  <2> QED
    BY <2>1, <2>2, <2>3, <2>4
<1> QED
  BY <1>1, <1>2, <1>3
  DEF Next, Step, Request, QueryFails, Crash, Publish, LoadConfig, LoadTariffs, Rollback,
      LoadPlaceholders, LoadTopics, LoadAssets, SelectMax, InsertDraft, PublishDraft,
      SaveDraft, EditPrice, EditTopic, EditAsset

(* The tables next to the configs.                                         *)
LEMMA StepTables ==
  ASSUME IInv, Next
  PROVE  /\ prices' \in SUBSET Tokens /\ topics' \in [Topics -> SUBSET Tokens]
         /\ dead' \in SUBSET Assets /\ up' \in BOOLEAN
<1>1. ASSUME NEW a \in Admins, NEW t \in Tokens, EditPrice(a, t)
      PROVE  prices' \in SUBSET Tokens
  BY <1>1 DEF EditPrice, IInv, TypeOK
<1>2. ASSUME NEW a \in Admins, NEW t \in Topics, EditTopic(a, t)
      PROVE  topics' \in [Topics -> SUBSET Tokens]
  BY <1>2 DEF EditTopic, IInv, TypeOK
<1>3. ASSUME NEW a \in Admins, NEW x \in Assets, EditAsset(a, x)
      PROVE  dead' \in SUBSET Assets
  BY <1>3 DEF EditAsset, IInv, TypeOK
<1> QED
  BY <1>1, <1>2, <1>3
  DEF IInv, TypeOK, tables, Next, Step, Request, QueryFails, Crash, Boot, Publish, LoadConfig,
      LoadTariffs, Rollback, LoadPlaceholders, LoadTopics, LoadAssets, SelectMax, InsertDraft,
      PublishDraft, SetLive, SaveDraft, EditPrice, EditTopic, EditAsset

LEMMA StatusIsKnown ==
  ASSUME RowsInv, NEW i \in DOMAIN rows
  PROVE  rows[i].status \in {"draft", "published", "archived"}
<1>1. rows[i] \in Rows
  BY DEF RowsInv
<1> QED
  BY <1>1 DEF Rows

LEMMA NextEverRows ==
  ASSUME IInv, RowsInv', KeepsHistory, Recorded
  PROVE  EverRows' /\ ever \subseteq ever'
<1>1. WithStatus("published")' \subseteq DOMAIN rows'
  BY DEF WithStatus
<1>2. \A i \in DOMAIN rows : rows[i].status \in {"draft", "published", "archived"}
  BY StatusIsKnown DEF IInv
<1>3. ASSUME NEW i \in ever PROVE i \in DOMAIN rows' /\ rows'[i].status # "draft"
  BY <1>2, <1>3 DEF IInv, EverRows, KeepsHistory
<1>4. ASSUME NEW i \in WithStatus("published")' PROVE rows'[i].status # "draft"
  BY <1>4 DEF WithStatus
<1> QED
  BY <1>1, <1>3, <1>4 DEF IInv, EverRows, Recorded

(* Every step that publishes a row adds it to the history.                 *)
LEMMA NextRecords == ASSUME EverRows, Next PROVE Recorded
<1>1. ASSUME rows' = rows, ever' = ever PROVE Recorded
  BY <1>1 DEF EverRows, WithStatus, Recorded
<1> QED
  BY <1>1
  DEF Next, Step, Request, QueryFails, Crash, Boot, Publish, LoadConfig, LoadTariffs, Rollback,
      LoadPlaceholders, LoadTopics, LoadAssets, SelectMax, InsertDraft, PublishDraft, SetLive,
      SaveDraft, EditPrice, EditTopic, EditAsset, tables

LEMMA NextIInv == IInv /\ [Next]_vars => IInv' /\ (KeepsHistory \/ UNCHANGED vars)
<1> SUFFICES ASSUME IInv, [Next]_vars PROVE IInv' /\ (KeepsHistory \/ UNCHANGED vars)
  OBVIOUS
<1>1. CASE Next
  <2>1. RowsInv' /\ KeepsHistory
    BY <1>1, StepRows
  <2>2. (GoalIsKnown /\ ReloadsPublished /\ WaitsValid /\ InsertsRow)'
    <3>1. (\A a \in Admins : Carries(a))'
      BY <1>1, <2>1, StepCarries
    <3>2. (GoalIsKnown /\ ReloadsPublished /\ WaitsValid /\ InsertsRow)'
             <=> (\A a \in Admins : Carries(a))'
      BY AllCarry, PTL
    <3> QED
      BY <3>1, <3>2
  <2>3. /\ live' \in Snapshots /\ live'.row \in DOMAIN rows'
        /\ Valid(live') /\ rows'[live'.row].status # "draft"
    BY <1>1, <2>1, StepLive
  <2>4. LiveIsValid' /\ LiveWasPublished'
    BY <2>3 DEF LiveIsValid, LiveWasPublished, Valid
  <2>5. rows' \in Seq(Rows) /\ rows' # <<>>
    BY <2>1, <2>3 DEF RowsInv
  <2>6. EverRows'
    BY <1>1, <2>1, NextEverRows, NextRecords DEF IInv
  <2>7. TypeOK'
    BY <1>1, <2>3, <2>5, <2>6, StepTables, StepLocalType DEF TypeOK, EverRows
  <2> QED
    BY <2>1, <2>2, <2>4, <2>6, <2>7 DEF IInv
<1>2. CASE UNCHANGED vars
  <2>1. \A a \in Admins : Carries(a)'
    BY <1>2, UnchangedRows, OthersCarry DEF IInv, vars, tables, local
  <2>2. (GoalIsKnown /\ ReloadsPublished /\ WaitsValid /\ InsertsRow)'
    BY <2>1, <1>2 DEF GoalIsKnown, ReloadsPublished, WaitsValid, InsertsRow, Carries
  <2>3. RowsInv'
    BY <1>2, UnchangedRows DEF IInv, vars, tables
  <2>4. TypeOK' /\ LiveIsValid' /\ LiveWasPublished'
    BY <1>2 DEF IInv, TypeOK, LiveIsValid, LiveWasPublished, Valid, vars, tables, local
  <2>5. EverRows'
    BY <1>2 DEF IInv, EverRows, WithStatus, vars, tables
  <2> QED
    BY <1>2, <2>2, <2>3, <2>4, <2>5 DEF IInv
<1> QED
  BY <1>1, <1>2

LEMMA InvariantIInv == Spec => []IInv
<1>1. IInv /\ [Next]_vars => IInv'
  BY NextIInv
<1> QED
  BY InitIInv, <1>1, PTL DEF Spec

----------------------------------------------------------------------------
(* Every variable keeps its type and the live snapshot belongs to a row of *)
(* assistant_config.                                                       *)
THEOREM TypeCorrect == Spec => []TypeOK
<1>1. IInv => TypeOK
  BY DEF IInv
<1> QED
  BY InvariantIInv, <1>1, PTL

(* The brain never works from content that does not validate, whatever the *)
(* administrators do to the tables while a reload reads them.              *)
THEOREM BrainContentIsValid == Spec => []LiveIsValid
<1>1. IInv => LiveIsValid
  BY DEF IInv
<1> QED
  BY InvariantIInv, <1>1, PTL

(* The brain never works from a config that is still a draft.              *)
THEOREM DraftsStayOut == Spec => []LiveWasPublished
<1>1. IInv => LiveWasPublished
  BY DEF IInv
<1> QED
  BY InvariantIInv, <1>1, PTL

(* Exactly one config is published between any two statements, so a boot   *)
(* always finds one and the partial unique index has nothing to refuse.    *)
THEOREM OneIsPublished == Spec => []OnePublished
<1>1. IInv => OnePublished
  BY DEF IInv, RowsInv
<1> QED
  BY InvariantIInv, <1>1, PTL

(* Publishing and rolling back keep the history of configs.                *)
THEOREM HistoryStays == Spec => HistoryIsKept
<1>1. IInv /\ [Next]_vars => [KeepsHistory]_vars
  BY NextIInv
<1> QED
  BY InvariantIInv, <1>1, PTL DEF Spec, HistoryIsKept

----------------------------------------------------------------------------
(* From here on one administrator at a time, and queries that succeed; the *)
(* process may still be killed anywhere.                                   *)
Sole == (\A a, b \in Admins : a = b) /\ "db" \notin Faults

(* What the request of a sole administrator carries: there is no draft     *)
(* while it goes to insert one, and its version is a new one; the row of a *)
(* reload is the published one; what was read of a table is still there.   *)
SoleCarries(a) ==
  /\ pc[a] \in {"max", "insert"} => WithStatus("draft") = {}
  /\ pc[a] = "insert" => \A i \in DOMAIN rows : rows[i].version < next[a].version
  /\ pc[a] \in Loading \cup {"set"} /\ goal[a] = "reload" =>
       rows[snap[a].row].status = "published"
  /\ pc[a] = "placeholders" => snap[a].prices = prices \cap Tariffs
  /\ pc[a] \in {"topics", "assets", "promote"} => snap[a].prices = prices
  /\ pc[a] \in {"assets", "promote"} => snap[a].topics = topics
  /\ pc[a] = "promote" => snap[a].dead = dead /\ Valid(snap[a])

SoleInv == IInv /\ SingleDraft /\ \A a \in Admins : SoleCarries(a)

LEMMA MaxIsTop ==
  ASSUME RowsInv
  PROVE  MaxVersion \in Nat /\ \A i \in DOMAIN rows : rows[i].version <= MaxVersion
<1>1. MaxVersion \in Nat
  BY MaxIsNat DEF MaxAsRead
<1>2. PICK i \in DOMAIN rows : \A j \in DOMAIN rows : rows[j].version <= rows[i].version
  BY DEF RowsInv, SomeNewest
<1> DEFINE V == {rows[j].version : j \in DOMAIN rows}
<1>3. \E v \in V : \A w \in V : w <= v
  BY <1>2
<1>4. \A w \in V : w <= MaxVersion
  BY <1>3 DEF MaxVersion
<1> QED
  BY <1>1, <1>4

LEMMA IdleIsSole == ASSUME NEW a \in Admins, pc'[a] = "idle" PROVE SoleCarries(a)'
  BY DEF SoleCarries, Loading

(* Only statements that write assistant_config can make a second draft.    *)
LEMMA SameDrafts == ASSUME SingleDraft, UNCHANGED rows PROVE SingleDraft'
  BY DEF SingleDraft, WithStatus

LEMMA SaveDraftSole ==
  ASSUME SoleInv, NEW a \in Admins, NEW b \in Texts, SaveDraft(a, b)
  PROVE  SingleDraft' /\ SoleCarries(a)'
<1>1. pc[a] = "idle" /\ \A i \in DOMAIN rows : rows[i] \in Rows
  BY DEF SaveDraft, SoleInv, IInv, RowsInv
<1>2. CASE /\ rows' = [i \in DOMAIN rows |->
                   IF rows[i].status = "draft" THEN [rows[i] EXCEPT !.text = b] ELSE rows[i]]
           /\ UNCHANGED local
  <2>1. /\ DOMAIN rows' = DOMAIN rows
        /\ \A i \in DOMAIN rows : /\ rows'[i].version = rows[i].version
                                  /\ rows'[i].status = rows[i].status
    BY <1>1, <1>2 DEF Rows
  <2>2. SingleDraft'
    BY <2>1 DEF SoleInv, SingleDraft, WithStatus
  <2> QED
    BY <1>1, <1>2, <2>2, IdleIsSole DEF local
<1>3. CASE /\ WithStatus("draft") = {} /\ UNCHANGED rows
           /\ goto(a, "max")
  <2>1. pc'[a] = "max" /\ WithStatus("draft")' = WithStatus("draft")
    BY <1>3 DEF SoleInv, IInv, TypeOK, goto, WithStatus
  <2> QED
    BY <1>3, <2>1, SameDrafts DEF SoleInv, SoleCarries, Loading
<1> QED
  BY <1>2, <1>3 DEF SaveDraft

LEMMA InsertSole ==
  ASSUME Sole, SoleInv, NEW a \in Admins, SelectMax(a) \/ InsertDraft(a)
  PROVE  SingleDraft' /\ SoleCarries(a)'
<1>1. \A i \in DOMAIN rows : rows[i].version \in Nat
  <2>1. \A i \in DOMAIN rows : rows[i] \in Rows
    BY DEF SoleInv, IInv, RowsInv
  <2> QED
    BY <2>1 DEF Rows
<1>2. CASE SelectMax(a)
  <2>1. /\ pc[a] = "max" /\ pc'[a] = "insert" /\ UNCHANGED rows
        /\ next' = [next EXCEPT ![a].version = MaxVersion + 1]
    BY <1>2 DEF SelectMax, MaxAsRead, Sole, goto, tables, SoleInv, IInv, TypeOK
  <2>2. next[a] \in [text: Texts, version: Nat]
    BY <2>1 DEF SoleInv, IInv, InsertsRow
  <2>3. next'[a].version = MaxVersion + 1
    BY <2>1, <2>2 DEF SoleInv, IInv, TypeOK
  <2>4. \A i \in DOMAIN rows : rows[i].version < next'[a].version
    BY <1>1, <2>3, MaxIsTop DEF SoleInv, IInv
  <2>5. WithStatus("draft")' = {}
    BY <2>1 DEF SoleInv, SoleCarries, WithStatus
  <2> QED
    BY <2>1, <2>4, <2>5, SameDrafts DEF SoleInv, SoleCarries, Loading
<1>3. CASE InsertDraft(a)
  <2> DEFINE r == Row(next[a].version, "draft", next[a].text)
  <2>1. r \in Rows /\ r.status = "draft" /\ r.version = next[a].version
    BY <1>3 DEF InsertDraft, SoleInv, IInv, InsertsRow, Row, Rows
  <2>2. rows' = Append(rows, r) /\ pc'[a] = "idle"
    BY <1>3 DEF InsertDraft, Finish, goto, SoleInv, IInv, TypeOK
  <2>3. WithStatus("draft") = {} /\ \A i \in DOMAIN rows : rows[i].version < r.version
    BY <1>3, <2>1 DEF InsertDraft, SoleInv, SoleCarries
  <2>4. r.version \in Nat
    BY <2>1 DEF Rows
  <2> HIDE DEF r
  <2>5. /\ DOMAIN rows' = DOMAIN rows \cup {Len(rows) + 1}
        /\ rows'[Len(rows) + 1] = r
        /\ \A i \in DOMAIN rows : rows'[i] = rows[i]
    BY <2>1, <2>2, AppendedRows DEF SoleInv, IInv, RowsInv
  <2>6. WithStatus("draft")' = {Len(rows) + 1}
    BY <2>1, <2>3, <2>5 DEF WithStatus
  <2>7. \A i, j \in DOMAIN rows' : rows'[i].version = rows'[j].version => i = j
    BY <1>1, <2>3, <2>4, <2>5 DEF SoleInv, SingleDraft
  <2> QED
    BY <2>2, <2>6, <2>7, IdleIsSole DEF SingleDraft
<1> QED
  BY <1>2, <1>3

LEMMA PublishSole ==
  ASSUME SoleInv, NEW a \in Admins, PublishDraft(a)
  PROVE  SingleDraft' /\ SoleCarries(a)'
<1>1. pc'[a] \in {"idle", "config"}
  BY DEF PublishDraft, Finish, goto, SoleInv, IInv, TypeOK
<1>2. SoleCarries(a)'
  BY <1>1 DEF SoleCarries, Loading
<1>3. ASSUME NEW d \in Newest("draft"), rows' = Promoted(d) PROVE SingleDraft'
  <2>1. \A i \in DOMAIN rows : rows[i] \in Rows
    BY DEF SoleInv, IInv, RowsInv
  <2>2. /\ DOMAIN rows' = DOMAIN rows
        /\ \A i \in DOMAIN rows : /\ rows'[i].version = rows[i].version
                                  /\ rows'[i].status = "draft" => rows[i].status = "draft"
    BY <1>3, <2>1 DEF Promoted, Rows
  <2> QED
    BY <2>2 DEF SoleInv, SingleDraft, WithStatus
<1> QED
  BY <1>2, <1>3, SameDrafts DEF PublishDraft, SoleInv

LEMMA RollbackSole ==
  ASSUME Sole, SoleInv, NEW a \in Admins, Rollback(a)
  PROVE  SingleDraft' /\ SoleCarries(a)'
<1>1. PICK i \in DOMAIN rows : rows' = RolledBack(i, MaxVersion)
  BY DEF Rollback, MaxAsRead, Sole
<1>2. SoleCarries(a)'
  BY DEF Rollback, goto, SoleInv, IInv, TypeOK, SoleCarries, Loading
<1> DEFINE s == [j \in DOMAIN rows |-> IF rows[j].status \in {"published", "draft"}
                                       THEN [rows[j] EXCEPT !.status = "archived"] ELSE rows[j]]
           r == Row(MaxVersion + 1, "published", rows[i].text)
<1>3. \A j \in DOMAIN rows : rows[j] \in Rows
  BY DEF SoleInv, IInv, RowsInv
<1>4. r \in Rows /\ r.status = "published" /\ r.version = MaxVersion + 1
  BY <1>3, MaxIsTop DEF Row, Rows, SoleInv, IInv
<1>5. \A j \in DOMAIN rows : /\ s[j] \in Rows /\ s[j].status = "archived"
                             /\ s[j].version = rows[j].version /\ rows[j].version \in Nat
  BY <1>3 DEF Rows
<1>6. s \in [DOMAIN rows -> Rows]
  BY <1>5
<1>7. s \in Seq(Rows) /\ DOMAIN s = DOMAIN rows
  BY <1>6, MappedRows DEF SoleInv, IInv, RowsInv
<1>8. rows' = Append(s, r)
  BY <1>1 DEF RolledBack
<1> HIDE DEF s, r
<1>9. /\ DOMAIN rows' = DOMAIN rows \cup {Len(s) + 1}
      /\ rows'[Len(s) + 1] = r
      /\ \A j \in DOMAIN rows : rows'[j] = s[j]
  BY <1>4, <1>7, <1>8, AppendedRows
<1>10. WithStatus("draft")' = {}
  BY <1>4, <1>5, <1>9 DEF WithStatus
<1>11. \A j \in DOMAIN rows : rows'[j].version < r.version
  BY <1>4, <1>5, <1>9, MaxIsTop DEF SoleInv, IInv
<1>12. \A j, k \in DOMAIN rows' : rows'[j].version = rows'[k].version => j = k
  BY <1>4, <1>5, <1>9, <1>11, MaxIsTop DEF SoleInv, IInv, SingleDraft
<1> QED
  BY <1>2, <1>10, <1>12 DEF SingleDraft

(* The queries of a load, each by what it adds to the snapshot.            *)
LEMMA LoadSole ==
  ASSUME Sole, SoleInv, NEW a \in Admins,
         LoadConfig(a) \/ LoadTariffs(a) \/ LoadPlaceholders(a) \/ LoadTopics(a)
           \/ LoadAssets(a)
  PROVE  SingleDraft' /\ SoleCarries(a)'
<1>1. UNCHANGED <<rows, prices, topics, dead>>
  BY DEF LoadConfig, LoadTariffs, LoadPlaceholders, LoadTopics, LoadAssets, tables
<1>2. /\ snap[a] \in Snapshots /\ prices \subseteq Tokens /\ SoleCarries(a)
      /\ snap \in [Admins -> Snapshots] /\ pc \in [Admins -> Stages]
      /\ goal \in [Admins -> {None, "publish", "reload"}]
  BY DEF SoleInv, IInv, TypeOK
<1>3. ASSUME Finish(a) PROVE SoleCarries(a)'
  BY <1>2, <1>3, IdleIsSole DEF Finish, goto
<1>4. ASSUME LoadConfig(a) PROVE SoleCarries(a)'
  <2>1. ASSUME NEW i \in Newest("published"), snap' = [snap EXCEPT ![a].row = i],
               goto(a, "tariffs")
        PROVE  SoleCarries(a)'
    <3>1. snap'[a].row = i /\ rows'[i].status = "published"
      BY <1>1, <1>2, <2>1 DEF Newest, WithStatus, Snapshots
    <3>2. pc'[a] = "tariffs"
      BY <1>2, <2>1 DEF goto
    <3> QED
      BY <3>1, <3>2 DEF SoleCarries
  <2> QED
    BY <1>3, <1>4, <2>1 DEF LoadConfig
<1>5. ASSUME LoadTariffs(a) PROVE SoleCarries(a)'
  <2>1. /\ pc[a] = "tariffs" /\ pc'[a] = "placeholders" /\ goal' = goal
        /\ snap'[a] = [snap[a] EXCEPT !.prices = prices \cap Tariffs]
    BY <1>2, <1>5 DEF LoadTariffs, PartsRead, goto, Sole
  <2>2. snap'[a].row = snap[a].row /\ snap'[a].prices = prices \cap Tariffs
    BY <1>2, <2>1 DEF Snapshots
  <2> QED
    BY <1>1, <1>2, <2>1, <2>2 DEF SoleCarries, Loading
<1>6. ASSUME LoadPlaceholders(a) PROVE SoleCarries(a)'
  <2>1. /\ pc[a] = "placeholders" /\ pc'[a] = "topics" /\ goal' = goal
        /\ snap'[a] = [snap[a] EXCEPT !.prices = @ \cup (prices \cap Placeholders)]
    BY <1>2, <1>6 DEF LoadPlaceholders, PartsRead, goto, Sole
  <2>2. /\ snap'[a].row = snap[a].row
        /\ snap'[a].prices = snap[a].prices \cup (prices \cap Placeholders)
    BY <1>2, <2>1 DEF Snapshots
  <2>3. snap'[a].prices = prices
    BY <1>2, <2>1, <2>2 DEF SoleCarries, Tokens
  <2> QED
    BY <1>1, <1>2, <2>1, <2>2, <2>3 DEF SoleCarries, Loading
<1>7. ASSUME LoadTopics(a) PROVE SoleCarries(a)'
  <2>1. /\ pc[a] = "topics" /\ pc'[a] = "assets" /\ goal' = goal
        /\ snap'[a] = [snap[a] EXCEPT !.topics = topics]
    BY <1>2, <1>7 DEF LoadTopics, goto
  <2>2. /\ snap'[a].row = snap[a].row /\ snap'[a].prices = snap[a].prices
        /\ snap'[a].topics = topics
    BY <1>2, <2>1 DEF Snapshots
  <2> QED
    BY <1>1, <1>2, <2>1, <2>2 DEF SoleCarries, Loading
<1>8. ASSUME LoadAssets(a) PROVE SoleCarries(a)'
  <2> DEFINE s == [snap[a] EXCEPT !.dead = dead]
  <2>1. s.row = snap[a].row /\ s.prices = snap[a].prices /\ s.topics = snap[a].topics
        /\ s.dead = dead
    BY <1>2 DEF Snapshots
  <2>2. ASSUME Valid(s), snap' = [snap EXCEPT ![a] = s], goal' = goal,
               goto(a, IF goal[a] = "publish" THEN "promote" ELSE "set")
        PROVE  SoleCarries(a)'
    <3>1. /\ pc[a] = "assets" /\ snap'[a] = s
          /\ pc'[a] = IF goal[a] = "publish" THEN "promote" ELSE "set"
      BY <1>2, <1>8, <2>2 DEF LoadAssets, goto
    <3>2. Valid(snap[a])' <=> Valid(s)
      BY <3>1 DEF Valid
    <3> HIDE DEF s
    <3> QED
      BY <1>1, <1>2, <2>1, <2>2, <3>1, <3>2 DEF SoleCarries, Loading
  <2> QED
    BY <1>3, <1>8, <2>2 DEF LoadAssets
<1> QED
  BY <1>1, <1>4, <1>5, <1>6, <1>7, <1>8, SameDrafts DEF SoleInv

LEMMA NextSole == Sole => (SoleInv /\ [Next]_vars => SoleInv')
<1> SUFFICES ASSUME Sole, SoleInv, [Next]_vars PROVE SoleInv'
  OBVIOUS
<1>1. IInv'
  BY NextIInv DEF SoleInv
<1> SUFFICES SingleDraft' /\ \A a \in Admins : SoleCarries(a)'
  BY <1>1 DEF SoleInv
<1>2. ASSUME NEW a \in Admins, SingleDraft' /\ SoleCarries(a)'
      PROVE  SingleDraft' /\ \A b \in Admins : SoleCarries(b)'
  BY <1>2 DEF Sole
<1>3. ASSUME UNCHANGED rows, \A a \in Admins : pc'[a] = "idle"
      PROVE  SingleDraft' /\ \A b \in Admins : SoleCarries(b)'
  BY <1>3, IdleIsSole, SameDrafts DEF SoleInv
<1>4. CASE UNCHANGED vars
  <2>1. ASSUME NEW a \in Admins PROVE SoleCarries(a)'
    BY <1>4 DEF SoleInv, SoleCarries, WithStatus, Valid, vars, tables, local
  <2> QED
    BY <1>4, <2>1, SameDrafts DEF SoleInv, vars, tables
<1>5. CASE Crash
  BY <1>3, <1>5 DEF Crash, tables
<1>6. CASE Boot
  <2>1. ASSUME NEW a \in Admins PROVE SoleCarries(a)'
    BY <1>6 DEF Boot, SoleInv, SoleCarries, WithStatus, Valid, tables, local
  <2> QED
    BY <1>6, <2>1, SameDrafts DEF SoleInv, Boot, tables
<1>7. ASSUME NEW a \in Admins, Step(a)
      PROVE  SingleDraft' /\ \A b \in Admins : SoleCarries(b)'
  <2>1. ASSUME SetLive(a) PROVE SingleDraft' /\ SoleCarries(a)'
    BY <2>1, IdleIsSole, SameDrafts DEF SetLive, Finish, goto, tables, SoleInv, IInv, TypeOK
  <2> QED
    BY <1>2, <1>7, <2>1, InsertSole, LoadSole, PublishSole DEF Step
<1>8. ASSUME NEW a \in Admins, Request(a)
      PROVE  SingleDraft' /\ \A b \in Admins : SoleCarries(b)'
  <2>1. ASSUME Publish(a) PROVE SingleDraft' /\ SoleCarries(a)'
    <3>1. pc'[a] = "tariffs" /\ goal'[a] = "publish" /\ UNCHANGED rows
      BY <2>1 DEF Publish, goto, tables, SoleInv, IInv, TypeOK
    <3> QED
      BY <3>1, SameDrafts DEF SoleInv, SoleCarries, Loading
  <2>2. ASSUME UNCHANGED <<rows, local>>, pc[a] = "idle" PROVE SingleDraft' /\ SoleCarries(a)'
    BY <2>2, IdleIsSole, SameDrafts DEF SoleInv, local
  <2> QED
    BY <1>2, <1>8, <2>1, <2>2, SaveDraftSole, RollbackSole
       DEF Request, EditPrice, EditTopic, EditAsset
<1>9. ASSUME NEW a \in Admins PROVE ~QueryFails(a)
  BY DEF QueryFails, Sole
<1> QED
  BY <1>4, <1>5, <1>6, <1>7, <1>8, <1>9 DEF Next

LEMMA InvariantSole == ASSUME Sole PROVE Spec => []SoleInv
<1>1. Init => SoleInv
  <2> SUFFICES ASSUME Init PROVE SoleInv
    OBVIOUS
  <2>1. PICK b \in Texts : rows = <<Row(1, "published", b)>>
    BY DEF Init
  <2>2. DOMAIN rows = {1} /\ rows[1].status = "published"
    BY <2>1 DEF Row
  <2>3. SingleDraft
    BY <2>2 DEF SingleDraft, WithStatus
  <2> QED
    BY <2>3, InitIInv DEF Init, SoleInv, SoleCarries, Loading
<1> QED
  BY <1>1, NextSole, PTL DEF Spec

(* One administrator at a time: there is one working draft at most, and no *)
(* two configs have a version in common, wherever the process was killed.  *)
THEOREM OneDraft == ASSUME Sole PROVE Spec => []SingleDraft
<1>1. SoleInv => SingleDraft
  BY DEF SoleInv
<1> QED
  BY InvariantSole, <1>1, PTL

(* One administrator at a time: a reload installs what is published then.  *)
THEOREM ReloadsAreCurrent == ASSUME Sole PROVE Spec => ReloadIsCurrent
<1>1. ASSUME SoleInv, [Next]_vars, live' # live, up
      PROVE  rows[live'.row].status = "published"
  <2>1. PICK a \in Admins : SetLive(a)
    BY <1>1
    DEF Next, Step, Request, QueryFails, Crash, Boot, Publish, LoadConfig, LoadTariffs,
        Rollback, LoadPlaceholders, LoadTopics, LoadAssets, SelectMax, InsertDraft,
        PublishDraft, SaveDraft, EditPrice, EditTopic, EditAsset, vars
  <2>2. pc[a] = "set" /\ goal[a] = "reload" /\ live' = snap[a]
    BY <1>1, <2>1 DEF SetLive, SoleInv, IInv, GoalIsKnown
  <2> QED
    BY <1>1, <2>2 DEF SoleInv, SoleCarries
<1>2. SoleInv /\ [Next]_vars => [InstallsPublished]_vars
  BY <1>1 DEF InstallsPublished
<1> QED
  BY <1>2, InvariantSole, PTL DEF Spec, ReloadIsCurrent

(* One administrator at a time: what a publish promotes is not refused by  *)
(* its own reload.                                                         *)
THEOREM PublishValidates == ASSUME Sole PROVE Spec => PublishRefusesFirst
<1>1. ASSUME SoleInv, [Next]_vars, NEW a \in Admins, pc[a] = "promote", pc'[a] = "config"
      PROVE  Valid(Snapshot(0, prices, topics, dead))
  <2>1. /\ snap[a].prices = prices /\ snap[a].topics = topics /\ snap[a].dead = dead
        /\ Valid(snap[a])
    BY <1>1 DEF SoleInv, SoleCarries
  <2> QED
    BY <2>1 DEF Valid, Snapshot
<1>2. SoleInv /\ [Next]_vars => [PromotesValid]_vars
  BY <1>1 DEF PromotesValid
<1> QED
  BY <1>2, InvariantSole, PTL DEF Spec, PublishRefusesFirst

----------------------------------------------------------------------------
(* The config that is served is behind the published one only inside a     *)
(* reload.                                                                 *)
Reloading(a) == pc[a] \in Loading \cup {"config", "set"} /\ goal[a] = "reload"
BehindInReload ==
  up /\ (\A a \in Admins : ~Reloading(a)) => rows[live.row].status = "published"

(* A step outside a reload keeps it so, if it leaves the published config. *)
LEMMA OutOfReload ==
  ASSUME Sole, SoleInv, BehindInReload, NEW a \in Admins, ~Reloading(a), UNCHANGED <<live, up>>,
         \A i \in DOMAIN rows : rows[i].status = "published" => rows'[i].status = "published"
  PROVE  BehindInReload'
<1>1. live.row \in DOMAIN rows
  BY DEF SoleInv, IInv, TypeOK
<1>2. \A b \in Admins : ~Reloading(b)
  BY DEF Sole
<1> QED
  BY <1>1, <1>2 DEF BehindInReload

(* A request that starts to reload, or goes on with it.                    *)
LEMMA InReload ==
  ASSUME NEW a \in Admins, Reloading(a)' PROVE BehindInReload'
  BY DEF BehindInReload

LEMMA NextBehind ==
  ASSUME Sole, SoleInv, BehindInReload, [Next]_vars,
         \A a \in Admins : LoadAssets(a) /\ goal[a] = "reload" => pc'[a] = "set"
  PROVE  BehindInReload'
<1>1. /\ live.row \in DOMAIN rows /\ pc \in [Admins -> Stages]
      /\ goal \in [Admins -> {None, "publish", "reload"}]
      /\ \A i \in DOMAIN rows : rows[i] \in Rows
  BY DEF SoleInv, IInv, TypeOK, RowsInv
<1>2. CASE UNCHANGED vars
  BY <1>2 DEF BehindInReload, Reloading, vars, tables, local
<1>3. CASE Crash
  BY <1>3 DEF Crash, BehindInReload
<1>4. CASE Boot
  <2>1. PICK i \in Newest("published"), read \in PartsRead(prices) :
          live' = Snapshot(i, read, topics, dead)
    BY <1>4 DEF Boot
  <2>2. live'.row = i /\ rows' = rows /\ rows[i].status = "published"
    BY <1>4, <2>1 DEF Boot, tables, Snapshot, Newest, WithStatus
  <2> QED
    BY <2>2 DEF BehindInReload
<1>5. ASSUME NEW a \in Admins, UNCHANGED <<live, up, rows>>, ~Reloading(a)
      PROVE  BehindInReload'
  BY <1>5, OutOfReload
<1>6. ASSUME NEW a \in Admins, UNCHANGED <<live, up, rows, goal>>,
             pc[a] \in Loading, Reloading(a) => pc'[a] \in Loading \cup {"set"}
      PROVE  BehindInReload'
  BY <1>5, <1>6, InReload DEF Reloading
<1>7. ASSUME NEW a \in Admins, Step(a) PROVE BehindInReload'
  <2>1. CASE SelectMax(a)
    BY <1>5, <2>1 DEF SelectMax, tables, Reloading, Loading
  <2>2. CASE InsertDraft(a)
    <3> DEFINE r == Row(next[a].version, "draft", next[a].text)
    <3>1. r \in Rows
      BY <2>2 DEF InsertDraft, SoleInv, IInv, InsertsRow, Row, Rows
    <3>2. \A i \in DOMAIN rows : rows'[i] = rows[i]
      BY <2>2, <3>1, AppendedRows DEF InsertDraft, SoleInv, IInv, RowsInv
    <3> QED
      BY <2>2, <3>2, OutOfReload DEF InsertDraft, Reloading, Loading
  <2>3. CASE LoadConfig(a)
    <3>1. PICK i \in DOMAIN rows : WithStatus("published") = {i}
      BY DEF SoleInv, IInv, RowsInv, OnePublished
    <3>2. i \in Newest("published")
      BY <1>1, <3>1 DEF Newest, Rows
    <3>3. goto(a, "tariffs") /\ goal' = goal /\ pc[a] = "config"
      BY <2>3, <3>2 DEF LoadConfig
    <3>4. goal[a] = "reload"
      BY <3>3 DEF SoleInv, IInv, GoalIsKnown
    <3> QED
      BY <1>1, <3>3, <3>4, InReload DEF goto, Reloading, Loading
  <2>4. CASE LoadTariffs(a)
    BY <1>1, <1>6, <2>4 DEF LoadTariffs, tables, goto, Loading
  <2>5. CASE LoadPlaceholders(a)
    BY <1>1, <1>6, <2>5 DEF LoadPlaceholders, tables, goto, Loading
  <2>6. CASE LoadTopics(a)
    BY <1>1, <1>6, <2>6 DEF LoadTopics, tables, goto, Loading
  <2>7. CASE LoadAssets(a)
    <3>1. CASE goal[a] = "reload"
      <4>1. pc'[a] = "set" /\ pc[a] = "assets"
        BY <2>7, <3>1 DEF LoadAssets
      <4>2. ~Finish(a)
        BY <1>1, <4>1 DEF Finish, goto
      <4> QED
        BY <1>6, <2>7, <4>1, <4>2 DEF LoadAssets, tables, Loading
    <3> QED
      BY <1>5, <2>7, <3>1 DEF LoadAssets, tables, Reloading
  <2>8. CASE PublishDraft(a)
    <3>1. CASE goto(a, "config") /\ goal' = [goal EXCEPT ![a] = "reload"]
      BY <1>1, <3>1, InReload DEF goto, Reloading
    <3>2. CASE UNCHANGED rows
      BY <1>5, <2>8, <3>2 DEF PublishDraft, Reloading, Loading
    <3> QED
      BY <2>8, <3>1, <3>2 DEF PublishDraft
  <2>9. CASE SetLive(a)
    <3>1. live' = snap[a] /\ rows' = rows /\ pc[a] = "set"
      BY <2>9 DEF SetLive, tables
    <3>2. goal[a] = "reload" /\ SoleCarries(a)
      BY <3>1 DEF SoleInv, IInv, GoalIsKnown
    <3> QED
      BY <3>1, <3>2 DEF SoleCarries, BehindInReload
  <2> QED
    BY <1>7, <2>1, <2>2, <2>3, <2>4, <2>5, <2>6, <2>7, <2>8, <2>9 DEF Step
<1>8. ASSUME NEW a \in Admins, Request(a) PROVE BehindInReload'
  <2>1. CASE Publish(a) \/ (\E t \in Tokens : EditPrice(a, t))
               \/ (\E t \in Topics : EditTopic(a, t)) \/ (\E x \in Assets : EditAsset(a, x))
    BY <1>5, <2>1 DEF Publish, EditPrice, EditTopic, EditAsset, tables, Reloading, Loading
  <2>2. ASSUME NEW b \in Texts, SaveDraft(a, b) PROVE BehindInReload'
    <3>1. \A i \in DOMAIN rows : rows'[i].status = rows[i].status
      BY <1>1, <2>2 DEF SaveDraft, Rows
    <3> QED
      BY <2>2, <3>1, OutOfReload DEF SaveDraft, Reloading, Loading
  <2>3. CASE Rollback(a)
    BY <1>1, <2>3, InReload DEF Rollback, goto, Reloading
  <2> QED
    BY <1>8, <2>1, <2>2, <2>3 DEF Request
<1>9. ASSUME NEW a \in Admins PROVE ~QueryFails(a)
  BY DEF QueryFails, Sole
<1> QED
  BY <1>2, <1>3, <1>4, <1>7, <1>8, <1>9 DEF Next

(* One administrator at a time: as long as no reload is refused, the       *)
(* config that is served is the published one whenever no request is under *)
(* way, wherever the process was killed.  With two administrators reloads  *)
(* that overtake each other break it, although none is refused.            *)
THEOREM SoleServesPublished ==
  ASSUME Sole PROVE Spec /\ ReloadsAreTaken => []LiveServesPublished
<1>1. Init => BehindInReload
  <2> SUFFICES ASSUME Init PROVE BehindInReload
    OBVIOUS
  <2>1. live.row = 1 /\ rows[1].status = "published"
    BY DEF Init, Snapshot, Row
  <2> QED
    BY <2>1 DEF BehindInReload
<1>2. SoleInv /\ BehindInReload /\ [Next]_vars
        /\ [\A a \in Admins : LoadAssets(a) /\ goal[a] = "reload" => pc'[a] = "set"]_vars
        => BehindInReload'
  <2> SUFFICES ASSUME SoleInv, BehindInReload, [Next]_vars,
                      [\A a \in Admins : LoadAssets(a) /\ goal[a] = "reload" => pc'[a] = "set"]_vars
               PROVE  BehindInReload'
    OBVIOUS
  <2>1. CASE UNCHANGED vars
    BY <2>1 DEF BehindInReload, Reloading, vars, tables, local
  <2> QED
    BY <2>1, NextBehind
<1>3. BehindInReload => LiveServesPublished
  BY DEF BehindInReload, LiveServesPublished, Reloading, Loading
<1> QED
  BY <1>1, <1>2, <1>3, InvariantSole, PTL DEF Spec, ReloadsAreTaken

----------------------------------------------------------------------------
(* While nobody edits the knowledge base, every snapshot that is loaded    *)
(* has the same one, whoever loads it when.                                *)
BaseCarries(a) ==
  /\ pc[a] = "placeholders" => snap[a].prices = prices \cap Tariffs
  /\ pc[a] \in {"topics", "assets", "set"} => snap[a].prices = prices
  /\ pc[a] \in {"assets", "set"} => snap[a].topics = topics
  /\ pc[a] = "set" => snap[a].dead = dead
LiveHasBase == live.prices = prices /\ live.topics = topics /\ live.dead = dead
BaseInv == IInv /\ LiveHasBase /\ \A a \in Admins : BaseCarries(a)

LEMMA BaseStep ==
  ASSUME "db" \notin Faults, BaseInv, NEW a \in Admins, Step(a) \/ Request(a) \/ QueryFails(a),
         UNCHANGED <<prices, topics, dead>>
  PROVE  BaseCarries(a)'
<1>1. /\ pc \in [Admins -> Stages] /\ snap[a] \in Snapshots /\ prices \subseteq Tokens
      /\ snap \in [Admins -> Snapshots] /\ BaseCarries(a)
  BY DEF BaseInv, IInv, TypeOK
<1>2. ASSUME pc'[a] \in {"idle", "max", "insert", "config", "tariffs", "promote"}
      PROVE  BaseCarries(a)'
  BY <1>2 DEF BaseCarries
<1>3. CASE LoadTariffs(a)
  <2>1. pc'[a] = "placeholders" /\ snap'[a] = [snap[a] EXCEPT !.prices = prices \cap Tariffs]
    BY <1>1, <1>3 DEF LoadTariffs, PartsRead, goto
  <2> QED
    BY <1>1, <2>1 DEF BaseCarries, Snapshots
<1>4. CASE LoadPlaceholders(a)
  <2>1. /\ pc[a] = "placeholders" /\ pc'[a] = "topics"
        /\ snap'[a] = [snap[a] EXCEPT !.prices = @ \cup (prices \cap Placeholders)]
    BY <1>1, <1>4 DEF LoadPlaceholders, PartsRead, goto
  <2>2. snap'[a].prices = (prices \cap Tariffs) \cup (prices \cap Placeholders)
    BY <1>1, <2>1 DEF BaseCarries, Snapshots
  <2> QED
    BY <1>1, <2>1, <2>2 DEF BaseCarries, Tokens
<1>5. CASE LoadTopics(a)
  <2>1. /\ pc[a] = "topics" /\ pc'[a] = "assets"
        /\ snap'[a] = [snap[a] EXCEPT !.topics = topics]
    BY <1>1, <1>5 DEF LoadTopics, goto
  <2> QED
    BY <1>1, <2>1 DEF BaseCarries, Snapshots
<1>6. CASE LoadAssets(a)
  <2>1. CASE Finish(a)
    BY <1>1, <1>2, <2>1 DEF Finish, goto
  <2>2. CASE /\ snap' = [snap EXCEPT ![a] = [snap[a] EXCEPT !.dead = dead]]
             /\ goto(a, IF goal[a] = "publish" THEN "promote" ELSE "set")
    <3>1. /\ pc[a] = "assets" /\ pc'[a] \in {"promote", "set"}
          /\ snap'[a] = [snap[a] EXCEPT !.dead = dead]
      BY <1>1, <1>6, <2>2 DEF LoadAssets, goto
    <3> QED
      BY <1>1, <3>1 DEF BaseCarries, Snapshots
  <2> QED
    BY <1>6, <2>1, <2>2 DEF LoadAssets
<1>7. CASE SelectMax(a) \/ InsertDraft(a) \/ LoadConfig(a) \/ PublishDraft(a) \/ SetLive(a)
             \/ QueryFails(a)
  BY <1>1, <1>2, <1>7 DEF SelectMax, InsertDraft, LoadConfig, PublishDraft, SetLive,
                          QueryFails, Finish, goto
<1>8. CASE Request(a)
  <2>1. ASSUME NEW b \in Texts, SaveDraft(a, b) PROVE BaseCarries(a)'
    BY <1>1, <1>2, <2>1 DEF SaveDraft, goto, local
  <2> QED
    BY <1>1, <1>2, <1>8, <2>1
       DEF Request, Publish, Rollback, EditPrice, EditTopic, EditAsset, goto, local
<1> QED
  BY <1>3, <1>4, <1>5, <1>6, <1>7, <1>8 DEF Step

(* A request changes its own locals only.                                  *)
LEMMA BaseOthers ==
  ASSUME BaseInv, NEW a \in Admins, NEW b \in Admins, a # b,
         Step(a) \/ Request(a) \/ QueryFails(a), UNCHANGED <<prices, topics, dead>>
  PROVE  BaseCarries(b)'
<1>1. pc \in [Admins -> Stages] /\ snap \in [Admins -> Snapshots]
  BY DEF BaseInv, IInv, TypeOK
<1>2. pc'[b] = pc[b] /\ snap'[b] = snap[b]
  BY <1>1 DEF Step, Request, QueryFails, Publish, LoadConfig, LoadTariffs, Rollback,
              LoadPlaceholders, LoadTopics, LoadAssets, SelectMax, InsertDraft, PublishDraft,
              SetLive, SaveDraft, EditPrice, EditTopic, EditAsset, Finish, goto, local
<1> QED
  BY <1>2 DEF BaseInv, BaseCarries

LEMMA NextBase ==
  "db" \notin Faults =>
    (BaseInv /\ [Next]_vars /\ [UNCHANGED <<prices, topics, dead>>]_vars => BaseInv')
<1> SUFFICES ASSUME "db" \notin Faults, BaseInv, [Next]_vars, UNCHANGED <<prices, topics, dead>> PROVE BaseInv'
  BY DEF vars, tables
<1>1. IInv'
  BY NextIInv DEF BaseInv
<1>2. CASE UNCHANGED vars
  BY <1>1, <1>2 DEF BaseInv, BaseCarries, LiveHasBase, vars, local
<1>3. CASE Crash
  BY <1>1, <1>3 DEF Crash, BaseInv, BaseCarries, LiveHasBase
<1>4. CASE Boot
  <2>1. LiveHasBase'
    BY <1>4, AllIsRead DEF Boot, Snapshot, LiveHasBase
  <2> QED
    BY <1>1, <1>4, <2>1 DEF Boot, BaseInv, BaseCarries, local
<1>5. ASSUME NEW a \in Admins, Step(a) \/ Request(a) \/ QueryFails(a) PROVE BaseInv'
  <2>1. \A b \in Admins : BaseCarries(b)'
    BY <1>5, BaseStep, BaseOthers
  <2>2. CASE live' = live
    BY <1>1, <2>1, <2>2 DEF BaseInv, LiveHasBase
  <2>3. CASE SetLive(a)
    BY <1>1, <2>1, <2>3 DEF SetLive, BaseInv, BaseCarries, LiveHasBase
  <2> QED
    BY <1>5, <2>2, <2>3
    DEF Step, Request, QueryFails, Publish, LoadConfig, LoadTariffs, Rollback,
        LoadPlaceholders, LoadTopics, LoadAssets, SelectMax, InsertDraft, PublishDraft,
        SaveDraft, EditPrice, EditTopic, EditAsset
<1> QED
  BY <1>2, <1>3, <1>4, <1>5 DEF Next

(* A restart brings in edits of prices, topics and assets only: while      *)
(* nobody makes any and no query fails, and whatever else administrators   *)
(* and crashes do to drafts, the same published config is served with the  *)
(* same content before and after it.                                       *)
THEOREM OnlyKnowledgeLeaks ==
  ASSUME "db" \notin Faults PROVE Spec /\ KnowledgeIsLeft => EditsWaitForPublish
<1>1. Init => BaseInv
  <2> SUFFICES ASSUME Init PROVE BaseInv
    OBVIOUS
  <2> QED
    BY InitIInv DEF Init, Snapshot, BaseInv, BaseCarries, LiveHasBase
<1>2. ASSUME BaseInv, [Next]_vars, ~up, up', live'.row = live.row PROVE live' = live
  <2>1. Boot
    BY <1>2 DEF Next, Step, Request, QueryFails, Crash, Publish, LoadConfig, LoadTariffs,
        Rollback, LoadPlaceholders, LoadTopics, LoadAssets, SelectMax, InsertDraft,
        PublishDraft, SetLive, SaveDraft, EditPrice, EditTopic, EditAsset, vars, local
  <2>2. PICK i \in Nat : live' = Snapshot(i, prices, topics, dead)
    BY <2>1, <1>2, AllIsRead DEF Boot, Newest, WithStatus, BaseInv, IInv, RowsInv
  <2>3. live \in Snapshots /\ live' = Snapshot(live.row, live.prices, live.topics, live.dead)
    BY <1>2, <2>2 DEF BaseInv, LiveHasBase, IInv, TypeOK, Snapshot
  <2> QED
    BY <2>3 DEF Snapshot, Snapshots
<1>3. BaseInv /\ [Next]_vars => [~up /\ up' /\ live'.row = live.row => live' = live]_vars
  BY <1>2
<1> QED
  BY <1>1, <1>3, NextBase, PTL DEF Spec, KnowledgeIsLeft, EditsWaitForPublish

----------------------------------------------------------------------------
(* The refinement of Publication: what is live, or on its way to go live,  *)
(* was published, and a request is under way only while the process runs.  *)
EverCarries(a) ==
  /\ pc[a] # "idle" => up
  /\ pc[a] \in Loading \cup {"set"} /\ goal[a] = "reload" => snap[a].row \in ever

EverInv == IInv /\ live.row \in ever /\ \A a \in Admins : EverCarries(a)

(* What a request of its own brings to its snapshot was published.         *)
LEMMA EverStep ==
  ASSUME EverInv, ever \subseteq ever', NEW a \in Admins, Step(a) \/ Request(a) \/ QueryFails(a)
  PROVE  EverCarries(a)'
<1>1. /\ pc \in [Admins -> Stages] /\ snap[a] \in Snapshots
      /\ goal \in [Admins -> {None, "publish", "reload"}]
      /\ snap \in [Admins -> Snapshots] /\ EverCarries(a)
  BY DEF EverInv, IInv, TypeOK
<1>2. ASSUME up', pc'[a] \in {"max", "insert", "config", "promote"} PROVE EverCarries(a)'
  BY <1>2 DEF EverCarries, Loading
<1>3. ASSUME Finish(a) PROVE EverCarries(a)'
  BY <1>1, <1>3 DEF Finish, goto, EverCarries, Loading
<1>4. ASSUME pc[a] \in Loading, UNCHANGED <<up, goal>>, pc'[a] \in Loading \cup {"set"},
             snap'[a].row = snap[a].row
      PROVE  EverCarries(a)'
  BY <1>1, <1>4 DEF EverCarries, Loading
<1>5. CASE LoadConfig(a)
  <2>1. ASSUME NEW i \in Newest("published"), snap' = [snap EXCEPT ![a].row = i] PROVE EverCarries(a)'
    <3>1. i \in ever /\ snap'[a].row = i
      BY <1>1, <2>1 DEF Newest, EverInv, IInv, EverRows, Snapshots
    <3> QED
      BY <1>1, <1>5, <3>1 DEF LoadConfig, EverCarries
  <2> QED
    BY <1>3, <1>5, <2>1 DEF LoadConfig
<1>6. CASE LoadTariffs(a)
  <2>1. PICK read \in PartsRead(prices \cap Tariffs) : snap'[a] = [snap[a] EXCEPT !.prices = read]
    BY <1>1, <1>6 DEF LoadTariffs
  <2> QED
    BY <1>1, <1>4, <1>6, <2>1 DEF LoadTariffs, goto, Snapshots, Loading
<1>7. CASE LoadPlaceholders(a)
  <2>1. PICK read \in PartsRead(prices \cap Placeholders) :
          snap'[a] = [snap[a] EXCEPT !.prices = @ \cup read]
    BY <1>1, <1>7 DEF LoadPlaceholders
  <2> QED
    BY <1>1, <1>4, <1>7, <2>1 DEF LoadPlaceholders, goto, Snapshots, Loading
<1>8. CASE LoadTopics(a)
  <2>1. snap'[a] = [snap[a] EXCEPT !.topics = topics]
    BY <1>1, <1>8 DEF LoadTopics
  <2> QED
    BY <1>1, <1>4, <1>8, <2>1 DEF LoadTopics, goto, Snapshots, Loading
<1>9. CASE LoadAssets(a)
  <2>1. CASE /\ snap' = [snap EXCEPT ![a] = [snap[a] EXCEPT !.dead = dead]]
             /\ goto(a, IF goal[a] = "publish" THEN "promote" ELSE "set")
             /\ UNCHANGED goal
    <3>1. snap'[a] = [snap[a] EXCEPT !.dead = dead] /\ pc[a] = "assets" /\ up' = up
      BY <1>1, <1>9, <2>1 DEF LoadAssets
    <3>2. snap'[a].row = snap[a].row
      BY <1>1, <3>1 DEF Snapshots
    <3>3. pc'[a] \in {"promote", "set"}
      BY <1>1, <2>1 DEF goto
    <3> QED
      BY <1>1, <1>2, <1>4, <2>1, <3>1, <3>2, <3>3 DEF EverCarries, Loading
  <2> QED
    BY <1>3, <1>9, <2>1 DEF LoadAssets
<1>10. CASE SelectMax(a) \/ InsertDraft(a) \/ PublishDraft(a) \/ SetLive(a) \/ QueryFails(a)
  BY <1>1, <1>2, <1>3, <1>10
     DEF SelectMax, InsertDraft, PublishDraft, SetLive, QueryFails, goto, EverCarries
<1>11. CASE Publish(a)
  BY <1>1, <1>11 DEF Publish, goto, EverCarries
<1>12. ASSUME UNCHANGED <<up, local>> PROVE EverCarries(a)'
  BY <1>1, <1>12 DEF EverCarries, local
<1>13. ASSUME NEW b \in Texts, SaveDraft(a, b) PROVE EverCarries(a)'
  BY <1>1, <1>2, <1>12, <1>13 DEF SaveDraft, goto
<1>14. CASE Rollback(a)
  BY <1>1, <1>2, <1>14 DEF Rollback, goto
<1> QED
  BY <1>5, <1>6, <1>7, <1>8, <1>9, <1>10, <1>11, <1>12, <1>13, <1>14
     DEF Step, Request, EditPrice, EditTopic, EditAsset

LEMMA EverOthers ==
  ASSUME EverInv, ever \subseteq ever', NEW a \in Admins, NEW b \in Admins, a # b,
         Step(a) \/ Request(a) \/ QueryFails(a)
  PROVE  EverCarries(b)'
<1>1. /\ pc \in [Admins -> Stages] /\ snap \in [Admins -> Snapshots]
      /\ goal \in [Admins -> {None, "publish", "reload"}]
  BY DEF EverInv, IInv, TypeOK
<1>2. pc'[b] = pc[b] /\ snap'[b] = snap[b] /\ goal'[b] = goal[b] /\ up' = up
  BY <1>1 DEF Step, Request, QueryFails, Publish, LoadConfig, LoadTariffs, Rollback,
              LoadPlaceholders, LoadTopics, LoadAssets, SelectMax, InsertDraft, PublishDraft,
              SetLive, SaveDraft, EditPrice, EditTopic, EditAsset, Finish, goto, local
<1> QED
  BY <1>2 DEF EverInv, EverCarries

(* Only content.Set and a boot change what is live, only a crash and a     *)
(* boot whether the process runs, and only requests write the tables.      *)
LEMMA StepKinds ==
  ASSUME EverInv, Next
  PROVE  \/ Crash \/ Boot
         \/ up /\ \E a \in Admins : SetLive(a)
         \/ UNCHANGED <<live, up>> /\ (rows' = rows \/ up)
<1>1. \A a \in Admins : pc[a] # "idle" => up
  BY DEF EverInv, EverCarries
<1>2. ASSUME NEW a \in Admins, Step(a), ~SetLive(a) PROVE UNCHANGED <<live, up>> /\ (rows' = rows \/ up)
  BY <1>1, <1>2 DEF Step, LoadConfig, LoadTariffs, LoadPlaceholders, LoadTopics, LoadAssets,
                    SelectMax, InsertDraft, PublishDraft, tables
<1>3. ASSUME NEW a \in Admins, Request(a) \/ QueryFails(a)
      PROVE  UNCHANGED <<live, up>> /\ (rows' = rows \/ up)
  BY <1>1, <1>3 DEF Request, QueryFails, Publish, Rollback, SaveDraft, EditPrice, EditTopic,
                    EditAsset, tables
<1>4. ASSUME NEW a \in Admins, SetLive(a) PROVE up
  BY <1>1, <1>4 DEF SetLive
<1> QED
  BY <1>2, <1>3, <1>4 DEF Next

LEMMA NextEver == EverInv /\ [Next]_vars => EverInv'
<1> SUFFICES ASSUME EverInv, [Next]_vars PROVE EverInv'
  OBVIOUS
<1>1. CASE UNCHANGED vars
  <2>1. IInv'
    BY <1>1, NextIInv DEF EverInv
  <2> QED
    BY <1>1, <2>1 DEF EverInv, IInv, EverRows, EverCarries, WithStatus, vars, tables, local
<1>2. CASE Next
  <2>1. Next /\ Recorded
    BY <1>2, NextRecords DEF EverInv, IInv
  <2>2. IInv' /\ RowsInv' /\ KeepsHistory
    BY <2>1, NextIInv, StepRows DEF EverInv
  <2>3. EverRows' /\ ever \subseteq ever'
    BY <2>1, <2>2, NextEverRows DEF EverInv
  <2>4. \A a \in Admins : EverCarries(a)'
    <3>1. ASSUME NEW a \in Admins, Step(a) \/ Request(a) \/ QueryFails(a), NEW b \in Admins
          PROVE  EverCarries(b)'
      BY <2>3, <3>1, EverStep, EverOthers
    <3>2. ASSUME Crash, NEW b \in Admins PROVE EverCarries(b)'
      BY <3>2 DEF Crash, EverCarries, Loading
    <3>3. ASSUME Boot, NEW b \in Admins PROVE EverCarries(b)'
      BY <2>3, <3>3 DEF Boot, EverInv, EverCarries, local
    <3> QED
      BY <2>1, <3>1, <3>2, <3>3 DEF Next
  <2>5. live'.row \in ever'
    <3>1. CASE live' = live
      BY <2>3, <3>1 DEF EverInv
    <3>2. ASSUME NEW a \in Admins, SetLive(a) PROVE live'.row \in ever'
      <4>1. pc[a] = "set" /\ live' = snap[a]
        BY <3>2 DEF SetLive
      <4>2. goal[a] = "reload"
        BY <4>1 DEF EverInv, IInv, GoalIsKnown
      <4> QED
        BY <2>3, <4>1, <4>2 DEF EverInv, EverCarries
    <3>3. CASE Boot
      <4>1. PICK i \in Newest("published"), read \in PartsRead(prices) :
              live' = Snapshot(i, read, topics, dead)
        BY <3>3 DEF Boot
      <4>2. live'.row = i /\ i \in ever
        BY <4>1 DEF Snapshot, Newest, EverInv, IInv, EverRows
      <4> QED
        BY <2>3, <4>2
    <3> QED
      BY <2>1, <3>1, <3>2, <3>3, StepKinds DEF Crash
  <2> QED
    BY <2>2, <2>3, <2>4, <2>5 DEF EverInv
<1> QED
  BY <1>1, <1>2

LEMMA CurrentIs ==
  ASSUME OnePublished PROVE WithStatus("published") = {Current} /\ Current \in DOMAIN rows
  BY DEF OnePublished, WithStatus, Current

(* Another config is published only if it never was before.                *)
LEMMA CurrentMoves ==
  ASSUME EverInv, RowsInv', KeepsHistory, Recorded
  PROVE  \/ Current' = Current /\ ever' = ever
         \/ Current' \in Nat \ ever /\ ever' = ever \cup {Current'}
<1>1. /\ WithStatus("published") = {Current} /\ Current \in DOMAIN rows
      /\ ever \subseteq DOMAIN rows /\ Current \in ever
  BY CurrentIs DEF EverInv, IInv, RowsInv, EverRows
<1>2. /\ WithStatus("published")' = {Current'} /\ Current' \in DOMAIN rows'
      /\ rows'[Current'].status = "published" /\ Current' \in Nat
  <2>1. WithStatus("published")' = {Current'} /\ Current' \in DOMAIN rows'
    BY CurrentIs DEF RowsInv, OnePublished, WithStatus, Current
  <2> QED
    BY <2>1 DEF WithStatus, RowsInv
<1>3. ASSUME Current' # Current, Current' \in ever PROVE FALSE
  <2>1. rows[Current'].status \in {"published", "archived"}
    BY <1>1, <1>3, StatusIsKnown DEF EverInv, IInv, EverRows
  <2>2. rows[Current'].status # "published"
    BY <1>1, <1>3 DEF WithStatus
  <2> QED
    BY <1>1, <1>2, <1>3, <2>1, <2>2 DEF KeepsHistory
<1> QED
  BY <1>1, <1>2, <1>3 DEF Recorded

LEMMA PublicationStep ==
  EverInv /\ [Next]_vars => [Abstract!Next]_(Abstract!vars)
<1> SUFFICES ASSUME EverInv, [Next]_vars
             PROVE  Abstract!Next \/ UNCHANGED <<Current, ever, live.row, up>>
  BY DEF Abstract!vars
<1>1. CASE UNCHANGED vars
  BY <1>1 DEF vars, tables, Current
<1>2. CASE Next
  <2>1. Next /\ Recorded
    BY <1>2, NextRecords DEF EverInv, IInv
  <2>2. RowsInv' /\ KeepsHistory
    BY <2>1, StepRows DEF EverInv
  <2>3. \/ Current' = Current /\ ever' = ever
        \/ Current' \in Nat \ ever /\ ever' = ever \cup {Current'}
    BY <2>1, <2>2, CurrentMoves
  <2>4. ASSUME rows' = rows PROVE Current' = Current /\ ever' = ever
    <3>1. Current' = Current /\ WithStatus("published")' = WithStatus("published")
      BY <2>4 DEF Current, WithStatus
    <3> QED
      BY <2>1, <3>1 DEF EverInv, IInv, EverRows, Recorded
  <2>5. CASE Crash
    <3>1. rows' = rows /\ up /\ ~up' /\ live' = live /\ up' = FALSE
      BY <2>5 DEF Crash, tables
    <3> QED
      BY <2>4, <3>1 DEF Abstract!Next, Abstract!Stop
  <2>6. CASE Boot
    <3>1. rows' = rows /\ ~up /\ up' = TRUE
      BY <2>6 DEF Boot, tables
    <3>2. PICK i \in Newest("published"), read \in PartsRead(prices) :
            live' = Snapshot(i, read, topics, dead)
      BY <2>6 DEF Boot
    <3>3. live'.row = Current
      BY <3>2, CurrentIs DEF Newest, Snapshot, EverInv, IInv, RowsInv
    <3> QED
      BY <2>4, <3>1, <3>3 DEF Abstract!Next, Abstract!Restart
  <2>7. ASSUME up, NEW a \in Admins, SetLive(a) PROVE Abstract!Next
    <3>1. rows' = rows /\ up' = up
      BY <2>7 DEF SetLive, tables
    <3>2. live'.row \in ever
      BY <1>2, <2>4, <3>1, NextEver DEF EverInv
    <3> QED
      BY <2>4, <2>7, <3>1, <3>2 DEF Abstract!Next, Abstract!Install
  <2>8. CASE UNCHANGED <<live, up>> /\ (rows' = rows \/ up)
    BY <2>3, <2>4, <2>8 DEF Abstract!Next, Abstract!Announce
  <2> QED
    BY <2>1, <2>5, <2>6, <2>7, <2>8, StepKinds
<1> QED
  BY <1>1, <1>2

(* The tables, the live snapshot and the requests of any administrators    *)
(* implement Publication, whatever fails and wherever the process is       *)
(* killed: each config is published once, the brain works from one that    *)
(* was published, and a restart brings the published one.                  *)
THEOREM ContentPublishes == Spec => ImplementsPublication
<1>1. Init => EverInv /\ Abstract!Init
  <2> SUFFICES ASSUME Init PROVE EverInv /\ Abstract!Init
    OBVIOUS
  <2>1. IInv
    BY InitIInv
  <2>2. /\ WithStatus("published") = {Current} /\ Current \in DOMAIN rows
        /\ ever = WithStatus("published")
    BY <2>1, CurrentIs DEF IInv, RowsInv, Init
  <2>3. DOMAIN rows = {1} /\ live.row = 1 /\ up = TRUE
    BY DEF Init, Row, Snapshot
  <2>4. \A a \in Admins : EverCarries(a)
    BY DEF Init, EverCarries, Loading
  <2> QED
    BY <2>1, <2>2, <2>3, <2>4 DEF EverInv, Abstract!Init
<1> QED
  BY <1>1, NextEver, PublicationStep, PTL DEF Spec, ImplementsPublication, Abstract!Spec
=============================================================================
