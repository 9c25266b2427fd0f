# xpayment-crm in TLA+

This directory holds a formal model of xpayment-crm: a Go service that sits
between Chatwoot (the agents' inbox), Evolution (the WhatsApp gateway) and an
LLM, drafts answers to customers as private notes, and lets administrators edit
what it knows. The modules are translated from the source under `src/`; TLC
checks them on small instances and TLAPS proves the most important results for
every instance.

Contents: [1 the system](#1-the-system) · [2 the modules](#2-the-modules) ·
[3 the runs](#3-the-runs) · [4 fairness](#4-fairness) ·
[5 what is proved](#5-what-is-proved) · [6 what is only
model-checked](#6-what-is-only-model-checked) · [7 where code and documents
disagree](#7-where-code-and-documents-disagree) · [8 not
modelled](#8-not-modelled) · [9 plan](#9-plan) · [10 running](#10-running)

## 1 The system

### Components, their state and operations

| Component | Source | State | Operations |
|---|---|---|---|
| Per-contact lock | `internal/ports/http/keyedmutex.go` | a map contact id → `*sync.Mutex`, behind a mutex | `Lock`, the returned unlock |
| Webhook receiver | `internal/ports/http/webhook.go` | table `processed_messages`; the lock | `ServeHTTP`, `process`, `write` |
| Inbox gate | `webhook.go`, `sqlite/whatsapp_store.go` | reads `managed_whatsapp_instances`, falls back to `CHATWOOT_INBOX_ID(S)` | `AllowsInbox` |
| Assistant brain | `internal/usecase/assistant` | none of its own; reads the live snapshot | `HandleMessage`, `postProcess` |
| Chatwoot client | `internal/infrastructure/chatwoot` | configuration behind a mutex; contact attributes, labels, notes, inboxes and webhooks live in Chatwoot | reads; `PostPrivateNote`, `MergeContactAttributes`, `SetLabels`; `ListInboxes`, `UpdateInboxWebhook`, account webhooks |
| LLM client | `internal/infrastructure/llm` | none | one request, one parsed tool call (`ParseRawDraft`) |
| Content lifecycle | `internal/usecase/admin`, `sqlite/admin_store.go`, `sqlite/snapshot.go`, `internal/domain` | tables `assistant_config`, `tariffs`, `placeholders`, topics, assets; the live `domain.Content` | save draft, publish, roll back, edit prices / topics / assets, reload |
| Settings | `internal/usecase/settings`, `sqlite/settings_store.go` | table `app_settings`; what the three clients hold | save, apply, overlay at boot |
| WhatsApp bridge | `internal/usecase/whatsapp`, `internal/infrastructure/evolution` | `managed_whatsapp_instances`; integrations and webhooks in Evolution and Chatwoot | `Attach`, `Detach`, `FixWebhooks`, the audit page |
| Boot | `cmd/main.go` | | migrate, load and validate the snapshot, overlay the settings |
| Migrator | `sqlite/store.go`, `migrations/` | table `schema_migrations` | check, execute, record |
| Drafting functions | `internal/domain`, `assistant/brain.go`, `webhook.go` | none | `Render`, `ResolveAssets`, `cleanProfilePatch`, `postProcess`, `renderNote` |
| Admin authentication and pages, media, configuration | `ports/http/admin`, `ports/http/router.go`, `infrastructure/config` | signed cookies, files, environment | |

### How they interact

Chatwoot calls the webhook once per event, again when it got no answer in time,
and each call is a goroutine. The receiver asks the gate, inserts the message id
into `processed_messages`, takes the contact's mutex and calls the brain, which
reads the conversation and the contact through the Chatwoot client, the
knowledge through `domain.Content` (an atomic pointer), and the LLM. The draft
comes back as a private note; a reply also patches the contact's attributes and
adds a label, each by a GET followed by a write of the whole. The admin pages
change the tables. A publish or rollback reloads the snapshot into
`domain.Content`; a save of the settings reconfigures the clients in memory;
Attach, Detach and FixWebhooks change three systems and then the table the gate
reads. Everything in memory is rebuilt by the boot from SQLite and the
environment. SQLite's pool has one connection, so that statements, and
transactions as a whole, never overlap, but nothing orders the statements of two
requests.

### What is hard, and what would make it correct

* **Lock.** Two first messages of a contact look up and insert at the same time.
  Correct: one mutex per contact for ever, exclusive, starving nobody.
* **Receiver.** Redeliveries race their originals; contexts end while a handler
  waits for a mutex that ignores them; writes outlive their callers; the process
  dies between the insert and the note. Correct: a customer message is taken up
  once, gets at most one note, and — as far as the code says so — at least one;
  messages of a contact do not undo each other's patches and labels.
* **Drafts.** The LLM may answer with any object: fields that are missing or
  contradict each other, invented tokens and files, a patch that nulls what is
  known. Correct: no note offers a half-rendered price; an answer that asks for a
  human changes nothing but the notes; a patch never takes a known value away
  (which the code does not keep, section 7).
* **Start.** Migrations are texts of several statements without a transaction,
  recorded by a statement after them, and the process may end between any two.
  Correct: the record is true; nothing is served on half a schema; nobody's edits
  are seeded over; the next start makes good what the last left half done. A start
  is also refused, every time, while what is published does not validate.
* **Content.** A publish validates, promotes and reloads in ten statements, each
  of which may see another state of the tables; anything may be edited in
  between; the process may die in between and boot from what it finds. Correct:
  the brain only ever has valid, once published content; one config is published
  at any moment; history is kept; the brain serves what is published.
* **Settings.** A save commits, then reconfigures three clients one by one.
  Correct: the clients use what is committed, agree with each other and with
  the next boot, and a secret left blank is kept.
* **Bridge.** An Attach makes four remote changes before it records anything,
  each of which may fail, lose its answer or come late; a save of the settings
  may point the clients at another account, where recorded ids mean nothing. Correct: an Attach that ends well
  leaves the bridge complete whatever happened before; the AI is turned on only
  behind complete webhooks; a Detach that ends well silences the brain; no
  instance is recorded with another's inbox.

`PROJECT.json` lists each hazard at its line with the properties that would
catch it.

## 2 The modules

| Module | What it models |
|---|---|
| `ContactLock` | abstract: who wants, who has a contact |
| `KeyedMutex` | `keyedMutex.Lock` and unlock, one action per statement; refines `ContactLock` |
| `DraftOnce` | abstract: a message is taken up once and has at most one note |
| `Drafting` | what becomes of the LLM's answer: parsing, post-processing, rendering, the note |
| `Webhook` | receiver, brain and the three Chatwoot writes, with the drafts of `Drafting`; refines `DraftOnce` |
| `LockedWebhook` | the receiver with the statements of `KeyedMutex` for its lock; refines `Webhook` |
| `Publication` | abstract: configs are announced one by one, one of them is served |
| `Content` | admin service, its tables, live snapshot, boot; refines `Publication` |
| `Settings` | the settings page's save, the service, the clients, boot |
| `Startup` | the start of the process: migrator, snapshot, overlay; then the requests of `Settings`, which it refines |
| `Bridge` | Attach, Detach, FixWebhooks against Evolution, Chatwoot and the managed rows, with the gate |
| `*MC` | instances for TLC |
| `*Proofs` | theorems and their proofs |

In all of them a *process* is the goroutine of one HTTP request, `pc` says
which statement it is about to execute, and one action is the code between two
points where others can interfere: one SQL statement or transaction, one remote
call, one operation on a mutex or atomic pointer. Faults are members of a
constant `Faults`, so that each run says which of them may happen; the name and
meaning of each stand at the top of its module. Definitions that start with
"Mutant:" in their comment are plausible bugs; no specification uses them, they
show that each property can be broken by a change of the code.

**KeyedMutex** (`keyedmutex.go:15-25`). `LockMap`, `Lookup`, `Insert`,
`UnlockMap`, `Acquire`, `Unlock` are the statements of `Lock`. A mutex object is
named by the contact it was made for and the goroutine that allocated it;
because entries are never removed, that name is unique.

**Webhook.** `Gate` is `ServeHTTP` up to `process` (event, type, private flag,
inbox); `Mark` the insert into `processed_messages`, one atomic statement; `Acquire` the
wait for the contact's mutex; `Read` and `Draft` are `HandleMessage`, whose
result is what `Drafting` makes of one of the `Answers`; `PostNote`, `Merge`,
`SetLabels` send, and `AfterNote`, `AfterMerge`, `AfterLabels` go on once the
answer is there or is no longer waited for; `Unlock` is the deferred unlock. A
write is in `sent` until `Apply` or `Refuse`, so that it can arrive when its
caller is gone. What a PUT carries was read when it left: the window of the
read-modify-write is its time in flight. The value of an attribute is the
message that wrote it, which is all the properties need to tell apart; a patch
says of each attribute it names whether it sets it, nulls it or blanks it.

**LockedWebhook.** `Webhook` takes a contact's mutex in one step. Here the same
handlers go through the statements of `keyedMutex.Lock`, which are the actions of
`KeyedMutex` (`Mutex`, an INSTANCE): `TakeTurn` is what happens before the mutex is
there, `Enter` its acquisition, `Leave` the deferred unlock, which gives back the
object `Lock` returned, and `Restart` starts with an empty map. `lock`, by which
`Webhook` decides who may go on, is written but read by no guard.

**Drafting.** Operators only, one per function. An answer is a record with any
of the fields of `RawDraft`, because `json.Unmarshal` asks for none: `Parse`
gives the others their zero value. A text is a sequence of pieces: tokens
(`[ns |-> "price", key |-> "growth"]`), phrases, and `Brace`, which stands for every
text with a `{{` that is no token. `Render` replaces tokens by values of the price
book and fails on an unknown token or a `{{` that is left; `ResolveAssets` is the
set of the files that are kept, with their places; `PostProcess` is the pipeline
with its escalate gate; `RenderNote` what the agent reads.

**Content.** `rows` is `assistant_config` by id. `SaveDraft`, `SelectMax`,
`InsertDraft` are the three statements of `SaveDraftConfig`; `Publish`,
`LoadTariffs` … `LoadAssets` (which ends with `ValidateSnapshot`),
`PublishDraft`, `LoadConfig`, again the loads, and `SetLive` are those of a
publish; `Rollback` is one transaction and then the reload. Topics, assets and
prices are kept as far as `ValidateSnapshot` looks at them. `priceBook` never asks
whether its iterations came to their end, so that what it reads may be any part of
its tables (`PartsRead`). `Crash` and `Boot` are the end and the start of the process. Which row was ever published cannot be
read off the table, because a rollback archives the drafts as well: `ever` is a
history variable for it, which only the refinement of `Publication` looks at.

**Settings.** `Submit` is the form; `KeepSecrets` replaces blank secrets by
`Current()`; `Save` is normalisation and the transaction; `Configure` is one of
the three calls of `ApplyBridge`, each atomic; `Boot` the overlay. `Trim` is the
normalisation, a constant function from what may be typed to what is stored. The
environment's values are as they are (`Raw`): `config.Load` trims none of them but
for a slash at the end of some, so that the first save of a form that shows them
stores them trimmed.

**Startup.** `Start`, `Check`, `Exec`, `Record` are the steps of `migrate`, `Exec` one
statement of a file (`modernc.org/sqlite` commits each on its own, as the file
has no `BEGIN`); `LoadContent` is the snapshot, of which one bit is kept, `sound`:
what is published validates, or nothing is published. While it does not, every
start ends there. It can be lost by an edit of prices, topics or assets or by a
rollback, which nobody validates (`EditContent`), and by a file that writes content
(`Seeds`: 0003 deletes a tariff that a topic may name), and an older release may have
left it so. `LoadSettings` is `Boot` of `Settings` and the listening server; `Serve`
the steps of `Settings`; `Refuse` an error that ends `run`, `Kill` the end of the
process at any point. `OneShot` are the statements that do not bear repetition:
of the five files only 0003 has one, its `ALTER TABLE`. `StartupInit` ranges over
the databases this release may meet: new, left by a release with fewer files,
or older than the ledger, with every table and no record.

**Bridge.** Each action is one call of `Attach`, `Detach` or `FixWebhooks`, with
its error path (`Call`: it succeeds, fails, or takes effect while its answer is
lost). A call that its client gave up after 30 s may still take effect when the
request is over and others have come and gone (`LateCall`). Settings are a single
value `conf`, so that a webhook built from old ones is visible. What is modelled of
Chatwoot and Evolution is the account and the server that the settings point to.
`SetConfig` is `ApplyBridge`: the new settings may stay with the account or leave it
(`OtherAccount`, `OtherServer`) for one that holds any of `Accounts`, respectively
`Servers`; the rows then keep ids of the old account, which the history field `here`
tells apart. Ids are read in the account of now, so that a stale one names nobody's
inbox or a stranger's. Names are not unique (`MakeInbox`), and `findInbox` may return
any inbox of the name. `EvolutionMakesInbox` is Evolution's `autoCreate`, external,
as the code's polling expects it; `DeleteInbox` and `DeleteHooks` are what people do in
Chatwoot. `Status` is `evaluate`. `done` is a history variable: the request on an
instance that ended last, and well, with nothing since.

**How the modules compose.** The refinements of the receiver are stacked:
`LockedWebhook`, which has `KeyedMutex` inside, implements `Webhook`, and `Webhook`
implements `DraftOnce`; on its own `KeyedMutex` implements `ContactLock`. `Content`
implements `Publication`. `Webhook` sees the lifecycle as one bit, whether there is a snapshot (`live`), and the bridge as a
set of enabled inboxes of which one may go and one may come at any time
(`SwitchInbox`): that `Bridge` does no more to the rows is its theorem
`GateMovesByOne`. `Bridge` sees `Settings` as an atomic change
of `conf`, account and server, and `Startup` sees `Content` as the bit `sound`. Each
is modelled in full in its own module. `Webhook` EXTENDS `Drafting`, so that what the LLM answered is carried through to what leaves for Chatwoot.
`Startup` EXTENDS `Settings` and is proved to refine it: a theorem about `Settings` holds
with the whole start in front of it.

## 3 The runs

| Run | Instance | States | What it shows |
|---|---|---|---|
| `keyed_mutex` | 3 goroutines, 2 contacts | 10,356 | one lock per contact, never replaced, no starvation, refines `ContactLock` with its fairness |
| `webhook_calm` | `LockedWebhook`: 2 handlers, 2 messages of a contact, an echo, redeliveries, 9 answers of the LLM; `db`, `read`, `llm` | 35,464 | every message taken up gets its note; what is offered is rendered; escalations change nothing; two messages do not undo each other's attributes and labels; the map is free while handlers work and wait; every delivery returns; refines `Webhook` |
| `webhook_faulty` | as above, 3 answers, two inboxes; `write`, `media`, `late`, `ctx`, `crash`, `agent`, `admin`, `empty` | 725,344 | at most one note, one handler per contact, refines `DraftOnce` |
| `webhook_lost_note` | `ctx` | violation | a context that ends takes the failure note with it |
| `webhook_blank` | 1 attribute, 2 answers, no faults | violation | an empty string from the model empties a known attribute |
| `content_two` | 2 administrators, or one alone, a tariff, a topic, an asset, 3 rows; `crash`, `db` | 1,832,037 | live content valid; one published; history kept; refines `Publication`; for one administrator alone: one working draft; reloads install what is published; a publish promotes only what validates |
| `content_stale` | 2 administrators, 4 rows | violation | overtaking reloads leave an archived config live |
| `content_restart` | 1 administrator; `crash` | violation | an unpublished edit goes live at a restart |
| `settings` | 5 files of 2, 2, 3, 2 and 1 statements; 1 administrator, a field and a secret, 5 typed values; content that ceases to validate; `sql`, `kill` (2 per behaviour), `write`, `crash` | 466,439 | the ledger is true and complete before anything is served; edits stay; disturbed starts are made good unless `Wedged` or `Barred`; clients, page and next boot agree; only committed values are used; blank secrets stay |
| `startup_crash` | `kill`, once | violation | a kill between the `ALTER TABLE` and the record: every start fails |
| `bridge_two` | three plays (below), 2 settings, 2 inbox ids; `call`, `lost`, `db`, `crash`, `delete`, `late`, `twin` | 1,505,880 | Attach repairs and brings the settings up to date, Fix repairs the webhooks, Detach silences, the AI comes on behind complete webhooks, rows name their own inbox |
| `bridge_detach` | 1 request, 1 instance, no faults, the environment names its inbox | violation | a detached inbox stays open to the brain |

### Bounds, and why they are enough

* *Goroutines.* The properties of the lock are about pairs, and the third
  goroutine of `keyed_mutex` can overtake a waiting one. Receiver, content and
  bridge have two: every race in the code is between two requests. The theorems of
  section 5 hold for any number.
* *Messages.* Two of one contact compete for the lock and the contact's
  attributes; the third event is the echo of a note, which must be ignored. Any
  of them is redelivered any number of times. Two contacts would only meet in
  the lock's map, which `keyed_mutex` has two keys for; that a handler of one
  contact does not keep the others from the map is `MapIsFree`.
* *`MaxRows`* (rows of `assistant_config`): 3 allow a draft beside a published
  and an archived row, 4 two publishes or rollbacks after the seed. A request
  that would insert another row does not come (rollback) or waits (insert),
  hence `CHECK_DEADLOCK FALSE` in the content runs.
* *Tokens.* One tariff; the placeholders are read by the next query, which runs, but
  of no rows, as a second token would only be missing in one more way. A topic that
  uses it or not; an asset that has a URL or not. Validity is a conjunction over
  topics and assets, so that one of each fails in every way.
* *One or two administrators* (`ContentCrewMC`). Who is there is chosen at the start,
  so that one run says what holds for two and what for one alone, whose queries are
  answered (a price book may be cut short unnoticed even then): the properties
  `…Alone` are about the latter.
* *Answers.* `AnswersMany` has two replies whose patches share no attribute, one
  with a null and with the stage, one that blanks, an escalation that carries
  everything an escalation must not do, more files than three and one that is not in the
  catalogue, a reply with an invented tariff, one with a placeholder whose value
  has a `{{`, one with a `{{` of its own, and the empty object: every branch of
  `Drafting` is taken. `webhook_faulty`, whose properties do not depend on them, has
  three: a reply with a patch and a file, one that cannot be rendered, and an
  escalation with a patch. The theorems of section 5 hold for any set of answers.
* *Files and statements.* `SizeMC` has the five files; a file of several
  statements is cut to two or three, enough to be cut off at its beginning,
  inside and before its record. *`MaxTroubles`* = 2: a start may be disturbed, and
  the one that has to make it good again.
* *Settings values.* `x`, `x` with a trailing slash or space, `y`, empty, and
  only spaces: all the classes normalisation distinguishes. The environment's token
  is one that normalisation changes. The token is used by two clients, the base URL
  by two, so that clients can disagree.
* *Plays of the bridge* (`BridgeCrewMC`). Everything at once is too much, so the start
  chooses one of three. Busy: two requests at two instances with one account and one
  server, where inboxes are deleted. Moving: one request at two instances, whose
  settings move to other accounts and servers, where the id of one instance's old row
  may be another's new inbox; nothing is deleted. Small: two requests at one instance
  with all of that, deleted account webhooks, late calls and a second inbox of its
  name. The theorems have no such restriction.
* *`MaxInboxes`* = 2 inbox ids are given out by an account: two instances get one
  each, one is made again after a deletion, or one instance has two. *`MaxHooks`* = 1
  saturates: only whether there is an account webhook matters to the code. Accounts
  that the settings move to are empty (ids start again, which is what collides with
  old rows), servers were told nothing.
* *Labels.* Two of them are in `webhook_calm`, set by the service's own messages only,
  as agents are no fault of that run; `webhook_faulty` has agents but no labels, and
  two inboxes instead, of which the gate lets one through.
* *Symmetry* is used where the constants are interchangeable (handlers,
  administrators and texts, requests, instances and settings) and in no run with
  a liveness property.

### Holds here, and not further

Some properties hold only under the faults of their run. Adding one of the
following makes TLC find a violation; these are facts about the code, stated
where nothing in the repository promises otherwise:

| Property | holds in | is violated with | because |
|---|---|---|---|
| `PatchesDontClobber` | `webhook_calm` | `late` | a PUT that outlived its client's timeout is applied after the next message's |
| `PatchesDontClobber`, `LabelsKept` | `webhook_calm` | `agent` | an agent's edit between the GET and the PUT or POST is overwritten by the old object |
| `AcceptedIsAnswered` | `webhook_calm` | `ctx` | see `webhook_lost_note` |
| `SingleDraft` | `content_two`, one administrator (`SingleDraftAlone`) | two administrators | both updates find no draft, both insert |
| `ReloadIsCurrent` | `content_two`, one administrator (`ReloadIsCurrentAlone`) | two administrators | the config is read several statements before `content.Set` |
| `PublishRefusesFirst` | `content_two`, one administrator (`PublishRefusesFirstAlone`) | two administrators | an edit between validation and promotion |
| `LiveIsCurrent` | `settings` | two administrators | saves persist in one order and apply in the other |
| `LiveIsCurrent` | `settings` | `blank` | an emptied field is applied as empty but read back as the default |
| `SecretsAreKept`, `LiveIsCurrent` | `settings` | `read` | the error of `Current` is dropped: a blank secret is stored empty; a boot stays on the environment |
| `AttachedIsReady`, `FixedIsWired`, `DetachedIsQuiet`, `AITurnsOnWired` | `bridge_two` | `clash` | two requests, or one and a deletion or a late call, interleave at one instance |
| `AttachedIsReady`, `FixedIsWired`, `DetachedIsQuiet`, `AITurnsOnWired` | `bridge_two` | `conf` | the settings are read several times by `Attach`, and may move to another account or server under way |
| `AttachedIsReady`, `FixedIsWired`, `AITurnsOnWired` | `bridge_two` | `stray` | Detach or FixWebhooks of an instance whose row is left from another Chatwoot account: `service.go:165` and `:187` overwrite the webhook of whatever inbox has that id now |

Two more facts about drafts, which no property contradicts: the text of an
escalation and the reminder of any draft are not rendered, so that an agent may
read raw tokens there (`brain.go:64`, `brain.go:80`); and an answer that is `null` or
`{}` becomes a draft with an empty text, not an escalation (`openrouter.go:160`).

## 4 Fairness

Only `keyed_mutex`, `webhook_calm` and `settings` check liveness, with

* weak fairness of a goroutine's own steps: a runnable goroutine of the Go
  scheduler runs;
* strong fairness of taking a mutex: `sync.Mutex` hands itself to the oldest
  waiter once one has waited a millisecond (its starvation mode), so that nobody
  is passed over for ever although the mutex is taken again and again;
* the same in `webhook_calm` (`LockedFairness`) of the map's mutex and of `Enter`,
  which takes the contact's;
* weak fairness of Chatwoot's answers (`Apply` or `Refuse` of what was sent):
  the HTTP client has a timeout of 30 s, so a call ends one way or the other.
* in `settings`, weak fairness of the start (`StartStep`): a process that runs goes
  on, and one that ended is started again, `restart: unless-stopped` in
  `docs/04-service-and-deployment.md:99`.

Nothing forces a delivery, a redelivery, a save, a fault, an administrator or an agent.

## 5 What is proved

All proofs are checked by TLAPS, from the named assumptions on the constants
(`…Assumption` in each module) and nothing else.

**KeyedMutexProofs.** `TypeCorrect`, `LockExcludes` (mutual exclusion),
`EntriesStay` (a contact never changes its mutex), `ImplementsLock` (the safety
part of `ContactLock`). Mutual exclusion is not inductive: two goroutines inside
for one contact must be shown to hold *one* object. The invariant adds that
`mu` is held exactly between its lock and unlock (`MapGuarded`), so that nobody
can insert between another's look-up and insertion (`MissIsFresh`), so that what
a goroutine waits on is what the map holds (`WaitsOnEntry`), and that whoever is
inside owns it (`InsideOwns`).

**WebhookProofs.** `TypeCorrect`; `ContactsAreSerialized`; `NotesAreUnique`;
`WebhookDraftsOnce`, the refinement of `DraftOnce`. For any handlers, messages,
contacts and every fault. The lock needs both directions: who is in the critical
section holds its contact's mutex (`CriticalHolds`), and a mutex that is held is
held by somebody in the critical section for that contact (`LockIsUsed`). For
the notes, `NoteInv` says that one handler at most is past the insert for a
message, that before it posts no note exists or travels, and that a travelling
note is alone and first; every step is then classified as quiet, taking up,
sending or posting, and each class is shown once to keep `NoteInv` and to be a
step of `DraftOnce`. `PassedGate` gives the refinement that only customer
messages are taken up.

Also for every fault, and for any answers of the LLM, price book and catalogue:
`NotesAreRendered` and `EscalationsStop`, carried from the drafts to what is in
flight (`PromiseInv`, `WriteInv`). Under fewer faults, and named as assumptions of
the theorems: `AcceptedAreAnswered` (no ended contexts, crashes, refused writes,
missing files or empty start), and `PatchesAreMerged`, `KnownStaysKnown`,
`LabelsAreMerged` under `Undisturbed` (no ended contexts, crashes, late writes or
agents), which is what section 3 shows to be needed; `KnownStaysKnown` also that the
model blanks nothing (`NoBlanks`), which `webhook_blank` shows to be needed.
`MergeInv` says that a PUT or POST in flight belongs to the handler that has the
contact's mutex and contains all that is in Chatwoot, so that applying it takes
nothing away.

**LockedWebhookProofs.** `LockedIsWebhook`: for any handlers, messages, contacts
and every fault, the receiver with the real lock implements `Webhook`. The step that
matters is `Enter`: the guard of the code is that the mutex *object* is free, that
of `Webhook` that the *contact* is. They agree because of `LockedInv`: the invariant
of `KeyedMutexProofs`, which is used there as it was proved, by INSTANCE; a handler
asks for the contact of its own message (`AsksForOwn`); it is inside `Lock`'s critical
section exactly while it is inside the receiver's (`InIsCritical`); and `lock` names
the one inside (`LockIsMutex`). Every theorem about `Webhook` therefore holds with
the statements of the lock, and those the lock is there for are stated again:
`LockedContactsAreSerialized`, `LockedNotesAreUnique`, `LockedDraftsOnce` and, under
`Undisturbed`, `LockedPatchesAreMerged`. `MapStaysFree` says that nobody holds the map
while he works or waits for a contact.

**DraftingProofs.** `RenderIsComplete` (a text `Render` passes has no token and no
`{{`), `AtMostThreeFiles` (by counting the places before each file that is kept),
and `DraftsKeepPromises`, which the webhook's theorems rest on.

**ContentProofs.** `TypeCorrect`, `BrainContentIsValid`, `DraftsStayOut`,
`OneIsPublished`, `HistoryStays`, for any number of administrators and all
faults. What is inductive is what requests carry between statements: a reload
holds the id of a row that is no draft — and no row becomes a draft again, which
the history theorem gives — (`ReloadsPublished`), what waits for `content.Set`
is valid (`WaitsValid`), and `max`/`insert` have what to insert (`InsertsRow`).
`RowsInv` carries the rows: exactly one published, and a maximal version;
`EverRows` the history: what was ever published is a row and no draft.
`OneDraft`, `ReloadsAreCurrent` and `PublishValidates` assume `Sole`: one administrator
at a time, and queries that succeed. `SoleInv` says what the one request under way
has read, and that it is still what the tables hold.

`ContentPublishes` is the refinement of `Publication`, again for any administrators and
all faults: every config is published once, the brain works from one that was
published (not from a row that a rollback archived as a draft, which `DraftsStayOut`
would allow), and a restart brings the published one. `EverInv` carries it: what is
live, and what a reload in progress will make live, is in `ever`, and requests are
under way only while the process runs. That a newly published row never was before
needs no case for publish and rollback: it follows from `KeepsHistory`, as a row that
was published stays published or archived.

Two theorems bound what `content_stale` and `content_restart` find.
`SoleServesPublished`: under `Sole`, and as long as no reload is refused
(`ReloadsAreTaken`), the brain serves the published config between requests, kills
and restarts included; what is served lags behind only inside a reload
(`BehindInReload`). With two administrators TLC finds the violation although no
reload is refused, and with one it finds it only if an edit broke the tables before
a rollback. `OnlyKnowledgeLeaks`: for any administrators and faults, a restart brings
in unpublished edits of prices, topics and assets and nothing else: while these
are left alone (`KnowledgeIsLeft`) and queries succeed (one that breaks off unnoticed
loses prices), the same published config is served with the
same content before and after.

**SettingsProofs.** `TypeCorrect` and `OnlySavedIsLive` hold for any
administrators and faults: what a committed save still has to apply is among the
saved values (`Committed`), and what a boot would load is too (`Bootable`).
`ClientsFollowTable` and `BlankSecretsStay` assume `Alone`: one administrator at a
time, queries that succeed, no field emptied, which is exactly what section 3
shows to be needed. Neither assumes that the environment is trimmed: a blank secret
keeps the value in force up to the space around it (`SecretsAreKept`), and clients
and table may differ in a value of nothing but space, which counts as empty
(`SameSetting`). `FormInv` says what the form is worth at each stage,
`AppliedInv` which clients already have it, `SettledInv` that otherwise all
clients have what the table says.

**StartupProofs.** For any files, statements and faults: `StartupImplementsSettings`
(the start, seen through the variables of `Settings`, is a behaviour of `Settings`),
`StartupTypeCorrect`, `LedgerIsTrue`, `ServedIsMigrated` and `ServedStays`.
`SInv` says how far the migrator is: all files before the one it is at are
recorded, the statements before the next one are executed, and the ledger is
complete from the moment it returns. `StartedFollowsTable` carries
`ClientsFollowTable` over by the refinement.

Three more say what is left of the promise that `startup_crash` refutes.
`RefusalsAreCaused`: a start is refused only for a statement that fails in it,
because the database is `Wedged`, that is the process ended while a one-shot
statement was executed and its file not recorded, or because it is `Barred`: what is
published does not validate. `WedgedForGood`: a wedged database is never served again,
because every start has that statement still ahead of it (`Stuck`, which no step
ends). `BarredForGood`: neither is a barred one, because nothing changes the content
of a database whose ledger is complete but the pages that are not served
(`Unserved`).

**BridgeProofs.** `TypeCorrect`, `RowsAreOwn` and `GateMovesByOne` hold under every
fault, clashing requests, moves to other accounts and inboxes of one name included.
What is inductive is that an account gives an id once (`Ids`), and that the id in a
row of this account, or in a request's copy of one, was given out and to no other
instance's inbox (`RowsOwn`, `Own`): since a new inbox has a new id, neither a deletion
nor a second inbox of the same name can make it another's, and a move of the settings
takes the claim away from every row at once (`here`). `AttachRepairs`, `FixRepairs`,
`DetachSilences` and `AITurnsOnLast` assume `Calm`: requests do not meet at an instance,
the settings stay while one is served, and a row left from another account is attached
again before it is fixed or detached, which is what section 3 shows to be needed;
`DetachSilences` also that the environment names no WhatsApp inbox, which
`bridge_detach` shows to be needed. `Reached` says what a request has put in place at
each of its calls, each building on the one before; `Alone` that an instance has one
request, so that nobody undoes it; `Finished` what the last request left behind. Calls
that fail, lose their answer or come late, crashes, deleted inboxes and account
webhooks, second inboxes and moves between requests need no assumption.

## 6 What is only model-checked

Liveness (`EveryCallReturns`, `EveryDeliveryReturns`, `StartsUnlessStuck`, and the
fairness part of the refinement of `ContactLock`) is out of the prover's reach,
like ENABLED: that the fairness of `LockedWebhook` gives that of `Webhook` is
not proved, `EveryDeliveryReturns` is checked on the composed module instead. Every
other property of a passing run is stated by a theorem, some of them under the
assumptions named above; those of `content_two` whose names end in `Alone` are
`OneDraft`, `ReloadsAreCurrent` and `PublishValidates`.

## 7 Where code and documents disagree

Each is a run that ends in a violation, with the counterexample as its trace.

1. **A note that is lost with its context** (`webhook_lost_note`,
   `webhook.go:184`). The comment at `webhook.go:114` promises an escalation
   note instead of a 500; the note is posted with the context whose end made the
   draft fail.
2. **A migration that is not safe to be interrupted** (`startup_crash`,
   `sqlite/store.go:80`). "Each exactly once", so that later files may use
   one-shot statements "safely", says the comment above `migrate`; the file and its
   record are separate commits, and a process that ends between the `ALTER TABLE` of
   0003 and the record can never start on that database again (`WedgedForGood`).
   `StartsUnlessStuck` of run `settings` shows that a disturbed start gets stuck in no
   other way but one, which is no accident of the start: published content that does
   not validate, after an edit, a rollback or a migration, is refused by every start
   (`Barred`, `main.go:76-78`). `RefusalsAreCaused` says the same of each refusal.
3. **An archived config is served** (`content_stale`, `admin/service.go:69`).
   Two reloads overtake each other; until the next publish or restart the brain
   does not serve the published snapshot. One administrator at a time is safe as
   long as no reload is refused (`SoleServesPublished`).
4. **An edit that was not published goes live** (`content_restart`,
   `main.go:69`). Only the config has drafts; topics, assets and prices are
   loaded as they are at a restart, and nothing else is (`OnlyKnowledgeLeaks`).
5. **A detached inbox stays open** (`bridge_detach`, `webhook.go:72`). When no
   managed row has its AI on, the environment's mandatory list is back in force,
   and it may name the inbox just detached.
6. **A known attribute is emptied** (`webhook_blank`, `chatwoot/client.go:249`).
   `docs/02-assistant-brain.md:119`: "never null/blank a field that was already known".
   Null is filtered, an empty string from the model is merged like any value. If the
   model blanks nothing, the promise is kept (`KnownStaysKnown`).

One comment is untrue without a run of its own: `settings/service.go:112-113` says that
`normalized` trims "to match how config.Load treats the same values". `config.Load`
trims a slash at the end of URLs and nothing else, so a value of the environment with
space around it is used as it is until the first save, and trimmed from then on
(`EnvMC`, and the comments of `SecretsAreKept` and `SameSetting`).

## 8 Not modelled

* *LLM client*: a call that fails or returns an object with any of its fields; the
  request, the code fences around the object and the wire format are data.
* *Prompt building* (`prompt.go`, and which messages `Window` selects), wording of
  notes, the warning about hidden WhatsApp ids, `formatTenge`, logging, the audit
  log: text, which no property is about. A piece shows the amount itself.
* *Admin authentication* is a signed cookie without server state; *pages* only
  render; *configuration* is read once at the start. *Media* are files: what can
  go wrong with one is the fault `media` of `Webhook`.
* In `Webhook`: the secret and the decoding of the body, before which nothing
  changes. In `Bridge`: the number of polls for the inbox, which only decides how
  long Attach waits before it gives up. A late call there is any call that some request
  on the instance could have made, once no request is at work on it (one that hits the
  next request is a `clash`): more than the code can send, never less. A return to an
  account that was left is a move to another one, which holds any of `Accounts`. The
  two clients and the service are configured in one step (the three steps are in
  `Settings`). `SendOutgoing` of the Chatwoot client has
  no caller.

## 9 Plan

Done: every component of section 1 that keeps state or decides something, each
with its runs and its proofs, and three compositions (`Webhook` with `Drafting`,
`LockedWebhook` with `KeyedMutex`, `Startup` with `Settings`). What could follow:

1. `Settings` and `Bridge` composed: a save between the calls of an Attach, one
   client configured and the next not yet.
2. `Settings` and `Webhook` composed: a handler whose GET and PUT go to different
   accounts because a save came in between.
3. `Content` behind `Startup`'s `LoadContent` in place of the bit `sound`, so that which
   edits and rollbacks bar the next start is seen in one module.

## 10 Running

    tlc -workers 2 -config WebhookCalm.cfg LockedWebhookMC.tla
    tlapm LockedWebhookProofs.tla

`webhook_faulty`, `content_two` and `bridge_two` take up to three minutes, the others
less than one. The proof modules take one to a few minutes each.
