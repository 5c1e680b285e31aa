# AlphOne in TLA+

AlphOne is a multichannel CRM: one Go program over one PostgreSQL database,
serving a GraphQL API and a web interface, extended by plugins (WhatsApp,
importer, custom fields, email). Many of its promises are about what several
requests, background loops, other systems and restarts do to rows they share.
This directory models those parts, checks them with TLC on small instances, and
proves their safety for every instance with TLAPS.

`PROJECT.json` lists the components, the runs, the lines of source each
definition stands for, the hazards and the properties that watch them, and the
mutant that shows each property can fail. Sources below are relative to the
repository's root.

## The system

| Component | State | Operations | What is hard | What makes it correct |
|---|---|---|---|---|
| Identity feed (`internal/contact/feed.go`, `internal/postgres`) | identity rows stamped with a transaction number and a server; a cursor per reader | add, remove, read a page, take the horizon, restamp at start | commits out of order, long transactions, restores onto another server, readers that restart | no address is skipped, every address is handled in the end, no cursor is refused by the server that gave it |
| Contact resolution (`internal/contact`, `internal/postgres/identities.go`) | contacts; addresses, unique by channel and identifier | `Resolve`, `FindByIdentity`, `CreateWithIdentities`, attach and remove an address | concurrent creation of one address, snapshots older than a wait, deadlocks, a call ending between commit and event | one owner per address, all addresses of a contact or none, every answer names a stored contact |
| Tasks (`internal/task`, `internal/graphres/tasks.go`) | task rows | create, replayed create, partial update | read, then write without a lock; repeated creates | one task per origin; updates keep what they do not name; completion announced on the move into done |
| Webhooks (`internal/webhook`, `internal/postgres/webhooks.go`) | subscriptions; delivery rows; a worker's batch | publish, subscribe, revoke, sweep, post, settle, stop | leases that lapse under a slow batch, lost answers, stops in mid-attempt, settling by id alone | a settled delivery stays settled, every delivery settles, a second acceptance only when the first was unsure |
| WhatsApp messages (`plugins/whatsapp`) | conversations, messages, statuses | ingest a delivery, apply a status, send | redelivery, concurrent and partial ingestion, statuses out of order or before their message | an answered delivery is stored, each arrival is announced once, statuses and activity only advance |
| WhatsApp media fetcher (`plugins/whatsapp/fetcher.go`, `media.go`) | media rows pending, due, stored, failed | sweep, download, reschedule, expire | one deadline for a whole sweep, unlocked claims, workspaces that close, a rescheduling cut by the deadline it reports | a settled row stays settled, every row ends, a closed workspace is left alone |
| WhatsApp credentials and proof (`credentials.go`, `proof.go`) | numbers, encrypted secrets | save, prove a signature, route | a workspace that stops recording | only proven deliveries of recording workspaces are stored |
| Broadcaster and event hub (`internal/event`, `broadcast.go`), streams (`internal/server`) | subscriber channels, slots per caller | subscribe, broadcast, leave | full buffers, closing during a broadcast, goroutines that outlive the request | nobody blocks a publisher, no send on a closed channel |
| Paged lists on a screen (`sdk/frontend`) | pages past the first, flags of the jobs that wait | load more, reread, pause, reset | bursts, dropped frames, answers that come after the list asks for something else | no page stays older than a change it could be told of |
| Importer (`plugins/importer`) | imports, staged rows | upload, map, commit, resume | two commits of one import, a crash between create and settle, a field archived under way | a row makes one contact at most, outcomes are justified, the counts account for every row |
| Custom fields (`plugins/fields`), tenant graphs (`internal/dyngraph`) | definitions, entries; a cached view and graph per workspace | define, archive, order, write values; shared reads, forgetting; build | a read under way when the definitions change, callers that leave it, a lock that exists only while used | no caller after a change sees the definitions before it; equal stamps mean equal fields; everyone is answered |
| Resolvers, gates, scopes (`internal/graphres`) | none of their own | check and call the stores | check, then act | a refused request changes nothing |
| Accounts, invitations, workspaces, roles | rows kept by the framework library and `internal/postgres` | invite, place, disable | two owners demoting each other | a workspace keeps an owner |
| Tokens, settings | rows | save, read, touch | none: one statement each | |
| Other limits (`internal/server`) | counters per user and address | admit, release | a slot never given back | limits hold, counters return to zero |
| File storage (`internal/storage`) | files under keys of a plugin and a workspace | save, open, delete | kept by a library, like the sweep of unfinished uploads | |
| Cursors, encryption, MCP, mail, locales, startup, frontend views, generated code | | | pure computation, I/O or views | |

How they interact: WhatsApp messages and imports resolve contacts; resolving,
creating tasks and receiving messages publish events; events go to the hub
(views) and to the webhook dispatcher (rows); the feed tells plugins of the
addresses resolving added. A frame of the hub reaches the screens as a name,
which has their lists read again. The catalogue of custom fields decides which
graph a request of a workspace is served. Handlers run concurrently and share the database
under READ COMMITTED. The webhook worker and the media fetcher are one
goroutine each per process. The stock deployment is one process; nothing but
the database keeps a second one out, during an upgrade for instance, so the
models let several work at once.

## Modules

**`IdentityFeed`** models the feed. `FirstWrite`, `AddIdentity` and `Finish` are
a transaction's life: PostgreSQL numbers it at its first write, a row carries
that number, and the row appears at commit. `Unfinished`, `BelowXmin` and `Xmax`
are the two ends of `pg_current_snapshot()`. `ReadPage` is one call of
`IdentitiesAddedSince`: the check of `checkCursor` (`Stale`) and the query
(`Eligible`, `IsPage`); a page has any size up to the bound because the caller
chooses it. The check and the query are one step in the model and two statements
in the code; a cursor found good stays good on the same server, so the order of
a commit between them changes nothing. `MoveTo` is a dump restored onto another
server and the program's start there, whose `migrate` restamps the rows. The
reader is the loop of `docs/.../extending/contacts.md`.

**`WebhookDelivery`** models the queue and its workers. `ListSubscriptions`,
`Enqueue` and `EnqueueFails` are `Dispatcher.Publish`; a listing that fails
queues nothing, as if the event had not been published. `Sweep` is one call of
`ClaimDueDeliveries`; `CheckOwner`, `Post` and `Settle` are the three calls an
attempt makes, with failures and `Down` possible between any two. Time is
counted down: `wait` is `deliver_after`, `age` is measured from `created_at`.
Backoff doubles up to a cap as in `Backoff`, and a worker computes it from the
attempts its own claim was answered (`tries`), whatever the row counts by then; the real delays (a minute to an
hour, a window of a day) become a few ticks in the same order.

**`ContactIdentities`** models calls of `Resolve` and `CreateWithIdentities`
statement by statement. `StartInsert` takes the snapshot of the statement
`AddIdentity` in `queries.sql`; `Blocked` is the wait on the unique constraint
for an address inserted by an open transaction; `FindsClaimed` and `FindsNoRow`
are what the statement's second half then answers, from that older snapshot.
`Deadlocked` is PostgreSQL's detector. `AddIdentity` and `DeleteIdentity` are
people editing contacts. Contacts are never deleted by the program.

**`IdentityRegistry`** is the abstract specification: a call creates a contact
with all its addresses, or answers a contact that owns or owned one of them, or
fails, at one moment. `ContactIdentities` refines it (`ImplementsRegistry`): a
call's moment is its commit, its second read, or its failure.

**`Tasks`** models `CreateTask` and `UpdateTask`. A call stands for the task it
would create. `Matches` is the unique index over the origin, `Applied` is
`Task.Apply`, `ReadTask` and `WriteTask` are the two statements of an update,
and the events follow in steps of their own. Title stands for every editable
field other than the status.

**`WhatsAppMessages`** models requests of Meta's webhook and messages people
send. `Receive` admits a delivery (`Kept` drops what is over the item limit);
`ResolveSender`, `Persist` and `Announce` are the three steps of `ingest`;
`ApplyStatus` is `applyMessageStatus`; `Fails` ends a request at the item that
failed, `Cut` at a point where nothing is answered; `PersistUnheard` is a commit
whose answer was lost. Each of the three that persist goes through `Upsert`: the
conversation's activity first, then the row if it is new. A message's time is
its `sentAt`, or, when the timestamp does not parse, whatever the clock reads
when a delivery of it is (`SentAt`, which is `parseTimestamp`); the row keeps the
first such reading (`receivedAt`), activity takes every one. `SendText`, `AppendOutbound` and `AppendOutboundFails`
are `sendMessage`.

**`ImportCommit`** models imports. `Upload`, `AskMapping` and `StoreMapping`
are the requests that prepare one; `Load` to `ReadPending` are `ImportCommit`
up to its rows, `CheckRow` to `SettleRow` one turn of `commitRows`, `CountRows`
and `FinishCommit` the one statement of `finishCommit`: it counts in the
snapshot it begins with and may then wait for the other commit's write of the
same import. Each statement is a step because no transaction joins them and
nothing keeps two commits apart. A row is its two addresses, a text for one
custom field, whether the reader could read it and whether its name is one once
trimmed. An address cell may be `Blank`: text of which nothing is left in
canonical form, such as a phone without digits. The claimant is looked for in the
random order of a map, so a row with an owned address and a blank one is
either skipped or failed (`FindClaimant`). `live` is what the fields plugin
serves: the program keeps its definitions between reads and forgets them on a
change, and `ToggleField` is that moment (`FieldsCatalog` models what lies in
between). Contacts are taken
by what `ContactIdentities` shows of them: one owner per address, all addresses
of a create or none. People who remove an address of an imported contact later
are left out, so an outcome that names an owner keeps naming one.
A row skipped because a resumed or concurrent commit had created its contact
names that contact itself; the import's list of contacts then leaves it out.

**`MediaFetcher`** models the background download. `ReadGates` is the reading
of the clock and `closedTenants`, `Claim` the query that takes turns between
workspaces, `Fetch` the requests with each of their outcomes, `Settle`,
`Reschedule` and `Expire` the writes, `Deadline` the end of the sweep's
context between two of them. A row is a fact about the clock: due or not, past
its window or not; `stamped` keeps the rows due at the sweep's own time.

**`FieldsCatalog`** models `catalog.go` line by line of its locking: `join`,
`leave`, `fly`, `forget` are steps under its mutex, `read` lies outside. A view
is its stamp and the version of the definitions it read. **`TenantGraphs`**
extends it: a request's check is a call of `viewFor`, so forgets, failures and
departures happen underneath a graph being checked or built. Its lock object
is a number, taken, awaited and dropped as `lockFor` does.

**`LiveStreams`** models a caller's streams on the server: the slot, the
goroutines of a subscription and the hub. **`LiveLists`** extends it with the
screen: `Ring` is a refetch heard by the loader, `Outcomes` the loop of `drain`
from one awaited read to the next, `Reset` new variables. JavaScript runs to the
next `await` undisturbed, so a step ends there. Left out: frames for other
callers; the rows a page holds (a reread may end at any page up to the bound);
the `failed` flag, which a successful load more clears though the pages a
failed reread left are as old as before.

`MC*` modules give instances: requests and deliveries as records, symmetry for
`Tasks` (calls and titles are interchangeable, and the run checks no liveness).

`*Proofs` modules extend the module they are about with its theorems.
`WhatsAppProofs` is about both parts of the plugin and extends the two modules,
so `MediaFetcher` names its own what both have (`MediaSpec`, `MediaTypeOK`); the
parts share no state in the models.

Operators whose comment begins "A slip the runs must notice" are plausible
mistakes in the definition after them; the specifications never use them. Each
property of a run is refuted when its slip replaces that definition.

## Runs

| Run | Instance | What it shows |
|---|---|---|
| `identity_feed` | 2 transactions, 2 identities, 2 servers, `PageBound` 2, `MaxMoves` 2, `MaxCrashes` 1 | nothing is skipped, nothing repeated without a cause, everything handled |
| `webhook_delivery` | 2 workers, 1 event, 1 subscription, `Lease` 1, `Window` 2, `MaxBackoff` 2, `MaxFaults` 1, `MaxDowns` 2, `MaxToggles` 1 | claims, retries and settling |
| `webhook_attempt_id` | 1 worker, otherwise the same | expected violation, see Findings |
| `contact_identities` | 3 calls, 2 addresses, 1 removal, 1 address attached, 1 call cut short | the refinement, agreement of resolvers, atomicity, no lasting wait |
| `contact_conflict` | 2 resolves of one address | expected violation, see Findings |
| `tasks` | 4 calls, 1 origin, 2 titles, 1 call cut short | replays and updates |
| `task_completed` | 3 calls | expected violation, see Findings |
| `whatsapp_messages` | 2 requests, 3 deliveries of up to 3 items, 1 message without a readable time, 2 readings of the clock, 1 sent message, `ItemsMax` 2, `MaxFaults` 1, `MaxToggles` 1 | ingestion, announcements, statuses, activity |
| `import_commit` | 2 commits, 2 rows, 3 addresses, 4 sheets, 3 mappings, `MaxMappings` 2, `MaxBreaks` 1 | one contact per row, outcomes, counts |
| `media_fetcher` | 2 fetchers, 2 rows of 2 workspaces, `Batch` 1, `MaxMediaFaults` 2, `MaxClosings` 2 | settled rows, closed workspaces, every row's end |
| `tenant_graphs` | 2 callers, 3 requests, 2 reads at once, 2 locks, 1 field, `MaxChanges` 1, `MaxFaults` 1 | current answers, exclusive builds, everyone answered |
| `live_lists` | 1 stream, buffers of 1, `MaxChanges` 2, `MaxPages` 1, `MaxKeys` 1 | nothing forgotten, no job left behind |

The properties worth knowing, by run:

- `identity_feed`: `NoSkip` (no identity at or before the saved cursor is
  unhandled), `OwnCursorAccepted`, `AtMostOnceUndisturbed`,
  `SavedCursorAdvances`, `EventuallyHandled`.
- `webhook_delivery`: `FinalStays` and `ClaimExclusive` together say what the
  lease buys: two workers hold one row only after the first one's lease ran out,
  and only then can a settled row change again. `SecondOnlyIfUnsure` is
  at-least-once made exact: a subscriber accepts a delivery twice only when an
  accepted request's outcome was not recorded or two workers held it.
  `VerdictsJustified` ties both final statuses to what happened, `FewLatePosts`
  bounds the posts after an account is disabled or a subscription revoked by
  one per worker, `EventuallySettled` says no delivery stays pending for ever.
- `contact_identities`: `ResolversAgree`, `AllOrNothing`, `AnnouncedIfCreated`,
  `ImplementsRegistry`, `EveryCallReturns`.
- `tasks`: `OneTaskPerOrigin`; `ExactUnlessRaced` says an update that met no
  other write between its read and its write keeps what it did not name, and
  announces completion exactly on the move into done.
- `whatsapp_messages`: `AnsweredStored`, `AnnouncedOnce` (the loss allowed is
  named: the request that stored the message ended before announcing it),
  `StatusFurthest`, `ActivityLatest`, `EventuallySettled`. `ActivityLatest` says
  the conversation's activity is the latest of its messages' times and of the
  readings that redeliveries of a message without a readable time were given
  (`again`). The code promises no more: such a redelivery moves the activity
  past every stored message, because `upsertConversation` runs before the insert
  that keeps the old row.
- `import_commit`: `OneContactPerRow` holds however many commits work through a
  row, because the mapping is locked from the first claim on and the second
  create meets the first one's addresses. `OutcomesJustified` says what an
  imported and a skipped row's contact owns and carries. `CommittedSettled`: no
  pending row in a committed import, counts that account for every row, and
  exactly the rows' counts unless commits overlapped. With two commits at once
  the counts may be those of a moment before the last row was settled, for the
  statement that writes last may have counted first.
- `media_fetcher`: `SettledStays`, though two fetchers may hold one row;
  `ClosedUntouched`: a sweep leaves a workspace alone that was closed all along,
  also rows of it that fall due between the question and the claim;
  `EveryRowEnds`: a sweep that spends its deadline on slow rows starves
  those behind them only until the slow ones expire.
- `tenant_graphs`: `AnswersCurrent` (a caller is not answered a reading older
  than a change forgotten before its call, nor the cancellation another caller
  or a forget caused), `GraphsCurrent` (equal stamps, equal fields),
  `OneBuildAtATime`, `AllAnswered`.
- `live_lists`: `OpenWhileKnown` (the hub holds no closed channel),
  `NothingForgotten`, `PagesOfTheseVariables`, `JobsServed`. `NothingForgotten`
  excuses a change announced between a connection and its subscription: the
  screen reads again when the connection opens, the server subscribes a moment
  later, and a frame in between reaches nobody. Such a page is brought up to date
  by the next frame or connection.

Type invariants are proved, as part of each proof's inductive invariant.

### Bounds

The bounds count things the program does not limit, and each is large enough for
its case to meet the others. Two transactions are the least that can commit in
the other order, two moves the least that return to a server, one crash falls
between any two steps. Two workers and a lease of one tick let a lease run out
under either worker at any step; a window of two ticks allows a retry before
giving up; a second stop hits a restarted worker. Three calls over two addresses
include a cycle of waits with a third call watching; one call that asks for one
address twice shows the conflict with itself. In `Tasks`, one task and three
updates of it, or two creates of one origin and two updates. A delivery of three
messages under a limit of two shows the limit; two requests suffice for a
delivery at work twice. `MaxFaults` and the like bound failures, not moments:
the failure may fall anywhere. In `ImportCommit` two rows may share one address, two or none, or be
refused for each reason there is, one of them with an owned address beside a
blank one, and two mapping changes let one wait across
a claim. One row in a sweep of `MediaFetcher` makes the other one wait behind
it, two changes of its gate close a workspace and open it. Three requests of `TenantGraphs`
are the least for one to take a lock that another is about to drop while a
third holds it; two reads at once let one be overtaken by the other. Buffers of
one in `LiveLists` are the smallest there are (the code's hold 8) and
drop a frame as soon as two changes follow each other; one page past the first
is the least a reread must keep. A larger screen with a second stream was too
large to finish. A faulty environment that never stops is not
modelled, so liveness holds once faults end.

### Fairness

- `IdentityFeed`: the reader keeps calling, and no transaction stays open for
  ever. A transaction ends with its request or its connection.
- `WebhookDelivery`: time passes, and each worker's loop goes on: `run` sweeps on
  every tick of its ticker and every attempt has a timeout. Nothing is assumed
  of the subscriber; a stopped worker starts again with its process.
- `ContactIdentities`: each call takes its steps; PostgreSQL ends one
  transaction of a cycle after `deadlock_timeout`, which is a step of the
  victim.
- `WhatsAppMessages`: each request takes its steps, and Meta posts again what was
  not answered 200, while the workspace records.
- `MediaFetcher`: a running fetcher goes on (`run` sweeps on every tick), a
  stopped one is started again with its process, and time passes. A sweep may
  meet its deadline every time.
- `TenantGraphs`: goroutines run, and a read of the definitions ends, as its
  query does, answered or failed. Weak fairness is enough: a mutex and a channel keep
  a caller's step enabled until it is taken.
- `Tasks`, `ImportCommit` and `LiveLists` state no liveness property: an import
  is resumed when somebody asks, and whether a screen reconnects after a stream
  ended depends on what the GraphQL libraries write at its end.

Deadlock checking is off in every run: with every transaction used, call
returned and bound spent, the modelled system may stop.

## Proofs

Every theorem holds for all values of the constants that meet the modules'
assumptions, and TLC evaluates those in the runs. The assumptions are null
values apart from real ones, positive ids, natural bounds, well-formed requests,
deliveries, sheets and mappings, and finiteness where something is counted:
the rows of an import or of media, the callers of a catalogue, the streams and
the workers of a process. All of those are finite in a running program. Proofs
have one shape: an invariant `IInv` that holds at the start, that each action
keeps, and that implies the properties; what follows says what each `IInv` adds
to the properties and why they do not stand without it. Where the code takes the
least of some numbers (the next row, a free place), `LeastNumber` says there is
one; it rests on strict inclusion of finite sets being well-founded, since the
library's induction theorems take an operator and the provers cannot instantiate
them.

### Identity feed (`IdentityFeedProofs`)

- `TypeCorrect`: `Spec => []TypeOK`
- `NothingSkipped`: `Spec => []NoSkip`
- `OwnCursorsAccepted`: `Spec => []OwnCursorAccepted`
- `MetOnce`: `Spec => []AtMostOnceUndisturbed`
- `CursorsAdvance`: `Spec => SavedCursorAdvances`

`NoSkip` is not inductive: it speaks of the saved cursor, which a page in hand is
about to replace, and does not say why a row may not appear behind it. The
invariant adds what the code relies on. `Numbered` says open
transactions carry numbers already given, a pending row the number of its open
transaction, and live rows the current server. `Behind` says each of the
reader's cursors lies below every number its server has still to give and, on
the current server, below every open transaction, so a row still to be committed
is past every cursor; this is what
`added_xid < pg_snapshot_xmin(...)` gives a page and what a horizon has from the
start. `Coverage` says everything behind each of the reader's cursors was
handled, is in the page in hand, or was exempted by a horizon. Each action has a
step; reading a page and moving to another server are the ones with content
(`PageCovers`, `CoveredKept`).

For the cursors, `CursorInv` adds `Counted` (every number given is at most the
highest finished one, or belongs to an open transaction), `Within` (no cursor is
past the count of the server it names) and `Followed` (the cursor in memory is
the saved one unless the database moved, and a page's cursor is not before it).
From these a server never refuses its own cursor and the saved cursor never goes
back. `Once` adds what an undisturbed reader has behind it: what it met keeps
its number and lies at or before the place it has reached, and nothing in hand was
met before.

### Webhooks (`WebhookDeliveryProofs`)

- `TypeCorrect`: `Spec => []TypeOK`
- `SettledStays`: `Spec => FinalStays`
- `ClaimsExclude`: `Spec => ClaimExclusive`
- `StatusesJustified`: `Spec => []VerdictsJustified`
- `SecondsUnsure`: `Spec => []SecondOnlyIfUnsure`
- `LatePostsBounded`: `Spec => []FewLatePosts`

The settling statement names a row by its id and nothing else, so `FinalStays`
needs to know who may be about to settle. `Held` says a delivery in two hands is
shared and an unshared one in a hand is not settled; `Queued`, that a delivery
still to be queued has no row, so `Enqueue` never revives one; `Leased`, that an
unshared delivery's row falls due no sooner than its holder's claim runs out,
which is what `ClaimExclusive` says of the moment a second worker claims it.
`Justified` says the same of a verdict about to be settled as of one that is.
`Recorded` follows an acceptance that was heard of: until its worker settles it,
the row is pending in that worker's hand alone, and afterwards in nobody's, so
no second post can start. `Late` counts, with the late posts sent, the workers
that found the account enabled and have still to post; together they are one
for each worker.

### Contact resolution (`ContactIdentitiesProofs`)

- `TypeCorrect`: `Spec => []TypeOK`
- `ResolversAgreed`: `Spec => []ResolversAgree`
- `AnnouncedWhenCreated`: `Spec => []AnnouncedIfCreated`
- `WholeOrNothing`: `Spec => AllOrNothing`
- `RegistryImplemented`: `Spec => ImplementsRegistry`

The last is the refinement. Each initial state of the calls is one of the
registry, and each statement is a registry step or a stutter: `Placed` says by a
call's place what it stored and answered, `Inserted` that an open transaction
holds what it asked for and has not still to insert, so a commit adds all of a
call's addresses. `Exclusive` says a held address is free and held once, so
nobody's is taken. `Recorded` says owners, and the owners an old snapshot shows,
are stored contacts that owned the address: a claimed call answers one of those
even when the owner has changed since. `Owning` (while no address was removed, a
stored contact owns what it asked for) is what two resolvers agree by.

### Tasks (`TasksProofs`)

- `TypeCorrect`: `Spec => []TypeOK`
- `OneTask`: `Spec => []OneTaskPerOrigin`
- `UpdatesExact`: `Spec => ExactUnlessRaced`

`Creators` ties a stored task to the one call that may announce it, `Announced`
counts its events by where that call is, `Unique` is what the unique index keeps,
and `Fresh` says a call about to write still holds the stored row unless another
write overtook it.

### WhatsApp (`WhatsAppProofs`)

- `TypeCorrect`: `Spec => []TypeOK`
- `AnsweredAreStored`: `Spec => []AnsweredStored`
- `OneAnnouncement`: `Spec => []AnnouncedOnce`
- `FurthestStatus`: `Spec => []StatusFurthest`
- `LatestActivity`: `Spec => []ActivityLatest`

`Carried` says each message a request set out to store is stored or still
ahead of it, so that reaching the end means all are stored. `Unannounced` says a
message at its announcement is stored, was never announced and is at nobody
else's: only the request whose insert made the row gets there. `Timed` says a
message without a row has no time, and a row has a time its message could carry.

And of the fetcher:

- `MediaTypes`: `MediaSpec => []MediaTypeOK`
- `SettledMediaStays`: `MediaSpec => SettledStays`
- `ClosedMediaUntouched`: `MediaSpec => []ClosedUntouched`

The writes look at the stored row (`WHERE ... 'pending'`), which carries
`SettledStays`. `ClosedUntouched` needs `GatesRead`: between the gates and the
claim, a row pending in a workspace that did not record is left out with its
workspace or was not due at the sweep's time. That an ordered claim exists for
every finite set of rows would need induction; the claim is therefore any sequence
in the order (`Orders`), of which there is exactly one.

### Importer (`ImportCommitProofs`)

- `TypeCorrect`: `Spec => []TypeOK`
- `OneContact`: `Spec => []OneContactPerRow`
- `OutcomesTrue`: `Spec => []OutcomesJustified`
- `CommittedAccounted`: `Spec => []CommittedSettled`

What carries the first is that the mapping no longer changes once a commit is at
work (`Staged`) and that the contact of a row owns all the row's addresses, and
no others, from its creation on (`Created`): whoever comes to the row later meets
them owned. `Judged` says of the verdict a commit is about to record what
`OutcomesJustified` says of a recorded one. `Pursued` says a pending row is
still before every commit at its rows, so the statement that counts meets none;
`Alone` and `Settled` say when a count is exact, stored and announced.

### Custom fields and tenant graphs (`TenantGraphsProofs`)

- `TypeCorrect`: `Spec => []TypeOK`
- `AnswersStayCurrent`: `Spec => []AnswersCurrent`
- `GraphsStayCurrent`: `Spec => []GraphsCurrent`
- `BuildsExclude`: `Spec => []OneBuildAtATime`

Since `TenantGraphs` extends the catalogue's actions, the theorem about
`AnswersCurrent` is one of the composition. `Counted` and `Deserted` say a
flight counts its callers and that one stopped for want of callers has none,
`Joinable` that the flight a caller may join is neither stopped nor overtaken,
`Recent` that what is held or can be joined is as new as the last change
forgotten. `Stamped` says equal stamps stand for equal fields wherever a view is
kept: held, landed, answered or built from. `Locked` says callers on a lock are
on the one that exists and counted by it, so it is dropped by its last caller
only, and one of them at most is inside.

### Streams and lists (`LiveListsProofs`)

- `TypeCorrect`: `Spec => []TypeOK`
- `ChannelsOpen`: `Spec => []OpenWhileKnown`
- `JobsAreServed`: `Spec => []JobsServed`
- `OwnPages`: `Spec => []PagesOfTheseVariables`
- `NoneForgotten`: `Spec => []NothingForgotten`

`Watched` ties a subscription to the goroutine that ends it. `ReadsCurrent`
carries `NothingForgotten` through a reread: what the run of these variables
has read so far misses a change only while a frame or a name of it is on its
way, or the flag that asks for a reread is up.

### What is only model-checked

Liveness (`EventuallyHandled`, `EventuallySettled`, `EveryRowEnds`,
`EveryCallReturns`, `AllAnswered`), which TLAPS does not reach, and the three
expected violations.

## Findings

1. `webhook_attempt_id`: `docs/.../reference/webhooks.md:80` calls
   `X-AlphOne-Delivery` an id unique to the attempt. It is the row's id
   (`worker.go:173`) and the same on each retry.
2. `contact_conflict`: the comment of `CreateContactWithIdentities` promises the
   owner of a claimed address. If the claimant commits after the statement's
   snapshot, the statement answers no row and the caller gets an error that
   names nobody (`queries.sql:77-90`); `Resolve` then fails where it would have
   answered the other call's contact. A repeated call succeeds.
3. `task_completed`: the webhook guide promises one `task.completed` for the move
   into done. Two updates that both read the task open both announce it.

## Not modelled

Left out for good: resolvers and gates that only check and call; tokens and
settings, one statement each; cursors, encryption, mail, locales, address guards,
parsing of imports (computation on data no property here tells apart); MCP;
file storage, accounts, sessions and the login limiter, which libraries outside
the repository keep (the limiter is asked before a password is verified and
charged after, so concurrent attempts all pass a budget of one). Views and
generated code are most of the repository's lines: `src/graph/generated.go` and
the generated queries alone are nearly half of them.

Inside the modelled components: several workspaces except where they compete
(every statement is scoped by one), subscription creation, listings, wording of
errors and logs, message contents, phone numbers, signatures, the bytes of
media, values and entries of custom fields, the first page of a list and the
query cache that holds it, that a stream's slot and goroutines are freed in the
end, and a second stream of the same caller.

## Plan

1. Done: every component of the table that has a module is checked, and every
   invariant and action property its run checks is proved.
2. To do: abstract specifications of the webhook queue (an event reaches each
   subscription that listed it, or is given up) and of an import (each row comes
   to one outcome) with the refinements by `WebhookDelivery` and `ImportCommit`.
   Six hazards stay without a property because the code promises nothing there;
   `PROJECT.json` says so at each.
