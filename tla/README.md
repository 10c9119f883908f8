# mtgo-bot-api in TLA+

A verification development beside the Go code: TLA+ modules that model the parts
of the server with state worth checking, TLC configurations for small instances,
and proofs checked by TLAPS. Paths are relative to `src/`; a line number in a
comment of a module refers to the file it names.

## The system

One process serves the Bot API for many bots. `cmd/mtgo-bot-api` starts the HTTP
server (`internal/server`), which parses a request into a Query and gives it to the
manager (`internal/manager`). The manager keeps one `Client` per token
(`internal/client`) and owns the update queue of all bots (`internal/tqueue`), which
persists its events in `tqueue.db` (`internal/storage/tqueue.go`). A client connects
to Telegram once, ingests updates into the queue, and answers method calls; updates
leave the queue through `getUpdates` or through the bot's webhook `Deliverer`
(`internal/webhook`).

| component | state | operations | what makes it hard |
|---|---|---|---|
| update queue | events, head, tail of each bot's queue, under one mutex per queue | PushWithData, Get (with or without confirmation), Forget, Clear, RunGC, Replay | the SQL statements run outside the mutex, between two critical sections of one push; restarts |
| queue store | table `updates`, AUTOINCREMENT log_id | Push, Pop, GC, LoadAll | a failed statement is ignored; the log id is known only after the event is visible |
| delivery loop | cursor, pending, one queue per key, inFlight, results; active, cancel, done, firstError410 | Start, StopContext, run, deliver | one goroutine per POST; runs overlap; retries, 410 and 429; expiry |
| long polling | longPollCancel, longPollConflict, previous offset and start | getUpdates, abortLongPollLocked | one poll aborts another; webhook mode decided once per call |
| webhook configuration | row of `bot.db`, webhookSetBusy, deliverer | setWebhook, deleteWebhook, restore, close after 410 | configuration, deliverer and polls change in separate steps |
| manager | clients, GC loop, closeOnce | clientFor, StartGC, CloseContext, Shutdown | lock order with clients; deadlines |
| client connection | ready, connErr, closing, loggingOut, loggedOut, c.mu | ensureConnected, Dispatch, logout, closeBot, StopContext | a mutex held over a connect; flags read without it |
| ingestion | allowedUpdates | pushUpdateObj, updateExpirySeconds | stale updates, masks |
| message cache | LRU list, items, reverse index docs | put, get, sourceByMediaID | several messages carry one media id |
| upload flood limit | a time bucket per total size | computeFlood | arithmetic at the bounds |
| peer cache, chat access | table peers | SavePeer, checkWriteAccess, warm-up, resolve | stale flags and names |
| file-reference refresh | none of its own | tryRefreshFileReference | one retry with data from the cache |
| Bot API methods | none of their own; the peer cache and the connection | 174 handlers | every handler checks, connects, resolves, asks and changes in its own order; a call may fail at each step |
| conversion, types, file ids, answers, server parsing, stats, examples, schema | none that outlives a call | - | data mapping |

What makes each of the first components correct: no update is confirmed that the bot
did not receive; what is live in memory is on disk, and what is not live leaves the
disk; ids do not repeat; the delivery loop POSTs each update, in the order of its key,
until it is accepted or expires, and counts its POSTs exactly; a bot's updates have one
consumer, which row, deliverer and filter agree on; a bot has one connection, every
request is answered, and a shutdown without errors has ended every delivery, told every
connection to stop and closed the store; a method does what its answer says, in the chat it names. `PROJECT.json` lists every
component and, under `hazards`, the places where this is hard to test.

## Modules

| module | what it is |
|---|---|
| `TQueueOps` | the pure part of `tqueue.go`: which ids a confirmation, a trim, a read or the collector concerns; the ordered merge of the delivery loop |
| `TQueue` | one bot's queue and its table, with writers, readers, collector, failing statements and restarts |
| `UpdateQueue` | the abstract specification: what the queue promises the bot, without ids, table or locks |
| `TQueueRefinement` | the mapping under which `TQueue` implements `UpdateQueue` |
| `Deliverer` | the webhook delivery loop, its POSTs, and runs that follow one another |
| `Webhook` | who takes a bot's updates: overlapping setWebhook, deleteWebhook, getUpdates and delivery runs |
| `Server` | the manager's table, the clients' connections and ends, collector and shutdown |
| `Steps` | the language in which the handlers are written |
| `SendMethods`, `ChatMethods`, `BotMethods` | the handlers of the 174 methods as sequences of steps |
| `Requests` | a request that walks through such a sequence, with the peer cache, next to what Telegram does to the bot's chats |
| `TQueueOpsProofs` | lemmas on the operators |
| `TQueueProofs`, `TQueueDeliveryProofs` | the two inductive invariants of `TQueue` and their theorems |
| `TQueueRefinementProofs` | `TQueue` implements `UpdateQueue` |
| `DelivererProofs`, `WebhookProofs`, `ServerProofs`, `RequestsProofs` | the inductive invariants of `Deliverer`, `Webhook`, `Server`, `Requests` and their theorems |
| `MCTQueue`, `MCDeliverer`, `MCWebhook`, `MCServer`, `MCRequests` | small instances |

`Deliverer` is one run of `Webhook` seen from inside, `TQueue` one queue seen from inside;
`Webhook` is what `Server` calls the request `hook`. They are checked apart, since each
leaves to the other only what it does not look at: `Webhook` counts no updates, `Server` knows
of a deliverer only whether it runs.

### TQueue

`events`, `head`, `tail` are the fields of `queue`; the Go map is a function on the
live ids. `rows` is the table: a row has its `log_id`, event id, expiry and, for its
payload, the number of the update. A critical section of `queue.mu` is one action; a SQL statement is one
action; between the two everything else may happen. A push is
therefore `PushEvent` (id, insertion, trim), then one `PopOne` for each trimmed row,
then `InsertRow` or `InsertFails`, then `RecordLog` or `UndoInsert`; `push[w]` says
where writer w is. `pops[p]` holds the log ids goroutine p has still to delete after it
released the mutex. A failed DELETE puts its row into `leaked`, a history variable, so
that the properties can say what holds of rows no failure has touched.

`Poll`, `Confirm`, `Clear` and `Forget` are the calls of getUpdates (later turns and
first turn), of a negative offset, of drop_pending_updates and logOut, and of the
delivery loop. The bot is external: it receives an answer or loses it, and asks with
an offset it can have seen (`ack` is the largest update_id it received; offset = from + 1
with from at most `ack`). `Restart` discards memory and rebuilds it as `manager.New`
does; `loaded` is every row, or none when LoadAll failed, which New only logs.

The package's interface is modelled: hints, expiry 0 (never) and
any expiry. The server's only push, `pushUpdate`, passes hint 0, Extra 0 and a positive time to live.

### UpdateQueue and TQueueRefinement

`UpdateQueue` says what a bot may rely on: updates arrive in an order; a reader removes
only updates the bot has received or that are past their time; an answer passes over
none; the oldest may be dropped by the cap or on request, a delivered one by its webhook.
The mapping hides ids, rows, log ids and pops: `pending` are the updates of the live events,
`stale` those of the expired ones, `answers` what is on its way to the bot; `arrived` is
`issued` and `received` is `delivered`. It holds while the process runs. A restart breaks
it, as `tqueue_reuse` shows.

### Deliverer

The local variables of `run` have their names. A turn of the loop is `Load` (Get and the merge
into pending and queues), `Dispatch` for each POST started, `AllDispatched`, and one of
`TakeResult`, `PollTimer`, `Cancelled`. A goroutine inside `deliver` is a member of `posts`,
named by run, event and key; `Answer` ends it with 2xx, 410, 429 or another status,
or an error, and puts its result into `results` if its run still reads them. Time is
abstract: a retry sleeps until `Wake`, an update with an expiry may expire at any moment,
and a retry of such an update may be found hopeless. Whether 23 hours lie between two
410s is left open. `Start` and `StopContext` are called one at a time here; concurrent
ones are the matter of `Webhook`. An
update of Extra 0 has a key of its own; the server pushes only such, the package's
tests (`deliver_test.go:330-332`) others too.

### Webhook

Every setWebhook, deleteWebhook and getUpdates is a goroutine; a stretch under one mutex,
a SQL statement and a wait are one step each. `row` is the row of `bot.db`; `allowed`,
`busy` and `registered` are `c.allowedUpdates`, `c.webhookSetBusy` and the poll whose
`longPollCancel` is set; `active`, `config`, `cur` belong to the Deliverer, `on` and
`cancelled` are runs. `cmu` is a variable because deleteWebhook keeps `c.mu` while it waits
for a run to end.

`SetArgs` ... `SetLeaves` follow setWebhook from its arguments to the deferred release: the
filter takes effect before the later checks (`webhook_handlers.go:102`), the row is stored
before Verify and removed when Verify fails, `StartCancels` and `StartLaunches` are the two
critical sections of `Deliverer.Start`. `DelReads`, `DelLocks`, `DelHalts`, `DelErases` are
deleteWebhook. `PollArrives`, `PollChecksActive`, `PollChecksRow`, `PollJoins` are the three
separate looks of `hasActiveWebhook` and the registration. `RunEnds` is the return of a
cancelled run, `RunErases` and `RunRests` the two halves of the close after sustained 410
(`deliver.go:454-461`): the DELETE, whose error is ignored, and then the clearing of `d.active`.
`closing` are the runs between the two.

`faults` is a history of what properties exempt, each by name: a setWebhook that was
refused, failed to verify or could not undo (`refused`, `unverified`, `abandoned`), one that
overlapped another or a deleteWebhook, or whose new row the close deleted (`crossed`, `overlap`,
`closed`), a DELETE of deleteWebhook or of the close that failed (`kept`), a poll that set
its filter late (`late`), and a Start that launched its run inside the StopContext of a
deleteWebhook (`raced`), after which IsActive denies a run that exists. The exemptions
name where the code gives no guarantee, and each property holds for every other interleaving.
After a failed DELETE only the half of `RowAgrees` is exempted that the code breaks: a row may stay
without a run, never a run without its row, and `FilterAgrees` is not exempted at all;
`OneLongPoll` and `PollsBesideWebhookAreOld` hold for all.

### Server

`table`, `made` and `mmu` are the manager's; `ready`, `failed`, `live`, `stopping`, `closing`,
`leaving`, `hook` are the sets of clients with that flag; `gc` is the collector's loop and `store` its
store; `req` and `down` say where each request and the shutdown are. Two mutexes are kept over waits: `c.mu`
while a client connects (up to a minute) and `m.mu` while clientFor, at the cap, asks every client
whether its connection failed (`AskOne` waits for each `c.mu`). `StopExpires` and
`CloseExpires` are the deadline of the shutdown. A client evicted
while requests still hold it goes on existing outside the table.

A connection is taken down by a goroutine nobody waits for (`go conn.Stop()`, `client.go:123`,
`lifecycle.go:104`): `HandleClose`, `Stopped` and `StopExpires` put the client into `stopping`, and
`ConnStops` is the end of that goroutine. The comment of Shutdown says that it stops deliverers and
connections (`manager.go:160`), the one of StopContext that the connection's stop is launched
(`client.go:110-112`); main may return while connections are still up, and `CleanShutdown` says
that each was told to stop.

### Steps, SendMethods, ChatMethods, BotMethods

A handler is the set of its ways: the sequences of steps it takes if all of them
succeed, one for each branch its arguments choose. `a & b` is a followed by b, `a | b` the one or the
other. A step is a check, the connection, the resolution of a peer, a call (one that reads, one that
changes something, one whose error is forgiven), an upload, or a write to the peer cache.
What a step does, and how it can fail, is said once, in `Requests`. The three modules hold the
dispatch table's 174 methods in this form: which check stands before which call, what
is resolved how, whose refusal is ignored. Which arguments make a check fail, and what a call
carries besides its target, are left out.

### Requests

There is one chat of each type (a user, a basic group, a channel with a
username). `member` and `upgraded` are Telegram's side: the bot leaves, is kicked, joins
again; the group is upgraded. Each change sends an update into `inflight`, which `Ingest`
later writes into `rows`, the table `peers` by raw id, as `updates.go` and
`peer_warmup.go` do. A request arrives with one of the addresses its method
allows and takes its steps one by one; between two of them everything else may happen. Requests are
served one at a time: handlers share nothing but the rows, and the interleaving
that matters for those is with ingestion. A failed connect is not
remembered here, nor is a connection lost or logged out: both are in `Server`.

Two constants are choices about what is outside `src/`. `RawOf` gives the raw ids of the
three chats. They are apart in the runs; where a user, a group and a channel share a number, one
row serves them all and `RightAddress` is false (`store.go:235`). `MemberIdIsRaw` says that the
library reports the chat of a member update by its raw id, the reading in favour of the code.

## Runs

| run | question | bounds |
|---|---|---|
| `tqueue_crash` | do memory and disk stay consistent when two writers, a reader and the collector race, statements fail and the process restarts, and is a row whose event is gone deleted in the end? | ids 1..2, cap 1, 3 updates of life 0 or 1, clock 1..2, 1 restart; FairSpec; 810,587 states |
| `tqueue_run` | within one run of the process: fresh ids, exact head, nothing confirmed unseen, nothing confirmed returns, and does the queue implement `UpdateQueue`? | 1 writer, 2 readers, ids 1..3, cap 2, 3 updates; 831,826 states |
| `tqueue_reuse` | violation: does a confirmation ever drop an update the bot never saw? | 2 updates, 1 restart |
| `deliverer_loop` | are the per-key queues exact and the updates of a key in order? | 3 updates, keys 7 or own, batches of 2, 2 connections, 1 run; 896,510 states |
| `deliverer_rerun` | do POSTs of an old run disturb the next: counts, repeats, updates given up? does the invariant of the proofs hold? | 2 updates, 2 runs; 327,957 states |
| `deliverer_served` | is every loaded update served? | 2 updates, 1 connection, 1 run, FairSpec; 34,501 states |
| `deliverer_skip` | violation: is every update of the queue POSTed? | as above |
| `webhook_modes` | do row, deliverer and filter agree, is there one run and one long poll, does every request end? does the invariant of the proofs hold? | 2 setters, 1 deleter, 2 pollers, 1 url, 2 filters, 3 requests, FairSpec; 185,200 states |
| `server_life` | one connection per bot, clean shutdown, no request and no shutdown stuck? does the invariant of the proofs hold? | 2 requests at a time and 3 in all, 2 bots, room for 1 client, FairSpec; 108,189 states |
| `server_restore` | violation: does a webhook survive a restart of the server? | as above, one bot with a webhook row |
| `requests_all` | for each method: is it connected before its first call, does ok tell what happened, do refusals change nothing, is it the right chat, are only chats refused the bot was out of? does the invariant of the proofs hold? | every handler of the 174 methods, every type of chat, 1 event, 1 update in flight; 1,067,647 states |
| `requests_blocked` | violation: is a request to a chat the bot is in ever refused? | sendMessage and getChat, 3 events, 2 updates in flight |

The bounds let the cases happen that matter. With a cap of 1 every second push trims;
with two ids the third push finds the queue full; a life of 1 with a clock of 2 lets
the collector, a push and a reader see one event before, at and after its time; three
updates with batches of two let one update arrive behind a loaded batch and two share a key
while a third does not. Three requests are a setWebhook, a second one or a deleteWebhook that overlaps it,
and a poll that looked before either; two pollers end one another. The run of a setWebhook may
close at any step of the other requests. With room for one client
the second bot finds the table full, and its request waits for the first client's connect. One event next to a
request is a membership that changes between any two of its steps, with the update
before, between or after. Where several methods have the same ways and no property exempts one of
them by name, one stands for all (`EveryHandler` of `MCRequests`: 135 of the 174), since a
request's steps depend on nothing else of its method. The cap, MaxID (2,000,000,000), the batch of 100
and the limit of 100 are constants of the modules. Deadlock checking is off where the counters
are bounded and a system without work rests; in `Requests` a request always ends, and it is on.

Every property of a passing run is broken by a mutant of the code, defined beside the
definition it replaces and marked as such in its comment.

What the handlers' properties exempt by name is what the code does: `PartlyDone`
(banChatMember, copyMessage) make two changes and may be refused at the second;
`MayAnswerHollow` answer ok though nothing changed (a forgiven refusal, and sendGift);
`Misaddressed` (deleteMessage and deleteMessages in a user chat or a basic group, setChatMenuButton)
name no chat in the call they make.

### The four violations

*Ids are issued again after a restart* (`tqueue_reuse`). `Replay` rebuilds `tail` from the
rows that survive (`tqueue.go:457`). When the bot has confirmed the events with the highest ids, or they
expired, a restart lets ids begin again below the bot's offset. The bot's next
getUpdates then confirms, and removes, a new update it never received. The
comment of `EventID` says ids are strictly increasing within a queue; New's comment says that
replay lets getUpdates resume.

*The cursor skips an update* (`deliverer_skip`). After a batch whose last id is n, the
loop sets its cursor to n + 1 (`deliver.go:398-400`), and Get returns ids strictly
above the cursor (`tqueue.go:198`). If update n + 1 arrives after the batch was
loaded, it is never POSTed while the loop runs. It stays in the queue until it expires or the webhook is restarted.

*A restored webhook blocks its client* (`server_restore`). `ensureConnected` takes `c.mu`
(`client.go:147`), connects, and calls `restoreWebhookLocked` (`client.go:171`). If the bot has
a row, that calls `applyAllowedUpdatesNormalized` (`webhook_handlers.go:56`), which locks `c.mu`
(`getupdates.go:339, 348`). Go's mutexes are not reentrant: the first request after a
restart hangs with the mutex held, every later request of that bot with it, and the manager too once its table is full
or it shuts down. `webhook_handlers.go:45-46` says the restore is there so that webhooks survive restarts.

*A stale answer refuses a chat for ever* (`requests_blocked`). getChat asks for the full channel and
reads that the bot has left; the bot is added again and the update is ingested; then getChat
saves "left" (`chat_info.go:141-146`). Updates whose channel carries Left=false do not clear it
(`updates.go:96-98`), and `checkWriteAccess` answers 403 to every send. `chat_access.go:16-18` says it can never block a legitimate send.

### Seen while modelling

Not stated as properties, since they concern data the models abstract or are what a property
exempts, but worth a reader's time:

- Negative ids of basic groups go into calls as they came: `chat_admin.go:157, 224, 346, 450`,
  `chat_info.go:51, 178, 308, 386, 448`, `chat_settings.go:47, 148, 188, 240`, `chat_verify.go:155`.
- `parseChatID` and `extractChannelID` test the decimal prefix "-100".
- `toInt32Slice` drops ids without a word; deleteMessage narrows its id to 32 bits; so does
  getUpdates its offset (`getupdates.go:106`).
- stopPoll reads its message without the channel; readBusinessMessage resolves its peer
  before connecting (`business.go:166`); createNewStickerSet ignores stickers given as descriptors.
- sendRichMessage, sendChecklist, sendLivePhoto, sendGame and sendPaidMedia make no
  write-access check.
- When the DELETE of the close after sustained 410 fails (`deliver.go:456`), the webhook row stays and
  nothing delivers to it: getUpdates answers 409 until a setWebhook, a deleteWebhook or a restart.
- The map of flood buckets only grows (`upload_flood.go:96-102`); two getFile calls for one file
  share a temporary path (`files_download.go:202, 224, 238`).
- The warm-up of peers does not keep `migratedTo`; a SavePeer without a username erases a cached one.

## Fairness

`TQueue`: a goroutine inside a push, a pop loop or the collector goes on (weak
fairness of each step): the Go scheduler runs it and SQLite answers or fails, its
`busy_timeout` bounding the wait. Nothing is assumed of arrivals, readers or restarts.

`Deliverer`: the loop's steps are weakly fair. Taking a result and starting the POST of
a particular ready update are strongly fair: the timer of the select runs 100 ms while
a result is ready at once, and Go starts the range over a map at a random place. Every
POST ends (http.Client has a timeout of 30 s). `LoadedIsServed` also assumes of the
webhook that it does not refuse one update for ever; `EveryUpdatePosted` fails even so.

`Webhook`: weak fairness of each setWebhook and deleteWebhook and of the end of a run that was
cancelled or closes. Statements and Verify are bounded in time, a waiter for a mutex gets it, and run
selects on its context. Nothing is assumed of polls or of new requests.

`Server`: weak fairness of each request and of the shutdown while the process is up:
connectTimeout bounds a connect, calls to Telegram end, shutdownTimeout bounds the waits. Nothing
is assumed of how long a connection takes to go down.

## Proofs

`TQueueProofs` proves for all values of the constants, under the assumptions the
module `TQueue` names (the sets of goroutines are disjoint, bounds and inputs are
natural numbers): `TypeCorrect`, `RowsAreOwned`, `RecordedEventsDurable`,
`RowsHaveDistinctIds` and `IdsAreFresh`, so for any number of goroutines, updates and restarts.

The inductive invariant is `StoreInv` (theorem `StoreInvariant`). That a row is owned is not inductive by itself: an
`UndoInsert` deletes by log id, so one must know that no other event has recorded that
log id (`LogsApart`), and that the event still in the queue under the writer's id is
the writer's own (`PushPending`). That a live event is on disk needs the same for the
row a writer has inserted and not recorded (`InsertedOnDisk`), and that ids are
unique on disk needs rows to lie behind `tail` (`RowsBehindTail`). The steps are sorted by lemma `StepKinds` into
those of a push, those that remove events, and those that touch neither, and each part of
the invariant is shown to survive each kind; `Restart`, the collector and the pops are
treated by themselves.

`TQueueDeliveryProofs` proves, under the same assumptions, `HeadIsExact`,
`OffsetDropsOnlyReceived` and `ConfirmedStaysGone`. The first rests on ids being fresh:
a push moves head only into an empty queue or with a trim. The other two
hold as long as the process has not been restarted (the run `tqueue_reuse` shows why), and
follow from `DeliveryInv`. An offset is harmless when every unexpired event up to `ack` has been received
(`SeenUpToAck`); an answer raises `ack` past events of which it holds some, so that
while it is on its way every event up to its last id must be received,
expired or in it (`AnswersComplete`). `getLocked` establishes this, since what it returns is
closed below (`LowestClosed`); others only remove events, or push above `tail`.
That a confirmed update stays gone needs the live events to be of distinct updates
(`UpdatesDistinct`).

`TQueueRefinementProofs` proves `TQueueIsAnUpdateQueue`: if the process is not restarted (assumption
`MaxRestarts = 0`), `Spec => Queue!Spec`. On top of the invariants above it needs that ids and
numbers of updates run alike (`IdsInOrder`), so that the lowest ids are the oldest updates. Each action maps to an abstract one or to a
stutter: a push that inserts is `Arrive`, with what the cap trims as the dropped ones; a push that finds no id is
`Reject`; `Poll` and `Confirm` are `Take`, the latter with what it confirms; the collector, `Forget` and `Clear` are
`Drop`; whatever leaves the events alone, the clock and the SQL statements among it, is `Expire` or a stutter.

`DelivererProofs` proves for any number of updates, runs and connections that `LoopInv` is an invariant of `Deliverer`, and
from it type correctness (the counter of POSTs does not fall below zero), `QueuesHoldPending`,
`NoRepost`, `GivenUpForCause`, `OrderedPerKey` and `InFlightAccounted`. None of these is inductive alone:

- Order: a marked update is the head of its queue (`MarkedAreHeads`) and queues increase,
  so what is POSTed or accepted after it has a larger id, while an update accepted in the run
  has left or is about to leave (`AckedIsDone`). Loaded ids lie above the cursor, pending
  ones below (`BehindCursor`), so appending a batch keeps a queue sorted (lemma `JoinInOrder`).
- Count: POSTs under way and results not taken are of marked updates, each at most once
  (`PostsAreMarked`, `ResultsAreMarked`, `MarkedIsAccounted`), so the counter is their number
  (`Counted`, by a bijection of results and ids). POSTs of earlier runs are not counted, and their results do not reach the channel.
- No repeat: an accepted update still pending has its result waiting, so it is marked, and no
  marked update is ready.
- That a set of ids can be put in order (`InOrder` chooses the sorted sequence) is lemma
  `CanBeSorted`, shown by a least counterexample.

`WebhookProofs` proves for any number of requests that `WebhookInv` is an invariant of `Webhook`, and from it every
safety property of the module. Each part of it is kept by every step in which the parts before hold:

- `RunsExact`: a run starts when none is on, since its Start waited for the last one
  (`WaitsForLast`), and no other setWebhook starts one meanwhile (`OneSetting`, by webhookSetBusy).
- `RowAgrees`: `RowInStep` says what row, `IsActive` and configuration are at each step of a setWebhook, while
  deleteWebhooks work, and between the halves of a close; it holds even after DELETEs that failed. The other
  direction, that a row has a run or somebody who deletes it, is `RowServed`: a run that nobody waits for is
  not cancelled (`CancelledAwaited`), so when it closes after sustained 410 it deletes the row, unless the DELETE fails.
- `FilterAgrees`: likewise `FilterInStep`, also after DELETEs that failed.
- `PollsBesideWebhookAreOld`: a poll that has seen no webhook since the last abort is right about it
  (`PollsLookLate`), since whoever starts a run aborted the polls and kept later ones out by busy. It
  needs none of the exemptions.

`ServerProofs` proves for any number of bots, requests and clients that `ServerInv` is an invariant of `Server`, and from
it type correctness, `OneConnection`, `CleanShutdown` and `StoreOpenForGC`. A step belongs to the manager, to one
client or to the process, and leaves the others' conjuncts alone (`ManagerStep`,
`ClientStep`, `ProcessStep`). A client that leaves the table has failed (`OnlyFailedLeave`), one that failed runs nothing
(`FailedIsBare`), and a failure cannot come after the connection because the request that connects
keeps `c.mu` over it (`MutexesKept`, `ConnectingIsBare`). `Stopping`: what is live and not told
to stop, and what delivers, once the requests have ended, is on the shutdown's list. `MadeByCalls` counts clients against calls and needs the requests to be finitely many.

`RequestsProofs` proves that `RequestsInv` is an invariant of `Requests`, for every set of methods, all raw ids and any
number of events and updates, and from it every safety property of the module. The argument has three parts.

- The handlers (`WaysOrdered`). What the properties rely on is the order of steps, in four forms: no step of a
  kind (`Never`), some step of it (`Always`), none before one of another (`First`), none after it (`Apart`).
  Each form goes from the parts of a handler to `a & b` and `a | b` (lemmas `NeverSeq` to `ApartOr`), so it is
  shown of the single steps and then of the 174 definitions, without enumerating their ways. `Ordered`
  collects it: connected before called; a change in every way of a method that changes things and in none of
  one that reads; nothing that refuses after the change; the channel's raw id only after a check that the
  chat is a channel; messages.deleteMessages with no target before it.
- What is left of a request. `Shapes` reduces the actions to five shapes: a request starts, enters its handler, passes a
  step, is answered, is gone. Passing a step leaves the tails of the ways (`Passed`), and each form survives that,
  with what the request has by now: `ConnectInv`, `OkInv`, `RefusalInv`, `TargetInv`, `LeaveInv`. The answers are not
  inductive without them: that an ok means a change follows only if a request without one still has one before it.
- The peer cache. Whatever says that the bot is out of a chat was true of it at some time: Telegram's side, the updates on
  their way, what getChat has seen, the rows (`OutInv`, `RowsInv`; lemmas `SavePeerGood` to `warmPeerCacheGood`, one
  per writer). An update may be old, so no row need be true still: `requests_blocked` shows what comes of that.

Types, `ConnectsFirst`, `OkTellsWhatHappened` and `RefusalsChangeNothing` hold for all raw ids. `RightAddress` and
`RefusedOnlyIfOut` are proved under `RawIdsApart`, that no two chats of the bot share a raw id, because `ResolvePeer` and
`checkWriteAccess` read the row of a raw id as the row of the chat. The run `requests_all` meets it; Telegram does not
promise it.

Only model-checked is what is temporal beyond
invariants and steps: `RowsDrain`, `LoadedIsServed`, `RequestsEnd`, `RequestsAnswered`, `ShutdownReturns`.
Liveness, ENABLED, induction over recursive data and modules
with RECURSIVE operators are out of the prover's reach; the modules declare none.

## Not modelled, and what is left

Left, in this order:

1. `MsgCache`: the LRU list with the reverse index that several messages of one media id share.
2. Arithmetic against reference definitions: computeFlood, the backoff and expiry tables, the 32-bit
   offset of getUpdates, the run-length coding of file ids.
3. The pacing of repeated polls; dialGate and the IP cache around Verify.
4. What a failed auth.logOut leaves in the queue, which composes `Server` and `TQueue`.

Not planned: conversion and types, answers' wording, JSON and multipart parsing, the SSRF
filter, statistics, schema tools and examples. They keep no state between calls, and what could
be wrong in them is the mapping of data.
