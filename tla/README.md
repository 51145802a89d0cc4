# Verification of jiffy-messaging

TLA+ specifications of the messaging service in `src/`, model-checked with TLC;
every safety property of a passing run is proved with TLAPS as well, for all
values of the constants (one, under a hypothesis named below). Every definition is
translated from the code and names it in `PROJECT.json` ("map").

    tlc -workers 2 -config ServiceReads.cfg MCMessagingService.tla
    tlapm MessagingServiceProofs.tla

## The system

| part | state it keeps | operations | what makes it correct |
|---|---|---|---|
| core `MessagingService` | none of its own; locals of handlers that await | create, get, list, send, delete message, delete (clear) conversation, mark read | answers are truthful, one tombstone per message, authors only, cleared history stays gone, the gate is asked on every write |
| Postgres stores | `conversations`, `conversation_participants`, `messages` | one transaction (create), one statement per other call | rows change only as `MessageLedger` allows |
| in-memory stores | a Map and an array | the same ports | same pages as Postgres |
| conversation gate | none (asks the host) | `canCreateConversation` | fails closed, always answers |
| message notifier | none (calls the host) | `notify` | only for stored messages, only the other participants |
| message bus | an emitter; for Redis two clients and a subscription | `publish`, `onMessage` | what is published reaches the listeners once |
| WebSocket server | registry of sockets, expiry timers, a gauge | upgrade, deliver, expire, close | only participants, nothing twice, nothing missed while open, no socket outlives its token, the three books agree |
| connection rate limiter | a Map of windows per source | `allow`, `sweep` | bounded bursts, no refusal without cause, no growth |
| HTTP layer | rate-limit counters | routes, auth, errors, health, metrics | every request answered; identity from the token only |
| process | listening or closing | `parseEnv`, `run`, `shutdown` | refuses a configuration that would leave it half guarded; stays up when a dependency is down; shutdown ends |
| schema application | the columns a database has | apply every file, check | rerunnable after any failure; a version never serves without its columns |
| deployment | checkout, `dist/`, `.env` and its copies, a service | deploy, roll back | DEPLOY_OK and ROLLBACK_OK are said of what really runs |

A request travels router -> core -> stores (awaits), gate (await), then bus and
notifier without waiting, then the response. The bus calls the WebSocket
server's listener, in the same process or, over Redis, in every instance; the
listener awaits the conversation's participants and pushes to the sockets its
registry has for them.

What is hard here:

* **Interleaving.** There are no locks. Handlers interleave at every await, on
  one instance and between instances; the database serialises single
  statements only. Lookups authorise writes made one or two awaits later.
* **Clocks.** `created_at` is the database's, in microseconds; `cleared_at`,
  `last_read_at`, `deleted_at` are a service host's, in milliseconds, and are
  read before the statement that stores them is applied.
* **Partial failure.** A statement may take effect and its result be lost;
  publishing is best effort after a durable write; Redis keeps nothing.
* **Order.** Publishing is not awaited and deliveries are not queued.
* **Lifetimes.** Sockets, timers, subscriptions and processes end on their own.
* **Releases.** A deploy changes five things one after the other, each command may
  fail, the session may drop, and nssm restarts the process whenever it ends.

`PROJECT.json` lists each hazard at its line, with the properties that watch it.

## Modules

| module | models | status |
|---|---|---|
| `MessageLedger` | abstract: what may ever happen to a message | checked, proved against |
| `MessagingService` | core + Postgres statements + gate + what is published | checked, proved |
| `MessagingServiceProofs` | theorems about it: writes, and the ledger | proved |
| `ReadsAndMarkersProofs` | theorems about it: threads, the list, clears, read markers, deletions on the bus | proved |
| `FixedWindow` | abstract: what a fixed-window limiter promises | checked, proved against |
| `ConnectionRateLimiter` | `connection-rate-limiter.ts` | checked, proved |
| `ConnectionRateLimiterProofs` | theorems about it | proved |
| `Delivery` | buses, registries, `deliverToParticipants`, several instances | checked, proved |
| `DeliveryProofs` | theorems about it | proved |
| `WebSocketServer` | upgrade, registry, gauge, expiry, shutdown of one instance | checked, proved |
| `WebSocketServerProofs` | theorems about it | proved |
| `History` | paging back through a conversation, both message stores, the client | checked, proved |
| `HistoryProofs` | theorems about it | proved |
| `Configuration` | `parseEnv` and what `run()` wires | checked in `Deploy` |
| `Schema` | `apply-schema.mjs` | checked in `Deploy` |
| `Deploy` | `deploy.yml`, `deploy.ps1`, nssm; composes the two above | checked, proved |
| `DeployProofs` | theorems about it | proved |
| `LeastElement` | the least element of a set of numbers, which two of the proofs need | proved |
| `MC*` | constants for TLC | |

### MessagingService

A request is a process: `phase[r]` is the await its handler is suspended at,
`call[r]` what was asked, `at`, `snap`, `row`, `todo` the handler's locals,
`reply[r]` the answer. Each action is what the code does between two awaits.
For example `sendMessage` is `CallSend` (blank body refused before any await),
`Lookup` (`requireParticipant`), `GateAllows`/`GateDenies`, `Insert` (the
INSERT takes effect), `Sent` (its result is in: publish, notify, answer).
`deleteMessage` is `Lookup`, `FindMessage`, `SoftDelete` (the guarded UPDATE),
`Reselect` (its second SELECT, when another delete won), `TakenBack`. `Fail(r)`
may strike at any await: before the statement, or after it took effect and
before the handler hears. The tables are `members`, `clearedAt`, `lastReadAt`
and `messages`; `clock` is the database's, and `Date` the instants `new Date()`
may give on some host (whole milliseconds, skewed). `related` is the host's
changing answer about who may talk. `frame` and `notified` are what has left
the service.

The rest is history, used by properties only. Of a request since its call:
`before`, the rows stored then; `held`, the groups related then; `marks`, every
`cleared_at` its reader has had, in all conversations; `since`, when it and the
clears of the same row it races were called; `known`, the marker it is about to
move, as it was. `unsure` are the messages whose deletion a failure, or a race
with their own send, may keep from the bus.

Abstracted: text is `"text"` or `""`; ids are unused model values, as
`gen_random_uuid()` gives; a list of messages is the set of rows its WHERE
selects, without order and paging.

### MessageLedger

A message is posted once by a participant, may be taken back once, and nothing
else ever happens to it. `LedgerSpec` is its specification over the service's
own `members` and `messages`: the refinement mapping is the identity, and every
other step of the service stutters.

### ConnectionRateLimiter and FixedWindow

`windows` is the Map; `allow()` is `Renew`, `Count` or `Refuse`; the timer's
callback is `Sweep`, at any moment. `log` and `refused` are history. In
`FixedWindow` windows close by themselves as time passes; the limiter, whose
entries stay in the Map until they are replaced or swept, implements it under
the mapping that sees an entry only while its window is current: the sweep
cannot be observed.

### Delivery

Several instances. A publication is a message, live or as a tombstone. In
process, `publish` is a synchronous emit, so `PublishInProcess` leaves one
`deliverToParticipants` call waiting for `findById` (`lookups`); with Redis it
is a command in the instance's `outbox`, which Redis fans out into the
`channel` of every subscribed instance (`RedisAccepts`), and `Receive` starts
the lookup. `Deliver` is the synchronous loop after the await, over the
registry and readyStates of that moment. `LookupFails` is the rejected lookup,
which nothing catches; `IdleClientFails` and `SubscribeRejected` are the two other
errors of a dependency that end the process, an 'error' event of the pool and the
rejection of `void subscriber.subscribe()`. `IdleClientFails` may strike at any
time: every query, and every probe of `/ready`, leaves the pool an idle client. Redis and ioredis are external: subscriptions are lost
and made again, queued commands given up, an unanswered command sent twice.
`heard` is history: what was published while a socket was open for a
participant and its instance subscribed, less what Redis is known to have lost
since (a dropped subscription, a queue of commands given up).

Live messages are published before their tombstones here. The other order is
possible as well (see Known limits); what this module
finds, it finds without it. Each socket connects once and each publication is
made once: reconnections are other sockets.

### WebSocketServer

One instance, attempts to connect, a clock. `Upgrade` is the synchronous part of
the listener (the limiter's verdict is a choice; its rules are the other
module's), `Verify`/`Reject` the awaited verification, `HandleUpgrade` the
callback that fills registry, gauge and timer, `Close` the `close` listener.
`Crash` is an error nothing handles (`Unhandled`): a URL that `new URL` refuses,
outside the `try` and so an unhandled rejection; an 'error' of the raw socket
during the verification, or of a WebSocket, for which there is no listener.
`opened` and `closed` are history, when a connection was made and when the server
closed it.
`Delay` is `setTimeout`, which turns a delay beyond 2^31-1 ms into 1 ms.

### History

One conversation, one reader. `Stamp` and `Commit` are the two halves of an INSERT:
`now()` is the start of the transaction, and the row shows later. `Created` is what
`created_at` holds, a tick of the database's clock or, in memory, a millisecond.
`PagePostgres` and `PageMemory` say which sets of rows `listByConversation` may
return; which of two rows with one instant comes first is Postgres's choice.
`Clear` is the UPDATE, and stores any instant the clock of a host has, or had when
the handler read it: `cleared_at` may move either way, in Postgres; in memory both
are one turn. `hidden` is history: of what was stored when the scroll began, what
some `cleared_at` has hidden since. A
page is a set because the order within it is `created_at`'s. `LookUp` is
`requireParticipant`, one await before `Select`, so a clear in between is not
seen. The client is external: it passes the `createdAt` of the oldest row it was
shown, which JSON gives in milliseconds, as `before`, and stops at an empty page.
Deletes keep their row and its `created_at`, so they do not appear.

### Configuration, Schema and Deploy

`Deploy` is the release of one version and configuration after another. `step` is
the command the script is at; `Begin` is the one line of the workflow (write
`.env.incoming`, read HEAD, reset), `Refused` its exits 90 to 92. Each throwing
command either works or is `Throw`, which goes to the rollback; the commands of
the rollback report a failure and go on, except `Copy-Item`, which throws out of
the catch block (`RestoreThrows`). `Spawn` is nssm starting, and restarting, the
process on the `dist/` and `.env` then on disk; a process that finds either
missing, or whose configuration `Parses` refuses, ends at once. `Dropped` is the
end of the SSH session, `Reboot` the host's. `trusted` is history: no run was
dropped, and no rollback was incomplete, since the last DEPLOY_OK.

`running` is the version and what it is wired to: database, kind of token, bus,
gate, notifier. `Ready` is `/ready`, `SELECT 1`, so an empty database answers it;
that the database is down is the choice of a probe, or of the schema step, to
fail. `Schema` takes the files of the checkout in order, each one transaction; a
database's schema is the set of files whose columns it has. What the workflow
writes is `Assembled`; it does not notice half a pair, which the process does.

Assumed: a process that runs answers `/health` within the four seconds the script
waits. One that does not is taken for stopped, and may answer `/ready` afterwards.
The port is 8080, as the workflow writes it. A build that fails may have wiped
`dist/` (tsup's `clean`), or not have begun. A failed `pnpm install` is a failed
command, without a state of its own.

## Runs

Passing runs:

| run | asks | bounds |
|---|---|---|
| `ServiceWrites` | truthful answers, revocation, one tombstone by its author, nothing published early, deletions reach the bus, `LedgerSpec` | 3 users, a seeded and a new conversation, one message, 2 requests at once, any await fails, the host changes its mind |
| `ServiceReads` | threads and the list are complete and current; clears hide what they were called to hide, and take nobody back | 2 users, 2 requests of anybody at once, one conversation and message, milliseconds of 2 ticks, 2 hosts a tick apart, 3 ticks, no failures |
| `ServiceAnswers` | every request is answered; read markers take nobody back | 2 users, 2 requests of anybody at once, one conversation and message, 2 ticks, fairness |
| `Limiter` | bursts, refusals, `FixedWindowSpec`, over entries go | 2 sources, limit 2, window 2, 5 ticks, fair sweep |
| `DeliveryInProcess` | to the audience only, nothing missed while open | two tabs of one user and a stranger's socket, a failing database, crashes, restarts, fairness |
| `DeliveryRedis` | once, nothing stranded | 2 instances publishing, one socket, every Redis failure, crashes and restarts |
| `Sockets` | registry, gauge, timers; no early close, no late one; shutdown ends | 2 connections, 2 users, tokens that expire soon, beyond `MaxDelay` or never, crashes, 6 ticks, fairness |
| `Scroll` | no row twice, none skipped, the stores agree, a scroll ends | 3 messages over 4 ticks of half a millisecond, default 1, cap 2, limits 1, 3 and none, clears of any instant in any order, both stores, fairness |
| `Deploys` | what DEPLOY_OK and ROLLBACK_OK mean, columns are there, a good version comes back | 2 versions, the later with one file more; 3 configurations (gated; ungated on a second database; half a gate); any number of deploys and failures |

Two requests, two or three users and one message are enough for every
race: each property relates at most two requests that touch one message or one
participant row, previews of two conversations touch nothing in common, and the third user is the outsider a message must not reach.
The two requests may be of one user, so a clear of the reader's own falls
between the awaits of a read, and clears and read markers cross. What is proved
is proved for any number of each.
The clock's bound leaves room for a write before, at and after each stored
instant. `Scroll` has room for two full pages and an empty one, and two
milliseconds with two instants each. `Deploys` bounds nothing but its
sets: a file added by the later version and a second database are what a rollback
can leave behind. The limiter's five ticks cover two windows and the seam between them.
In `DeliveryRedis` an answer is lost at most once per publication; the
subscription may be lost any number of times. `CHECK_DEADLOCK FALSE` is said
where a model can really come to rest: an exited process (`Sockets`) or a scroll that is done (`Scroll`).
`HostChanges` is FALSE where the gate's mind plays no part, which keeps a run
small. The constants of a run are the only thing its cfg sets.

Runs that find the code disagreeing with its documentation (each stated in
`PROJECT.json` "findings"):

| run | what happens |
|---|---|
| `ClearsRace` | two concurrent clears: the earlier instant is stored last, hidden messages come back |
| `DeliveryDatabaseFails` | the lookup of a delivery rejects: the process ends |
| `RollbackLies` | a run is dropped after its reset; the next one fails, "restores" that commit and says ROLLBACK_OK |

### Known limits of the passing runs

What their properties except, each for a reason in the code, and what they do not say:

* `ThreadIsCurrent`, `ListAgrees`: the user's own clear, in flight with the read,
  may be seen or not, so an answer is right as of one `cleared_at` the user had
  since asking (`marks`), the same for all conversations.
* `ClearHidesHistory` is about what was stored before the clear, and the clears it
  races, were called, by the clock of every host cut to milliseconds; the rest of
  that millisecond stays visible, as `new Date()` is cut to milliseconds and
  `now()` is not (src/README.md:221-222 says that all of it drops out). A host whose
  clock is ahead also hides what is sent next, which no property here forbids.
* `MarkersAdvance` compares a marker with the one that was there when its request
  was called, less the difference of two hosts' clocks. Between the two, a marker
  may well go back: `ClearsRace`.
* `DeletionReachesBus` excepts `unsure`, where src/README.md:209-212 promises that a
  client with a WebSocket sees the deletion. A delete fails after its UPDATE; the
  retry answers with the tombstone (messaging-service.ts:184) and publishes nothing.
  Or a message is deleted between its INSERT and its publish: its text is published
  after its tombstone, and is what a client ends up with.
* `ClosedOnlyWhenExpired` excepts tokens good for longer than `MaxDelay`, the 24.8 days
  `setTimeout` can wait: their connection is closed after 1 ms, where
  websocket-server.ts:53-56 says once the expiry arrives.
* `Delivery`: what is published before an instance is subscribed (nothing waits
  for `subscribe`), while its subscription is down, or with Redis down is not
  delivered, to the sockets of the publishing instance neither, though
  docs/deployment.md:442-444 says that only cross-instance delivery is lost.
  `NothingStranded` and `SubscribedMissNothing` are about everything else, by `heard`.
* `Delivery`: an idle connection of the pool that the database ends has no 'error'
  listener (main.ts:214) and ends the process (`IdleClientFails`), as the rejected
  lookup of `DeliveryDatabaseFails` does; the properties hold across both.
* `Delivery`: two lookups of one conversation resolve in the other order, and a
  client is pushed the tombstone first and the deleted text last. No property
  says it is not: each delivery awaits its own `findById` and nothing queues them.
* `Scroll`: a message that shares the millisecond of the oldest of a full page, and
  is older, is never shown, since the cursor is that millisecond. `NothingSkipped`
  excepts those that share one with a row that was shown, and what some `cleared_at`
  hid during the scroll, even if an older instant was stored since (`hidden`).
  Without a limit, or with one above the cap, the stores differ: memory returns
  everything.
* `Deploys`: during a run the process that crashes comes back on what is on disk,
  so between the promotion of `.env` and the build the old version may serve on
  the new configuration, even on a database without its tables. The properties
  are about what a run leaves. A write of `.env.incoming` that fails leaves the
  file of an earlier run, if that run was refused, and it is deployed; the
  properties are about what was promoted. After a dropped run, or a rollback that
  was incomplete, nothing is claimed until the next DEPLOY_OK: `RollbackLies`.

## Fairness

* `MessagingService`: weak fairness of each request's own steps. The database
  answers, and the gate's request is aborted after five seconds. The
  environment (new requests, the host's mind, the clock) owes nothing.
* `ConnectionRateLimiter`: weak fairness of the sweep, a `setInterval`.
* `Delivery`: weak fairness of the subscription, of Redis taking a command, and
  of the event loop (reading the channel or settling a lookup). Restarts owe
  nothing. Only `DeliveryInProcess` uses it: `NothingStranded` says for Redis,
  without fairness, that what has to be delivered is still held somewhere.
* `WebSocketServer`: time passes, verification settles, due timers fire, `ws`
  destroys a socket that has been closing for 30 s, and the close callback of
  the HTTP server runs. No client has to do anything.
* `History`: the service answers a page and the client asks for the next one.
* `Deploy`: nssm starts a started service whose process has ended. The script
  owes nothing: its session may drop.

## Theorems

Every theorem is about `Spec` and uses no fairness. The constants obey the named
assumption of the module, which TLC evaluates in every run; one theorem asks more
(`NothingIsStranded`), by a hypothesis named below. Each inductive invariant was
checked by TLC on the constants of a run before it was proved.

### MessagingService

For any users, conversations, messages, requests, groups, clock granularity and
skew, and with failures anywhere (`ServiceAssumption`):

* `Invariance`: the inductive invariant `Inv`. The properties are not inductive
  by themselves: an acknowledged delete answers with the tombstone because the
  row its handler holds equals the row in the table, which holds because a
  deleted row never changes, which needs every handler that is about to UPDATE
  to have seen its message stored. `OnPath`, `CreateOnPath`, `SendOnPath` and
  `DeleteOnPath` say what each await has read and written so far; `OwnIds` that
  ids about to be generated are nobody else's; `TableOK` that rows are filed
  under their ids and blank iff deleted.
* `TypeCorrectness`, `WritesAreTruthful`, `RevocationIsRespected`,
  `DeletesAgree`, `NothingPublishedEarly`: conjuncts of `Inv`.
* `OnlyAuthorsTakeBack`: an action property, from `Inv` and one case per action.
* `ImplementsLedger`: initial states map to initial states; each step is
  `Open`, `Post`, `TakeBack` or a stutter.

In `ReadsAndMarkersProofs`, with no further hypothesis: any number of requests of one
user, hosts with any clocks, and failures at any await.

* `ThreadsAreCurrent` (`ThreadIsCurrent`), `ListMatchesThreads` (`ListAgrees`), from
  `ReadsInv`: what was stored when a request came in is stored still, as it was or
  taken back (`BeforeOK`); rows are stamped in the past (`RowsInPast`); and the
  `cleared_at` a handler has read is one of `marks` (`MarksOnRecord`). The list is
  built conversation by conversation and is right as of the `cleared_at` of its
  first query: what is in the reply is (`ListedSoFar`), what is not yet in it is
  still to do (`NoneForgotten`).
* `ClearsHide` (`ClearHidesHistory`), `MarkersOnlyAdvance` (`MarkersAdvance`), from
  `MarkersInv`: a stored marker has been on some host's clock (`MarkersShown`), so
  the instant a handler reads after its call is not before the marker of its
  call, but for the hosts' difference (`MarkerOnPath`). An acknowledged clear has stored
  an instant that reaches what its call did (`ClearOnPath`), and so has any clear of the
  same row that may still overwrite it (`Harmless`), as its own call is in `since`.
* `DeletesReachTheBus` (`DeletionReachesBus`), from `BusInv`: a message that is deleted
  while its send has yet to publish it is in `unsure` (`SendOnBus`), so a send cannot
  put the text of any other after its tombstone.

### ConnectionRateLimiter

For any sources, limit and window (`LimiterAssumption`):

* `Invariance`, `TypeCorrectness`, `NoLargerBurst`, `NobodyRefusedWithoutCause`: from
  `LogInv`, which ties an entry to the tail of its source's log and says that
  everything before an entry, or before the absence of one, is old enough.
* `SweepIsTransparent`: the refinement of `FixedWindow`.

### History

For either message store, any limits, clock granularity and number of messages
(`HistoryAssumption`):

* `TypeCorrectness`: of it, what deserves a proof is that a page of Postgres has at
  most `MaxLimit` rows, whatever limit is asked for (`PageBounded`).
* `NothingTwice`: from `CursorInv`, nothing shown is before the cursor and
  everything on the page is. Scrolling up keeps it because the cursor, which
  has lost microseconds, is at or before the page's oldest row: truncation is
  monotone (`MsMonotone`) and never later (`MsType`). `Invariance` is both.
* `StoresAlike`: a `cleared_at` is in whole milliseconds (`ClearsOK`), and
  so is a cursor (`MsIdempotent`), so a row's tick and its millisecond are on the
  same side of either (`SameRows`), but for a row in the very millisecond of the
  clear, which `StoresAgree` excepts.
* `NothingIsSkipped`: `SkipInv` says, while the scroll goes on, that what it began
  with, but for what is `hidden`, is from the cursor on covered by what was shown and,
  before the cursor, on the page or not newer than it. A full page leaves the rest behind its oldest
  row; the page that is empty leaves nothing.

### Delivery

For any instances, sockets, users and messages, either bus, and any of the
failures (`DeliveryAssumption`):

* `Invariance`, `TypeCorrectness`: with the types, `SocketsOK`: a registry files a
  socket at home and under its owner, and an open socket is filed at an instance
  that runs.
* `ParticipantsOnly`: the action property `AudienceOnly`, since `Deliver` reads
  registry and readyState in the step in which it pushes.
* `NothingTwice`: `OnceInv` says of each publication that was not sent to Redis
  twice that it is in one place on its way to an instance (`OnTheWay`): in its
  publisher's queue and nowhere else, once in the instance's channel, or in one
  lookup; and only after that on sockets, once. A subscription lost or made again
  and an instance restarted lose places and add none.
* `NothingIsStranded` assumes `SharedBus`: the instances share a Redis, or there is
  one instance. `NothingStranded` is inductive with `Inv`: what a socket misses and
  is owed was on its way (`WasCarried`), and each step keeps it there, pushes it,
  or ends what it is owed. The in-process bus of one instance does not reach
  another, so without `SharedBus` it is false.

### WebSocketServer

For any finite set of connection attempts, any users and expiries
(`SocketAssumption`):

* `Invariance`, `TypeCorrectness`, `OneTruth`: `BooksAgree` is inductive with the types
  and with `VerifiedOK`, whoever is past the verification has an identity. That the
  gauge equals the size of the registry, and so is never negative, is cardinality
  of finite sets, one socket in or out.
* `NeverClosedEarly`: `DueInv` says that an armed timer is due, and the server's close
  of a connection was made, no earlier than its token's expiry, or that the token
  had longer to live than `MaxDelay` when the connection was made (`InTime`).

### Deploy

For any versions, files, databases and configurations, any number of runs, and
any command failing (`DeployAssumption`, `SchemaAssumption`):

* `Invariance`, `TypeCorrectness`: `HostOK` and `ForwardOK` say what each command of the
  try block may rely on: what was built is what was checked out, the columns are
  applied before the build (`schema`'s loop has done all files but those in `todo`),
  and what runs is what is on disk (`OnDisk`).
* `OkIsTrue`: from `ForwardOK`, at the verdict.
* `RollbackIsTrue`, `ColumnsAreThere`: from `TrustedOK`. Neither property speaks of
  the middle of a run, where disk and process differ; what carries it through is
  that the run remembers what was there (`Remembered`: its `prev` and the `.env`,
  in place or in its copy, are what ran before and had its columns) and that a
  rollback has put back all that it is past (`PutBack`). Columns are only added.
* The order of the files is that of numbers, so `FirstOf` needs a least element
  (`LeastElement`).

### Model-checked only

Liveness (`Answered`, `OverEntriesGo`, `SubscribedMissNothing`, `OutlivesNoToken`,
`ShutdownEnds`, `ScrollEnds`, `ComesBack`), as fairness and ENABLED are outside what
the prover handles; and the three runs that expect a violation. Recursive
definitions are avoided in every module with theorems.

## Not modelled

* The HTTP middleware: cors, helmet, health, auth and limits run one after the
  other in one request and keep no state of this code's. `express-rate-limit` and
  its store are a library. What the routes validate is a guard of their actions.
* The webhook of `HttpMessageNotifier`: one request whose every outcome is
  logged and swallowed; whom it is sent for is in `MessagingService`.
* The in-memory conversation store, whose methods do in one step what the Postgres
  ones do in one statement.
* JWT cryptography, CORS, logging and counters: library code or write-only.
* Containers, manifests and examples: no state of the service's own.

## Plan

1. (done) `MessagingService` with `MessageLedger`; proofs.
2. (done) `ConnectionRateLimiter` with `FixedWindow`; proofs.
3. (done) `Delivery`; `WebSocketServer`.
4. (done) `History`.
5. (done) `Configuration`, `Schema`, `Deploy`.
6. (done) Proofs about `History`.
7. (done) Proofs about `WebSocketServer`, `Delivery`, `Deploy`, the rest of `History`
   and of `MessagingService`, with any number of requests per user.
8. `Delivery` with a tombstone published before its text, and lookups of one
   conversation that resolve in the other order: what an open client shows last.
