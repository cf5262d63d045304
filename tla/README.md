# address-monitor: TLA+ specifications, model checks and proofs

address-monitor watches blockchain addresses for its customers. A **worker**
scans the chains, keeps the transactions that touch a watched address and
publishes them to RabbitMQ; a **dispatcher** turns each of them into webhook
callbacks with delayed retries; an **API** process lets customers register apps,
addresses and contract whitelists. MySQL is the store of record, Redis holds
positions, locks, caches and Bloom filter snapshots.

```
 chain node --> listener --> eventCh --> pool (parser, matcher, whitelist) --> matched.events
   (ChainSync, SolListener)    (Parser, Pipeline, RawEventWriter, ContractFilter)   |
        ^ election: LeaderLock                                                       v
 API --> watched_addresses --> Bloom filter (AddressFilter)             Expander (SubCache,
 API --> apps -----------------------------------------------------------> AppInfoCache)
 API --> allowed_contracts --> ContractFilter                                  |  webhook_logs
 API --> users, sessions, names of apps: Accounts                              |
                                                                               v
        dead letters <-- dispatch.dead <-- dlx <-- Sender <-- dispatch.tasks  (Delivery, Broker)
                                              \--> retry queues (TTL) --^
```

Paths below are relative to the repository root.

## Inventory

| Component | State it keeps | Operations | Module |
|---|---|---|---|
| RabbitMQ topology, publisher, consumer (`internal/mq`) | queues, unacknowledged messages | publish (3 attempts), deliver, ack, TTL expiry, redelivery | `Broker`, `Delivery` |
| Expander, Sender, dead letters (`internal/dispatcher`) | where each handler is; `webhook_logs` | `Handle` of each, `Resend` of the API | `Delivery` |
| App settings cache (`expander.go`, `service/app.go`) | hash `app_info:<id>`, row of `apps` | `getAppInfo`, `Update`, `ResetSecret`, `UpdateAllowedContracts` | `AppInfoCache` |
| Subscription cache (`expander.go`, `service/address.go`) | key `sub_cache:<chain>:<addr>`, rows of `watched_addresses` | `getWatchedAddresses`, `Create`, `Delete` | `SubCache` |
| Block scanner (`internal/chain`: tracker, poller, EVM and TRON fetcher, supervisor pool) | `last_block` in Redis and MySQL, `current`, `eventCh`, failure count | `Init`, `poll`, `FetchBlock`, `Update`, `handleRawEvent` | `ChainSync` |
| Election (`pkg/distlock`, `Supervisor.Run`) | `listener:lock:<chain>`, the fields of `Lock` | `Lock`, `Renew`, `RenewLoop` | `LeaderLock` |
| Address service and matcher | `watched_addresses`, Bloom filters, watermark, snapshots, incremental lists | `Create`, `BatchCreate`, `Delete`, `LoadFromDB`, `RestoreBF`, `SnapshotBF`, `syncFromDB`, `handleAddressEvent` | `AddressFilter` |
| Parsers (`internal/parser`, `pkg/addrcodec`) | none | `Parse` of three families of chains, `GenerateEventID`, `Normalize` | `Parser` |
| Event handling (`supervisor.go`, `IsWatched` of `matcher.go`) | where each goroutine of a pool is, the hot set | `processEvents`, `handleRawEvent`, `IsWatched` | `Pipeline` |
| Raw event writer (`supervisor.go`) | `rawWriteCh`, buffers per chain | offer, receive, tick, flush | `RawEventWriter` |
| Solana listener | socket, `sigCh`, goroutines per signature, `last_block` | `wsLoop`, `runWS`, `fetchAndEmit` | `SolListener` |
| Contract whitelist | `allowed_contracts`, the copy in a worker | `Create`, `Update`, `Delete`, `Load`, `reload`, three lookups | `ContractFilter` |
| Accounts, sessions, apps (`service/auth.go`, `service/app.go`) | `users`, `email_verifications`, `refresh_tokens`, `apps` | `Register`, `VerifyEmail`, `ResendVerify`, `Login`, `Refresh`, `Logout`; `Create`, `Update`, `Delete` of apps | `Accounts` |
| HTTP layer, global webhook URL, helpers | | | not modelled, see the end |

What is hard here: every handler is a sequence of calls to MySQL, Redis,
RabbitMQ and the customer's server with no transaction across them, so a crash
or a lost connection can fall between any two; several processes and goroutines
work on the same rows, keys and fields; caches are invalidated by one process
and filled by another; positions (`last_block`, the watermark) say that
something is done that is still in memory; and the recovery paths (redelivery,
failover, standby, reconnection, resynchronisation) are hardly reachable by a
unit test. `PROJECT.json` lists these hazards at their lines.

What makes each component correct, and what the properties below state of it:
a notification is neither lost, doubled nor taken back (delivery); no block is
jumped over and no position is ahead of the chain (scanner); one worker listens
to a chain (election); a live address gets past the first layer of the matcher
(filter); a callback is made from one version of the settings, and no stale copy
outlives its time (caches); events are written once and in order (writer); a
signature heard is emitted (Solana); an event is judged by one list (whitelist);
a transfer of a watched address is reported, under an id of its own (parsers and
event handling); a session has one valid token, and none after its end, a link is
not used up in vain, and apps differ in name and URL (accounts).

## The modules

Each component module has its state as variables and one action per step between
two calls that touch shared state. `FaultKinds` is the set of what may go wrong,
at most `MaxFaults` times in a behaviour; `faults.kinds` records what did. Runs
allow every kind of fault at once, and a property names in its premise the kinds
the code does not survive for it. So one exploration shows both that a property
holds under the faults it tolerates, at every point where they can strike, and
which ones it does not tolerate. An MC module gives constants their values.
`MCSupervisor`, `MCExpander` and `MCPipeline` each check two components that share
no state: their variable `part` is chosen at the start, and a behaviour is one of
the one or one of the other, so that nothing is interleaved in vain.

**Broker** - `DeclareTopology` as data: exchanges, bindings, dead-letter routes
of the delay queues.

**Delivery** (extends Broker) - queues as bags; `exp`, `snd` and `ded` hold where
each instance is in the three handlers (message, position, held values).
`ExpStep`, `SndStep` and `DedStep` are the steps of the handlers, `Crash` ends an
instance and requeues what it held, `ConnLost` requeues while the handler runs on,
`Expire` is the TTL, `Resend` the API's call. A task carries `webhook_log_id` and
the retry header; the stored payload is the one marshalled before the row had its
id.

**Notification**, **DeliveryRefinement** - the promise of the dispatcher without
its mechanism: a notification is not owed yet, owed with a number of failures,
delivered, or dead. `DeliveryRefinement` maps the first row that `webhook_logs`
has for an event and an address to it. While nothing has failed (`calm`) the
abstract steps are strict: failures are counted one by one, death comes after the
fifth and only then, a settled notification stays so. After a fault `Again` lets
it be tried and settled anew, as redelivery does; it is still owed before it is
anything else, is never forgotten, and no failure is uncounted.

**ChainSync** - `Listen` is the poll loop (`LatestBlockNum`, `FetchBlock`, the
sends to `eventCh`, `Update`), `Work` the pool, `UpsertLastBlock` the goroutine
that writes MySQL. The race on `blockErr` is a nondeterministic choice of the
error that survives (fault "half"). Variable `fetcher` says which of the two
fetchers the chain has. TRON's has one node, counts no failures, does not look at
the HTTP status (fault "body": an error in JSON is read as block 0, or as a block
without transactions) and asks for the logs of each contract call apart, going on
without them when that fails. Block numbers are unsigned with width `W`. Of the
election it has what one worker sees: `locked` is the key of the chain, which the
last process leaves behind and `LockExpires` removes; `Start` is the one SETNX that
succeeds, `Standby` the one that finds the key (fault "early": the worker is back
within 15 s) or fails, after which the process never listens.

**LeaderLock** - time in ticks of the renewal interval; `key`/`ttl` are Redis,
`lkey`/`value` the fields of the one `Lock` a process shares among its chains.
The fault "redis" is a request that is not carried out, or one that is and whose
answer is lost.

**AddressFilter** - rows with ids given at insert and visible at commit, the
incremental list and the pub/sub channel, the worker's filters and watermark,
and the snapshot keys. A filter is the set of addresses added to it: a false
positive is settled by MySQL. `LoadFromDB` is two steps for each page, the `Count`
and the `Find` of `ListByApp`, between which the table changes; a row has the
second of its `created_at`, by which alone a page is ordered: `Orders` is every
order that `ORDER BY created_at DESC` may give, chosen anew for each page. A row's
second may be one behind its neighbours', since the API stamps it before MySQL
gives the id. `SnapshotBF` writes chain by chain and then the watermark, with
`syncFromDB` wherever it likes. Three histories say when something was left out:
`whole` (the filters were built from all rows up to the watermark), `clean` (so is
what the running snapshot writes) and `intact` (so is what Redis holds).

**AppInfoCache**, **SubCache** - `getAppInfo` and `getWatchedAddresses` request
by request, against the API's writes and DELs. `OneVersion` needs the history
`versions` of the row; `SubCache` has time, so that its bound can be stated, and
a variable `lowerCase` chosen at the start: whether the address is stored in
lower case, so that the DEL of `AddressService.Delete` hits the cached key (EVM),
or not (TRON, SOL).

**Parser** - pure operators. An address is a name and the form it is spelled in,
so that two spellings of one address differ as strings do; an event id is the
triple that is hashed. `Moves` says, independently of the parsers, which transfers
a raw event contains, for `NothingMissed` to compare with.

**Pipeline** (extends RawEventWriter and Parser) - the goroutines of the pools in
`handleRawEvent`: parse, filter, query, publish, offer to the raw event writer,
against the API's edits of the table. The hot set may give any answer at any
time: `IsWatched` asks the table whatever it says, and `NothingMissed` shows that
this is enough.

**Accounts** - requests in slots; each request is its list of statements
(`Statements`), which interleave with those of the other slot, and of which any
may be the last (fault "abort": the process dies or the statement fails). Fault
"answer" loses the mail or the answer of a login. `raced`, `cut` and `ended` are
histories of sessions.

**RawEventWriter**, **SolListener**, **ContractFilter** - the goroutines,
channels, selects and tickers of those parts of the worker. Names of the last two
start with `Sol` and `Contract`, and those of SubCache with `Sub`, where another
module has the same one (`SolInit`, `MaxSolFaults`, `ContractNext`, `SubInit`); the one fault of ContractFilter is
`ListEnabledFails`, at most `MaxFailures` times.

## What the runs check

Every action of a passing run fires, and a mutant of the code breaks each
property (`PROJECT.json`, "mutants").

| Run | Bounds | Distinct states |
|---|---|---|
| `delivery_safety` | 1 event, 2 addresses (one without callback URL), 2 dispatchers, 1 fault of crash, conn, db, publish | 1 340 000 |
| `delivery_live` | 1 event, 1 address, 1 dispatcher, 1 lost connection, 1 resend | 322 000 |
| `delivery_doc_retries` | 1 event, 1 address, 1 dispatcher, no fault | violation |
| `chainsync_scan` | EVM with and without backup, TRON; blocks 9 to 11, `eventCh` of 2, pool of 2, MySQL every 2nd block, `Confirmations` 3, 2 faults of nine kinds | 1 060 000 |
| `supervisor_tables` | election: 2 workers, 2 chains, TTL of 3 renewal intervals, 3 faults of crash, redis; whitelist: 2 contracts, 2 edits, 1 pool goroutine, 2 failing queries | 1 290 000 |
| `leaderlock_doc_listener` | the election without faults | violation |
| `leaderlock_doc_takeover` | the election with one chain and one crash, fair | violation |
| `addressfilter_covered` | 2 addresses of one chain, another chain that is enabled later, pages of one row, 1 fault of crash, api, pubsub, db, redis | 1 470 000 |
| `addressfilter_doc_backstop` | the same without faults | violation |
| `expander_caches` | settings: 2 dispatchers, 1 URL, 2 contracts, 2 edits, 1 fault of crash, api, redis, db; watchers: 2 apps, 2 dispatchers, TTL 3, handling time 2, 2 faults of the same kinds | 2 120 000 |
| `pipeline_handle` | pool: 5 inputs of 1 to 7 raw events, pools of 2, an edit of the addresses, `rawWriteCh` of 2, batches of 2, 2 faults of insert, stop, query, publish; listener: 2 programs, 2 transactions, `sigCh` of 2, 2 faults of connect, break, rpc | 282 000 |
| `accounts_requests` | 1 user, 6 requests, 2 at a time, 2 names, 1 URL, 2 faults of abort, answer | 708 000 |

Why these bounds are enough: the races are between two handlers of one message,
two requests, or a goroutine and a ticker, so two actors show them; events share
nothing but the queues, which are bags; five failures and all four delay queues
are reached; channels and batches are filled by what is offered (two programs report
each transaction, so `sigCh` is); two edits
give an old, a middle and a new version; a single fault at every point covers
every gap between two calls, and where recovery itself can be struck (scanner,
election, caches, Solana, event handling, accounts) there are two or three; six
requests are registration, verification and login, and then three that race or
follow one another; users share nothing but the tables. The inputs of
`pipeline_handle` reach every branch of the parsers and the one collision of ids. The theorems below remove the
bounds for most of the safety properties.

### Delivery

`RetryDiscipline` (header and queue agree, `routes[retryCount-1]` stays in range)
holds under every fault. The other properties, and what they do not survive:

| Property | States | Excludes, because the code does |
|---|---|---|
| `NoWatcherForgotten` | a published event has reached each routable watcher's row, or is still queued or held | db: `Handle` skips an address whose query fails and acknowledges |
| `LogsSurviveConnLost` | an unsettled row has a task on its way | crash between `Create` and `Publish`: the redelivered event finds the row and skips the address, so the row stays pending; publish: the error after three attempts is logged only; db: a row update lost |
| `FailedIsRetried` | a failed row has a task on its way | publish: `sender.go` drops the error of the retry's publish and acknowledges; db: a success that is not recorded leaves the row as failed; conn together with a crash: the handler that lost its message writes its failure over a success and then ends (conn alone is covered by `LogsSurviveConnLost`) |
| `UniqueLog` | an event published once has one row for an address | conn: the old handler goes on while the message is redelivered, and check and insert are two statements |
| `DeadMeansExhausted` | a dead row counts five failures, but for those that lost updates have swallowed (`LostWrites`) | nothing: db is counted, not excluded |
| `EventuallySettled`, `Quiesces` | every routable watcher's row ends as success or dead; the retry loop ends | everything but conn, for the same reasons |

`KeepsPromise` (in `delivery_safety`) and `FulfilsPromise` (in `delivery_live`)
state the refinement: every step of the dispatchers, of the broker and of the API
is a step of `Notification` or leaves it as it is, and with the fairness of the
consumers the abstract fairness holds too. That a recorded outcome is final is part
of it until the first fault; after one, a task whose Ack is lost is sent again, and a
failure may overwrite the success.

`AtMostThreeRetries` is what `src/README.md` promises (line 13, and the table at
254-261 with the dead letter as the fourth row). The code has five attempts, that
is four retries (`sender.go:104`, and the routes of `topology.go`);
`delivery_doc_retries` shows the task of the fourth.

### ChainSync

`NeverAhead`: stored positions are blocks that exist. `Head0 >= (MaxFaults + 1) *
Confirmations` is the condition under which `val - confirmations` does not wrap
(every restart steps back once); the cfg has the case of equality. It excludes
"body": a first start that reads block 0 out of an error scans from block 1, and
the next restart wraps. `NoGap` excludes "half" (the failure of `FilterLogs`
hidden by the success of `BlockByNumber`, or TRON's logs missing), "body" (an
empty block recorded) and "publish" (three attempts failed, event dropped).
`EventuallyPublished` covers crashes, failing calls and a main node that comes
back; `Confirmations` 3 reaches back over what `eventCh` and the pool can hold,
which is what makes up for recording a block before its events are published. It
excludes "early" and "store", because the code stops there: the key of the chain
lives 15 s, nobody deletes it when its process ends and the SETNX is not repeated,
so a worker that is started sooner, or whose SETNX fails, is a standby for as long
as it runs and nothing of the chain is published. `NoGap` and `NeverAhead` hold
through both.
That the main node comes back is needed: with it down for good no block is ever
scanned, because `LatestBlockNum` succeeds on the backup and resets the failure
count, so that `FetchBlock` goes to the main node each time.

### LeaderLock

`OneRenewer` holds under every fault. `KeptLock` and `OneListener` exclude a
failing Redis: `RenewLoop` ends at the first error while the listener goes on.
`KeptLock` speaks of the lock taken last, and `OneListener` of workers with one
chain, since one `Lock` serves all chains; `doc_listener` shows two listeners of
a chain without any fault. A standby tries once and never again: `doc_takeover`
shows that after a crash no running worker takes the chain over, neither one that
was a standby nor one that is restarted too soon. `SomeoneListens` says that this leaves no chain alone until
something fails, although the key of a chain may expire under its listener;
`Freed` that after a crash, or an answer that was lost, the key is gone in the
end, so that a worker started then can listen.

### AddressFilter

`Covered` (a live address is in the filter or ahead of the watermark) and
`EventuallyWatched` hold with a fault of any kind, through crashes, restores, lost
messages, failed announcements and failing queries, as long as `whole` does. What
ends it, in each case because the code then leaves an address out for good:

- an insert commits after the watermark has passed its id (inserts overlap);
- a row is committed between the `Count` and the `Find` of a page, so that
  `page*size >= count` holds a page too early;
- pages overlap or skip, because rows of one second change places between two
  pages, or are stamped out of turn, or one is deleted between them;
- a synchronisation falls between the write of a filter and that of `maxid`, and
  the worker is restored from this snapshot;
- a snapshot is incomplete (a failing request, or a crash on the way) and older or
  newer than its watermark;
- a chain has no snapshot (it was enabled later) under the common watermark.

Each of these is a step of the model, not cut away; `whole` only records that it
happened, at the row and page where it did, and `Covered` speaks of all other
behaviours, readings of several pages with changes in between among them. The
proof below shows that the list is complete. `Watched` is what the comments of
`matcher.go` (lines 87 and 204) promise without any of this, and
`addressfilter_doc_backstop` violates it with no fault. The remove message does not
touch the filter.

### Caches

`OneVersion` and `BoundedStaleness` hold under every fault. `Perishable` and
`EventuallyFresh` exclude a dispatcher's crash and a failing Redis, because a lost
EXPIRE leaves a hash without an end. What they allow: an HSET of old settings
after the DEL, for at most ten minutes. An empty whitelist is stored as an empty
text, which the JSON column rejects, so that request changes nothing.

### Event handling

`NothingMissed` excludes a failing query and a publish that gives up, both of
which drop the event. It speaks of the EVM chains and TRON: the Solana parser
lower-cases base58 addresses, which the API stores as they are, so that an address
with a capital letter never matches (`src/internal/parser/sol.go:81`; the comment
at `src/internal/matcher/matcher.go:36` says the parser sees to the right form).
`OnlyLogsCollide` states exactly which events can share an id: a token transfer
has ids `index*10` and `index*10+1`, a plain log `index`, so a swap, stake or
unstake with ten times the index of a transfer in the same transaction has its id,
and the expander takes the second of the two for a repetition.

Three more things the model shows as the code has them, without a property: the
amounts of Solana events are the last digit only (`uint64ToString`; the comment at
`src/internal/parser/schema.go:25` promises full precision); a token account that
is closed by a transaction, and so has no balance afterwards, makes no event; and
the TRON parser drops a native transfer with an empty `contractRet`, which the
TRON fetcher lets pass because, as its comment at
`src/internal/chain/tron/fetcher.go:103` says, it is a successful one.

### Accounts

`UsedIsVerified` holds under every fault because `VerifyEmail` sets the status
before it marks the link. `OneToken` and `LogoutIsFinal` exclude sessions in which
two requests found one token valid before either revoked it (`GetByTokenHash` and
`Revoke` are two statements; two refreshes then make two tokens, and a refresh
survives a logout), and `OneToken` those where a request ended after its `Revoke`,
which leaves no token. `DuplicatesOverlap` states what `checkDuplicate` is good
for without a transaction or a unique key: it misses only what is written while
its request is being served.

### Raw events, Solana, contract whitelist

`InOrder`, `RecordedIsEmitted` and `OneList` hold under every fault.
`EventuallyWritten` excludes a failing insert and a stop: the last flush leaves what
is in the channel, which `ctx.Done` does not drain.
`EventuallyEmitted` excludes "break" and "rpc": when the socket breaks the
readers end but `runWS` waits for `ctx.Done` or `sigCh`, so that it never
reconnects, and a failing `GetTransaction` drops the signature.
`TokenIsListed` excludes events that a reload crossed between
their three questions, each of which takes the lock anew: they may have the
symbol of one list and the decimals of another.

`CHECK_DEADLOCK FALSE` is set where the bounds (blocks, events, faults,
subscriptions) let the system come to rest, or a stop ends it.

## Fairness

`delivery_safety`, `delivery_doc_retries`, `leaderlock_doc_listener` and
`accounts_requests` use `Spec`, and the part of SubCache in `expander_caches` has no
fairness either. The others assume only what the code's scheduling gives: a
consumer loop whose process is up takes the next message and ends its handler (the
POST has a timeout of 10 s); the broker expires messages, and Redis keys; goroutines
run and tickers fire. It is always weak fairness; that of `syncFromDB` says no more
than that its ticker fires while the worker is up and has rows to read, and a
snapshot may be under way. That a process which has ended is started again is not
in the code (the compose file sets no restart policy) but what an operator does; it
is assumed of the dispatchers, in ChainSync and in AddressFilter. No fairness makes
a started worker a listener: that is the SETNX's answer. Nothing is assumed of
faults, of the customer's answers, of the API's users, or of the chain, except in
`chainsync_scan`, where a main node that is down comes back (`RecoveringSpec`). In
`supervisor_tables` and `leaderlock_doc_takeover` time passes and the renewal
goroutines run; no process has to start, and the latter is violated by workers
that have. In `pipeline_handle` only the writer's goroutine and the Solana listener's
are fair; the pools may stop anywhere.

## What is proved

The theorems hold for every value of the constants that satisfies the modules'
assumptions and the one named here. Each is an invariant of the specification, with
the premise on the faults that the property itself has, proved by an inductive
strengthening. A premise on history is no obstacle to induction: kinds only grow,
so where it holds after a step it held before. There are eight proof modules.

| Theorem | From | Along |
|---|---|---|
| `DeliveryProofs!TypeCorrect`, `RetryDisciplineHolds` | | `TypeOK /\ RetryDiscipline` is inductive: the type of a route needs the header, the header its queue |
| `DeliveryProofs!UniqueLogHolds` | | `UniqueInv`: without a lost connection a published event is in one place only, the queue or one expander, and an expander about to create has no row yet |
| `DeliveryProofs!NoWatcherForgottenHolds` | | inductive with the types: a handler gives a message back or has dealt with every address before its position |
| `DeliveryProofs!DeadMeansExhaustedHolds` | | `DeadInv`: every task, queued or held, has at most as many failures in its header as its row counts and lost updates have swallowed |
| `DeliveryProofs!LogsSurviveConnLostHolds`, `FailedIsRetriedHolds` | | `LossInv`, with the fact that a held message is the one that comes back |
| `DeliveryProofs!KeepsPromiseHolds` | | the refinement of `Notification`: see below |
| `ChainSyncProofs!TypeCorrect` | | inductive with the facts that tie the position of the listener to what it holds (`TypeInv`); block numbers are reduced modulo `2^W` |
| `ChainSyncProofs!NeverAheadHolds` | `HighChain`: `Head0 >= (MaxFaults + 1) * Confirmations` | `HeightInv`: positions stay above a floor that sinks by `Confirmations` with every fault |
| `ChainSyncProofs!NoGapHolds` | | `GapInv`: while a block is sent, its events are to be sent, in the channel, in the pool or published |
| `LeaderLockProofs!TypeCorrect`, `OneRenewerHolds` | | `LockInv`: values are distinct and drawn once |
| `LeaderLockProofs!KeptLockHolds` | `Punctual`: renewals within the TTL | `KeptInv`: the time left exceeds the lateness left |
| `LeaderLockProofs!OneListenerHolds` | `Punctual` | a listener of one chain holds the key of that chain |
| `LeaderLockProofs!SomeoneListensHolds` | | `Attended`: a key in Redis, and a chain that a running worker has tried, has a listener |
| `FilterProofs!CoveredHolds` | | `FilterInv`: the same for the running filters (`RunInv`), the pages read so far (`LoadInv`), the snapshots (`SnapInv`) and the one being written (`WriteInv`), each under its history; see below |
| `FilterProofs!TypeCorrect` | | `Types`: no id is above the last one given, so the watermarks, which are maxima of ids, exist; and `MarksOK` for the three histories |
| `FilterProofs!OneListAtATime`, `TokensAreListed` | | `ContractInv`: what was read for a reload is a list the table has held; nothing is asked before the first load (`FreshInv`); what an event that no reload crossed was told, the filter still says (`AnsweredInv`) |
| `AppInfoCacheProofs!TypeCorrect` | | inductive as it is |
| `AppInfoCacheProofs!OneVersionHolds` | | `VersionInv`: every copy is a version the row has had |
| `AppInfoCacheProofs!PerishableHolds` | | `PerishInv` |
| `SubCacheProofs!TypeCorrect`, `BoundedStalenessHolds` | | `AgeInv`: a list was right when it was read, and the time since is bounded by the wait plus the used life of the key |
| `PipelineProofs!TypeCorrect` | | `TypeInv`: a task holds a raw event of the input and a rest of what `Parse` makes of it; the types of the writer |
| `PipelineProofs!OrderKept` | | the types, and `Ordered`: the writer's three places as one sequence, which each step cuts, moves a front of, or extends with the newest number |
| `PipelineProofs!NothingIsMissed` | | `ParseFacts`: `Parse` returns an event for every direction of every transfer of `Moves`, under the stored spelling; `PromiseInv`: a due move is reported already or among the events left |
| `PipelineProofs!CollisionsAreOfLogs` | `ChainAssumption`, `NameAssumption` (below) | `ParseIds`: the events that `Parse` makes of one raw event have ids of their own, `index*10` or `index*10+1` for a transfer in a log, `index` for other logs, -2 and -1 for the native transfer of an EVM transaction; `AddressInv`: a published event is one that `Parse` makes of some raw event of the input, of a real address |
| `PipelineProofs!SolTypeCorrect`, `RecordedAfterEmit` | | `SolInv`: what goroutines hold is finalized, and one that is to call `Update` has emitted |
| `AccountsProofs!TypeCorrect` | | `TypeInv`: which row each statement of a request finds under the number the statements before left it |
| `AccountsProofs!VerifiedBeforeUsed` | | `VerifyInv`: a request about to use up its link has verified the account |
| `AccountsProofs!OneTokenHolds`, `LogoutEnds` | | `RotationInv`: an unraced session has one place where its right to a token is, and the request that is to revoke is the only one |
| `AccountsProofs!DuplicatesAreRaces` | | `CheckedInv`: what a request has looked for is in no other row, or was written since it began |

**The refinement.** `KeepsPromiseHolds` is `Spec => KeepsPromise`. Its step lemmas
follow what the mapping looks at, which is the first row of an event and an
address, the published events and `calm`: `CreateKeepsPromise` (`Owe`),
`UpdateKeepsPromise` (a success or a failure of a held task), `IncrKeepsPromise`,
`MarkKeepsPromise` (death) and `MatchedKeepsPromise` each show a step of
`Notification` or a stutter, and all other actions leave the mapped state as it
is. They rest on `TokenInv`: while nothing has failed the task of a row that is not
settled is in one place, a queue or a handler, and the failures in its header are
the row's; that makes "dead after the fifth failure" exact.

**Pages.** `CoveredHolds` has no assumption on the size of the table. Its invariant
for a reading in progress, `Read`, counts: a live row that the pages so far have
neither added nor left ahead of `maxID` has at least `(page - 1) * PageSize` live
rows with higher ids. `PageReads` adds a page to that: in an order that respects
the ids at both ends of the page, a row behind the page has `page * PageSize` rows
before it (`PlacesTaken`). New rows only raise the count, a deletion between pages
ends `whole`, and after the last page, which reaches the number of rows, no row can
have so many above it (`PlacesBound`).

**Parsers.** What `FlattenSeq` returns is not proved by induction over data, which
the prover cannot do, but from its definition as a recursive function over the
indices and `LeastExists` (the library's well-foundedness of the naturals applied
to a set): `FlattenFacts` says that every element comes from one of the sequences
and every sequence is in the result.

**Assumptions.** Constants have only the assumptions the modules state and TLC
evaluates. `PipelineAssumption` gives raw events the shape the fetchers and the
listener give them (`RawEvent`: among others, a log has an index and a Solana
transaction at most 256 accounts, which its one-byte account indices impose).
`ChainAssumption` is about the chains: what is scanned twice is told the same way
twice (no block is reorganised, which the code does not handle), the raw events of
one transaction are several only on the EVM chains, where one of any two is a log,
and the logs of a transaction have different indices. `NameAssumption` says that
no watched address is the empty one, which the API refuses or, in a batch, skips. `RoutableAssumption`
says that routable pairs are
pairs of an event and an address.

The type invariants of Delivery, ChainSync, LeaderLock, AddressFilter,
AppInfoCache and SubCache are proved and so left out of the runs.

Only model-checked: all liveness properties (they need fairness and ENABLED,
which the prover does not handle), and with them the fairness part of
`FulfilsPromise`. The violations are TLC's counterexamples by nature.

## Not modelled

- **Upkeep of the hot set** (`promoteToHot`, the downgrade of cold addresses,
  `UpdateLastActive`): it only decides which of two branches of `IsWatched` asks
  the table, and `Pipeline` lets the set answer anything. With its actions the
  state space of the pools is beyond TLC.
- **False positives of the Bloom filter**: settled by the table.
- **Several workers over the same snapshot keys**: `AddressFilter` has one worker.
- **Reverted EVM transactions**: `FetchBlock` asks for no receipts, so the native
  transfer of a transaction that failed is reported like any other; `Parser` has
  no status to look at either. **Chain reorganisations**: the code has no handling
  of them.
- **Errors of JSON decoding**: a raw event that does not decode is logged and
  dropped; the listeners encode it themselves.
- **Global webhook URL** (`SetWebhookURL`): a Redis key that nothing but
  `GetWebhookURL` reads.
- **HTTP layer, configuration, signature**: no state of their own. The rate
  limiter is not wired into the router. `Accounts` models which requests a client
  can make.
- **Without callers**: `Unlock`, `SetEnabled`, `syncIncremental`,
  `RevokeAllByUser`, the clean-ups of tokens and links, the time-range queries and
  clean-up of the raw event store.

## Plan

Done in this order: Broker and Delivery (the promise of the product), ChainSync,
LeaderLock, AddressFilter, the caches, the raw event writer, the Solana listener
and the whitelist; then the TRON fetcher, lost answers in LeaderLock, the parsers
and their composition with `handleRawEvent` and the writer, the accounts, and the
refinement of Delivery; then the proofs of the refinement, of the accounts, the
event handling, the Solana listener and the whitelist, and of the address filter
over any number of pages. Next:

1. Composition of the election with the scanner: two listeners of a chain make
   duplicates that the dispatcher's existence check has to catch.
2. Several workers over the shared snapshot keys.
