# Verification of ai-service

ai-service is a gateway in front of AI vendors: it authenticates a request by an
API token, charges the user, chooses a channel of some vendor, relays the request
and its streamed answer, and settles or refunds the charge. Long-running jobs
(video, music) are submitted, polled in the background and billed when they end.
Users pay for quota or buy subscriptions through payment gateways. What can go
wrong without anybody noticing is money (a request charged twice, a refund applied
twice or never, an order credited twice), access (a disabled token or channel that
goes on working) and answers that are cut short. This project models those parts
in TLA+, checks them with TLC and proves the safety properties of eight of its ten
components with TLAPS.

`PROJECT.json` lists components, runs, mutants, the source lines of every
definition, findings, hazards and theorems.

## 1. Inventory

One code base, two sorts of processes. `main.go` starts a headless gateway
(`initRuntimeState`, `router.SetHeadlessRouter`): it relays requests and starts no
background loop. The loops (channel cache, system tasks, task polling, subscription
maintenance, batch updates) and the administrators' and payment APIs run on the
central `new-api` instance, which shares the database and is built from the same
packages (`refactor.md`, `docs/headless-client-api.md`). The models of loops and
administrators' operations describe that instance: functions such as
`SyncChannelCache`, which nothing in this repository calls, are modelled as they are
written. On a gateway the channel cache is what it was at start-up.

| component | state | operations | what makes it correct |
|---|---|---|---|
| billing session (`service/billing_session.go`, `funding_source.go`, `billing.go`) | one `BillingSession` per request, in memory | `NewBillingSession`, `preConsume`, `Reserve`, `Settle`, `Refund` | the ledgers are out exactly what the session says; nothing is refunded after a settlement |
| relay flow (`controller/relay.go`) | the request's goroutine | `Relay`, `RelayTask`, retries, the deferred refund and violation fee | every way out settles or refunds |
| channel selection (`service/channel_select.go`, `channel_affinity.go`, `middleware/distributor.go`) | keys of the request's context, `RetryParam`, the affinity cache | first choice, retry over priorities and groups | the group that serves is charged, every group is tried, retries end |
| streaming (`relay/helper/stream_scanner.go`) | two Go channels, a mutex and an end reason per response | scanner, data handler, ping and main goroutine | what was received is passed on; all goroutines end |
| stream conversion (`service/convert.go`, `relay/channel/openai`) | `ClaudeConvertInfo`, the chunk held back | one step per chunk | the client sees a well-formed, complete Claude message |
| channels (`model/channel.go`, `ability.go`, `channel_cache.go`, `controller/channel.go`, `channel-test.go`) | rows, abilities, memory cache | status changes by requests, tests and administrators, keys, edits, reload | rows, abilities and cache agree in the end, and can be loaded; the last key takes its channel out |
| tokens and users (`model/token*.go`, `user*.go`, `middleware/auth.go`, `common/redis.go`) | rows and their Redis hashes | lookups, charges, updates, goroutines that write Redis | stale hashes expire; a disabled or deleted user is refused, at the latest then |
| subscriptions (`model/subscription.go`, `service/subscription_reset_task.go`) | `user_subscriptions`, pre-consume records, the user's group | purchase, charge, refund, reset, expiry, cancellation, deletion | within the total but for lost updates, charged once, ended for good |
| payments (`model/topup.go`, `controller/topup*.go`, `subscription_payment_*.go`) | orders, the order locks of a process | requests, callbacks of five gateways, completion by hand | credited once, and if paid, in the end |
| asynchronous tasks (`service/task_polling.go`, `task_billing.go`, `model/task.go`) | `tasks` rows | sweep of timed-out tasks, polling pass, refund, settlement | a task is billed once, by whoever moves it to its final status |
| user fetch of Gemini and Vertex tasks (`relay/relay_task.go`) | the same rows | `tryRealtimeFetch` | must not disturb the billing |
| system tasks (`model/system_task.go`, `service/system_task.go`) | `system_tasks`, `system_task_locks` | create, claim, heartbeat, finish, cleanup, on every master node | a row is executed once, and always ends |
| rate limiters, batch updater, redemption codes, check-in, Midjourney | windows; deltas in memory; codes; awards; rows | – | not modelled, see section 7 |
| adaptors, formats, pricing, accounts, options | – | – | stateless, floating point, or library code: not modelled |

How they interact. `TokenAuth` looks the token and its user up, in Redis first.
`Distribute` selects a channel from the memory cache. The relay opens a session, which
charges the token and then the wallet or the subscription, in separate database calls;
`Reserve` would let it take more while the request runs, but has no caller in this
repository. An attempt that fails may disable its channel and is retried on another
channel, perhaps of another group with another price. When the handler returns, the
session is settled in the handler's goroutine or refunded in one of its own, and a
violation fee may be charged besides. `RelayTask` settles the session when the vendor
accepts a job and inserts a row in `tasks`; from then on the row carries the charge. The
polling pass is a system task: the scheduler of each master node creates a row of type
`async_task_poll`, one runner claims it, keeps its lease by a heartbeat, and runs
`RunTaskPollingOnce`. A runner that loses its lease goes on until it looks at its
context, so two passes can overlap: this is why task updates are conditional on the
status that was loaded. Payments credit the wallet or create the subscription that
sessions charge.

Hard behaviours: interleaving of database calls of concurrent requests; row locks
that are asked for and never taken; one of several calls failing; goroutines that
outlive the request they serve; retries of a refund; crashes between a status change
and the billing it triggers; callbacks delivered twice, late or on another node; a
timeout racing with a late answer; leases that expire under a slow runner; caches
written from rows read before a change. `PROJECT.json` ("hazards") places each at
its line and names the properties that would catch it.

## 2. Modules

| module | models | instance for TLC | theorems |
|---|---|---|---|
| `BillingSession` | sessions of concurrent requests over the ledgers | `MCBillingSession` | `BillingSession_proofs` |
| `TaskBilling` | tasks, polling passes, user fetches | `MCTaskBilling` | `TaskBilling_proofs` |
| `SystemTaskLease` | rows and lease of one type of system task | `MCSystemTaskLease` | `SystemTaskLease_proofs` |
| `Payments`, refining `PaymentPromise` | orders, callbacks, the order lock | `MCPayments` | `Payments_proofs` |
| `SubscriptionLedger` | the subscriptions of one user | `MCSubscriptionLedger` | `SubscriptionLedger_proofs` |
| `ClaudeStream`, refining `ClaudeProtocol` | conversion of an OpenAI stream | `MCClaudeStream` | `Streaming_proofs` |
| `StreamScanner` | the goroutines of one streamed response | `MCStreamScanner` | `Streaming_proofs` |
| `ChannelPool` | channels, abilities, cache | `MCChannelPool` | `ChannelPool_proofs` |
| `TokenStore` | a token, its user, their hashes | `MCTokenStore` | `RequestPath_proofs` |
| `RelayRetry` | the channels one request is sent to | `MCRelayRetry` | `RequestPath_proofs` |

Unless a module says otherwise one action is one database, Redis or upstream call
of one goroutine, a call may fail without effect, and processes may crash.
`MaxFaults` bounds the faults of a behaviour. Operators whose comment begins
"Mutant of" are deliberate bugs; they are used to confirm that each property can be
violated.

### BillingSession

| state | code |
|---|---|
| `wallet`, `token`, `subUsed`, `record` | `users.quota`, `tokens.remain_quota`, `user_subscriptions.amount_used`, the pre-consume record of each request |
| `sess[r]` | the fields of `BillingSession` and its funding source |
| `pc[r]`, `bg[r]` | the request's goroutine and its refund goroutine |
| `req[r]`, `due[r]`, `outcome[r]`, `tries[r]` | profile of the request, amount in hand, result, attempts of `refundWithRetry` |
| `paid`, `fee`, `credits`, `hit` | history: what each ledger is out for a request, the part `PostConsumeQuota` took, how often the subscription was credited with the refund, and whether a call failed |

Actions: `Arrive`, `Dispatch`, `TryWallet`, `TrySubscription`,
`PreConsumeTokenCheck/Decrease`, `PreConsumeFunding`, `PreConsumeRollback`,
`Fallback` (opening a session, with trust, free models, playground, unlimited
tokens and the fallback between sources); `Reserve`, `ReserveFunding`,
`ReserveTokenCheck/Decrease`, `ReserveRollback`, `Reserved`; `Succeed`,
`SettleFunding`, `SettleToken`; `Fail`, `PostConsumeFunding`, `PostConsumeToken`
(violation fee, and the settlement of a request without session); `RefundWallet`,
`RefundSubCredit`, `RefundSubSave`, `RefundExtra`, `RefundToken`;
`ExpireSubscription`, `Crash`.

Abstractions: one user with one subscription; Redis and the batch updater off (a
charge is one `UPDATE`); each subscription transaction is atomic, except that the
transaction nested in `RefundSubscriptionPreConsume` commits on its own
(`RefundSubCredit`, then `RefundSubSave`). The source asks for row locks with
`Set("gorm:query_option", "FOR UPDATE")`, which `gorm.io/gorm` ignores; the
interleavings inside a transaction this allows are those of `SubscriptionLedger`.
Prices are small sets of numbers: pricing is floating point and its result is a
nondeterministic choice.

### TaskBilling

| state | code |
|---|---|
| `status`, `full`, `quota`, `submitted` | the columns of `tasks` (`full`: progress is "100%") |
| `late`, `upstream`, `cost` | older than `TaskTimeoutMinutes`; what the vendor makes of the task; what the settlement will compute |
| `phase[p]`, `job[w][t]` | where pass `p` is; what worker `w` does with task `t`, with the status it loaded and the one it will write |
| `funding`, `token`, `hit`, `was` | history: what the ledgers are out for the task, whether its billing met a fault, and the status a bulk failure took from it |

Actions: `Submit`; `StartPass`, `SweepTask`, `StartPoll`, `FetchTask`,
`UpdateVideoTask` (conditional), `UpdateSunoTask` (unconditional, after the
refund), `BulkFail` (the channel cannot be looked up), `RefundFunding`, `RefundToken`,
`SettleFunding`, `SettleToken`, `Cancel` (context cancelled), `EndPass`;
`RealtimeLoad`, `RealtimeFetch`, `RealtimeSave` (a user's fetch); `UpstreamEnds`,
`TimePasses`, `Crash`. Queries return at most `SweepLimit` and
`QueryLimit` rows. `CacheGetChannel` fails when the channel was deleted, when the
node's cache does not know it and when the database does not answer, so `BulkFail` may
happen to any task that was loaded: it writes FAILURE over whatever the row says by
then, and refunds nothing.

Assumptions: a task has a channel and an upstream id of its own;
`TaskTimeoutMinutes` > 0; an answer has progress "100%" only with a final status;
a Suno answer has a fail reason only with a status of `SunoReasons`; the session
was settled before the row is inserted, as `RelayTask` does.

### SystemTaskLease

The rows and the lock of one task type; types do not interact.

| state | code |
|---|---|
| `status`, `lockedBy` | the columns of `system_tasks`; `active_key` is set exactly while the status is pending or running |
| `lock` | the row of `system_task_locks`; `left` is `locked_until - now` |
| `job[r]` | runner `r`'s `ClaimSystemTask` or `ExpireStaleSystemTaskLocks`; `age` is how long ago it read the clock |
| `exec[k]`, `dead` | the handler of row `k` and its heartbeat; dead nodes |
| `starts`, `faults` | history |

Actions: `CreateSystemTask`; `StartClaim`, `InsertLock`, `ReadLock`, `TakeLock`,
`MarkOld`, `StartTask`, `ReleaseClaim`; `StartCleanup`, `MarkStale`,
`DeleteStale`; `Renew`, `FinishSystemTask`, `ReleaseFinished`, `HandlerFails`;
`CallFails`, `Crash`, `Tick`.

Abstractions: nodes share one clock; `lockUntil` and `now` of a claim are the
same instant; the interval between rows and the progress saved in the row are
left out; a row counts as started when its handler's goroutine begins.
`MaxDelay` bounds how long a claim or cleanup may take: the heartbeat covers a
handler, but nothing covers the calls before it.

### Payments and PaymentPromise

| state | code |
|---|---|
| `topups`, `subs` | `top_ups.status`, `subscription_orders.status` |
| `kind`, `phase`, `verdict`, `owed`, `full` | gateway and sort of the order, how far its request got, what became of the payment, whether the gateway still repeats its callback, whether the plan's purchase limit is reached |
| `table`, `mutex` | `orderLocks` of each process and the counted mutexes in it |
| `job` | the handler each worker is in |
| `grants`, `credited`, `manual`, `hit` | history |

Actions: a request for every gateway and sort of order, `LinkCreated`, `LinkFailed`;
`Decide` (the payment); `Deliver` (a callback, first or repeated),
`SubscriptionEpayReturn`, `AdminCompleteTopUp`; `Step`, the statements of the
handlers: `LockOrder` and `MuLock`, the read of the order, the write that
completes, expires or fails it, the credit, `UnlockOrder` and `Unref`, the reply;
`PlanFills`;
`Crash` of a node. A transaction's reads and writes are separate steps, as nothing
is locked. `PaymentPromise` says in ten lines what all this amounts to: an order is
granted once, after it was paid or approved; `KeepsPromise` is the refinement (orders
that are paid or completed by hand are `due`). Signatures and the calls that open a
payment are left out.

### SubscriptionLedger

| state | code |
|---|---|
| `subs`, `records`, `group`, `wallet` | `user_subscriptions`, the pre-consume records, `users.group`, `users.quota` |
| `clock` | `GetDBTimestamp` |
| `job[w]`, `task` | the transaction of each worker and of the maintenance task, with what it has read |
| `charges`, `left`, `raced` | history: charges per request; what each subscription may still give; whether a transaction committed on reads out of date |

`Start` and `Finish` are a transaction's reads and its writes, for every operation:
purchase with the wallet, binding by an administrator, pre-consumption, settlement,
refund, cancellation and deletion (orders are in `Payments`). `Maintain` is the
maintenance task, row by row. `gorm.io/gorm` ignores `Set("gorm:query_option", "FOR
UPDATE")` and `Save` writes every column of the row that was read (and inserts a row
that is gone), so the last writer wins; the properties say what survives this and what
only holds of transactions that overlap nothing (`raced`). A lost update makes a row show
less than was given; `left` counts what was given, and grants the total again with each
reset and each write over a row that had changed. Left out: the cleanup of old
records, plans that change, the plan cache.

### ClaudeStream and ClaudeProtocol

State: the upstream (`up`), the chunk `relay-openai.go` holds back (`held`), the
fields of `ClaudeConvertInfo` (`conv`), the events of the current chunk not sent yet
(`out`), and what the client has seen (`phase`, `blocks`, `last`). A chunk is the
sorts of content it carries (role, text, reasoning, calls of tools by index, finish
reason, usage). `Emit` sends one event, so `ClaudeProtocol`, what a client of the
Claude API may see, is refined step by step (`SpeaksClaude`). The upstream sends words
and tool calls in any order, one or two calls in a chunk, reports usage in any of four
ways (`Usages`), and may end anywhere: `HandleFinalResponse` follows whatever made the
scanner return, and `ReceiveRest` is a body that ends within a line, whose rest takes the
place of the chunk held back. The converter does not follow every stream: tool calls
after words after tool calls, two tool calls in the first chunk and a finish in the first
chunk (`odd`), and streams of one or two chunks. The properties are about the others
(`Followed`); section 3 says what happens to these. `lost` is text that came with a
finish reason without usage.

### StreamScanner

State: where the main, scanner, data handler and ping goroutines are, the goroutine that
writes one ping, `stopChan` and `dataChan` (how much they hold, closed or not),
`writeMutex`, the end reason, both contexts, the streaming timeout; histories of what
was received and handled. One action is one operation on something shared: a channel,
the mutex, the end reason, a context. A `select` with several ready cases takes any of
them, and `default` only when none is ready. Lines are data, `[DONE]` or skipped; the
callback goes on, stops the stream or panics (a panic leaves the mutex locked). A client
may leave, or stop reading, and then the write of the callback or of a ping returns only
once it has left: `main.go:74` sets no write timeout. The ping and scanner goroutines do
not panic: a scanner that did would close `dataChan` before it records its reason. Soft
errors are left out.

### ChannelPool

State: the rows and abilities of the database, `channelsIDM` and the index of the
memory cache, `channelStatusLock`, and what each operation, the reload and the channel
test have read. `RequestFails` and `TestChannel` disable and enable channels and keys;
`Admin` starts the operations of administrators (status, tag, keys, edit of the group,
deletion, insertion, repair); each read and write is a step of `JobStep`, among them
`EditUpdate`, `EditReread` and `EditRecreate` of `Channel.Update`, and `FixTruncate`,
`FixFind` and `FixRefill` of `FixAbility`. A call may fail (`CallFails`, or in the step
itself where the code goes on). `SyncLoad`, `SyncAbilities`, `SyncSwap` and `SyncPanics`
are one reload; `Crash` and a panic of the loop are a `Restart`, with `Boot`. One history,
`raced`: operations of one channel overlapped. A channel is in one group, which edits
change, and has the tag; models, priorities and weights do not change. The model lets
`fixLock` go before the reload at the end of `FixAbility`, the code after it. Editing by
tag is left out.

### TokenStore

State: the rows of a token and its user, their hashes with the time they have left, the
goroutines `gopool.Go` started, requests and changes under way. `ClientStep` is the
lookup of `TokenAuth`; `Start` and `JobStep` are charges, refunds and changes of status,
settings and quota, deletions; `TaskStep` the goroutines that set, increment and delete
hashes, in any order; `Tick` lets hashes expire. Any instance of the program may take a
step. `UserDelete` is the soft delete, which drops the hash, `HardDelete` the
administrator's, which does not. Calls of Redis may fail: in a lookup (`CacheMiss`), in a
goroutine (`TaskFails`), in a change (`CallFails`). Two histories: `stale`, the user's
hash was written late or not told of a change; `quiet`, the ticks since anybody had to do
with a user who is not enabled. Promotion and demotion take the path of "disable" with
another status, and the `user.Update` that follows the "delete" of `ManageUser` fails on
the deleted row: neither is modelled apart.

### RelayRetry

State: the channels that are up, the affinity cache, the settings and what the request
asks for (`conf`), the keys of the context (`ctx`), `RetryParam` (`param`), the channel
and group it is sent to, the group that is billed. Actions: `DistributeSpecific`,
`DistributePreferred`, `DistributeSelected`, `ResolveOriginTask`; `Success`, `Failure`,
`Select`; `Change` disables or enables a channel. `GetRandomSatisfiedChannel` yields
the set of channels the random choice can take. A channel of `MultiKey` may have no
enabled key: `Distribute` ignores that error (`middleware/distributor.go:164`), while
`getChannel` returns it and the loop ends (`controller/relay.go:194`). For a model with a
tiered expression (`conf.tiered`) the ratio is frozen when the quota is pre-consumed
(`relay/helper/price.go:284`). The rules that give an affinity key and
the selection straight from the database are left out.

## 3. Runs

Passing runs. No run uses a state constraint; bounds are in the guards.

| run | instance | shows |
|---|---|---|
| `billing` | 2 requests, 5 profiles, costs {1,3}, ledgers of 4, one fault | `NeverOverRefunded`, `ExactCharge`, `BooksAgree`, `CommittedIsFinal`, `EventuallyMadeWhole` |
| `task_overlap` | 1 video task, 2 passes, 2 faults, submitted before the cutoff, in the year of its comment and after, cheaper and dearer | `BilledOnce`, `ChargeMatchesStatus`, `FinalIsFinal` |
| `task_backlog` | a Gemini task its user fetches and a Suno task, 1 pass with query limits of 1 | `SunoChargeMatchesStatus`; `EventuallyFinished` behind full queries |
| `lease` | 2 runners, 2 rows, TTL 1, delays up to 1, one fault | `ExecutedOnce`, `OneLiveHandler`, `RunningIsCovered`, `FinalStays`, `EveryRowEnds` |
| `payments` | 1 order of every gateway and sort, 2 handlers of one process, 2 callbacks more than needed, one fault | `CreditedOnce`, `AcknowledgedIsCredited`, `KeepsPromise`, `PaidIsCredited` |
| `subscription` | 2 plans, 2 workers, 2 rows, 3 operations, clock to 3 | `GivenWithinTotal`, `ChargedOnce`, `OrderlyUnlessRaced`, `EndedStays`, `MaintainedInTheEnd` |
| `claude` | up to 3 tools, 6 chunks and their end at any place | `MessageComplete`, `SpeaksClaude` |
| `stream` | 3 lines, `dataChan` of 1, with and without pings | `ScannedIsHandled`, `EndHasReason`, `EveryoneLeaves` |
| `channels` | 1 channel of two keys, 1 being added, 2 groups, 2 jobs, 2 operations, one fault | `AbilitiesAgree`, `Reloadable`, `CacheConverges`, `LastKeyDisables` |
| `tokens` | 1 request that is sent again and again, 2 changes of 8 sorts, 2 goroutines, any call of Redis failing, hashes of 1 tick | `PartialRefused`, `HashesSettle`, `DisabledBlocks` |
| `retry` | 2 groups, 3 channels, one of several keys, every configuration with up to 2 retries, one channel that comes or goes | `BilledIsServing`, `EveryGroupTried`, `RequestEnds` |

The bounds are enough for the cases of interest. Two requests make a ledger insufficient
between check and charge (4 against 2 + 3), and a settlement of 1 or 3 against a
pre-consumption of 2 gives and takes. Two passes are what a lost lease gives, and a
third behaves like one of them; 1740000000, 1760000000 and 1800000000 are before the
cutoff, between it and the date in its comment, and after both. Two runners are an old
holder and a new one or a cleaner, two rows the task that overruns and the next one, and
delays of the TTL put a claim on either side of an expiry. Orders do not interact but
for the purchase limit, which is a variable of its own; two handlers and two extra
callbacks are a callback, its repetition and an administrator. Two transactions are what
a lost update needs, and the maintenance task is a third. Three tools are a call that
begins, one that goes on and one that comes out of order. With a buffer of one chunk,
the third line meets a handler at work, a full buffer and a scanner that waits. Two
operations on one channel are a change and the one that reads before it, and with two
groups and one fault they leave a group without abilities in each of the ways section 3
names; the theorems are about any number. In the `retry` run group `a` has two
priorities, `b` two channels of one priority, with and without weight, and they share
one. The properties proved below hold for all bounds.

Every run allows a state without successor (`CHECK_DEADLOCK FALSE`): requests end, and
bounded rows, tasks, operations and faults run out. That nobody is stuck before is what
the liveness properties say.

One run ends in a violation, of a statement the repository makes (quoted in
`PROJECT.json`, "findings"): `task_realtime_lost`, where a user's fetch writes FAILURE
and refunds nothing (`FailureIsRefunded`).

Other disagreements and surprises met while modelling, without a run of their own.

- Refunds. `model/subscription.go:1247` calls the refund of a pre-consumption idempotent.
  It is not: the credit commits in a transaction of its own (`:1265`) before the record is
  saved, and if the save fails `refundWithRetry` (`service/funding_source.go:120`) credits
  again, up to three times in all. `NeverOverRefunded` allows the subscription exactly
  these repeated credits, only after a call of that request failed, and nothing more.
- Tasks. Overlapping passes refund a Suno task twice. `tryRealtimeFetch` can reopen a
  task that was failed and refunded, which is then refunded again. When
  `CacheGetChannel` returns an error, of whatever sort, the tasks of the channel are
  failed by a bulk update that refunds nothing and overwrites what another pass has
  written meanwhile (`service/task_polling.go:389`, `:224`): such a task stays charged
  for the status it had, which is what `ChargeMatchesStatus` says of it (`BilledAs`),
  and `FinalIsFinal` lets this write alone through. `legacyTaskCutoff` (`:53`) is
  2025-02-22 while its comment says 2026-02-22; the model uses the value. Tasks with the
  same upstream id (two channels of one vendor) share an entry of `taskM` (`:147`); the
  model gives each its own.
- Leases. A claim slower than the TTL leaves a row running for ever, and a cleanup
  slower than that fails a row whose lease was renewed: with `MaxDelay` above `TTL`,
  `EveryRowEnds` and `RunningIsCovered` fail.
- Payments. `LockOrder` is in memory: with handlers on two nodes (`Nodes`, `NodeOf`) an
  order is credited twice. `EpayNotify` saves the order as successful before it
  credits (`controller/topup.go:401`), so a fault between loses the credit,
  and Epay and Stripe are acknowledged whatever happens: `AcknowledgedIsCredited` exempts
  their orders when a call failed, and `PaidIsCredited` is about the gateways that are
  answered with care (`Careful`). The completion by hand takes the amount
  of a Creem order, which is quota, for units. Waffo Pancake acknowledges a callback
  whose order it failed to look up.
- Subscriptions. A transaction that read a row before it was cancelled or deleted
  writes the old row back: the subscription is active again. Two charges that read the
  same row both fit: a subscription of 1 gives 2, and its row says 1. When plans name different
  upgrade groups, the end of one subscription leaves the user in its group as long as any
  other upgrading one runs (`model/subscription.go:444`): `GroupHeld` is about plans that
  name one group (`OneUpgradeGroup`).
- Tokens. An update of the status alone writes the remaining quota it read
  (`model/token.go:304`): a charge in between is undone. The limit on the number of
  tokens is counted before the insertion. The administrator's `DeleteUser` leaves the
  hash of the user (`model/user.go:342`), a failing invalidation is only logged
  (`controller/user.go:1148`), and a failing `updateUserCache` returns before it: the user
  is served until the hash expires, which is how `DisabledBlocks` is stated. A user's hash
  that comes back with some fields alone is admitted when the status is among them.
- Channels. A reload panics on a group that an enabled channel names and no ability
  does (`model/channel_cache.go:61`). Two edits of the group that overlap, a status saved
  over an edit, a `FixAbility` that fails after it emptied the table and a death between
  the writes of the two tables lead there. In the loop nobody recovers the panic: the
  process dies, and its start repairs the abilities; `Reloadable` says that this ends.
  `DeleteDisabledChannel` (`model/channel.go:875`) leaves the abilities
  of the rows it deletes, and `UpdateAbilityStatusByTag` (`model/ability.go:316`) enables
  them again, so `AbilitiesAgree` is about channels that exist. A failing request that
  read the row before an administrator disabled the channel writes "auto" over it, and a
  test may then enable it; a reload that read the rows before puts the channel back into
  the index until the next reload. Nothing promises otherwise, and no property does.
- Conversion. Without usage the message is never ended. Text in the chunk that carries a
  finish reason is lost unless the usage comes with it. A finish in the first chunk
  without usage ends the message without a `message_delta`. Of a first chunk with two tool
  calls only one is looked at. Tool calls that go on after words behind earlier ones
  get blocks counted from the new one by the number the upstream gives them, which skips
  indices. `HandleFinalResponse` converts the chunk it holds without counting it: the
  last of two chunks starts the message a second time, an only chunk none.
- Streaming. `stopChan` carries one value per stop and the ping goroutine may be the one
  to receive it: a handler that stopped the stream is then heard only when the streaming
  timeout runs out, and an upstream that goes on sending skipped lines delays that. A
  failed ping sets the end reason and the stream goes on, so that a later `[DONE]` is
  not recorded and `relay_image.go:122` does not pass it on. The goroutine that writes a
  ping is not waited for: it may write after the relay has returned, and if the handler
  panicked with the mutex locked (`relay/helper/stream_scanner.go:198`) it waits for ever.
  The server has no write timeout (`main.go:74`): a client that keeps its connection and
  does not read holds the data handler, and the relay gives up its join after the time it
  allows. `EveryoneLeaves` names both cases.
- Retry. The comment at `service/channel_select.go:56` lets a group "exhaust all its
  priorities"; the code stays at the last priority and leaves the group at `RetryTimes`.
  With `RetryTimes` 0 no request crosses groups. A request that names its channel is
  moved to another one after an error of that channel, since `shouldRetry` looks at
  that first. A channel taken by affinity leaves the group index where it was, so the retry
  begins with the first group. When the groups run out, "unavailable" replaces
  the upstream's error. A retry that selects a channel without an enabled key ends, with
  groups untried. A tiered expression is charged with the ratio of the first group wherever
  the retries lead (`pkg/billingexpr/expr.md:176` says so), while the surcharge for tools
  takes that of the last.
- Remix. `ResolveOriginTask` reads the `ChannelId` of a `ChannelMeta` that is not set
  until the retry loop (`relay/relay_task.go:92`): a remix whose channel is enabled
  panics, though the comment at `:33` has it locked to that channel.

## 4. Fairness

- `BillingSession`: weak fairness of the refund goroutine and of the violation
  fee, since a goroutine that was started is scheduled. Nothing is assumed of
  clients or of the upstream.
- `TaskBilling`: the scheduler starts passes again and again and a pass goes on
  (weak fairness of its steps), and time passes. Nothing is assumed of the
  vendor, which may never end a task, or of users.
- `SystemTaskLease`: the runner loop wakes every few seconds and returns to the
  cleanup and to the claim, which are enabled now and then (strong fairness of
  their first steps); calls return and handlers end (weak fairness); time passes.
  The heartbeat is not assumed to be in time. The last node does not die.
- `Payments`: handlers go on; a Go mutex starves nobody (strong fairness of `MuLock`);
  a gateway repeats a callback until it is acknowledged. Nobody has to pay.
- `SubscriptionLedger`: the maintenance task runs again and again.
- `ChannelPool`: the reload loop and the operations under way go on. `TokenStore`:
  goroutines and changes go on, time passes. `RelayRetry`: the handler goes on.
- `StreamScanner`: goroutines that can go on do, the mutex starves nobody, the streaming
  timeout runs out, reading a closed body ends, and a write returns once the client is
  gone. A write to a client that stays need not return, the client need not leave, and the
  upstream may be silent for ever; its lines are finitely many (`MaxLines`).

## 5. Proofs

All theorems hold for any sets of requests, tasks, runners, orders, plans, channels and
so on, any amounts and any number of faults. They use only the assumptions named in the
modules (`ConstantsAssumption`, `TaskAssumption`, `LeaseAssumption`, `PaymentAssumption`,
`LedgerAssumption`, `StreamAssumption`, `PoolAssumption`, `RetryAssumption`,
`TokenAssumption`, `ClaudeAssumption`), which say what sort of value each constant is;
where a theorem needs more, its statement says so. Two of them also bound a value: hashes
live for some time (`RedisKeyCacheSeconds` is the sync frequency, 60 s by default), and
`MaxBlocks`, an artefact of the model, is more than the blocks a stream can start.
The inductive invariants were checked by TLC before they were proved.

`BillingSession_proofs`. The properties are about `paid`, which no guard reads, so none
is inductive. The invariant `IInv` = `TypeOK` /\ `SubWithinTotal` /\ `BooksAgree` ties
`paid` to the session: at each program counter the token and the funding source are out
exactly what the session's fields say, and more only if a call failed (`Covers`); a
repeated credit of the subscription is counted (`credits`) and never exceeds the
attempts of `refundWithRetry`. `Books` has six parts: which source is charged, the shape
of the session, the shape of the outcome, fees, token and funding. Each action has a
lemma. Theorems: `LedgersAgree`, `BooksBalance`, `TypeCorrect`, `TotalRespected`,
`NoOverRefund`, `OneSource`, `SettledPaid`, `Exact`, `CommitFinal`.

`TaskBilling_proofs`. `IInv` = `TypeOK` /\ `IdlePasses` /\ `BillingDiscipline`.
A worker that holds a task loaded it open, so at most one conditional update
leaves the open statuses, and its worker is the only biller; the biller's
program counter tells what the ledgers are out. A bulk failure writes without a condition,
so the invariant speaks of the status the task was billed for (`BilledAs`) and of who had
given the task up by then (`GivenUp`). It speaks of guarded tasks: video
tasks, and Gemini and Vertex tasks nobody fetches, as for the others it is false
(section 3). Theorems: `Disciplined`, `TaskTypeCorrect`, `NeverBilledTwice`,
`ChargeMatchesRow`, `FinalStays`. For Suno tasks, refunded before an unconditional
write, `SunoInv` adds what holds when passes do not overlap: the row is open until the
pass that holds the task writes it, or the sweep has failed it, and the progress of
that pass tells what the ledgers are out. `SunoChargeMatchesRow` follows; that there is
one pass, and that a fail reason comes only with `FAILURE`, are premises of the property.

`SystemTaskLease_proofs`. `IInv` = `TypeOK` /\ `RowInv` /\ `ClaimsAnew`: one
active row (the unique index), unclaimed rows have no handler, a claimer did not
start its row before. It gives `LeaseTypeCorrect`, `NoRowRunsTwice`,
`AtMostOneLive` and `FinishedForGood` whatever the delays. `AlwaysCovered` needs
`MaxDelay <= TTL` and a second invariant, `LeaseInv`: a claim that acquired the
lock holds it until it starts its row, and if a row is running while another
claim or a cleanup is on its way, the row was started after that one read the
clock, so to it the lock is not stale. An effect lemma for each action describes
it field by field; the step lemmas use only those.

`Payments_proofs`. One process (`SingleNode`; with two, `CreditedOnce` is false, section
3). `IInv` has three parts. `LockOk`: an order has at most one mutex, which is in
`orderLocks` as long as it has users, counts them (`refs` is the cardinality of the
users) and is held by the one between `MuLock` and `UnlockOrder`; the reference counting
is why a late caller finds the mutex the others wait for, never a new one. `JobOk`: what
a handler knows where it is, that it holds the lock when it credits, and that nothing
was credited then. `RowOk`: what is pending was not credited, what is completed was, but
for an Epay order whose credit is under way or failed. Theorems: `PaymentInvariant`,
`PaidOnce`, `AckAfterCredit`, and `PromiseKept`: every step is a step of
`PaymentPromise` or a stutter.

`SubscriptionLedger_proofs`. Row by row `amount_used` stays within the total, since
every write that could exceed it checks the row it writes, also when that row is out of
date. What was given is another matter: `LeftOk` says that what a row shows as left is
no more than what the subscription may still give (`left`), which a write over a changed
row keeps because it is granted the total once more. A request without record was not
charged. A transaction that none overlapped has read what the database says (`Current`),
which gives the rest. Theorems: `LedgerInvariant`, `QuotaInvariant`, `ChargeUnique`,
`TotalHolds`, `LimitAndBalance`, `EndedStaysEnded`, and `OrderlyWithoutRaces` for plans
that name one upgrade group. What `LastReset` computes is not used: the rows keep
whatever times it gives.

`Streaming_proofs`, `StreamScanner`. `EndHasReason` is not inductive: the reason has to
be there before anything that can wake the main goroutine (`ReasonFirst`: a value in
`stopChan`, a closed channel, a cancelled context, a goroutine on its way out).
`NoneLost` counts every chunk at one of four places, handled, buffered, held by the
scanner or held by the handler, as long as nothing but the end of the stream has stopped
it; `ClosedAtEnd` and `JoinedForGood` empty the last three. Theorems: `StreamInvariant`,
`StreamTypeCorrect`, `ReasonGiven`, `NothingLost`, and `NoSenderBlocks`: with the three
places the code gives `stopChan` (`StopBuffer >= 3`) nobody who says stop is ever
blocked.

`Streaming_proofs`, `ClaudeStream`. The converter produces several events per chunk from
`ClaudeConvertInfo` alone, without knowing what the client has got so far, so neither
`SpeaksClaude` nor `MessageComplete` is inductive. `ClaudeInv` says that the events not
sent yet may be sent one after the other (`Sends`: a sequence of client states in which
each event is allowed) and that this brings the client to a state that `Agrees` with the
fields of `ClaudeConvertInfo`: the blocks below the one it is writing are closed, the
open ones are one block of text or reasoning or the row of blocks of its tool calls,
those above are not used yet, and what is left to deliver is in the chunk held back.
`Counted` and `HeldBack` say which chunk that is at each stage of the upstream and which
tool calls the converter has seen before it. There is a lemma for each event, each
operation of the converter (`StopOpenBlocks` and the ones that open a block), each sort
of chunk and each action. Theorems: `ConverterAgrees`, `ClaudeTypeCorrect`,
`ImplementsClaude` (each step is a step of `ClaudeProtocol` or a stutter) and
`CompleteAtTheEnd`, for every upstream and every end of it, with the premise `Followed`
in the properties: without it both are false (section 3).

`RequestPath_proofs`, `RelayRetry`. The context names a group only for requests of the
group "auto", and then the one that serves (`OwnGroup`); a tiered expression keeps its
first ratio between attempts too (`RatioIsFrozen`). For a request that goes through all
groups, every group before the index has had its attempt (`BehindIsTried`) and an
attempt that fails leaves a retry (`RetriesLeft`), which is where `resetNextTry` is
needed. Theorems: `RetryInvariant`, `ChargedWhereServed`, `NoGroupLeftOut`.

`RequestPath_proofs`, `TokenStore`. An increment of a hash that expired brings it back
with one field, and a goroutine may write what was read long ago. `TokenInv` says that
whoever sets a hash has all its fields, so that a token's hash that says "on" is full,
and what a request was accepted with is full. For the user it says that a hash that is
"on" while the row is not belongs to a change that is about to overwrite or drop it,
unless a goroutine wrote it late or nobody told Redis (`stale`); a change that found its
user deleted still finds it deleted. `QuietInv` is the other half: the ticks since
anybody had to do with the user and those such a hash has left add up to the time to
live at most. Both are stated over goroutines and changes, so a step that starts or ends
one needs a frame lemma for the others. Theorems: `HashesConsistent`,
`PartialHashRefused`, `StaleHashesExpire`, and `DisabledStaysOut`: `TokenAuth` accepts
nobody whose user is disabled or deleted, once the change is through or the time to live
has passed.

`ChannelPool_proofs`. `IInv` = `TypeOK` /\ `IndexServed` /\ `DeletedIsGone` /\
`ReadsHold` /\ `AgreeOrMid`. Rows and abilities are written
in different steps, so they agree only where no job is between the two; for one that is,
`WillAgree` says that what it is about to write agrees. A job that writes what it read
needs `ReadIsStored`. Both speak of jobs that overlapped no other. A step is
proved in two parts: `Frame` (it keeps to its channels, and writes only where no other
job is at work or sets `raced`) keeps what is known of the other jobs, and what is left
is about the job itself (`Compose`). Theorems: `PoolInvariant`, `RowsAndAbilities`,
`LoadableUnlessRaced` (nothing but an overlap or a failure makes a reload panic) and
`LastKeyTakesChannelOut`.

`SubWithinTotal`, `SingleSource`, `SettledIsPaid`, `BillingDiscipline` and the type
invariants are not checked by a run any more: they are proved for all instances, and
`BooksAgree`, which the `billing` run checks, is part of the invariant of `LedgersAgree`.

Only model-checked: the liveness properties (the prover has no fairness or ENABLED:
`EventuallyMadeWhole`, `EventuallyFinished`, `EveryRowEnds`, `PaidIsCredited`,
`MaintainedInTheEnd`, `EveryoneLeaves`, `CacheConverges`, `Reloadable`, `HashesSettle`,
`RequestEnds`),
and the violation. The one recursive definition is the function `LastReset`
of `SubscriptionLedger`; what it computes would take an induction the prover cannot do.

## 6. Plan

Done: the billing core with its proofs; then, in order of what depends on them, payments,
subscriptions, tokens, channels, retries, conversion and streaming; then the proofs about
payments with their refinement, subscriptions, channels, retries, streaming, tokens, and
the conversion with its refinement.

Next: `TaskBilling` extended by shared upstream ids and the Midjourney loop, and composed
with `SystemTaskLease`.

## 7. Not modelled

Upstream adaptors, DTOs, format conversion other than the Claude stream, relay
handlers, listing and administration APIs and settings are most of the repository's
107 000 lines. They translate one value to another or read and write single rows, and
keep no state that a model checker would explore; the map covers the state machines
(about 8 % of the lines).

- Pricing and billing expressions are floating point; their result is a
  nondeterministic cost.
- Sign-in, OAuth and passkeys are library calls around single-row reads and writes.
- Options and statistics have no property beyond their values.
- Rate limiters are Redis scripts and windows that touch none of the modelled state.
- The batch updater (`model/utils.go`): the models describe `BatchUpdateEnabled` off.
- Redemption is one transaction, with the ignored row lock of `SubscriptionLedger`;
  check-in is decided by a unique index.
- Midjourney is a second polling loop like that of `TaskBilling`.
- Of channels: copying, editing and setting tags in bulk, upstream model updates, the
  polling index of keys, selection straight from the database, path filters of Advanced
  Custom channels, the matching of affinity rules.
- `service/pre_consume_quota.go` has no caller.

## 8. Running

    tlc -config MCLease.cfg MCSystemTaskLease
    tlapm SystemTaskLease_proofs.tla

Each run of `PROJECT.json` names its module and configuration. The longest runs take
between two and three minutes, the longest proof about four.
