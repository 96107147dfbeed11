# Verification of the webhook service

A TLA+ model of the on-chain activity webhook service in `src/`: its modules
follow the code of one component each, TLC checks them on small instances, and
TLAPS proves the results that matter for every value of the constants.

Line numbers are those of `src/` at the commit beside this directory;
`PROJECT.json` maps every definition to the lines it translates.

## 1. The system

```
 API (subscriptions, webhooks, chains, operator)        cron, every 5 minutes
   | one D1 transaction: rows + outbox command            | redispatch commands,
   v                                                      | wake shards, retention
 D1 <--------------------------------------------------- -+
   ^   \ /apply /scan /reanchor /wake
   |    v
 ScannerShard (one Durable Object per chain) -- RPC --> rpc-racer --> chain
   | row of the observation, then one message
   v
 queue matched-activity --> fanoutMatched --> queue webhook-delivery
                                                  |  (8 retries, then a
                                                  v   dead-letter queue)
                                            deliverWebhooks x n --> endpoints
                                                  |
                                            ledger webhook_deliveries <-- replay (operator)
```

| Component | State | Operations | What makes it correct |
|---|---|---|---|
| Scanner shard (`scanner/ScannerShard.ts`) | D1: cursor and status of the chain, `activity_observations`. Object storage: window of held blocks, unresolvable count, alarm. Memory: pending tip, failure count | scan pass (alarm or `/scan`), reorg branch, re-anchor after unresolvable candidates, skip of a poisoned block, `/reanchor`, `/wake`, `/apply` | an event is sent once and not lost; the window is one branch; the pass never wedges; an activation misses no block but for the lag of the upstreams; a pause holds |
| Reorg primitives (`domain/reorg.ts`) | none | `findAncestor`, `orphanedHeights`, `pruneTo`, `pushWindow`, `classifyChain` | what is pruned and what is compensated agree |
| Fan-out (`queues/fanout.ts`, `queues/plan.ts`) | the batch in hand | plan, one send for the batch, retry | every webhook still subscribed gets a message, nobody gets one from before its boundary |
| Delivery (`queues/deliver.ts`, `api/queues/webhookClient.ts`) | ledger rows | skip what was delivered, insert, POST, classify, record, throw | nothing is lost, the ledger is true, repeats are bounded |
| Operator replay (`api/operator.ts`) | ledger rows | list dead letters, reopen, send | rows and messages agree when a step fails |
| Command outbox (`scanner/outbox.ts`) | `scanner_operations`, subscriptions, reference counts of tracked addresses | submit, dispatch, reconcile | the count of an address is the number of its live subscriptions; every command is applied; the chain of an active subscription is kept awake |
| Subscriptions, webhooks, chains API | their rows | create, delete, retry | quotas, no live subscription of a deleted webhook |
| Activity matching (`domain/activity.ts`, `domain/bloom.ts`) | none | the bloom test, `analyzeBlock`, `finalizeBundles` | every tracked participant gets its bundle, and the bundle says what the block says |
| RPC client (`rpc/client.ts`, `rpc/schema.ts`) | none | three batches (blocks, logs, receipts), each with its attempts | an answer is the answer to its request and of the block it is about; an outage is told from a poisoned block; every read ends |
| Cron (`index.ts`) | none | redispatch, wake, retention | lost alarms come back |
| Auth, metrics, site, bodies, test delivery, history | none that another part decides on | | not modelled |

Interactions that are hard: the object serialises its own operations
(`exclusive`), but the worker writes D1 beside it (pause, resume, subscriptions,
deletions); rows, storage, queue and memory of a pass become durable at
different moments, so a crash, a lost alarm or an eviction between two of them
leaves a mixture; the chain reorganises between two reads of a pass, and the
upstreams behind rpc-racer lag behind each other; a queue delivers a whole batch
again when its handler throws, to other invocations that run at the same time,
and the ledger is read before the request and written after it. `PROJECT.json`
lists each hazard at its line, with the properties that cover it or the reason
why none does yet.

## 2. Modules

| Module | What it is |
|---|---|
| `Arrays`, `ArrayProofs` | the order that `filter` and `sort` give, without recursion; what is proved of it |
| `Reorg` | the pure operators of `domain/reorg.ts` over windows of blocks; a block is its hash, which fixes its number and parent |
| `Observations` | abstract: an observation is recorded once, told at most once and after that; only one of a transaction that succeeded is ever reverted, and then told of once more |
| `Scanner` | the shard of one chain: one action per step between two awaits, with at most one durable write each; implements `Observations` |
| `ScannerProperties` | what it must do, with the refinement |
| `ScannerProofs`, `ScannerPassProofs` | theorems |
| `MCScanner`, `MCScannerSkip` | two small block trees for TLC |
| `Delivery` | both queues, the fan-out, any number of delivery consumers, the ledger, the replay |
| `DeliveryProperties`, `DeliveryProofs`, `DeliveryOnceProofs`, `MCDelivery` | its properties, theorems, instance |
| `Subscriptions` | abstract: a subscription is created once, live until it is deleted, unique in its tuple; a target is tracked while it has a live one |
| `ControlPlane` | requests, outbox, cron and the command handlers of the shards; implements `Subscriptions` |
| `ControlPlaneProperties`, `ControlPlaneProofs`, `ControlOutboxProofs`, `MCControlPlane` | its properties with the refinement, theorems, instance |
| `Activity` | the pure operators of `domain/activity.ts` and the bloom test: which tracked address takes part in which transaction of a block, and what it is told |
| `RangeRead` | the read of a range of blocks with its retries and its validation, and the observations made of each block |
| `RangeReadProperties`, `RangeReadProofs`, `MCRangeRead` | its properties, theorems, instance |

### Scanner and the code

`pc` is where the operation in progress stands; the object runs one at a time,
so there is one. The variables of the loop are registers with the names of the
code where it has one (`head`, `next`, `processed`, `wnd` for the window in
memory, `last` for the cursor in memory); `fetched` is the prefetch map, `stop`
is `processEnd`. `window`, `unresolvable`, `alarm` are keys of the object's
storage, `cursor`, `status`, `obs` are D1, `matched` and `reverts` count messages
per observation. The path of a pass is `BeginPass`, `ReadHead`, then
`NothingToScan`, `AnchorAtHead` or `PlanPass`, `FetchRange` for each range,
and per block `ReadReceipts`, (`UpsertObservation`, `EnqueueMatched`)*,
`FlushCursor`; `SavePass` and `Settle` end it. `StartReorg` to `RewindCursor` are
the reorg branch, `CountUnresolvable` to `Reactivate` the recovery,
`ApplySubscribe` to the commit of an activation. Whatever ends by scheduling the
next pass ends in `Schedule`, a step of its own, so a crash may come between the
last write to D1 and the alarm. `RpcFails`, `BlockFails`
and `Interrupt` are the three ways an error goes (retry later; count a failure of
the block; leave the operation), and a failed write may have taken effect.
`Interrupt` is also the crash: memory goes, and the alarm may.

Data is abstracted: a block yields a number of observations (`Items`), an
observation may be of a failed transaction (`Failed`), some blocks always throw
(`Poison`). The budgets in time (when the cursor is flushed, when the alarm
fires) are nondeterministic. Left out: the expiry of observation rows after seven
days (`runRetentionCleanup`, `repository.ts:1045`), which `Delivery` has. A block that is processed
again after its rows expired would be enqueued again; the ledger, which keeps its
rows for 30 days, is then all that stops a second delivery.

The refinement mapping takes `matched` and `reverts` as they are, and the rows
but for one value: D1 stores `reverted` for a transaction that failed and for a
block that was orphaned, and `Observations` calls the first `failed`, for which
nothing is ever reverted. What `Delivery` assumes of its producer
(`EnqueueMatched`: one message for an observation, whose row is there) is what
`Observations` promises.

### Delivery and the code

A message is its destination (webhook and observation, the unique key of
`webhook_deliveries`), the id it carries, the replay it came from and its retries
so far. `TakeBatch`, `NextMessage`, `ReadWebhook`, `ReadExisting`,
`InsertPending`, `Post`, `Record` are the awaits of `deliverWebhooks` and
`attemptOneDelivery`, in that order, per consumer; `RecordInactive` is
`recordDeadLetter`. `rowId` is `existing?.id ?? work.deliveryId`, which the
consumer keeps from the read to the write; `UpdateRow` changes nothing when the
row has another id. `Throw` is what the queue does with a throwing handler: the
whole batch again, one retry more each, or to the dead-letter queue. The queues
are external: their batches are any subset up to the size, in any order.
`enqueued`, `fanned`, `tried`, `refused`, `oks`, `dropped`, `stranded` are history
for the properties.

Left out: the `attempts` counter and response columns of a row; bodies and
signatures; `activity.reverted` and test deliveries; the deletion of ledger rows
after 30 days; the branch
for a webhook without a row, which nothing reaches because webhook rows are never
deleted. One subscription stands for those of a webhook to the address.

### ControlPlane and the code

Each request runs in a worker (`wpc`), the cron in one of its own. `StartCreate`,
`ReadHook`, `ReadChains`, `CountSubs`, `Examine`, `InsertSubscription` are the
awaits of `POST /subscriptions`; `todo` are the chains still to come, `used` and
`seen` the counters the handler keeps, stale as they may be. `InsertRefused` is
the transaction rolled back by the unique index or by the trigger of migration
0003. `DeleteSubscription` and `DeleteHook` share `Unsubscribe`, the four
statements of `unsubscribeStatements`. `outbox` is `scanner_operations` in the
order of creation, a command is its position, `applied` the ones that are done.
A caller in `wait` holds a fetch of `/apply`; `Apply` is the shard taking it from
its promise chain, and `ReadSub`, `Resolve`, `Register`, `Complete`, `Reject`, `Mark` are the
handlers, whose last step answers the caller if it is still there. `Resolve` finds the
chain and reads whether it is paused (a retry does not ask), `Register` writes what
was read.

Beside the commands (`Beside`), rpc-racer lists a chain, denies one it has listed
(`ForgetChain`, with `forgotten` as history) and lists it again; the operator's two
requests pause and resume a chain (`PauseOrResume`); and a pass of the shard that
degrades or re-anchors the chain writes its status without reading it (`Rescan`;
`degraded` is `active` here, because the cron wakes both). All of these may come
between the two halves of a handler, but for the pass, which is another operation of
the same shard.

Where nothing that comes between two awaits makes a difference they are one step:
the answer of `resolveChain` and the read of the status (a denial in between may as
well come after both), the denial and the write of `unsupported`, the head and the
transaction that uses it (the head's value is the subject of `Scanner`). Left out: accounts (there is one),
the route of a test delivery, the creation of webhooks.

The refinement mapping is the identity on `state`; the abstract `tracked` is the
set of targets whose `ref_count` is positive. `Implements` thus says that a late
activation or rejection never revives a deleted subscription, never takes an
active one back, and that addresses appear for the scanner and vanish from it
in the very step in which their first live subscription comes and the last one
goes.

### Activity, RangeRead and the code

`Activity` has the names of the code: `AnalyzeBlock` is the set of the drafts that
`analyzeBlock` leaves in its map, one for each key of the three steps
(`SenderKeys`, `TokenKeys`, `NativeKeys`); `Bundle` is what `finalizeBundles`
makes of a draft. A block is what its hash fixes: number, transactions, failed
ones, logs and bloom. A mask is a set of bits. Amounts, assets, nonces and
timestamps are carried along by the code and left out; the id of an observation
is its transaction, address and block.

`RangeRead` is one read: `fetchBlocksAndLogsByRange`, then `processBlock` for each
block, up to the observations (what becomes of them is `Scanner`). A step is one
HTTP request with its answer. `pc` is the batch to be answered, `attempt` the
loop of `jsonRpcBatch`. A batch is answered by one upstream, in any order
(`Listings`); `ByRequest` is the map by id. An upstream may have another branch
(`View`), may answer a request with a block, log or receipt of another one
(`Stray`), or with something that does not parse (`Malformed`); everything for
which `jsonRpcBatch` tries again is `AttemptFails`. `IsBlockOf`, `AreLogsOf` and
`Confirms` are the validations, whose failure ends the read at once, as in the
code. `lied` and `outages` are history.

Three things are assumed of the chain and the upstreams. A bloom has the bits of its
block's logs (`BloomAssumption`). The parties of a Transfer log are addresses padded
with zeros: of a topic with other upper bytes `topicToAddress` keeps the last 20
bytes (`activity.ts:15`), so the code would take part in such a log for a tracked address
whose padded mask (`bloom.ts:30`) the bloom need not have, and `NothingMissed` says
nothing of it. And an upstream that lacks a block answers `eth_getLogs` by its
hash with an error or with other logs, not with an empty array: an empty array
is indistinguishable from a bloom that was positive for nothing, so the
code could not know that it misses transfers.

In `Scanner` a block yields `Items[b]` observations whoever answered; that it
may do so is what `BundlesFaithful` says here. Left out: `jsonRpc`, the single
request that reads heads and headers, abort signals (the scanner passes none),
the delays between attempts.

## 3. Runs

`tlc -config X.cfg M` in this directory; all finish in less than five minutes.

| Run | Checks | Shows |
|---|---|---|
| `scanner_core` | `TypeOK`, `NotifiedAtMostOnce`, `HeldBlocksRecorded`, `WindowLinked`, `NoReorgVerdict`, `LoopIsPrefetched`, `AlarmSurvives`, `ActivationMissesAtMostLag` | the shard with reorgs, one failure, one operator request, an activation, a poisoned block and heads that lag, in any order |
| `scanner_skip` | `NotifiedAtMostOnce`, `WindowLinked`, `MarkedAreReported`, `DroppedBlocksMarked`, `KeepsPromise` | the reorg branch, on the only input that reaches it: a fork that jumps over numbers |
| `scanner_live` | `CatchesUp`, `PendingActivates` | the scanner comes back to the head, also past a poisoned block; subscriptions are activated |
| `scanner_orphans`, `_lag`, `_lost`, `_poison` | one property each, violated | see the findings |
| `delivery_core` | `TypeOK`, `NothingLost`, `LedgerTruthful`, `OnlyEligible`, `ResendsArePaidFor` | two consumers, a failure, a deletion, a replay, exhausted retries |
| `delivery_live` | `LedgerTruthful`, `Settles` | one consumer and two replays at once, under fairness |
| `delivery_surfaced` | `ExhaustedAreSurfaced`, violated | see the findings |
| `control` | `TypeOK`, `RefsMatch`, `PendingHasCommand`, `LiveHasWebhook`, `ActiveIsScanned`, `OvershootBounded`, `Implements`, `CommandsApplied` | requests at the same time, cron, shards and failures, chains that are paused, denied and listed again |
| `range_read` | `TypeOK`, `NothingMissed`, `BundlesFaithful`, `OutagesNeverSkip`, `FailsForCause`, `ReadEnds` | a read of two blocks from upstreams that disagree, confuse, reorder and fail |

**Bounds.** `MCScanner` is a tree of six blocks, numbers 1 to 4, whose last two
have a rival branch; one block yields a successful and a failed transaction, a
rival one yields one. `WindowLimit`, `MaxBlocksPerPass`, `ReanchorDepth`,
`UnresolvableLimit` and `SkipAfter` are 2 and a range is 1 block, so within the
tree a window overflows, a pass ends with blocks left, a re-anchor lands below
the fork, both limits are reached. `MaxMoves` (growth or reorgs of the chain) is
up to 3, which is enough to leave a branch and return to it. `MaxFaults` (failed
calls and crashes) and `MaxOps` (requests of the operator) are 1: each fault
may hit any step, and the next pass runs from the mixture it left.
`HeadLag` is 1 in `scanner_core` and `scanner_lag`: one upstream may be a block behind
another, which is enough for an activation to miss a block; `ActivationMissesLag` holds
for every lag. In `scanner_live` `SkipAfter` is 1, so the block that always throws is
skipped at once, by a re-anchor whose anchor may fail to be read: with 2 it would be
the lasso of `scanner_poison`. `MCScannerSkip` has no
poison and larger passes, so that two blocks are dropped together.

`MCDelivery` has three webhooks whose boundaries are below, at and above the
block of one observation, two consumers (symmetric) or one, batches of two,
so a message can be behind a busy one in its batch. One retry of each queue is
enough to be retried and to run out of retries. Two replays run at once in `delivery_live`, each of
no more than one row (`ReplayLimit`, 500 in the code), so the limit is met; `delivery_core` has
one replay, and the failure, which makes a batch come back as a busy endpoint does. Of the seven answers of an endpoint
the runs use `ok`, `busy` and `refused`: the code tells apart only delivered,
to be retried, and refused, and the other four are the same as `busy`.
`MaxDuplicates` (a fan-out that is delivered again after its send) is 0 to keep the
run short (with 1 it has more than 15 million states); the theorems hold for any
number of them, and `ResendsArePaidFor` speaks of the states without any
(section 5 says what a repeated fan-out does to it).

`MCControlPlane` has four subscription ids over two webhooks, two chains and one
address: two of the ids have one tuple, two have one target under different
webhooks, two can be asked for in one request, and one chain never answers.
`MaxRequests` is 2 and `MaxFaults` is 1: any two requests, at once or one after
the other, and one failed call or death of a worker or a shard. That is enough
for two creations that race, a creation or an activation that meets a deletion,
and a retry that meets either. A pause or a resumption is one of the requests; a chain
is denied and listed again without a bound. A deletion that is repeated
needs a third request, which the run leaves out to stay short; `RefsCorrect` proves
the count for any number of requests. `Quota` is 1,
so that one request's own counting matters. `PageLimit` is 3 where the code has
200: more than the commands that can get stuck on the silent chain, as
`CommandsApplied` needs. Ids that are not in use are interchangeable, and so are
idle workers; the model picks one.

`MCRangeRead` reads two blocks, with one or both of the addresses `a` and `b`
tracked, and a third that nobody tracks. The first block is any with one
transaction and up to two logs: every sender, recipient, value and pair of token
parties, ERC-20, ERC-721 and malformed. The second has two transactions, so that
a batch of receipts can be reordered, and a rival of the same transactions in
which one failed; any upstream may answer from either. The masks of the Transfer
topic and of `b` together cover that of `a`, so a bloom may be positive for
nothing. `RETRIES` is 3, as in the code.

Deadlock is not checked: with the bounds used up, an untracked chain, a
settled pipeline or a finished read has nothing left to do.

**Fairness.** Scanner: a running operation goes on, a set alarm fires, the cron
wakes (weak); an `/apply` waits on the promise chain of `exclusive`, which serves
in order, so it gets its turn between the passes (strong); the flush budget
runs out again and again (strong). Nothing is assumed of the chain, the operator,
the upstreams or the failures, except that failures are finitely many.
Delivery: the platform keeps starting consumers and a running invocation goes
on (weak, per consumer), a request of the operator goes on (weak, per request). Endpoints are free to be
busy forever: the retries end that.
ControlPlane: the cron comes back, some running request goes on, a shard goes on
and, when it is free, takes one of the requests that wait for it (all weak). No
request needs to succeed: what a dead worker leaves is the cron's to finish.
RangeRead: a step happens (weak), because every request has a timeout, after
which it is answered or has failed; no request needs to be answered.

## 4. What is proved

All for every value of the constants that satisfies the assumptions named
`BlockAssumption`, `WindowLimitAssumption`, `ChainAssumption`,
`ScannerAssumption`, `DeliveryAssumption`, `ControlAssumption` (types, positive
limits, finitely many subscription ids and workers; TLC evaluates them in the
runs).

`ScannerProofs`:

- `AtMostOnce`: an observation is enqueued at most once and reported reverted at
  most once, on any chain, well formed or not, as long as its row is kept. The inductive invariant `MsgInv`
  ties the counters to the rows: nothing was sent for an absent row; while the
  operation stands before a send its row exists and the counter is 0; the rows
  listed for compensation are marked and not yet reported.
- `MarkedReported`: as long as nothing has failed, every row that a reorg marked
  has had its reverted message when the operation ends. `ReportInv` adds to `MsgInv`
  that a marked row is reported or still listed; `MsgInv` says that nothing is
  listed outside the branch.
- `OrphansAreMarked`: when the window is pruned, no row of a number the reorg orphans
  is `observed`. The invariant `MarkInv` follows the loop: the numbers no longer in
  `orphans` are marked, and the branch goes on when none is left.
- `ScannerImplements`: the refinement, on any chain. Whatever a step does to rows and
  messages is one of five things (`Effect`, `NextEffect`), with the failures that
  happen behind a write that took effect: nothing, one row, one message, the marks
  of a number, the messages of the rows listed. `MsgInv` gives each the guard that
  `Observations` asks for, but for one: that no row of a failed transaction is
  marked, which is `FailedInv`.

`ScannerPassProofs`. Each theorem assumes of the numbers of the blocks only what
it needs; the code checks none of it, and every real chain has all of it.

- `TypeCorrect`, `HeldAreRecorded`, `LoopNeverReads`, `DroppedAreMarked`: any chain.
- `WindowIsLinked`: numbers rise along parent links (`Increasing`). Without it a
  replay leaves above the ancestor a block that it should have dropped, because
  the code drops by number.
- `NeverReorg`: a block's number is its parent's plus one (`WellFormed`).
- `ActivationMissesLag`: any chain and any `HeadLag`. A subscription that becomes active
  misses fewer blocks than the lag; with no lag, none.
- `AlarmIsKept`: each chain has a block at every number up to its head (`Dense`).

One invariant `IInv` carries all but the last. Both windows are recorded, and linked
and rising where numbers rise (`Sound`); in the loop the block in hand is the tip
of the window in memory and, on a well-formed chain, one below `next`; each
prefetched block has the number it was asked by, and the loop's `next` less what
it has processed is where the prefetch began; the items before `item` have their
rows; every block any part of the state holds or has recorded is not above the
height of the chain, which never falls. `UndoInv` carries it through the reorg branch: the
ancestor is held, so it stays and is the tip of what is left (`PruneSound`, which
rests on `FilterKeepsOrder`). Since on a well-formed chain the candidate's number
is the tip's plus one, its parent is held only if it is the tip, which is why
`reorg` is impossible there; since the head that answers is below no scanned
block by more than the lag, the boundary is above all but that many. `DroppedAreMarked` adds `MarkInv`: what the
filter drops are the held blocks of the numbers in `orphans`, which are marked.

For `AlarmIsKept` the invariant `AlarmInv`: without an alarm, the operation in
progress is one that will set it, and a recovery that ends without scheduling
stands at a number it can read. That is what fails when the anchor cannot
be read: it takes a failure, which the property excepts.

`ArrayProofs` has the lemmas the others cite about `filter` and `sort`
(`FilterKeepsOrder`, `SortOrdersKeys`); they say nothing of the code by themselves. An entry's place in the result
is the number of entries not after it in a total order; places rise along the
order, so no two entries share one, and as there are no more places than entries each
place is taken.

`DeliveryProofs`, for any number of consumers, replays, webhooks and observations:

- `TypeCorrect`: also that a consumer works on a message of its own batch.
- `LedgerIsTruthful`: a consumer that is about to record an answer got it from
  its destination, one that records `failed` saw the webhook inactive, and
  webhooks do not come back.
- `NothingEarly`: every message, wherever it is, was planned above its boundary.
- `NothingIsLost`. The difficulty is the consumer whose write misses the row
  because another one inserted it first: it drops its message and leaves no verdict
  in the ledger. The invariant `LossInv` calls such a consumer `Stale` and does not
  count its message: a destination whose row is open (`pending`, or sent and not
  yet inserted) has a message in a queue, in a replay, or in the hand of a consumer
  that is not stale (`Carried`), unless a failed replay stranded it. The insert
  that makes one consumer stale is the step that makes the other the carrier.
  `FanInv` and `EnqueuedInv` are the same bookkeeping for the fan-out.

`DeliveryOnceProofs`, for the same:

- `ResendsPaid`: in a state in which no fan-out was repeated and nothing replayed,
  a destination took an observation at most once more than there were failures. The
  invariant `OnceInv` is an account. An observation has one message before its
  fan-out and none after (`FanOnce`), so a destination has one message (`OneCopy`),
  in a queue or with one consumer; the id that consumer carries is the row's
  (`RowKnown`); and what the endpoint took is paid by a failure, or is the one
  success that the ledger has or the consumer is about to write (`Paid`). TLC
  refuted the first form of the property on larger constants, as section 5 says.

`ControlPlaneProofs`, for any number of requests, subscriptions, webhooks and
chains, and any number of failures:

- `HookOutlives`: no live subscription outlives its webhook. The invariant needs
  nothing of the requests' stale reads, which is the point: the insert's trigger,
  the cascade and the activation each look at the webhook in the transaction that
  writes.
- `RefsCorrect`: the reference counts. `ClaimInv` says that the ids a request is
  still going to insert are not in the database and are nobody else's, so an
  insert adds one live subscription; a deletion takes one reference for each
  member of its scope that is live, so repeating it takes none. The runs reach
  only two requests; this theorem has no such bound.
- `ControlImplements`: the refinement. Besides `RefsCorrect` (which makes the
  tracked targets those of the live subscriptions) it needs `CommandInv`: a shard
  past `ReadSub` never stands at an active subscription, since only the shard of
  its chain activates it, and that one is busy. Without it `Reject` would turn an
  active subscription into an unsupported one.

`ControlOutboxProofs`, for the same:

- `ControlTypes`.
- `PendingIsCommanded`: `OutboxInv` says that the command of a pending subscription
  is in the outbox from the transaction that inserted it, and is marked applied
  only behind the subscription's change of state, whoever dies in between.
- `ActiveChainsScanned`: the chain of an active subscription is awake or paused, or has
  been denied after it was listed. `ScannedInv` adds that the chain of every
  subscription has its row; that a chain some shard has found, or some active
  subscription is on, is known (`Known`: listed, or forgotten), which no step takes back;
  and that a shard about to activate has registered its chain, unless there was no
  row and nothing to activate. A row leaves `active` and `paused` only by a denial
  (`RegistryMoves`), and a known chain that is denied is a forgotten one.
- `QuotaOvershoot`: the live subscriptions and those that running requests are still
  going to insert fit in one quota per worker (`Budget`), because a request that
  counts `n` live ones may insert a quota less `n`, the others no more than a
  quota each, and an insert turns a place reserved into a live subscription.

`RangeReadProofs`, for any range, tracked set, blocks, branches, number of attempts
and order of answers:

- `TypeCorrect`.
- `PartiesNotMissed`. The invariant (`LogsComplete`) says of the logs in hand that
  they are all the Transfer logs of their block where the bloom is positive, each once
  and in any order, and none where it is negative; `PartyHasKey` shows that then every party has a draft,
  since a bloom that is negative has no decoded log of a tracked party. That logs
  which passed the validation are complete needs that a non-empty array of
  another block names that block.
- `BundlesAreFaithful`: what a bundle says is what the block says, whoever answered.
  The keys of the drafts and of the logs are matched by `ListingIsInjective` (two
  positions of a listing are two logs) and `KeyHasItsLogs`; `DraftTells` says that the
  draft of a key has one effect for each log of it (`TellOf`), `SortedTells` and
  `EffectsInOrder` that sorting loses none and orders them; accepted receipts are
  those of the block, so the status is the block's.
- `OutagesOnlyRetry`: `finalizeBundles` never throws after the client has accepted
  the receipts, so the only errors are `RpcReadError`s, which do not count towards
  the skip of a block.
- `FailureHasCause`: a batch put in order by its ids is the batch as it was asked
  (`ByRequestIsReply`), so only a wrong result or a used-up batch ends a read.

The assumptions are `ActivityAssumption`, `BloomAssumption`, `RangeAssumption` and
`MalformedAssumption`.

The proofs follow the shape of the next-state relation: a lemma per group of
actions, a step per action, and frame lemmas for the actions that do not touch
what the invariant speaks of.

Every invariant and every action property of the passing runs is stated by a
theorem, and so are both refinements. Only model-checked: liveness (`CatchesUp`,
`PendingActivates`, `Settles`, `CommandsApplied`, `ReadEnds`), which is out of the
prover's reach.

## 5. Where the code and the documents disagree

Each is a run whose counterexample TLC prints.

| Run | What happens |
|---|---|
| `scanner_orphans` | The chain reorganises between two prefetches of a pass, which reads `a3` and then `b4`. `a3` is recorded and told of; `b4`, whose parent nobody holds, is judged unresolvable (the first time, below the limit), the chain is degraded, and the pass returns without saving its window. The next pass starts from the cursor below the fork and accepts `b3` and `b4`: the row of `a3` is never marked and nobody is told, although the plan promises compensating webhooks. `NeverReorg` proves the compensating branch dead on well-formed chains. |
| `scanner_lag` | The first block of a subscription comes from whichever upstream answers. When that one is a block behind, the block was already scanned without the address and is missed; the plan (`implementation-plan.md:367`) speaks of rewinding, which the code never does. `ActivationMissesAtMostLag` is what holds. |
| `scanner_lost` | The row is written before the message. A failure between them loses the event, because the retry finds the row. |
| `scanner_poison` | A poisoned block in the middle of a pass is never skipped: the blocks before it reset the failure count at every try. |
| `delivery_surfaced` | A message that runs out of retries leaves its row `pending`, so it is not among the dead letters that the operator can replay. |

Related, and not runs of their own. An operator's pause is overwritten:
`implementation-notes.md:108` says that activation preserves it, but the status
is read and written by two statements (`ScannerShard.ts:749`) and the pause is a
write to D1 beside them, and the degraded pass and the re-anchor write the status
without reading it (TLC refutes
`[][status = "paused" /\ status' # "paused" => Resume]_vars` in `MCScanner`).
Duplicates are sent again:
`implementation-notes.md:638` says that the consumer skips anything already
delivered, but the test is a read before the request, and a consumer whose insert
was ignored updates under an id no row has. Without its premise, and with
`1 + faults + duplicates + replays` for its bound, TLC refutes `ResendsArePaidFor`
twice: after one repeated fan-out, and after one replay of a dead letter whose
batch is still being retried, when two messages of one destination chase each
other, the `pending` of one written over the `success` of the other, and each
is sent up to its retries (`MaxReplays = 1`, `MaxFaults = 0`,
`DeliveryRetries = 3`). `repository.ts:1397` calls what a replay reopens `a dead-lettered
delivery`, but the statement asks for no status: of two replays that listed the same row,
the second takes it back from `success` to `pending` and sends it again (TLC refutes
`[][\A d \in Dest : ledger[d].status = "success" => ledger'[d].status = "success"]_vars`
in the instance of `delivery_live`). A tracked address that sends value to itself
gets an incoming native effect (`activity.ts:250`), where
`implementation-plan.md:322` says `one sender bundle with no native effect`.
A token transfer between two tracked addresses goes into the sender's bundle only
(`activity.ts:237`), where `implementation-plan.md:316` and the comment at
`activity.ts:207` say to the bundle of every tracked participant: without its
exclusion of such a recipient (`LeftToSender`), TLC refutes `NothingMissed` with one
log. One 404 for a chain that was listed before marks it
`unsupported` for everybody, and the cron no longer wakes it; only the command's own
subscription is marked, where `implementation-plan.md:130` says `marks the chain and
affected subscriptions unsupported`. Without `forgotten`, TLC refutes `ActiveIsScanned`:
a subscription is created and activated, an operator's retry meets the denial, and
the active subscription is on a chain nobody scans, with no reason its owner could see.
Quotas are promised `without creating
entries beyond the limit` (`implementation-plan.md:200`); requests at the same
time go beyond it, by at most a quota each (`OvershootBounded`). With `PageLimit`
below the number of commands stuck on a silent chain, `CommandsApplied` fails:
the cron reads the oldest 200 only, where `outbox.ts:237` says every pending
command. A throw retries the whole batch, so the
messages that share batches with a busy endpoint use up their own retries, and may
reach the dead-letter queue without having been tried, where
`implementation-plan.md` speaks of independent retries.

## 6. Plan

Done, in this order: `Reorg`, `Scanner` with its proofs, `Delivery` with its
proofs, `Subscriptions` and `ControlPlane` with the proof of its refinement,
`Activity` and `RangeRead` with theirs, `Arrays`, and `Observations` with the proof
that the scanner implements it. What would come next:

1. `Notification` and `Pipeline`: the abstract promise of the service (each
   eligible webhook hears of each observation, at least once unless given up, and
   of its reversal only after it) and the composition of `Observations`, in place
   of the scanner, with `Delivery`, with the reverted messages. It waits for the code:
   as it stands `NeverReorg` proves that no reverted message is ever sent.
2. The expiry of rows in `Scanner` and of ledger rows.

Not modelled: what keeps no state that another part decides on (metrics, history,
the web site, authentication), what is one request and one row (test deliveries),
and what is a function of bytes (bodies, signatures, timestamps).
