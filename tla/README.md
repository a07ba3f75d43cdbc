# FlowDEX: TLA+ models, model checking and proofs

FlowDEX is a trading platform for Solana: six Go services, an on-chain program and a React frontend. This
directory models the parts of it whose correctness depends on concurrency, failure, the order of events or exact
integer arithmetic. It holds the TLA+ modules, the TLC configurations that check them on small instances, and proofs
that TLAPS checks for every value of the constants. `PROJECT.json` lists the components, the runs, the hazards of the
code, and for every definition the source lines it models. Paths below are relative to the repository root.

The models follow a trade through the system: the **Consumer** that turns slots into rows and messages, **DataFlow**
that turns messages into candles, **Trade** that triggers, submits and settles orders, the **WebSocket** server that
shows it all to browsers, and the **bonding curve program** the trades run on.

```
tlc -config orders_followups.cfg MCTradeOrders     # a run: a cfg and the module PROJECT.json names for it
tlapm TradeOrdersProofs.tla                        # the proofs of one component
```

## 1. The system

### Components

| Component | State it keeps | Operations | Talks to |
|---|---|---|---|
| **Consumer** (`consumer/`) | `block` rows (slot, status), pairs, trades; its websocket cursor | slot subscription, gap repair, decoding of blocks, wash-trade detection | Kafka (the trades of a slot), Trade (`ProcTokenPrice`), MySQL, Solana RPC and websocket |
| **DataFlow** (`dataflow/`) | candles in memory, in Redis (compressed) and in MySQL; "seen" keys of trades; Kafka offsets | consume a batch of trades, drop those already seen, aggregate to candles, merge with the stored ones, flush | Kafka, Redis (locks, pub/sub), MySQL |
| **Trade** (`trade/`) | `trade_order` rows and their log; one Redis trigger list per token and kind; lock keys | create, confirm and cancel orders; handle price ticks; build, sign and send swaps; the settlement ticker | Frontend via Gateway, Consumer, Redis, MySQL, Solana RPC, Jito |
| **Market** (`market/`) | none of its own (caches) | queries over pairs, candles and token security; its Kafka consumer only logs | MySQL, Redis, Solana RPC |
| **Gateway** (`gateway/`) | none | HTTP routing, wrapping of responses | Trade, Market |
| **WebSocket** (`websocket/`) | connected clients and their subscriptions | fan out what Redis pub/sub delivers | Redis, browsers |
| **Contracts** (`contracts/`) | bonding curves, pools, locked liquidity | create, swap, migrate to a pool, lock | Solana |
| **Frontend** (`pump-tokens-ui/`) | what the user sees | sign, send and report a swap | Gateway, WebSocket, Solana RPC |
| **Shared packages** (`model/`, `pkg/`) | | gorm models, Redis lock, disruptor, pool SDKs, generated IDL clients | all services |

A trade on the chain reaches the Consumer, which writes it to MySQL, publishes it to Kafka for DataFlow's candles
and sends its price to Trade. The price may trigger an order, whose swap is sent to the chain, where the Consumer
finds it again; the settlement ticker looks for it in the indexed trades and then on the chain.

### What is hard in it, and what makes each component correct

* **Order rows.** Four kinds of writers touch `trade_order.status` without a common lock: the RPC handlers, the
  matcher goroutines, the ticker, and the handlers' compensating writes. Some write by compare-and-swap
  (`UpdateOrderStatus`), some unconditionally (`UpdateOrderBySelect`). Correct means: no order is settled without
  an executed swap, no order is swapped twice, a settled buy gets exactly one follow-up sell, a cancellation stays.
* **Trigger lists.** A list is rewritten by LRANGE, DEL and RPUSH, sometimes under a lock with a TTL of ten seconds
  and sometimes without. Correct means: a waiting order can still trigger, it triggers only at a price that crosses
  its line, and the line of a trailing stop only moves up.
* **Submitting a swap.** Three retry loops are nested: the RPC layer resends a signed transaction, `createAndSendTx`
  rebuilds it with a new blockhash, and auto-slippage raises the tolerance. An answer may be lost. Correct means:
  every swap that was sent is accounted for, the row names the transaction and the tolerance it was signed with, and a
  tolerance the user fixed stays fixed.
* **Kafka to candles.** Delivery is repeated, by the consumer's program watcher, by its producer's retries and by
  Kafka; the "seen" keys are set before the merge, a candle is merged by three Redis commands under a lock with a
  TTL, and rows are overwritten from versions that arrive in some order. Correct means: every trade counts once, none
  is overwritten, and the row follows the candle.
* **Slots.** The websocket skips slots and reconnects; the reader, the retry loop and the workers share channels that
  block when full; rows are written last. Correct means: no slot is skipped silently, and a slot marked processed has
  had its trades sent.
* **Fan-out.** A client leaves the server by its reader or by any number of dropping goroutines while an update is
  offered to it. Correct means: no channel is closed twice or written to after it was closed, and who falls behind
  is dropped.
* **Bonding curve.** Integer arithmetic on `u64` reserves with fees, one vault for all curves, and an admin who may
  reconfigure at any time. Correct means: rounding favours the curve, tokens and lamports are accounted for, and a
  curve migrates once with the terms it was created under.
* **Disruptor.** `ProcTokenPrice` publishes to a ring with one reserved producer from many handlers.

The hazards in `PROJECT.json` name the line of the code where each of these bites, and the property that would catch
it going wrong; a hazard without a property says why.

## 2. The modules

| Module | What it is |
|---|---|
| `OrderLifecycle` | Abstract: the moves that the status of an order may make. |
| `TradeOrders` | Trade: the rows and every writer of their status, the browser's part of a market order, the ticker, the chain. Implements `OrderLifecycle`. |
| `TriggerList` | Trade: one trigger list with its lock, the handlers that create and cancel its orders, and the handling of ticks. |
| `SwapSubmission` | Trade: the server-signed swap of one triggered order, from Proc to the row that records the outcome. |
| `SlotScanner` | Consumer: slot notifications, backlog, retry loop, block workers, block rows. |
| `CandleLedger` | Abstract: a candle is a set of trades to which batches are added once. |
| `KlinePipeline` | Consumer's messages (with wash-trade flags) and DataFlow: claims, offsets, seen keys, merge, flush. Implements `CandleLedger`. |
| `SocketHub` | WebSocket: clients, their channels and goroutines, subscription and fan-out. |
| `BondingCurve` | Contracts: the five instructions of the launch program, with their arithmetic. |
| `CountedCurve` | `BondingCurve` with a history: how many buys each curve has had. |
| `MC...` | Requests, prices, trades, configurations and symmetry sets for TLC, one module for each of the above. |
| `TradeOrdersProofs`, `TriggerListProofs`, `SwapSubmissionProofs`, `SlotScannerProofs`, `SocketHubProofs`, `BondingCurveProofs`, `KlinePipelineProofs` | The theorems. |
| `SumTheorems` | Lemmas about the sum of a function's values, which `BondingCurveProofs` and `KlinePipelineProofs` cite. |

How they meet: a block that `SlotScanner` publishes is a message of `KlinePipeline` (`Publish`); what both say is that
a block may be published twice, and `NoTradeTwice` that it does not matter. The price tick of a block is `TakeTick`
in `TriggerList`. In `TradeOrders` an order whose entry was pushed may trigger at any time and prices do not exist
(`ExecuteOrder`); `TriggerList` says when that step is possible. `ServerSwap` of `TradeOrders` is one step with an outcome;
`SwapSubmission` is what happens inside it. `SocketHub` takes the candles that `KlinePipeline` publishes as updates.

### TradeOrders and the code

| State | In the code |
|---|---|
| `status`, `order`, `filled` | columns of `trade_order`: status; kind, side and lineage, fixed at creation; the `Final*` columns |
| `age` | now minus `created_at`, in the steps the code compares with: `stuckOrderAge` (2 min), `rpcAbandonAfter` (15 min), `scanWindow` (24 h) |
| `chain` | the order's transaction: not sent, sent, executed, reverted, or its blockhash is dead |
| `trace` | how the ticker learns of it: from the trades the consumer indexed, from the RPC, or never, when the reported hash is no signature (`ticker.go:209`) or the balance deltas are unusable (`ticker.go:237`) |
| `client` | where `submitMarketOrder` (`pump-tokens-ui/src/lib/trade.js`) is |
| `confirm` | the row that a `ConfirmMarketOrder` handler has read and not yet written |
| `pushing`, `pushed` | rows inserted whose push has not returned; rows whose entry is on a list |
| `matcher` | what a goroutine of the pool is executing |
| `tick`, `tickLock`, `budget` | each instance of `ticker.go`: the orders still to do, the order being settled; its Redis lock; the RPC calls its tick has left (`rpcBudget`) |
| `parent`, `retracted` | history for the properties: the buy a sell was created for; orders cancelled while waiting |

An action is one atomic step of the database, of Redis or of a handler's local work. What the code does between a
read and the write that depends on it stays split where somebody else can act in between: `ConfirmMarketOrder` reads
the status, `ConfirmUpdate` writes it unconditionally. `FinalizeOrder` (the compare-and-swap), `BackfillFinal` and
`CreateFollowUp` are three steps because the code uses three transactions, and a crash can fall between them.
`ServerSwap` sends and may report an error for a transaction the node accepted; `UpdateDbByTxResult` writes the
outcome whatever the status is by then. `CancelOrder` is one step although the code reads first: the read only
chooses from which status the compare-and-swap starts.

A tick goes through its orders by id (`Scanning`; `Before` says which ids are lower, and with the empty set their order is
open) and spends a call of its budget on each that is not indexed (`AskRpc`). An order may outgrow the scan window in any
status: the window counts from `created_at`, and a stop may wait for hours before it is triggered. Abstractions: amounts are
reduced to "the fill is persisted"; the limit of twenty rows (`scanBatch`) and the first two seconds, in which the RPC is not
asked, are in `SkipOrder`, which may pass over an order for any reason; the log table is left out, it decides nothing.

### TriggerList and the code

The constant `Kind` chooses the list: limit buys, limit sells (`tokenpricelimit.go`) or trailing stops
(`trailingstop.go`). `book` is the list as a set: neither the order of its entries nor a repeated entry changes what a tick
does, because the second execution finds the row no longer waiting. `creator`, `canceller` and `matcher` are the
progress of the handlers, `lock` is the Redis lock of the list, `stored` the history of all entries. A tick is
`TakeTick`, `LockList`, then `NothingFires` (the early return) or `SomeFire`, `ExecuteOrder` for each order, `DelList`
and `PushRest`; the last two are separate because the pipeline is not a transaction. A swap runs with the lock
held, as in the code.

Abstractions: prices are small naturals and `DrawdownPrice` is `Percent` below the base, computed exactly (the code
uses decimals); `Percent` is one constant although each row has its own; the age of a Proc row that may be cancelled
is in `TradeOrders`. The set `Faults` names the faults a run allows: Redis errors with or without effect, a
pipeline that stops after DEL, a lock not had within ten seconds, an ended request context, a database error, a
crash, and an expired lock.

### SwapSubmission and the code

`pc` is where the matcher's goroutine is: `try` is the head of the loop in `createMarketTxWithPairInfo`
(`createmarketorderlogic.go:486`), `build` an attempt of `createAndSendTx`, `send` and `simulate`/`jito` the two routes of
`SignByTeeAndSend`, `update` `updateDbByTxResult`. `try`, `attempt` and `sends` count the three loops. `tx` is the ground
truth: every transaction that was signed, one per try and attempt, with the tolerance in it and what became of it on
the chain. An attempt may be refused for slippage or for another reason (`SendRefused`), accepted (`SendAccepted`), or
accepted without the answer arriving (`SendUnanswered`, `JitoUnanswered`); `unanswered` collects the last kind. Resending the same
signed transaction is harmless, as the chain executes a signature once; rebuilding it is not. Abstractions: errors are
none, slippage or other; amounts, pools and fees are left out, and so is the browser's unsigned transaction,
whose protocol is in `TradeOrders`.

### SlotScanner and the code

`phase`, `cursor` and `endSlot` are the start of `SlotWs` (`ws.go:34`): where to begin, where the backlog ends, then live
reading. `ReadSlotMessage` takes a notification, which may skip slots or come from a node that lags, and computes the
slots to queue; `QueueSlot` queues them one by one, as the channel allows. The retry loop is `ScanAbsent`, `ScanFailed` and
`QueueRetry`. A worker goes `find`, `fetch`, `send`, `save`: the row is read before the fetch and written after the Kafka send,
and other workers act in between. `Crash` keeps the rows only. Abstractions: the trades of a block are the fact that they
were published; a worker stands for a goroutine of a block service's pool; prices are left out.

### KlinePipeline and the code

A trade belongs to one candle (one pair, interval and candle time); the seven intervals of a pair are alike. `log`, `next`,
`marked`, `committed` and `cancelled` are a partition's topic, claim and session; `phase` and `task` are `Consume` with its worker pool;
`seen`, `stored` and `lock` are in Redis; `channel`, `batch` and `row` are the way to the table. A merge is `GetLock`, `ReadStored`,
`RemoveStored`, `AddStored`, `Send`, each with its error branch as the code has it: an error of ZREM or ZADD is logged
and ignored, a lock not had yields a nil candle which ends the flusher. `folded` counts how often each trade is in a
candle, which stands for all its sums. `DetectClaim` flags trades when they are published; the aggregation and
`mergeKline` treat a flagged one as the code does, including the times that are not stored with a candle and read
back as zero. Abstractions: every trade has volume one; pruning of old candles, the update for browsers and
members that do not decode are left out.

### SocketHub and the code

Both endpoints of `token_websocket_server.go`: they differ in the welcome message (`Welcomes`). `clients` is the map, `closed`
the channels that were closed, `send` how full each channel is. An iteration of a broadcast holds the read lock
(`offering`) and visits the clients in any order; everything under the write lock is one step that waits for the end
of the iteration. Whether an update is for a client is a free choice, which covers the unsynchronised write of
`client.categories` in `readLoop`. A send to a closed channel, or a second close, sets `panicked`. `WriteMessage` and `PingFails` end the writer of
a client and do nothing else, as in the code: the client stays in the map, its connection open. The welcome message is sent
after the lock was released, where a client may already have been dropped: that panic is in the HTTP handler, where
`net/http` recovers it, so it ends the handler only.

### BondingCurve and the code

An instruction is one step, since Solana reverts it whole; a failed check is a step that is not taken. The model has
the fields of `BondingCurve` and `Config` that decide anything, the vault's lamports, the token accounts, the pool and the LP
tokens. The arithmetic is the code's, operation by operation: which side each division rounds to, the scales of tokens and
lamports, `u64` results and `u128` intermediates, the cap on the completing buy. `born` remembers the configuration a curve
was created under. Abstractions: accounts and signatures are reduced to who may call; decimals are fixed, as
`Config::validate` fixes them; the number of LP tokens is Meteora's.

## 3. What the runs check

Every property below has a mutant in `PROJECT.json`, a plausible bug in the mapped code that makes the run fail:
a compare-and-swap without its guard, a follow-up for any side, a lock that does not exclude, a merge that replaces, a
submission that goes on after a success, a quote that rounds the other way.

| Run | Checks | Bounds |
|---|---|---|
| `orders_followups` | types; `FilledMeansLanded`, `FollowUpLineage`, `OneFollowUp`, `OneExecutor`, `NoSwapAfterCancel`; `LifecycleSpec` (refinement) | 3 orders (a buy, its follow-up, and room for a second one), 2 matchers, 2 tickers, 2 faults, one confirmation at a time |
| `orders_liveness` | `FollowUpCreated`, `OnChainSettlesInWindow` | 2 orders in the order of their ids, stops and buys with an attached stop; one RPC call per tick; swaps indexed, found by RPC only, or never; no faults; 115 000 states |
| `list_trailing` | types; `NoOrderLost`, `LineNeverFalls`; `ReachableStopTriggers` | 2 trailing stops, 2 ticks in flight, prices 2, 3 and 6 with 50 percent, one lock not had in time |
| `list_limit` | `TriggeredByItsLine` | 2 limit sells, 2 ticks in flight, 2 faults of any kind |
| `candles_merge` | types; `NoTradeTwice`, `NoTradeMissing`, `CandleEnclosesTrades`; `MergeIsAtomic` (refinement) | 3 trades, 2 partitions that merge into one candle, 3 messages of which one repeats a trade, 2 faults of six kinds; 1.4 million states |
| `candles_rows` | `RowNeverFallsBack`, `RowCatchesUp` | 1 partition, 3 messages with a wash trade, 1 failed check for seen trades |
| `slots` | types; `ProcessedWasPublished`, `GapsAreFilled` | 4 slots, one without a block, gaps up to 3 with `MaxGap` 1, channels of one slot, a live and a backlog worker, 1 fault of any kind |
| `slots_settle` | `EverySlotSettles` | 3 slots, one failed fetch or one restart |
| `swaps` | types; `SwapsAccountedFor`, `RowIsTruthful`, `SlippageIsConsented`; `SubmissionEnds` | 3 tries of 2 attempts with 3 sends (Jito: 2), tolerances on both sides of the first tier, 2 lost answers, a crash or database error |
| `sockets` | types; `NoPanic`; `LaggingClientsLeave` | 2 clients, channels of one message, 2 updates; 54 000 states |
| `curve` | types; `VaultCoversCurves`, `TokensBacked`, `PoolAsPromised`, `RoundTripNeverProfits`, `CompletedCanMigrate`; `ProductHolds` | 2 curves, 2 valid configurations with different fees and prices and 2 that must be refused, amounts 1, 2 and 6, `u64` up to 19 |

Why the bounds suffice. Three orders: a follow-up of a follow-up, or a second follow-up, already shows every violation of
lineage and uniqueness. Two matchers, tickers, partitions, clients are the least that can race. Of the prices 2, 3 and 6 a stop at
6 fires at 3 and at 2; one at 2 or 3 is kept then, and one at 2 is raised to 3 and written back by the same tick. Two faults let a crash meet an
error. `candles_merge` repeats a trade in the same partition (a block published again) and merges another partition's
trade into the same candle: both races need no more than that. `RowNeverFallsBack` and `RowCatchesUp` are checked with one
partition, which is what the automatically created topic has: with two, versions of a candle may pass each other on
their way to the channel. Channels of one slot or message block and overflow as early as possible. With `MaxGap` 1 and
four slots there are gaps that are filled, partly filled and left to the scan; the two windows of the retry loop cover
all slots, as the retry of older ones is refused on purpose. Two attempts with three tries make every loop end for
every reason, and a third attempt adds only repetition. `u64` up to 19 makes reserves meet their limit; amounts of one
lamport are where rounding is worst.

`TradeOrders`, `SwapSubmission`, `KlinePipeline`, `SocketHub` and `BondingCurve` may deadlock in a run: every order, message, update
or curve may be finished. `TriggerList` and `SlotScanner` may not, since ticks and slots go on.

### Fairness

* `TradeOrders`: goroutines and the ticker are scheduled (weak fairness of their steps), a transaction is executed or
  its blockhash dies, locks expire, time passes up to `rpcAbandonAfter`; that an order grows out of the scan window may
  happen but need not. Settling an order has strong fairness: the ticker runs every two seconds, and if tick after tick
  comes to the order with a call left in its budget (or finds it indexed) and there is a usable answer, the database and
  the RPC do not fail every time. Nothing is assumed for an order that is reached with the budget used up, or whose answer is of no
  use: these are exceptions that `OnChainSettlesInWindow` states, with the age beyond the window, and TLC refutes it without any one
  of the three. Users and browsers owe nothing.
* `TriggerList`: handlers are scheduled, a lock expires, the token is traded again and again at each of the prices, and
  `MustLock` gets the lock unless it times out. It polls, so strong fairness is what it needs: it gets a lock that is free
  again and again.
* `KlinePipeline`: claims, workers and the flusher are scheduled and a lock's TTL runs out; polling for a candle's lock
  succeeds if the lock is free again and again. Nothing makes the consumer publish.
* `SlotScanner`: the chain goes on, so that a notification of the newest slot comes again and again; loops and workers are
  scheduled; the reader and the retry loop, which wait for room in one Go channel (first come, first served), both get some.
* `SwapSubmission`: the goroutine runs until it returns; every call it makes has a timeout. The chain owes nothing.
* `SocketHub`: goroutines are scheduled; a writer that waits for Go's `RWMutex` holds new readers back, so `Lock` is had
  after a finite number of broadcasts (strong fairness). Writes have a deadline of ten seconds. Updates need not come,
  browsers need not leave, pings need not fail.

### Where the code contradicts what it says

`orders_overlapping_confirms` ends in a counterexample on purpose: a repeated `ConfirmMarketOrder` that read Proc writes
OnChain over Suc, the ticker settles the buy again and creates a second sell, where `ticker.go:172` says "state moves one
way, so the next tick can't re-confirm this order (and re-create the double-out sell)".

Further configurations lie beside the runs. They ask questions the list of runs has no room for; run them with the MC module
of their component.

| Configuration | Result | The comment it concerns |
|---|---|---|
| `orders_double_out` | `FilledMeansLanded` and `FollowUpLineage` hold when confirmations overlap and replies of Redis are lost | |
| `orders_cancel` | `CancelIsFinal` violated: a trailing stop that waited more than two minutes triggers, is cancelled while its swap is being sent, and the matcher writes OnChain over Cancel | `cancelorderlogic.go:23` "nothing is ever going to move it out of Proc on its own" |
| `orders_abandon` | `FailedOnlyWhenDead` violated: the ticker fails a trailing stop as "older than 15 minutes" although its swap was just sent | `ticker.go:63` "a tx still absent from the chain this long after creation can never land" |
| `orders_late_stop` | `TerminalEitherWay` violated: a trailing stop that is triggered late leaves the scan window, which counts from its creation, before a tick comes to it, and stays OnChain for ever | `ticker.go:200` "Terminal either way when the chain has an answer" |
| `orders_limit_stuck` | `TriggeredLimitSwaps` violated: a triggered limit order is moved to Proc and nobody ever builds its swap | `createmarketorderlogic.go:532` "Triggered limit orders have no user present to sign" |
| `list_faults` | the invariants of `list_trailing` hold with two faults, Redis errors or lock timeouts | |
| `list_create_race` | `TickLosesNoOrder` violated: a limit order is pushed without the lock between a tick's LRANGE and its DEL | `createtrailingstoplogic.go:137` "would be silently erased" |
| `list_ratchet` | `HighestSeen` violated: a tick in which nothing fires returns before it writes the raised bases | `createtrailingstoplogic.go:39` "BasePrice = highest seen" |
| `curve_rounding` | `RaisedWithinReach` and `RoomIsEnough` hold of a curve that sold out within about four buys (`MCCountedCurve`), with a finer scale of tokens | |
| `candles_table` | `StoredReachesRow`, `RowBehindStored` and `RowIsCurrent` hold: what is on its way to the table, against what Redis has, with 1 partition and 2 faults of four kinds | |
| `candles_rebalance` | `SeenIsFolded` violated: a rebalance ends the context between SETNX and the merge; delivered again, the trade is skipped | `trade_consumer.go:349` "skips trades already folded into candles" |
| `sockets_failed_write` | `NobodyLeftUnserved` violated: after a failed write or ping `writeLoop` returns and the client stays in the map, its connection open, with nobody to write to it | |
| `candles_wash` | `NoWashSpike` violated: the first trade of a candle sets its high and low although it is flagged | `README.md:30` "so a self-trading wallet can't put a spike in the candle" |

The same models show further weaknesses, about which the code makes no claim. They are reproduced by changing a constant of a run:

* `orders_liveness` with `MaxFaults = 1`: a crash between settling a buy and inserting its follow-up is never
  repaired, because the next tick scans OnChain orders only.
* `orders_liveness` without the exception of `Starved`: an order whose RPC answer is of no use keeps asking in every tick until it is a
  day old (`ticker.go:209` and `237` return an error, which the loop only logs). Three of them use up the budget of every tick, and
  orders with higher ids that the consumer has not indexed wait behind them.
* `sockets`: a client whose write failed keeps taking updates into its channel; it is dropped when one finds the channel full, 256
  updates later, or when its browser goes. A browser that went without closing is only noticed that way, as reads have no deadline.
* `orders_followups` with `LostReplies = TRUE`: a push whose reply was lost is answered by an unconditional Fail, which
  can overwrite Proc or OnChain.
* `list_trailing` with `Faults = {"expiry"}`, `{"crash"}` or `{"pipeline"}`: swaps that take longer than the lock's ten
  seconds let a creator push into a list that is about to be rewritten; a creator that crashes before its push leaves
  a Waiting row that is on no list; a rewrite that stops after DEL loses the list.
* `list_trailing` with `Faults = {"deadline"}` or `{"database"}`: a row whose compensating update is refused, or whose execution
  fails, stays Waiting with no entry.
* `list_create_race` with no matchers, `NoOrderLost` and no deadlock check: a cancellation rewrites a limit list without the lock and
  can erase an order created meanwhile.
* A cancelled trailing stop leaves its entry in the list, as the cancellation looks at the limit lists only. The
  entry triggers nothing (`NoSwapAfterCancel`), and goes when its line is crossed.
* `candles_rows` with `Faults = {"timeout"}`: a lock not had for three seconds sends a nil candle, which ends the flusher for
  good; rows stop following.
* `swaps`: `SwapsAccountedFor` counts the swaps whose answer arrived. With one lost answer an order can be swapped twice.
* `curve` with a configuration whose `meteoraSol` leaves no margin for rounding: `CompletedCanMigrate` fails, since the completing buy is
  capped at its offer, and `Config::validate` does not relate what a curve raises to what its migration needs. The comment on
  `validate` (`config.rs:42`) has it reject bad configurations "at write-time" rather than leave "migrations stuck"; this kind of
  configuration it accepts, and the run has none of it. Section 4 says which margin is enough.

## 4. What is proved

The theorems hold for any number of orders, goroutines, prices, curves, configurations, amounts and faults. They assume
the named assumptions on the constants in the modules, which say that the sentinels are not orders or tickers, that
requests are among those the handlers accept, that `Percent` is between 1 and 99, and that bounds, scales and widths are numbers;
and the conditions in the table.

| Theorem | Condition |
|---|---|
| `TradeOrdersProofs`: `TypeCorrect`, `FilledMeansLandedHolds`, `FollowUpLineageHolds`, `OneExecutorHolds`, `NoSwapAfterCancelHolds` | none: overlapping confirmations, lost replies, crashes |
| `OneFollowUpHolds` | `SequentialClient`: confirmations do not overlap |
| `LifecycleRefined`: `Spec => LifecycleSpec` | `SequentialClient` and no lost replies |
| `TriggerListProofs`: `TypeCorrect`, `TriggeredByItsLineHolds` | none: every kind of list, every fault |
| `NoOrderLostHolds`, `LineNeverFallsHolds` | `Quiet`: a list of trailing stops, and no fault that defeats its lock |
| `BondingCurveProofs`: `TypeCorrect`, `TokensStayBacked`, `PoolsAreAsPromised`, `ProductAlwaysHolds`, `NoRoundTripProfit`, `VaultAlwaysCovers` | none; the mints are finitely many |
| `CompletedHasRaised`, `RoomIsEnoughHolds` | none; they speak of `CountedSpec`, the same steps with the history |
| `CompletedCanMigrateHolds`: `CompletedCanMigrate` while no curve has had more than `n` buys | every configuration that `Validate` accepts leaves `RoomForRounding` for `n` buys |
| `SwapSubmissionProofs`: `TypeCorrect`, `SwapsAccountedForHolds`, `RowIsTruthfulHolds`, `SlippageIsConsentedHolds` | none: any number of lost answers, every fault |
| `SlotScannerProofs`: `TypeCorrect`, `ProcessedWasPublishedHolds`, `GapsAreFilledHolds` | none: every fault and restart |
| `KlinePipelineProofs`: `TypeCorrect`, `NoTradeTwiceHolds`, `CandleEnclosesTradesHolds` | none: every fault, expired locks included |
| `NoTradeMissingHolds`, `MergeIsAtomicHolds`: `Spec => MergeIsAtomic` | none; the properties themselves speak of the time before a harmful fault |
| `RowNeverFallsBackHolds` | `OneClaim`: one partition, and no fault that costs Redis a candle or ends the work on one (a failed command, a rebalance, a crash); locks may expire |
| `RowBehindStoredHolds`: no row, batch or message to the flusher has a trade that Redis has not | none; the property itself speaks of the time before a harmful fault |
| `StoredReachesRowHolds`: every trade in Redis is in its row or on its way there, unless a flush failed for good | `OneClaim`; the trades are finitely many |
| `RowIsCurrentHolds`: when nothing is on its way, a row has the trades of the stored candle, those and no others | `OneClaim`; the trades are finitely many |
| `SocketHubProofs`: `TypeCorrect`, `NoPanicHolds` | none |

The conditions are not for convenience: section 3 shows what happens without them.

**TradeOrders.** `Inv` is inductive and needs no condition. None of the four properties is inductive on its own.
That Suc implies an executed swap rests on the chain only; that a follow-up has a settled buy needs `TickInv` (a ticker
in the middle of settling holds an order whose swap was executed) and `NoRowInv` (a fresh id has no history), without
which a new row could inherit a parent. `NoSwapAfterCancel` needs `RetractedInv`: an order cancelled while waiting has no
swap, no browser and no matcher, and stays in Cancel or Fail, so that neither a late compensating write nor a stale list
can revive it. `OneExecutor` needs `WaitingInv`: nobody works on a waiting order, so only the winner of the
compare-and-swap does. `SeqInv` is inductive relative to `Inv` when confirmations do not overlap: while a handler
confirms, a browser builds, or a matcher executes, the status is Proc or Cancel. `PendingInv` then gives `OneFollowUp`:
at most one ticker is about to create the follow-up of a market order, and only of a settled one without a follow-up. For the refinement
every action is shown to write a status that `OrderLifecycle` allows, or none; the statuses in `SeqInv` are exactly
what makes the unconditional writes forward moves.

**TriggerList.** `Inv` says that every entry, wherever it is held, stands for an existing order and, in a limit list,
carries the limit of its row, and that an order in a tick's hands has an entry which the tick's price fires. The
action property follows, whatever rewrites were lost. `QuietInv` says that whoever works on the list holds the lock (`LockInv`),
hence the snapshot of a tick still describes the list when it is rewritten: every waiting order of the list is in
`todo` or in `rest` (`ExecInv`), an order has no entry before its creator pushed it (`FreshInv`), and no kept entry
is below one ever stored (`RestInv`). `NoOrderLost` and `LineNeverFalls` need all of them.

**BondingCurve.** `IInv` adds to the types that a launched curve has a configuration that passed `Validate`, with its snapshot and
its supply (`CurveUnder`), and that a mint without a curve has no tokens in circulation and no pool (`NotLaunched`). Each instruction preserves it. The
arithmetic is in lemmas about the two quotes alone: division with remainder gives that `TokensForSol` never exceeds the virtual
tokens and `SolForTokens` never the virtual lamports, and how much of the product each rounding can cost. `ProductAlwaysHolds` and
`NoRoundTripProfit` are these lemmas in a reachable state. `VaultCoversCurves` is a sum over all curves. `VaultInv` makes
it inductive with the time before the program is configured; each instruction is shown to move into the vault what it books on its
curve (`VaultMoves`), and `SumTheorems` shows that a sum changes by as much as one of its terms. The library has no such lemma: the
sum is a fold, so they are proved by induction over the subsets of the mints, where the least counterexample takes the place of
the induction rule (`SubsetInduction`). Whether a curve that sold out
can pay for its migration (`CompletedCanMigrate`) is what rounding could spoil, since the losses of its buys add up and
`Config::validate` demands no margin. A buy costs less than its new virtual lamports (`LossOfBuy`), which is one part in the
virtual tokens left, and these are never fewer than `EndReserve`, what is left when all is sold. `CountInv` is the
invariant: the product of the reserves is at least `StartProduct` less one part in `EndReserve` for every buy so far;
`SellOnPrice` shows that a sell cannot disturb it. The buy that completes the curve pays the cost of the tokens left, or what was
offered for it where that is less, and both reach any `target` `WithinReach`. So a configuration with `RoomForRounding` for `n` buys
lets its curves migrate if they sell out within `n`; `RoomByShares` is the same as one inequality between its fields. There is no bound for all
numbers of buys at once: enough of them, sold back and bought again, take any margin. They would have to be many: with 30 SOL of
virtual lamports and 2.8e14 base units left unsold, a million buys lose one lamport at most.

**SwapSubmission.** `SwapsAccountedFor` is not inductive: the reason why a second attempt is harmless is what the goroutine knows when it
starts. `PendingInv` says that while it works everything taken in so far is unanswered, `FreshInv` that the transaction of this
try and attempt has not been signed before, `CurrentInv` that the one being sent carries the current tolerance, and `ResultInv`
that a success names a transaction that was taken in, with its tolerance. The many ways in which an attempt ends are one
lemma (`AnswerStep`): either nothing new was answered for, or the current transaction was and the loops end. `ToleranceInv` follows the
tolerance from tier to tier.

**SlotScanner.** That a row is written after the trades were sent is in the hands of several workers that may have the same slot.
`Honest` says of each that it has a slot to work on, and that before the row of a
fetched block is written the trades have been handed to Kafka. What the row or the lookup said when the worker began
does not matter, which is why no agreement between two workers is needed. `ReaderInv` says what the reader holds between two
slots: a run of numbers that ends with the slot notified, with nothing left out before it. `GapsAreFilled` needs that,
since the mark `lastQueued` moves to the end of the run at once, when only its last slot is left. That the backlog
starts at a number needs that the maximum of the processed slots is one of them (`MaxIsMember`): by the least distance
from a bound, since a least number exists in every set of numbers (`NatLessThanWellFounded`).

**KlinePipeline.** A candle has versions in many places: Redis, merges, the channel, the batch, the table. `VersionsStep` says once and for
all where a version that is there after a step comes from: from one that was there before, from a message's candle, or from
the merge of the two; what holds of all versions is then proved for these three. `CandleEnclosesTrades` is one such fact.
`NoTradeTwice` needs `NewOnce` beside it: a trade that the check let through is in one message's candle, once, and while it is
there unmerged it is in no version (`VersionsOnce`). The candle's lock plays no part in this: two merges at the same
time may lose a trade but not count one twice. What does matter is that a claim whose session has ended gets no lock
any more, since its context is cancelled: it keeps trades that it could not check, and so could another claim. `CalmInv` says what
holds until a harmful fault happens: who is between `MustLock` and `Release` holds the lock (`LockInv`), so
that the member it read is all that is stored, and nothing once it is removed. `NoTradeMissing` follows, and the refinement:
all steps of a merge but `AddStored` leave what is counted as it was, and `AddStored` adds the trades of the message, all of
that candle (`OwnInv`), to those of the member it replaces (`OldIsPart`). `RowNeverFallsBack` looks like a matter of volumes, since the flusher keeps the larger of
two versions, but is one of order: `ChainInv` says that row, batch and channel hold the versions of a candle in the order in
which they were made, each a part of the next (`InOrder`), and that what is stored, or is about to be, has all that left before
(`Superseded`). Whichever version the flusher keeps, or fails to write, the row then never loses a trade. With one claim a merge
needs no lock for that (`AloneInv`): `LockExpires` and `LockFails` are allowed. With two claims `ChainInv` is false, as one may
release the lock first and send last. What a row has at all is bounded from both sides. `RowBehindStored` needs no order: what is sent
was added first, and nothing is taken out of what is counted (`BehindStep`), so a row is never ahead of Redis, for any number of
claims. `StoredReachesRow` is what safety can say of `RowCatchesUp`: a trade that is stored stays in a version on its way until the row
has it. The delicate step is the flusher's, which drops a version that is not larger than the one it holds (`TakeKeeps`): by `InOrder`
the dropped one extends the other, and two of which one extends the other without being larger are the same (`NotBetter`, a fact about sums that
`SumUnchanged` supplies). Both together are `RowIsCurrent`; `CandleEnclosesTrades` serves there to show that no stored candle is empty.

**SocketHub.** Beside the types, `IInv` says that a closed channel is not in the map, that a connection joins the map once (`JoinInv`),
and that the map stands still while it is visited (`VisitInv`). `NoPanic` follows: a removal that comes second finds the
client gone, and who is visited is in the map. `DropInv` bounds the dropping goroutines by the updates.

Proved modules use no recursive definition. Every invariant and every action property of the runs is
proved, under the conditions of the table. Liveness stays with TLC: the prover does no ENABLED reasoning, so
`FollowUpCreated`, `OnChainSettlesInWindow`, `ReachableStopTriggers`, `RowCatchesUp`, `EverySlotSettles`, `SubmissionEnds` and
`LaggingClientsLeave` are checked on small instances only.


## 5. What is not modelled, and the plan

**Left out for good.** The instruction decoders of the Consumer, the pool SDKs and the instruction builders of Trade are pure functions
over bytes of programs FlowDEX did not write; the generated IDL clients and protobuf code are not written by hand. The
queries of Market and the routing of Gateway keep no state. The visual part of the frontend and `SimulateOnly` change
nothing. `contracts/pump_meteora` is the older version of the bonding curve program.

These parts make up most of the repository: of its 98 500 lines of implementation about half are generated, and the
decoders, the SDKs and the user interface are the greater part of the rest. The map therefore covers a small share
of all lines and most of the lines in which state is kept under concurrency or failure.

**Left out so far**, in the order in which it should follow:

1. `scanBatch` (`ticker.go:47`): twenty orders OnChain that cannot be settled hide all later ones from the scan, indexed or not, as
   `Starved` says for the RPC budget.
2. Composition of `TradeOrders` and `TriggerList`: one order with its row, its list and its price, where the list
   takes the place of `ExecuteOrder`'s free choice; and of `SlotScanner` and `KlinePipeline`, where `SendTx` takes
   the place of `Publish`.
3. The Consumer's rows of tokens, pairs and trades: upserts by key that two workers make for the same pair.
4. `PriceDisruptor` (`disruptorx.go`, `proctokenpricelogic.go`): two handlers that use a sequencer meant for one producer. The sequencer is
   an external library, to be modelled from its use only.
5. The candle table behind several partitions. The producer keys its messages by slot (`send.go:51`), so trades of one pair are in
   all partitions, and versions of its candle may pass each other between `Release` and `Send`; `RowNeverFallsBack` then needs what the
   code does not have, a version number in the row or the send under the lock.
