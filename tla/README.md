# A verification project for qtrader

TLA+ specifications of the concurrent and stateful core of `src/qtrader` and of the backtest of
`src/rust_core`, TLC configurations that check them on small instances, and TLAPS proofs for every value
of the constants.

1. [The system](#1-the-system) – components, state, operations, interactions, what is hard
2. [The modules](#2-the-modules) – which module models what, and how it corresponds to the code
3. [The runs](#3-the-runs) – what each run checks, bounds, fairness
4. [The proofs](#4-the-proofs) – theorems, assumptions, inductive invariants
5. [Disagreements](#5-disagreements-between-code-and-text) – where the code and its own text differ
6. [Not modelled](#6-not-modelled) and 7. [Plan](#7-plan)

`PROJECT.json` is the machine-readable side: components, runs, the map from definitions to source
lines, hazards with their lines, mutants and theorems. Paths below are relative to `src/`.

## 1. The system

qtrader is a Python trading system. A `TradingSystem` runs one asyncio event loop: per symbol it reads a
market price, lets strategies and a risk check decide, and submits orders to a broker adapter. Everything
that shares state does so between coroutines of that loop (or, for replication, between processes), so
the hard behaviour is not data races but **what happens at an `await`**: state read before it is used
after it, two tasks are inside the same operation, a task is cancelled in the middle, a remote service
answers late, not at all, or after having done what it then reports as failed.

### 1.1 Components with state of their own

| component | source | state | operations |
|---|---|---|---|
| event bus | `core/event_bus.py`, `partition_manager.py`, `backpressure_controller.py` | one bounded queue and one worker task per partition, subscriber lists, `_running` | `start`, `stop`, `publish`, `subscribe`, `unsubscribe`, worker loop with retries |
| paper broker | `execution/brokers/coinbase.py` | `PaperAccount` (cash, positions, averages, profit, streaks), quotes, orders; a copy in Redis | `submit_order`, `cancel_order`, `get_paper_balance`, `reset_paper_account`, ticker updates, copy tasks |
| paper trading engine | `execution/paper_engine.py`, `paper_mixins.py`, `paper_models.py` | cash, lots, managed positions, peak equity, win/loss streak | `run_continuous` tick, `simulate_fill`, `reset`, start/stop through `api/router.py` |
| state store | `core/state_store.py` | positions, active orders, portfolio value, equity curve, risk state behind an `asyncio.Lock`; a copy in Redis | the setters, `sync_from_remote` |
| state replication | `core/state_replication.py` | role, last heartbeat heard, last checksum; no copy of the state received | `publish_state`, `receive_state`, heartbeats, `check_failover_needed`, `execute_failover` |
| kill switch | `risk/kill_switch.py` | halt flag and reason | five trips, `execute_safety_actions` (cancel everything, liquidate under a timeout, halt) |
| pre-trade risk | `execution/pre_trade_risk.py` | positions and prices it was told, stamps of attempts, kill flag | `validate_order`, four setters |
| trading system | `trading_system.py`, `core/session_state.py`, `core/lifecycle_tasks.py`, `api/router.py`; the rows in `persistence/db_writer.py` | running flag, shutdown event, pipelines and their coroutines, snapshot loops, current session; one row per session in a database | `start`, `stop`, `_run_pipeline`, `_process_symbol`, session insert/close/cleanup/purge, REST endpoints |
| embedding worker | `ml/embedding_worker.py` | queue, worker task, current sentiment vector, vector store | `start`, `stop`, `enqueue_note`, `enqueue_sentiment`, `_worker_loop` |
| Rust backtest | `rust_core/src/simulator.rs`, `matching.rs`, `risk.rs`, `oms.rs` | open orders, cash, position with its average, peak equity | one bar: match, fill, value, size, check, order |
| Rust TWAP | `rust_core/src/algo.rs` | start, slices executed, id counter | `generate_slices`, `reset` |
| order management, execution engine, war mode | `oms/`, `execution/execution_engine.py`, `risk/war_mode.py` | order states, fills, event store, mode | order and fill handlers (none can run, see section 6) |
| reconciliation | `execution/reconciliation_engine.py` | mismatch counters | periodic comparison, halts on mismatch (section 6) |

The rest of the repository is numerical (features, models, analytics, microstructure, allocation),
input/output (persistence, exporters, API views), or a development rule checker (`core/*enforcer*`,
`*guard*`); section 6 says what becomes of it.

### 1.2 How they interact

* `TradingSystem._process_symbol` → `PreTradeRiskValidator.validate_order` → `_execute_order` →
  `broker.submit_order`. Exits go to `_execute_order` without the validator. Nothing reports fills or prices back to it.
* `CoinbaseBrokerAdapter.submit_order` → `PaperTradingEngine.simulate_fill` when both share an engine,
  else its own `PaperAccount`. The engine's loop works on the same lot objects.
* `PaperAccount` ⇄ Redis: every fill starts a task that writes; every balance read overwrites memory.
* `StateStore` → `StateReplicator.publish_state` after some of its setters, and ⇄ Redis.
* `GlobalKillSwitch` reads orders and positions from `StateStore` and calls every broker adapter.
* Components publish events on the `EventBus`; handlers are called by the partition's worker.
* `api/router.py` starts, stops and resets the engine and the trading system. `POST /sessions/start` answers
  when the pipeline *ends*, so a start and its pipeline are one call, next to which others begin.
* `TradingSystem.start` and `stop`, every note posted and every purge write to `trading_sessions` through
  `TradeDBWriter`; each writer object closes what it takes for stale rows at its first write.
* Notes and sentiment texts reach the `AsyncEmbeddingManager` through its queue; decisions read the sentiment
  vector it wrote last.
* `run_simulation_1d` calls `MatchingEngine`, `RiskEngine`, `Position::add_fill` and `Account::equity`; the TWAP
  algorithm stands alone.

### 1.3 What makes each of them correct

| component | correct when |
|---|---|
| event bus | a partition is a log with one consumer; every accepted event is queued, with one worker, stored, refused by the store, or interrupted by a stop, and a run interrupts at most one per partition; queues stay bounded and drain, waiting publishers and a pending stop come to an end |
| paper broker | realized profit and the entry cost of the positions agree with the prices of the fills; limits are honoured after the latency sleep; copies to and from Redis never invent fills |
| paper engine | cash, fees and lots balance; an exit closes the lot that asked for it; performance fees stay bounded by the growth of the peak |
| state store | limits hold, snapshots leave in order, averages are averages |
| replication | no standby takes over beside a live primary whose heartbeats arrive; only bodies a primary has published are accepted, and only their checksums reported |
| kill switch | a finished run leaves the system halted, every order tried everywhere; the market executes at most one of its orders per symbol, beyond those whose answers were lost; the liquidation ends |
| pre-trade risk | no window with more approvals than the limit, and no refusal by a limit without as many validations in its window |
| trading system | a stop ends the pipelines and leaves no session of its process active; no snapshot goes to a closed session; rows of crashed processes, and only those, are aborted |
| embedding worker | one worker; results take effect once and in the order of arrival; everything queued is handled |
| Rust backtest, TWAP | no position larger than what a check allowed; the average of a position is a price it was built from; slices on schedule, each once |

### 1.4 What can be run at this commit

Event bus, paper broker, paper engine, store, kill switch, replication, pre-trade risk and embedding worker can be
imported, and the Rust core built; most have tests of their own. The programs around them cannot all be started: `create_trading_system`,
which `main.py:41`, `live_trader.py:19` and `api/dependencies.py:12` import, does not exist; `strategy/__init__.py` and
`strategy/manager.py` import missing modules, so `trading_system.py` fails on import;
`core/orchestrator.py` imports eight missing modules (`core.event_store`, `core.config_manager`,
`execution.multi_exchange_adapter`, …). The lifecycle of `TradingSystem` is modelled all the same, because it is complete in
its own file and does not depend on what is missing; other callers in these files were read for how they use a
component, and are modelled as environments that may do at least what they do.

## 2. The modules

| module | about | extended by |
|---|---|---|
| `PartitionLog` | what the bus promises of a partition: a FIFO log with one consumer | instantiated by `EventBus` |
| `EventBus` | the bus | `MCEventBus`, `EventBusProofs` |
| `Amounts` | the arithmetic that the two paper accounts share | `Adaptive`, `PaperBroker` |
| `PaperBroker` | account, latency, Redis copies | `MCPaperBroker`, `PaperProofs` |
| `Adaptive` | the pure arithmetic of adaptive stop loss, take profit and size | `PaperEngine` |
| `PaperEngine` | simulation loop and the broker's fills on the same lots | `MCPaperEngine`, `PaperProofs` |
| `StateStore` | the store, its lock, Redis, and the snapshots it publishes | `MCStateStore`, `StateProofs` |
| `KillSwitch` | safety runs, callers, brokers, and a trading system whose orders go on filling | `MCKillSwitch`, `KillSwitchProofs` |
| `Replication` | primary, standby, and as their environment the network and who calls them | `MCReplication`, `StateProofs` |
| `PreTradeRisk` | the validator, under callers of any kind | `MCPreTradeRisk`, `PreTradeRiskProofs` |
| `TradingSystem` | starts, stops, pipelines, session rows, purges, crashes | `MCTradingSystem`, `TradingSystemProofs` |
| `EmbeddingWorker` | queue, worker tasks, overlapping lifecycle calls | `MCEmbeddingWorker`, `EmbeddingWorkerProofs` |
| `Backtest` | the event loop of the Rust backtest | `MCBacktest`, `BacktestProofs` |
| `Twap` | the slicing algorithm of the Rust core | `MCBacktest`, `BacktestProofs` |

Common conventions. **An action is what one coroutine does between two suspension points**; where the code
awaits, the state between is a program counter. Operations that hold the store's lock across an await keep
it in the model too. Constants are the parameters of the constructors plus bounds, each with a comment;
`ASSUME` states what the code needs of them. A variable commented "history" exists for the properties only:
no guard reads one. An operator commented "Mutant" is a plausible bug of the definition after it; no other
definition uses one, and every property is broken by at least one of them.

**EventBus.** `queue`, `subscribers`, `worker` (program counter, held event, handler being called and its position in the
subscriber list, attempt), `tasks` (`_worker_tasks`), `cancelled`, `stopping` (one entry per suspended `stop()`: the tasks
its `gather` waits for, so that several may be pending), `putting` (a publisher suspended in `queue.put`).
`Start`/`StopBegin`/`WorkerCancelled`/`StopEnd` are `start()` and the two halves of `stop()` around `gather`; a handler may
catch the cancellation and run on (`HandlerSwallowsCancel`), and its worker then leaves at the head of its loop, unless the bus
runs again by then. The worker's steps are `Get`, `HandlerReturns`, `HandlerFails` (an exception or the timeout;
retried up to `MaxRetries`, then the next handler), `EventStored`, `StoreFails`. `publish()` is one of
`PublishRejected` (not running, or shed), `PublishAccepted`, `PublishBlocks` + `PutResumes`; a resumed `put` tests neither
`_running` nor the priority again, as in the code. A worker reads the *live* subscriber list by index, as a
Python list iterator does: an unsubscribe at or before the index makes it skip a handler (the history `skipped` says whom), a
subscribe extends the iteration. Events appear by `type`, `symbol` and `order_id` – what routing and shedding read. md5 is the
constant `Hash`. The Redis bridge and metrics are left out.

**PaperBroker.** `account`, `quotes`, `book`, `submission`, `redis`, `sync` (one task per fill), `balance` (one
per reader). `SubmitBegin` runs up to the latency sleep; `Fill`/`NotFilled` is the whole rest of
`submit_order` and `_fill_paper_order` including the ticker touch, the fill price with slippage, fee, streaks,
`update_position` and the creation of the copy task. A Redis command is sent and served in different steps, so
commands of two tasks may be served in either order, and `SyncFails` ends a task at any of its awaits, before its command was
served or after, when the answer is lost. `Restart`
is a process that dies and a new one over what Redis holds; a command in flight may still be served.
Money is an integer; instances choose units in which averages, slippage and fees are exact.

**PaperEngine.** The loop awaits only between ticks, so `Tick` is one whole pass: market event, exits by
stop loss/take profit, exits by reversal, entry, peak, adaptive streak. Lots are objects that two lists share;
the model keeps objects in a sequence and each list as the set of its ids, so an external fill (`SimulateFill`) that shrinks or closes a lot
is seen through the list of managed positions as in Python. A set is enough because both lists are always in the order in
which lots were created: the head is the smallest id. Money is in thousandths of the unit of prices, so that the taker fee is exact. Price, direction, strength, size and slippage, which the code
draws or computes from data, are choices.

**StateStore.** Setters that do not await under the lock are one action, enabled when it is free.
`SetPosition` and `SetPortfolioValue` change the state and keep the lock; `Persisted`/`PersistFails` finishes,
releases and publishes. `SyncReadPositions … SyncApplyPortfolio` is `sync_from_remote`, which reads without
the lock, and leaves alone what Redis does not have. `SetRiskState` also stands for the other three setters that count a version and publish nothing;
`BecomePrimary` is the failover of the replicator as the store sees it.

**KillSwitch.** `Trip` (each of the five trips; only the first reason counts), `Begin` (snapshot of the
orders, one task per broker and order; or a store that fails to list them), `CancelAnswered` (a broker cancels, refuses or raises),
`CancelDone` (the positions are read, or cannot be), `NextPosition`, `Submit` per broker in order with success, refusal, and "executed but
raised", `NoBrokerLeft`, `LiquidationDone`, and `LiquidationTimesOut` at any await. The environment goes on meanwhile: `PlaceOrder`
puts an order with a signed quantity to rest at a broker, `Fill` executes it at any time, before a cancellation reaches it, between the
read of the positions and the orders that close them, or after; `Learn` is the store hearing of it, late or never. So the positions a
run acts on may be stale when it reads them, and stale again when it uses them. The history `ledger` counts, per run and symbol, the orders
the market executed and those of them the run did not hear of, and whether anybody else has moved the symbol.

**Replication.** One clock in ticks, `net` a set of messages (duplicates and reordering come with it; `Lose`,
`Corrupt` of a body or of a checksum, and delivery within `MaxDelay` or never). `ReceiveState` verifies the checksum and then reports it as its
own; it keeps nothing of the body (`state_replication.py:130`), which only the history `accepted` remembers, and reads no version. `Failover` is
`check_failover_needed` and `execute_failover` together, in a caller that polls. The class has no transport, no heartbeat loop – `send_heartbeat`
only logs – and no polling, and only the store publishes through it. Network, heartbeats, polling, crash and the punctuality of the
sender are therefore the environment: each may happen, none has to, and no progress is claimed.

**PreTradeRisk.** `Validate` is `validate_order` with its eight checks in order; an attempt is stamped before anything is checked and
also when it is rejected. Nothing is assumed of the callers: an order of any symbol may be validated at any time, several of one symbol at
once (`gather` can leave a coroutine of an earlier round behind, `trading_system.py:212`), and positions, prices and values are reported or, as in
`trading_system.py` at this commit, never. Whether an approved order reaches the market, and what goes there unvalidated, is outside.
The deque of stamps is a sequence of which the last `MaxStamps` are visible.

**TradingSystem.** One call of `start` is one element of `Request`, with a program counter through
`POST /sessions/start` (`StartSession`, which joins a session that is active or begins one), `EnterStartSession`,
`Initialize`, `Cleanup`, `InsertSession`/`InsertFails`, and then through the pipeline it runs: `Round` starts one coroutine per symbol
(`ProcessSymbol`, `ProcessSymbolFails`), `Gathered` and `Awake` bring the next round, `LeavePipeline` returns. `StopSystem`, `Stopped`
and `CloseSession` are the parts of `stop()` between its awaits; `SnapshotLoop` the periodic task of a session;
`ForensicNote` and a purge are two endpoints that write rows too: the purge drops the table (`Purge`), makes it again
(`PurgeCreates`) and cleans it (`PurgeCleans`), an await after each, any of which may fail and is then passed over; between the first
two, inserts, cleanups and closes find no table and fail. `Crash` loses everything but the rows, `Restart`
begins the next process over them. What a coroutine decides inside a round is left out. A statement of
the database and the return of its await are one step.

**EmbeddingWorker.** Worker tasks are numbered as they are created; `workerTask` is the one the manager knows. `StopBegin` cancels
it and waits, `StopEnd` forgets the task there is *then*; `StopAtOnce` finds none. The worker's awaits are `Get`, the embedding
(`Embedded`, `NoEmbedding`, `EmbedFails` with `BackedOff`) and the database (`NoteSaved`, or `NoteRaises` when the vector store
cannot be opened, which is outside the `try` there and ends in the back-off here); `WorkerCancelled` strikes at
any of them. An item is its type and the number of its arrival.

**Backtest, Twap.** A bar is `Bar` (next price and time), a `FillOrder` for each order whose latency is over, `Matched`, and
`Decide` (value the account, size and check the order of an arbitrary signal). Money is integer and `f64` division
rounds down. `Twap` keeps Rust's truncation and the wrap of a negative quotient cast to `usize`; `Reset` sets the id counter
to what its caller says.

## 3. The runs

`tlc -config X.cfg M` for each row. "Passing" runs end without an error; each of the others shows one
disagreement of section 5. Deadlock is not checked: every instance bounds how often something starts,
so it really comes to rest.

| run | configuration | what it shows |
|---|---|---|
| `bus_run` | `MCEventBus_run.cfg` | `TypeOK`, `SerialPerPartition`, `StoredAfterDelivery`, `AcceptedAccounted`, and the refinement `ImplementsPartitionLog`; `QueueDrains` and `StopReturns` under fairness |
| `paper_run` | `MCPaperBroker_run.cfg` | `TypeOK`, `PnLIdentity` (until a balance read or a restart overwrites the account), `LimitHonoured`, `NoFillCountedTwice` (until a reset) |
| `engine_run` | `MCPaperEngine_run.cfg` | `EngineTypeOK`, `LedgerBalances` (until the broker adapter fills on the same lots), `ClosesTriggeredLot`, `HighWaterMark` |
| `store_run` | `MCStateStore_run.cfg` | `TypeOK`, `PublishedInOrder` |
| `kill_run` | `MCKillSwitch_run.cfg` | `TypeOK`, `SafetyRunComplete`, `NoFlip` with fills, a lagging store and lost answers; `LiquidationEnds` under fairness |
| `repl_run` | `MCReplication_run.cfg` | `PairTypeOK`, `AcceptedGenuine`; `TakeoverOnlyAfterCrash` while no heartbeat is lost |
| `pretrade_run` | `MCPreTradeRisk_run.cfg` | `TypeOK`, `RateLimited`, and its converse `RefusedForCause` |
| `system_run` | `MCTradingSystem_run.cfg` | `TypeOK`, `OrphansAborted`; `StoppedClean` and `NoLoopOnCompleted` for calls made one at a time; `StopEndsPipelines` under fairness |
| `embed_run` | `MCEmbeddingWorker_run.cfg` | `TypeOK`; `AppliedInOrder` while no two stops overlap; `QueueHandled` under fairness |
| `backtest_run` | `MCBacktest_run.cfg` | `TypeOK`, `ExposureChecked`, `AverageAmongFills`, `TwapOnSchedule` |
| `bus_overlap` | `MCEventBus_overlap.cfg` | `AllWorkersShutDown` fails when `start()` overtakes a pending `stop()` |
| `system_aborted` | `MCTradingSystem_aborted.cfg` | `OnlyOrphansAborted` fails: a note posted during a session aborts its row |

### Bounds, and why they suffice

* **Bus.** One partition of two slots, two publishers, three events: the queue fills, a publisher waits, a
  quote is shed, and a stop can find an event in the worker's hand, one in the queue and one waiting.
  Partitions share only `_running`, so one suffices where routing is not the question (`bus_overlap` has two).
  Two starts give one complete restart; one retry gives both "retried and delivered" and "given up". The handler that
  comes and goes stands at first in front of the one that stays: it may fail before the other is called, and an unsubscribe makes
  the worker skip the other; once it has come back it stands behind. `bus_overlap` has three starts, so that one can follow each of two
  pending stops, and no retries.
* **Paper broker.** Two of four orders (buy one or two, sell one or two, at the market or with a limit) with two quotes: two fills
  reach additions, partial closes, closes to zero and flips, each of a long and of a short position. Two environment events (quote,
  cancel, reset, restart) and two balance reads reach the races
  of the latency sleep and of the copy tasks, and a read before and one after a restart. The two readers are alike (symmetry). Prices are multiples of 600, so that averages over three units, a tenth of
  slippage and 15 % fees are whole numbers: rounding, which `Decimal` does at 28 digits, is out of the picture.
* **Paper engine.** Three prices: one inside both exits, one beyond the stop loss and one beyond the take profit of a long (the
  reverse for a short). Three lots; external orders that add a lot, close one exactly, and close a part
  of one. The parameters of `Adaptive` are those of the code.
* **Store.** Two symbols, two orders and limits of one, so that every limit is met and exceeded; Redis starts
  with this node's positions or with another node's, and with or without a portfolio value.
* **Kill switch.** One symbol, one order of one unit and positions from -1 to 1: the order opens or adds to a long and closes a short, so a
  snapshot may be too large or too small when it is used. Symbols and orders are handled independently; the
  interleavings of interest are between two runs, two brokers and what fills meanwhile.
* **Replication.** `Threshold = Interval + MaxDelay` is the boundary of the theorem `NoDoublePrimary`. Six ticks allow
  a heartbeat, a crash, and the takeover; two snapshots can be mixed up and arrive in the wrong order.
* **Pre-trade.** Limits of one per short window and two per long window with a deque of three stamps: it
  forgets inside a run, and the last allowed value (`PerMinute = MaxStamps - 1`) is used. Six attempts in six instants; quantities on both sides
  of the limits, so that each of the other checks refuses too. The two symbols are alike (symmetry).
* **Trading system.** Two calls that start and one that stops, in every order, over two sessions, two symbols and two
  processes: a start overtakes a stop, a restart finds a pipeline of the run before, one symbol fails while the other
  goes on, a crash leaves an active row to the next process, a session is inserted or closed between the statements of a purge. A call runs one round: what it does in a second one
  is the same; the coroutine that a failure leaves behind does not meet that round here (the proofs are for any number of rounds).
* **Embedding worker.** Two stops, three tasks: the least with which a task is forgotten while it lives and another one is
  created. Four items: one in the hand of each of two workers and one before and after them.
* **Backtest.** Six bars, two prices a factor apart, gaps below and equal to the latency, a position limit, fee,
  slippage and drawdown that are all reached: additions, partial closes, flips and refused orders occur. The TWAP has an interval that
  does not divide its duration (7 in 3 slices), stamps before, at and after slice boundaries, and two start times and two next ids for
  `reset`. `MCBacktest` explores one of the two at a time; they share nothing.

### Fairness

Only what the event loop does by itself is fair; nobody is obliged to call an operation.

* **Bus** – weak fairness of each worker's step and of leaving the loop when cancelled, and of the end of `stop()`:
  a handler returns, raises, or is cut off by `wait_for`, also one that has swallowed its cancellation. Strong fairness of `PutResumes`: a publisher
  waiting for room may be overtaken by another one, but asyncio's queue wakes its putters in order.
* **Kill switch** – weak fairness of a run's own steps, the timeout of the liquidation among them. Brokers need
  not answer: the cancellation phase, which has no timeout, may therefore never end (and no property says it does).
* **Trading system** – weak fairness of the pipeline step of each call, and of some coroutine returning: sleeps are finite,
  calls of models and broker have timeouts. Nobody has to call `start`, `stop` or an endpoint.
* **Embedding worker** – weak fairness of each worker's step: the request to the model has a timeout, the back-off
  sleep and the database statement end.

## 4. The proofs

`tlapm` proves the theorems below without assumptions other than the `ASSUME`s of the modules, which
TLC evaluates in the runs.

| module | theorem | statement |
|---|---|---|
| `EventBusProofs` | `BusTypeOK` | `Spec => []TypeOK` |
| | `BusSerial` | `~OverlapLifecycle /\ Spec => []SerialPerPartition` |
| | `BusQueueBounded` | `Spec => []QueueBounded` |
| | `BusImplementsLog` | `~OverlapLifecycle /\ Spec => ImplementsPartitionLog` |
| | `BusAcceptedAccounted` | `Spec => []AcceptedAccounted` |
| | `BusStoredAfterDelivery` | `PermanentOnce /\ Spec => []StoredAfterDelivery` |
| | `BusPartitionsServed` | `Spec => []PartitionsServed`: a running bus has a live, uncancelled worker for every partition |
| `PaperProofs` | `EngineKeepsTypes` | `EngineSpec => []EngineTypeOK` |
| | `FeesWithinGrowth` | `EngineSpec => []HighWaterMark` |
| | `TriggeredLotCloses` | `SignalsReverse` implies `EngineSpec => []ClosesTriggeredLot` |
| | `RealizedIsSumOfTrades` | `EngineSpec => []LedgerBalances` |
| | `StopsAndTargets` | `TargetsStayAbove /\ EngineSpec => []StopsLoseTargetsGain`: until the broker fills an order, a stop closes no lot that has gained, a target none that has lost |
| | `BrokerKeepsTypes` | `Spec => []TypeOK` |
| | `LimitsAreHonoured` | `Spec => []LimitHonoured` |
| | `NoFillTwice` | `Spec => []NoFillCountedTwice` |
| | `ProfitsAddUp` | `Spec /\ ExactFills => []PnLIdentity` |
| `StateProofs` | `StoreTypeOK` | `Spec => []TypeOK` |
| | `StorePublishesInOrder` | `Spec => []PublishedInOrder` |
| | `StoreBounded` | `Spec => []OrdersAndCurveBounded` |
| | `ReplicationTypeOK` | `PairSpec => []PairTypeOK` |
| | `NoDoublePrimary` | `Fits /\ PairSpec => []TakeoverOnlyAfterCrash`, `Fits == Interval + MaxDelay <= Threshold` |
| | `OnlyGenuineAccepted` | `PairSpec => []AcceptedGenuine` |
| `PreTradeRiskProofs` | `PreTradeTypeOK` | `Spec => []TypeOK` |
| | `RateLimitHolds` | `Spec => []RateLimited` |
| | `RefusalsHaveCause` | `Spec => []RefusedForCause` |
| `KillSwitchProofs` | `KillTypeOK` | `Spec => []TypeOK` |
| | `KillSafetyRunComplete` | `Spec => []SafetyRunComplete` |
| | `KillNoFlip` | `Spec => []NoFlip` |
| `TradingSystemProofs` | `SystemTypeOK` | `Spec => []TypeOK` |
| | `SystemOrphansAborted` | `Spec => []OrphansAborted` |
| | `SystemStoppedClean` | `Spec => []StoppedClean` |
| | `SystemNoLoopOnCompleted` | `Spec => []NoLoopOnCompleted` |
| `EmbeddingWorkerProofs` | `EmbeddingTypeOK` | `Spec => []TypeOK` |
| | `ResultsInOrder` | `Spec => AppliedInOrder` |
| `BacktestProofs` | `BacktestTypeOK` | `Spec => []TypeOK` |
| | `PositionsWereChecked` | `Spec => []ExposureChecked` |
| | `AveragesAmongFills` | `Spec => []AverageAmongFills` |
| | `TwapKeepsSchedule` | `(\A t \in Stamp : t < Wide) /\ TwapSpec => []TwapOnSchedule` |

The arguments:

* **Bus.** `TypeOK` needs `HoldsEvent` (a worker that delivers or stores holds an event). Two workers of one
  partition are excluded by `OneGeneration`: a live worker belongs to the last `start()` and is in `_worker_tasks`,
  the one pending stop gathers just these tasks, and after it none is live.
  That is inductive only while `start()` waits for a pending `stop()`, hence `~OverlapLifecycle`; `bus_overlap` shows
  that the hypothesis is needed. With one worker per partition `Current`, the event it holds, is well defined,
  and every action is one of `PartitionLog` or a stutter – one step of `LogStep` per action.
  `AcceptedAccounted` holds with overlapping lifecycle calls too. An event is in one place at a time, and an accepted one is somewhere
  (`OnePlace`), in one copy (`OneCopy`); by `LossInv` the workers of a partition have lost no more events than are gone,
  and every start gives it one worker. `StoredAfterDelivery` needs `DeliveryInv`: the live list always holds the subscribers that stay, each at
  one place, wherever those that come and go put them (`Lists`); an event has been given to nobody before it is taken (`Untouched`); and of the
  worker that holds it everything before its index was called or moved there by an unsubscribe, nothing after it was called
  (`Progress`). `PermanentOnce` says that no subscriber that stays is registered twice for a type: with two
  registrations it would be called twice as often. `PartitionsServed` is what `QueueDrains` rests on:
  a stop cancels in the step that ends `running` and the next start makes workers of its own, so those of the last start
  live as long as the bus runs (`LastStartServes`), whatever a pending stop still does.
* **Sums.** Both paper accounts are about sums over a set that grows and shrinks, of which the community modules give a recursive
  definition that takes the elements in an order of its own. The first part of `PaperProofs` shows that any element may be
  taken first (`SumRemove`), and from that what adding, dropping and changing one row does. Induction over the
  size of a set is done with a set instead of a predicate: a family of sets that contains a set as soon as it contains its proper subsets
  contains every finite set (`SubsetInduction`).
* **Paper engine.** `Known`: both lists hold ids of lots, all of positive quantity. It is not obvious, as the code computes a new quantity from
  old quantity, side and sign in five places. `HighWaterMark` is inductive as it stands for everything but a close, and there it needs
  an inequality (`GrowthArithmetic`): the fee is a part of what the equity was above the peak, and the new peak is at least that equity
  less the fee. `OneByOne` (at most one lot is managed) is what makes "the oldest" the one that asked to be closed; it holds if every signal is
  strong enough to reverse a lot (`SignalsReverse`: the code draws strengths from 0.5 to 0.8, `paper_mixins.py:80`, and
  reverses from 0.35, `paper_engine.py:70`). `Books`: while only the loop trades, both lists are the same and the cash is what was started with, plus the
  net profits, less what the open lots cost with their fees. One lemma each says that a close, an entry, a price and a reset keep it.
  `StopsAndTargets` is about the adaptive parameters: every lot is opened between its stop and its target (`Bracketed`) because neither parameter gets
  negative. That needs `TargetsStayAbove`: a streak of losses lowers the target by up to `Step * MaxWindows`, which with the code's
  defaults (0.5 * 6) is exactly the base target of 3.0; with a lower base a target could close a lot at a loss.
* **Paper broker.** `CopiesAreSums` extends `NoFillCountedTwice` from the account to every place where a position may be: in Redis, in the hands of
  each copy task, in the answer of each balance read. `FillsReturned` says that an order that was filled does not sleep any more, so
  that a fill is new. `ProfitsAddUp` holds realized profit plus the money paid against the cost of what is held (`Ledger`), and rests on
  two identities about one fill, one that adds (`AddingArithmetic`) and one that closes (`ClosingArithmetic`). Its hypothesis `ExactFills`
  excludes two things: an average that the integer division would round (the code divides `Decimal`s), and a fill at price zero, after which
  `update_position` realizes nothing because it takes an average of zero for a missing one (`coinbase.py:91`). The instance of
  `paper_run` satisfies it.
* **Store.** Snapshots leave in order because `PublishOrder` relates the last published version to the current
  one, strictly while somebody waits for Redis with the lock. `TypeOK` is not shallow here: that no average price gets
  negative rests on the arithmetic of `update_position` (`UpdatedType`).
* **Replication.** `Timely` says, while the first primary is up and no heartbeat was missed: it is
  the only primary; it has sent a heartbeat within `Interval`; no heartbeat under way is older than `MaxDelay`;
  and a standby that has heard anything has heard it since the last heartbeat, or one sent at most an
  `Interval` later is under way. `NeverSilent` turns that into "the threshold is not exceeded"
  when `Fits`. What was accepted is genuine because the messages are (`CarriesGenuine`): one whose body
  matches its checksum has been damaged in neither.
* **Pre-trade.** An approval compares with the last `MaxStamps` stamps only. Stamps are monotone, so
  `DequeSuffices`: if the deque shows at most a limit smaller than its length, then it shows the whole window. `PerSecond < MaxStamps`
  and `PerMinute < MaxStamps` are assumptions of the module (the code uses 10, 100 and a length of 10000). The converse needs no assumption:
  what the deque shows above a limit (`CountedAbove`) is in the window.

* **Kill switch.** `Cancelling` accounts for every order a run found: it is cancelled, refused, or its task is still to
  answer. `Tidy` says a lot is either in hand or to do, and one per symbol. `Closing` is what makes `NoFlip` inductive: of a lot that a run
  has yet to close the market has executed no order but those the run did not hear of, so that one more leaves at most one too many; and
  as long as nobody else moved the symbol, the position is what the run took up less what was executed. A fill or
  another run's order ends that clause for the runs it surprises, not the count.
* **Trading system.** `Down` (nothing lives in a process that is down), `Owners` and `CleanedUp` (a start that is past its cleanup
  has met every row of an earlier process) give `OrphansAborted`. With calls one at a time, `OneAtATime` bounds what is under way,
  `OwnRow` says which row of this process can be active – a purge under way removes or aborts rows only – and `LoopsStopped` that a loop in the middle of its
  await belongs to a session that is not yet closed.
* **Embedding worker.** `OneWorker`: while stops are sequential only the task the manager knows is live. `InOrder` and
  `HandIsNewest` order memory, sentiment vector, the item in hand and the queue by arrival.
* **Backtest.** An order was checked against the position it will change, because at most one is open; a fill moves the position to
  what was checked, at the price of the check. Averages rest on a lemma on weighted means under
  integer division. `TypeOK` is not shallow: that order quantities are not negative needs the drawdown check to stand before
  the order, as it leaves the equity positive.
* **TWAP.** Whatever the calls were, the ids handed out since a reset are a run of consecutive ones, as many as the counter says,
  from whatever id its caller chose (`TwapInv`); for calls that are not early the cast changes nothing (`InTime`), and the counter lies between what is due at some
  call and what is due at all of them. The hypothesis says that times fit the integer they are cast to.

Model-checked only: the liveness properties (`QueueDrains`, `StopReturns`, `LiquidationEnds`,
`StopEndsPipelines`, `QueueHandled`); temporal reasoning from fairness and anything about `ENABLED` are out of the prover's reach. Every
safety property of a passing run is a theorem.

## 5. Disagreements between code and text

With a run that shows them:

| run | the code | the text |
|---|---|---|
| `bus_overlap` | a second `start()` while a `stop()` waits in `gather` fills `_worker_tasks`; that `stop()`, when it resumes, empties it (`core/event_bus.py:110`), so that the next `stop()` finds nothing to cancel and returns with the second set of workers alive | "Gracefully shutdown all workers." (`:99`) |
| `system_aborted` | `cleanup_stale_sessions()` aborts every ACTIVE row, those of live processes too; `POST /forensic_notes` (`api/router.py:301`) makes a writer of its own, whose first write cleans up (`persistence/db_writer.py:218`) | "Mark all orphaned 'ACTIVE' sessions as 'ABORTED' on startup." (`:217`) |

Met while modelling, kept in the models as the code has them, without a run of their own:

* *Bus*: an unsubscribe during an iteration makes the worker skip the next subscriber (`core/event_bus.py:186`, "Deliver to all relevant
  subscribers", `:183`) – the one exception that `StoredAfterDelivery` makes; an event that the store refuses is logged and
  dropped after its delivery (`:190`, `:201`) – one of the five places of `AcceptedAccounted`.
* *Bus with Redis* (not modelled): a bus receives and handles the events it has broadcast itself a second time (`event_bus.py:238`), and
  its listener ends for good when the first subscription fails.
* *Paper broker*: a close to exactly zero pops the position and leaves cash alone (`execution/brokers/coinbase.py:98`, `:123`, against
  "Update position and track PnL correctly for both long and short.", `:79`); opening a short raises equity (`coinbase.py:75` against `:68`); a balance read restores older
  positions (`:288`); `cancel_order` answers True during the latency sleep and the order still fills (`:574`); the next balance
  read undoes a reset (`:304`); averages are not copied to Redis, so that after a restart and a read the exit of a long position counts all of its
  proceeds as profit and takes the performance fee on them (`:353`).
* *Paper engine*: take profit has no floor in a losing streak (`paper_models.py:93`, "Ensure TP doesn't drop below floor" `:100`);
  shorts are valued as longs, so closing one moves equity by twice its profit (`paper_engine.py:143`); a sell from flat is
  reported as a positive holding (`paper_mixins.py:488`); lots filled through the broker adapter are never
  paid for (`:460`) – this is why `LedgerBalances` ends with the first such fill.
* *Store*: a reduction adds both costs and divides by what remains, so that selling 1 of 2 bought at 100 leaves an average of 300
  (`core/state_store.py:269`, "Average price for the new quantity", `:260`); `update_position` tests no position limit (`state_store.py:277`, limit at `:140`); at the limit `set_position` also refuses
  symbols it already holds (`:236`); four setters publish no snapshot (`:355`).
* *Kill switch*: orders are submitted without a look at the switch and the validator's flag is never set
  ("Immediately stop all trading activity", `risk/kill_switch.py:30`); no trip calls `execute_safety_actions` (`kill_switch.py:335`); refused cancellations count as executed (`:127`);
  an exception after an order was executed sends it again to the next broker (`:236`), once for each answer lost, and the positions are
  read once (`:195`) and used after every await (`:227`): a fill of a resting order, one the store had not heard of or a second run makes the market orders
  overshoot ("Flatten all positions via market orders", `:39`) – what `NoFlip` bounds is therefore the orders a run has executed, and the
  position only while nobody else moves it.
* *Replication*: a failover never demotes the old primary (`core/state_replication.py:178`, "without double execution", `:5`), so lost heartbeats
  leave two – `TakeoverOnlyAfterCrash` is about a network that loses none; a standby that has never heard of the primary never takes over (`state_replication.py:167`),
  and nothing in the repository polls, so that no takeover is promised at all; `receive_state` keeps nothing of what it accepts ("in production, this
  would update local OMS state", `:130`), and a late checksum replaces a newer one (`:133`).
* *Pre-trade*: exits are submitted without validation (`trading_system.py:231-232`, `:274-275`, "Every order must pass this validation",
  `pre_trade_risk.py:65`); the trading system reports neither fills nor prices (`trading_system.py:236`), so that the position limit compares with
  zero and a market order has no notional; two orders of one symbol may be under way at once (`:212`). No bound on positions or
  order values holds of this code, and none is stated; `max_total_exposure` is never compared (`pre_trade_risk.py:37`);
  rejected attempts count into the rate.
* *Trading system*: `stop()` sets `_shutdown_event` and nothing clears it, so that after a stop and a start the system is RUNNING and
  its pipeline returns at once (`trading_system.py:191`); a stop that falls into a start leaves an ACTIVE row and running loops, which
  is why `StoppedClean` and `NoLoopOnCompleted` speak of calls made one at a time; an ACTIVE row left by a crash makes `POST /sessions/start`
  answer that it is connected, without starting anything; a round under way at a stop still submits orders;
  `gather` without `return_exceptions` lets one symbol's coroutine run into the next round (`:212`); `PaperAccount.get_positions`
  does not exist (`:225`); with SIMULATION_MODE the server blocks in its lifespan and then assigns a property without a setter
  (`api/server.py:61`); two calls that first use the database at once create two pools; a purge aborts
  sessions inserted since it made the tables.
* *Embedding worker*: two overlapping stops and a start between them leave a worker nobody knows, and the next start adds a second one –
  excluded in `AppliedInOrder` by `sequential` (`ml/embedding_worker.py:57`); a cancellation between the database and the vector store leaves a note
  in one of them only; an empty embedding loses the item.
* *Backtest*: the limit and drawdown checks refuse orders that would reduce the position as well (`rust_core/src/risk.rs`). *TWAP*: a
  call earlier than the start by an interval or more wraps to a huge count and hands out every slice at once – excluded in `TwapOnSchedule`; a
  duration shorter than the number of slices makes the interval zero and hands out none (`rust_core/src/algo.rs:52`).
* *Order management*: `order_management_system.py` calls `StateStore.get_order` and `update_order`, which do not exist; `on_fill`
  reads the filled quantity before an await and records after it (`:114`). *Cash ledger*: it appends the entries of a transaction one by
  one, so a failed second append leaves it unbalanced.

## 6. Not modelled

Of the modelled components:

* the bus's Redis bridge (section 7); telemetry everywhere;
* the adapter's websocket and its live REST path, which the constructor of this commit cannot reach;
* signal arithmetic and database writes of the paper engine, which only append;
* what a coroutine of `TradingSystem` decides inside a round, read-only endpoints and web sockets;
* what `run_simulation_1d` does not use of the Rust core: the limit branch of `match_orders`, `match_single`, `check_order_simple`;
* time as a real number and rounding of `Decimal` and `f64`: prices and times are integers in units in which the instances are exact
  or rounded down;
* a wall clock that is set back (`pre_trade_risk.py:195`, `state_replication.py:168`): `time.time()` is taken as monotone.

Components with state that cannot run at this commit, so that there is no behaviour to be faithful to:

* `oms/` – every transition calls `StateStore.get_order`/`update_order`, and the adapter imports `execution.multi_exchange_adapter`; none exists;
* `execution/execution_engine.py` – its fill events lack required fields and fail validation (`:169`, `:264`), the retry path imports
  `RetryOrderEvent`, which does not exist; `risk/war_mode.py` is evaluated by tests only;
* `execution/reconciliation_engine.py` – compares the sum over all adapters with the positions of the first one, builds a trace id
  that its event type refuses, and so `on_fill` always ends in its timeout;
* `execution/shadow_engine.py` – reads a field that events do not have;
* `core/orchestrator.py`, `risk/realtime.py`, `risk/runtime.py`, `core/fail_fast_engine.py` – import missing modules;
* `portfolio/` ledgers – the event store they append to does not exist.

The rest: strategies, features, models, microstructure, allocation and analytics are numerical code over real-valued data with
little state that interacts; `security/`, `governance/` and `compliance/` are in-memory prototypes that only tests call, each call
running to its end without suspension; enforcers and guards check development rules; monitoring, audit, exporters, notebooks, front
end and scripts are input and output; nothing imports `legacy/`. This is most of the repository by lines,
and the reason why the map covers a small share of it. `PROJECT.json` lists each as a component with its reason.

## 7. Plan

Done, in this order, by how much depends on it: bus, paper broker, paper engine, store, kill switch,
replication, pre-trade risk, trading system, embedding worker, backtest and TWAP; abstract log and refinement for the bus; proofs
of every safety property the passing runs check.

What is left, with the properties each is for:

1. `BusBridge` – two buses and Redis between them: an event is handled once per process, a bus that stops and starts
   keeps its listener.
2. Composition of `StateStore` with `Replication` (what a standby takes over with, given setters that publish nothing), and of
   `KillSwitch` with `StateStore` (how far the store lags behind the positions a liquidation closes).
3. `OrderManagement`, `ExecutionEngine`, `Reconciliation` – when the modules they import exist: filled never exceeds ordered, terminal states
   are final, replay yields the live state; no halt without a persistent mismatch.
