# Omegabot: specifications, model checking and proofs

Omegabot is an asyncio trading bot for Arbitrum. One process runs a dozen
strategy and housekeeping loops over one account, one risk gate and one nonce
counter; a FastAPI backend records what it earns and sells subscriptions, and a
Solidity vault splits the profit. This directory holds TLA+ modules of the
parts where the order of steps matters, TLC configurations that check them on
small instances, and TLAPS proofs of what holds for every instance.

`PROJECT.json` lists the runs, the mutants that show that each property can
fail, the source lines each definition stands for, the hazards in the code and
the theorems. Source paths in the tables are relative to the
repository's root. In the modules a definition marked `Slip:` is a plausible
mistake, kept to test the properties with; no specification uses one.

    tlc -workers 2 -config RiskManager.cfg RiskManager
    tlapm RiskManagerProofs.tla

## 1. The system

| Component | State it keeps | Operations | Talks to | What is hard | Module |
|---|---|---|---|---|---|
| Risk gate, `src/core/risk_manager.py` | pause and its reason, failure count, daily loss, total profit, day start, degraded mode with retries and expiry, a lock | `clear_trade`, `record_trade`, `pause`, `resume`, `check_price_anomaly`, daily reset, `maybe_collect_profits` | asked by every strategy loop; reads the Aave account and the gas price; paused by the HUD, the price feed and the self-audit | the lock is held over two awaits, while pauses and records ignore the lock | `RiskManager`, `ProfitCustody` |
| Nonce manager, `src/vault/nonce_manager.py` | synced flag, next nonce, a lock | `sync_from_chain`, `get_nonce`, `resync_if_needed` | every sender of transactions; the chain | a count read before the lock; failures after a nonce was taken; restarts over a full pool | `NonceManager` |
| Engine, `src/core/engine.py` | price cache, statistics, set of enabled strategies, running flag | `initialize`, `run`, nine supervised loops and up to four more, `_report_profit`, HUD commands, `shutdown` | everything | partial failure inside a loop's body, several shutdowns at once, statistics against what happened on the chain | `Lifecycle`, `ProfitPipeline`, `Treasury`, `AdvancedStrategies` |
| Flash arbitrage, `src/strategies/flash_arb.py` | executed and failed counts | `scan`, `execute` | gate, nonce manager, executor contract | lost answers, timeouts of receipts | `ProfitPipeline`, `NonceManager` |
| Liquidation scanner, `src/scanning/liquidation_scanner.py` | borrower map, priority heap, risky and pre-staged maps | `_graph_fetch_loop`, `_event_listener`, `_scan_loop`, `_check_borrower`, eviction | subgraph, chain | three tasks on one map and one heap | `LiquidationScanner` |
| Liquidation executor, `src/strategies/liquidation_executor.py` | history | `execute_liquidation` | nonce manager, chain | nonce taken before the simulation; no gate in front | `NonceManager` |
| Advanced strategies, `src/strategies/advanced_strategies.py` | per-strategy statistics | MEV, GMX, cross-chain, yield scans | gate, chain | rates of several blocks, swaps gone when asked for | `AdvancedStrategies` |
| Platform reporter, `src/monitoring/platform_reporter.py` | queue of 2000, batch, statistics, worker task | `start`, `report_trade`, `_worker`, `_flush_batch`, `_report_to_api`, `stop` | backend, vault client, Telegram | retries after a lost answer, cancellation during a flush, a full queue | `TradeReporting` |
| Backend, `backend/auth.py` | users, profit records, subscription events | accounts and tokens, `/strategies/toggle`, `/stripe/checkout`, `/stripe/webhook`, `/internal/trade` | reporter, Stripe, browser | duplicated and reordered deliveries, rows read before the handler runs | `Sessions`, `Subscriptions`, `TradeReporting` |
| Vault client, `backend/vault_client.py` | nonce manager, statistics | `deposit_profit`, `_approve_exact` | vault contract, token | several deposits share one allowance | `ProfitCustody` |
| Vault, `contracts/NeuralBotVault.sol` | balances, four totals, paused flag, roles | `depositProfit`, `withdraw`, `withdrawAll`, `emergencyRescue`, roles, pause | token | balances against tokens held | `NeuralBotVault` |
| Executor and factory, `contracts/AaveBotExecutor.sol`, `contracts/AaveBotFactory.sol` | owner, paused flag, profit and trade counters; one executor per user | `executeOperation` and its two legs, `rescueFunds`, `pause`; `createBot` | Aave, routers | profit counted against tokens held | `AaveBotExecutor` |
| Task supervisor, `src/core/engine_components/` | tasks, restart and failure counts | `supervise`, `_runner` | engine loops | two limits, of which one can hide the other | `Lifecycle` |
| Aave client and scaling FSM, `src/capital/aave_client.py`, `src/core/modules.py` | collateral, debt, health factor; scaling level | `supply`, `borrow`, `emergency_repay`, `soft_rebalance`, `evaluate_and_execute` | scaling loop, capital monitor, HUD commands | one profit reinvested many times | `Treasury` |
| PartyKit client and HUD, `src/monitoring/` | socket, connected flag; trade list, profit counters | `connect`, `push_state`, `_reconnect`, `disconnect`; `add_trade` | engine | reconnection, close during a push | `Lifecycle`, `ProfitPipeline` |
| Skill upgrades, `src/core/skill_upgrades.py` | latency windows, audit history | latency guard, MEV shield, self-audit, keep-warm | gate, engine | tasks no stop reaches, an automatic pause | `Lifecycle` |
| Circuit breaker, RPC manager, blast radius; feature flags, canary, stop policy | counters and dictionaries | sequential calls | nothing in the trading path asks them | | none |
| Key manager, predictive models, formula engine, route optimizer, digital twin, encoders, migrations, scripts, web page | as their names say | | | sequential, numeric or I/O | none |

Control runs in one thread. Two tasks interleave only where one of them awaits,
so a stretch of code without an `await` is one action here, and every stretch
between awaits of a method is an action of its own. Where that is not so (the
thread pool of FastAPI, the chain), the module's header says what is atomic.

Parts interact in four ways. Calls: loops ask the gate, take nonces, report
profits. Shared state: the borrower map, the allowance, a user's row, the Aave
account. Messages: the reporter's queue and its posts, Stripe's events, the
PartyKit socket. The chain: transactions are mined in nonce order, later, or
never.

What must be right, per component:

* Gate: nothing but the operator lifts an emergency stop; a stop lets at most
  the trade under way through; no leveraged trade goes on while the health
  factor is unknown; limits overshoot by what is in flight and no more; every
  caller gets an answer; the degraded mode ends for a gate that is asked.
* Nonces: unique within a run; every gap is accounted for; what the node has
  taken is mined unless something below it is missing.
* Reporter and backend: each profitable trade recorded once, which the code does
  not promise; so exactly when one may be lost and when doubled.
* Vault: the tokens held cover the balances owed; totals add up for every
  amount; a deposit counted is a deposit made; no profit from nothing.
* Engine: profit reported, recorded by the gate and by the platform agree with
  what was mined; a stop ends every loop and closes what it uses, once.
* Scanner: its maps agree; a borrower that is tracked is checked again, or
  found again.
* Accounts: a session ends; the strategies enabled are those of the plan and of
  the user's last change; a repeated event activates nobody.
* Capital: the debt follows the profit, the collateral covers the debt.

## 2. Modules

### RiskManager

`risk` is `RiskManager.state`, `lock` is `self._lock`, `pc` is where each
strategy's task stands. `clear_trade()` is cut at its awaits:

| Action | Code in `src/core/risk_manager.py` |
|---|---|
| `Call` | a loop reaches `await clear_trade(...)` |
| `RefusedAtEntry`, `TripFailures`, `TripDailyLoss`, `BeginChecks` | lines 134-183: lock taken, daily reset, expiry of the degraded mode, the local checks; the first three return, the last one stays in the lock |
| `HealthKnown`, `HealthUnknown` | lines 181-215: the account state arrives, or the call raises |
| `RefusedOnGas`, `Clear` | lines 217-254 |
| `RecordWin`, `RecordLoss`, `Unrecorded` | `record_trade()`, or a trade after which nothing of the gate changes; the engine's one call (`engine.py:470`) records wins, so losses and both overshoot bounds are about the method |
| `OperatorPause`, `OperatorResume` | `pause()`, `resume()`, `check_price_anomaly()`, the audit; no lock |
| `DayPasses`, `GracePasses` | the clock passes the end of the day, or of the degraded mode |

Every action applies the helpers the code calls on the way
(`MaybeResetDaily`, `RefreshDegraded`, `EnterDegraded`, `ClearDegraded`,
`Pause`, `Resume`), which are functions from state to state. Gas ceilings,
health factors and profit thresholds are reduced to their outcome: the gate
either refuses or goes on. The daily limit is kept with its arithmetic, because
the limit moves with the total profit. `leaked` is a history variable.

`TradeGate` is what the gate promises its users, with three variables: trading
is halted or not, some trades are under way, and when trading is halted one
straggler may still start. `RiskManager` implements it (`ImplementsTradeGate`).

### NonceManager

Each sender is a task that is idle, building with a nonce in hand, or waiting
for a receipt. `GetNonce`, `SyncFromChain`, `ResyncRead` and `ResyncApply` are
the methods of `src/vault/nonce_manager.py`; `resync_if_needed()` is two
actions because it reads the chain before it takes the lock. `Send`, `Refused`,
`Abandon`, `Receipt` and `ReceiptTimeout` are the course shared by
`flash_arb.execute`, `execute_liquidation`, `maybe_collect_profits` and the
vault client. `Stop` ends the process and its memory; `SyncFromChain` starts
the next run, and `ResyncLoop` is the engine's task that calls the resync
every minute. The chain is external: `Mine`, `OwnerSends`, `IsPendingCount`.

`warns` says whether the standard logger lets warnings through, which is its
default. It matters: the warning about a gap is written in the style of
structlog, and with the standard library's logger it raises before the count is
adopted. Both values are initial states, so every property holds with and
without the raise.

`TicketDispenser` is the promise: between an opening and a closing no number is
given out twice. `NonceManager` implements it.

### TradeReporting

The reporter of `src/monitoring/platform_reporter.py` and the endpoint
`/internal/trade` of `backend/auth.py`. `worker` says where `_worker()` waits:
for the queue, with a trade just taken off it, or in one of three flushes,
which the code distinguishes by where a cancellation ends up. `batch`, `next`
and `attempt` are its batch, the trade being posted and the failed attempts.

| Action | Code |
|---|---|
| `ReportTrade` | `report_trade()`: `put_nowait`, or the queue is full or the reporter stopped |
| `TakeTrade`, `Resume`, `IdleTimeout` | the loop of `_worker()`: a trade arrives, the batch is full or not, nothing arrives |
| `PostAnswered`, `PostFailed` | one attempt of `_report_to_api()`: the endpoint's commit and its answer, or anything else |
| `LateCommit` | the endpoint commits a request its sender has given up |
| `StopWhilePolling`, `StopWhileFlushing`, `StopInHandler`, `StopSwallowed` | `stop()` cancels the worker: in the wait, in the flush of a full batch (the handler flushes it all again), in the flush of a handler (nothing catches it), or when the queue has already answered |
| `Crash` | the process ends |

The last kind of stop comes from `asyncio.wait_for()` in Python 3.11, the
version the Dockerfile names: when the inner task is done, a cancellation
returns its result instead. The worker then leaves its loop by the `while`
condition and its batch is not flushed.

The endpoint looks for no earlier record of a trade, so every request that
reaches it is one more record. `records` counts them, and `late` the requests
that are on their way without a sender.

### ProfitPipeline

The arbitrage loop of the engine from a scan to the books. `at` says where the
loop waits and `opps` is what is left of the scan; `sent` is every transaction
with what the chain made of it and whether `execute()` still watches it;
`books` is the seven numbers, in five components, that count trades and profit.

| Action | Code |
|---|---|
| `Scan` | `FlashArbStrategy.scan()` on any answers of the quoters: best against worst exchange per pair, the triangle, costs, ranking |
| `Refused`, `Cleared` | the answer of `clear_trade()` |
| `Send`, `SendFails` | `execute()` up to the send, which may fail, or succeed with its answer lost |
| `Won`, `Reverted`, `ReceiptTimeout` | what comes of the wait for the receipt; `Won` includes all of `_report_profit()` up to its first await |
| `RecordTrade` | the HUD record, whose constructor raises and ends the scan |
| `LoopEnds`, `Shutdown` | `while self._running`, the stop |
| `Mine` | the chain (external) |

Money is in cents. `Credit` is all the bookkeeping of one trade: the strategy
and the engine count the profit after the flash loan's fee, the platform, the
dashboard and the gate before it. `Findings` are what the quoters may make a
scan find, one result for each pair and one for the triangle, and `Ranked` every
order by profit that keeps equals as they were found.

### NeuralBotVault, AaveBotExecutor and ProfitCustody

The two contracts are modules without a `Next`: each function that changes
state is an action. `AaveBotExecutor` models the callback `executeOperation()`
with its two legs and `rescueFunds()`; the function that asks for the loan is in
the clients' ABI but not in the contract's source, so a loan is one step that
happens or reverts.

`ProfitCustody` composes them with the bot: `maybe_collect_profits()` moves what
the executor holds to the wallet, `deposit_profit()` (one task per reported
trade) moves it on to the vault. `task` says at which await each deposit waits,
`allowance` is shared by all of them, `mempool` holds the bot's transactions in
nonce order, and `counted` is the client's `_total_deposited`. `Mine` executes
the first transaction, which fails when the state it meets is no longer the one
the client looked at. Another bot of the vault deposits, users withdraw
(`Withdrawal`), administrators pause, grant, revoke and rescue at any time
(`VaultCall`). The bot deposits for its own address (`vault_client.py:207`) and
`withdraw()` pays its caller (`NeuralBotVault.sol:130`), so what the bot's owner
withdraws returns to the wallet the client reads, and may be deposited again; no
method of the client withdraws, hence it may happen at any time. The
administrator and the platform's wallets are taken to be other addresses than
the bot's, although nothing keeps the deployer, whom `deploy.js` makes
administrator and by default the platform's wallet, from being the bot as well: a
rescue of the deposit token would then pay its wallet while the users are still
owed. `clash` records which deposits
overlapped.

### LiquidationScanner

`borrowers`, `risky`, `pre_staged` and `heap` are the scanner's own. Three loops
share them: `Fetch` is `_graph_fetch_loop()` with what its query has read so
far, `BorrowEvents` the event listener by subscription or by polling,
`ScanRound` and `NextBatch` are `_scan_loop()`. Each of the first two ends with
the eviction (`Evict`), the scan loop runs it only before its inner loop.
`Draw` is `_next_batch()`: entries leave the heap in its order, untracked and
repeated ones are dropped. `CheckBorrower` and `CheckFails` are the answer of
one `_check_borrower()` of the batch. Ages are in ticks; the score has no
freshness term, since an entry is pushed just after its borrower was checked.

### Sessions and Subscriptions

`Sessions` is the accounts of `backend/auth.py`: `access` and `refresh` are the
time the best token of each kind has left. `Subscriptions` extends it with the
row of each user, with what Stripe knows (`bought`, `failures`) and with the
requests under way. FastAPI runs the two dependencies of `/strategies/toggle` in
its thread pool before the handler, hence `ReadRow` and `Toggle` are two
actions. The webhook is one action per event type (`CheckoutCompleted`,
`SubscriptionDeleted`, `PaymentFailed`), each enabled for ever once the event
has happened: events come late, again and in any order. A plan Stripe names and
the table does not know is a `pro` plan (`ValidPlan`). `wanted`, `stale`,
`cancelSeen` and `overtaken` are history.

### Lifecycle

`TradingEngine` from boot to the last shutdown, at the granularity of its
awaits. `stage` is how far `_initialize_impl()` has come (`Boot`, `BootFails`,
`BootPartyKit`), `Run` creates the supervised tasks, and each task then waits
somewhere. The health task is the one that can raise, so it shows the
supervisor (`HealthFails`: restart limit and failure budget). The HUD loop
carries the PartyKit client. Every signal starts a shutdown of its own, in four
pieces: `Begin`, `AfterReporter`, `AfterSocket`, `CloseHttp`.

### Treasury

The Aave account, which in this repository is a stub that keeps three numbers.
`CheckScaling` is the scaling loop with the step of `ScalingFSM` that acts
(`EvaluateAndExecute`), `CapitalMonitor` the loop with its two thresholds, and
three commands of the dashboard complete it. None of them gives way, so each is
one action.

### AdvancedStrategies

The loops for MEV, GMX, cross-chain and yield. The first three go as far as the
question they put to the gate: nothing in the code follows its answer. The GMX
scan reads the rate of one market at a time and may see another block each time,
and ranks what it found (`Ranks`); the mempool poll asks for each transaction
and may not find it, in the node's order; the cross-chain scan is handed the
prices of one chain. The yield loop looks for the pool that pays best for the
capital (`FindBestYield`), and only logs it. A loop runs if its strategy was
built at boot (`Built`); the dashboard's switches come too late for it. `asked`
is history.

### The proofs

`RiskManagerProofs`, `NonceManagerProofs`, `TradeReportingProofs`,
`ProfitPipelineProofs`, `ProfitCustodyProofs` (with both contracts),
`SubscriptionsProofs` (with the sessions) and `LiquidationScannerProofs` each
extend the module they are named for. `EngineProofs` extends three modules that
do not meet in a step: `Lifecycle`, `Treasury` and `AdvancedStrategies`.

### NonceClaims

States a sentence of a docstring that the code does not keep; see section 5.

## 3. What the runs show

| Run | Question | Instance |
|---|---|---|
| `risk` | what gets past the gate, is every call answered, does the degraded mode end | one strategy with leverage and one without; a loss of 3 and a win of 20 dollars |
| `nonce` | are nonces unique, are gaps explained, is what was sent mined | three senders, four nonces, one restart |
| `reporting` | which trades are recorded once, twice, never; do queue and shutdown move on | three trades, a queue of one, batches of two, one retry |
| `pipeline` | is what is counted mined, do the books agree, does the stop end the loop | three exchanges, two pairs, a triangle, three transactions |
| `custody` | does the vault owe what it holds, which deposits fail, does money appear | two deposits of 1 or 2, two trades, another bot, two wallets |
| `scanner` | do the maps agree, is a forgotten borrower found again | three borrowers, room for one, batches of one, two ticks to live |
| `subscriptions` | who gets in, what is enabled, who is active | one user, two plans, two subscriptions, two overlapping toggles |
| `lifecycle` | does the stop close everything once and reach the loops | two signals, two restarts, every kind of task |
| `treasury` | does the debt follow the profit | profits of 20 and 50 dollars up to 120, three commands |
| `advanced` | what do the loops ask for, which pool is announced | the four blocks around the one with the lowest rate, three markets, four swaps, two amounts of capital |

`risk` checks the type invariant, `LeverageSeesHealth`,
`AtMostOneTradeAfterPause`, the two overshoot bounds, `OnlyOperatorLifts`, the
refinement of `TradeGate`, `EveryCallAnswered` and `DegradedModeEnds`. `nonce`
checks `HeldNoncesDistinct`, `EveryNonceAccounted`, `WastedNeverReused`, the
refinement of `TicketDispenser` and `SentIsMinedOrStalled`. `reporting` checks
`EveryTradeAccounted` (a trade is lost only to a full or stopped queue, to
exhausted attempts, or to a stop that has no flush for it),
`DuplicatesHaveCause`, `RecordsBounded`, and that queued trades are settled and
a stop ends.

`pipeline` checks `CountedIffMined` (a profit is counted if, and unless
`execute()` stopped watching only if, its transaction succeeded), `BooksAgree`
(seven counters, equal up to exactly the flash loan fees of the counted trades)
and `StopEndsTrading`. `custody` checks `VaultBooks` (solvency but for rescues,
and the totals), `AloneDepositsArrive` (a deposit that overlaps no other cannot
find the state changed under it), `ProfitCoversAll` (what executor and wallet
hold, users are owed and the platform was paid is covered by the profit counted:
no late or repeated rescue and no share withdrawn and deposited again makes
money) and `CountsAgree`. `scanner` checks `MapsAgree` (staged exactly if
risky, in bounds up to the batch in flight), `OnlyFailedChecksForget` and
`ForgottenOnesExpire`. `subscriptions` checks `SessionsEnd`, `TogglesKept`,
`CancellationsTakeEffect` and `OnlyNewCheckoutActivates`. `lifecycle` checks
`ShutdownIsFinal`, `StopReachesLoops` and `DashboardRetried` (without a
connection, and whatever becomes of it, the loop is in `connect()` and at its
head again and again). `treasury` checks
`DebtFollowsProfit`, `advanced` `AsksAreBacked`.

The type invariant of the last seven modules is the first conjunct of one of
their invariants (`CountedIffMined`, `VaultBooks`, `MapsAgree`, `TogglesKept`,
`ShutdownIsFinal`, `DebtFollowsProfit`, `AsksAreBacked`).

Bounds. *Gate*: two strategies give one in the lock and one cleared or waiting,
with both kinds among them; two losses of 3 pass 5% of 100 dollars, and a win of
20 moves the limit from 5 to 6, so trades are judged on both sides of it;
`MaxProfit` stops the profit after one win. Failures and losses need no bound,
because the breaker and the number of strategies bound them, which is what the
overshoot properties say. The code's limits, 3 failures and 5 retries, are used
as they are. *Nonces*: three senders and four nonces allow a collision, a gap, a
transaction stuck above it and another one behind; one restart suffices for a
pool left by an earlier run. Nonces are taken up to `MaxNonce`, after which
`GetNonce` is disabled. *Reporter*: three trades fill a batch of two and leave
one in the queue of one; two attempts distinguish a retry from a last attempt.
*Pipeline*: quotes differ by nothing, by too little and by enough, so scans
offer no, one and several opportunities, and the triangle both loses and earns;
three transactions let one be given up while the next is waited for. *Custody*:
a wallet that starts empty makes every deposit depend on a rescue; amounts of 1
and 2 make one allowance too small for the other; `MaxPending` of two puts a
rescue before a deposit and an approval after another. *Scanner*: three
borrowers for one place force evictions while a check is in flight; a time to
live of two ticks distinguishes fresh, old and stale. *Subscriptions*: two
subscriptions of one user are what makes an old deletion or a repeated checkout
dangerous, two requests what makes a toggle stale. *Lifecycle*: two signals
overlap; two restarts against a budget of three failures use the restart limit
first, and a signal may fall into any back-off. *Treasury*: profits pass the
first threshold (50 dollars against 400 of debt) and the next one; three commands
mix borrowing, depositing and repaying. *Advanced*: rates repeat every thousand
and only the first block of the thousand reaches the minimum; one capital lies
below the least the yield loop works with, the other reaches every pool.

Deadlock is checked where the system has no end. It is not in `reporting`,
`lifecycle` and `pipeline`, where the process ends, and in the claim of the
pipeline. Trades, requests and subscriptions are alike, and so are the deposit
tasks and wallets, hence the symmetry sets of `custody` and `subscriptions`;
the runs with liveness use none.

Fairness. *Gate*, `TimedFairSpec`: both awaits end, since the RPC client answers
or raises (weak fairness of `Answer`); `asyncio.Lock` wakes its waiters in the
order they came, so a waiter that finds the lock free again and again gets it
(strong fairness of `Enter`); time passes. Nothing is assumed of the operator,
and of no strategy that it asks: a turn of a loop calls `clear_trade()` only for
what `scan()` has found (`engine.py:583`). `DegradedModeEnds` is therefore
conditional, in two ways. The flag is cleared only inside `clear_trade()`
(`risk_manager.py:137`), so the property asks that the gate is called again and
again, by whomever (`AskedAgainAndAgain`): without opportunities the mode does
not end by itself. And an unleveraged caller reads the account while the mode
lasts; if its readings fail for ever the mode is entered for ever again, so the
property asks that these stop. *Nonces*: the operator starts the bot again, RPC calls end, the
waits for receipts carry a timeout, the resync loop runs every minute,
strategies keep sending, and the chain mines a transaction whose turn it is.
Nothing is assumed of the owner's own transactions or of `Stop`. *Reporter*: the
event loop runs a worker that can go on; nothing is assumed of the backend, of
`LateCommit` or of signals. *Pipeline*: sleeps end, the gate answers, requests
end, the wait for a receipt is limited; nothing is assumed of the chain.
*Scanner*: each loop is scheduled again, calls end, time goes on; of a fetch it
is assumed that it comes round, not that it finds anything. *Lifecycle*: every
await returns (sleeps, and connections and requests with time limits). Nothing
is assumed of the dashboard: every attempt to connect may fail, for ever, as
with the pinned `aiohttp` it does (section 5). `DashboardRetried` speaks of the
attempts, which are the loop's to make, and not of their success.

## 4. What is proved

Every safety property of the passing runs is a theorem, for every value of the
constants: the invariants, the action properties and both refinements. Each
proof has the same shape. The property itself is seldom inductive; a stronger
invariant is, TLC has found it true on the instance of the run, and the proof
takes one action at a time.

| Module | Inductive invariant | What it adds to the properties |
|---|---|---|
| `RiskManagerProofs` | `RiskInv` | who holds the lock, what is in flight |
| `NonceManagerProofs` | `NonceInv` | everything in a task's hands lies below `nonce`; a reading stays true |
| `TradeReportingProofs` | `ReportInv` | a trade is in one place, which bounds how often it was sent |
| `ProfitPipelineProofs` | `PipelineInv` | the one transaction waited for is the one of the offer in hand |
| `ProfitCustodyProofs` | `Money`, `CustodyInv` | what each deposit has checked, sent and been told |
| `SubscriptionsProofs` | `SubsInv` | tokens run out; a delivered deletion came after its checkout or overtook it |
| `LiquidationScannerProofs` | `ScanInv` | tracked borrowers and the batch in flight are bounded together |
| `EngineProofs` | `LifecycleInv`, `TreasuryInv`, `AdvancedInv` | how far boot and shutdowns are; a limit nothing moves; what is still to be asked for |

The gate. `RiskInv` is inductive. It adds to `LockDiscipline` (the lock is held
by exactly the strategy between the awaits) and `LeverageSeesHealth` how far
each counter can be: a strategy between its checks and its record carries one
failure and one largest loss to come, and it started when the counters were
below the limits. The overshoot bounds alone are not inductive, since a record
only moves a strategy's share from "in flight" to "counted" when the trade in
question is one of finitely many; hence the assumption that `Strategies` is
finite, and lemmas about the cardinality of `InFlight` when a strategy enters or
leaves. From it follow `RiskManagerTypeCorrect`, `LeverageIsNeverBlind`,
`PauseStopsAllButOne`, `BreakerOvershootBounded`, `DailyLossOvershootBounded`,
`PauseNeedsOperator` and, step by step, the refinement of `TradeGate`.
Assumptions: the lock's free value is no strategy, amounts are naturals bounded
by `MaxWin` and `MaxLoss`, both limits positive.

The nonces. `NonceInv` is inductive. Uniqueness alone is not, because of the
resync: between its read and its write other tasks take nonces. The invariant
says that everything in a task's hands lies below `nonce`, that a task's
nonce is not wasted, that a task waits only for a transaction that was sent
(`WaitsForRealTransaction`), that everything a reading has counted is on the
chain and stays there, and that each nonce from `base` to `nonce` is accounted
for. From it follow `NoncesNeverCollide`, `GapsComeFromFailures`,
`WastedStaysWasted` and the refinement of `TicketDispenser`. The only assumption
is that the bounds are naturals; the set of tasks is arbitrary.

The reporter. `ReportInv` is inductive and has four parts. `WorkInv` ties the
index of a flush to its batch, and `polling` to a batch with room. `AccountInv`
adds to `EveryTradeAccounted` that a worker whose cancellation was swallowed
leaves only trades behind that the stop counted. `Once` says that a trade is in
one place of queue and batch. `SentInv` says how often each trade has been sent
from where it is: nothing in the queue, at most the failed attempts for the one
being posted, one flush more for those of a flush begun anew. The bounds on
records are not inductive without it, because whether a post may add a record
depends on the posts before it. From it follow `NoTradeVanishes`,
`DuplicatesAreExplained` and `RecordsAreBounded`, for any set of trades and any
sizes; the only assumption is that the sizes are positive.

The pipeline. Both book-keeping properties need to know which transaction an
answer is about. `PipelineInv` adds that the loop waits for exactly one
transaction when it waits for a receipt and for none otherwise, that it is the
one sent for the first of `opps`, that an answer seen is on the chain, and that
every offer was priced by `scan()`: its net is its gross without fee and gas.
That the best and the worst quote are quotes at all is `LargestNumber` and
`SmallestNumber`, for finite sets of answers. `NothingQueuedTheorem` is the
safety half of `StopEndsTrading`. Assumptions: quotes are naturals, pairs and
two-hop answers finitely many.

The deposits. The vault's books are sums over users and over wallets, and
`SumOf` is a fold, which is recursive inside. Its laws (a changed element changes
the sum by the difference, sums of nothing are nothing) are proved without
induction over data: the sets of which a law fails would have a smallest one,
and removing an element leads to a smaller one (`SmallestSet`, from the
library's well-foundedness of strict subsets). The 75 and 25 percent add up
because one is the remainder of the other. `Money` then carries `VaultBooks` and
`ProfitCoversAll`: each step moves an amount from one term of the bound to
another, of a withdrawal from the users' to the wallet if the user is the bot and
out of the bound if not, or adds at most as much to both sides. `CustodyInv` adds four parts. `Queue`: a pending transaction
of a task is the one its phase says, and there is one. `NoReceiptYet`: a task
that has sent nothing has been told nothing. `Alone`:
of two active tasks both are marked in `clash`, and an unmarked task still finds
the balance and the allowance it has read, since what others do to the wallet
(a rescue, a withdrawal) only adds to it. `Counts`: the client's count is the
sum over the tasks that ended well, the vault's over those whose deposit was
mined; when none failed these are the same tasks. Hence `AloneDepositsArrive` and
`CountsAgree`. Assumptions: finitely many tasks and wallets, positive amounts and
threshold; the bot and one other depositor stand for all, as in the model.

The accounts. `TokensRunOut` bounds the age of a session and what its tokens
have left by the lives of the two kinds, which a renewal keeps because it hands
out no new refresh token. The subscriptions need `BuyersRegistered` (every event
finds a row) and `DeletionsKnown` (a deletion delivered before its checkout was
counted is among the overtaken). `OnlyNewCheckoutActivates` is an action
property, proved from the invariant. Users, subscriptions, requests and lives of
tokens are arbitrary; plans are a subset of the table's with `pro` among them.

The scanner. The bound on the map is not inductive because an answer brings back
a borrower that was evicted while it was asked about. `BatchesBounded` bounds the
tracked borrowers and those in the batch together, and an answer moves within
their union. That `_next_batch()` returns at most a batch needs the order of the
heap to have a last entry of every prefix (`LastEntry`, `BatchFits`). That the
eviction makes room is arithmetic with cardinalities. The only assumptions are
finitely many borrowers, natural numbers for them, their accounts and the bounds.

The engine. `LifecycleInv` says what each stage of the boot and each step of a
shutdown has behind it and no other task undoes, for any number of signals and
sleeping loops. `TreasuryInv` adds that the account's limit stays what it was,
so the command borrows 75 dollars each time; the divisions by ten enter as
bounds (`Tenths`), and `ScalingIsBounded` is the one argument: the FSM acts only
if eight tenths of the profit reach a tenth of the debt, and adds a fifth.
`AdvancedInv` says of what is still to be asked for what `AsksAreBacked` says of
what was asked: seen in this round, in the rate or poll that made it an
opportunity, and not asked for yet. The rest are facts about the code's tables:
the least rate is the only one worth it (`WorthIsLowest`), no bridge leads from
the one chain with a price to itself (`NoBridge`), and one pool is best for
every capital from the minimum on, with the risk and without (`BestYield`).
Markets are assumed to be distinct, as the keys of a dictionary are.

Only model-checked: the liveness properties (`EveryCallAnswered`,
`DegradedModeEnds`, `SentIsMinedOrStalled`, `QueuedIsSettled`, `StopEnds`, the
liveness half of `StopEndsTrading`, `ForgottenOnesExpire`, `StopReachesLoops`,
`DashboardRetried`), since liveness under fairness is out of TLAPS's reach, and
the two claims of the next section.

## 5. Where the code and its words differ

Two runs look for a violation and find it:

| Run | Sentence | What happens |
|---|---|---|
| `claim_resync` | `nonce_manager.py:9`, if chain nonce > local, resync | the warning raises before the assignment |
| `claim_breaker` | `risk_manager.py:7`, consecutive failure counter with circuit breaker | a failed execution is recorded nowhere, so a fourth one in a row is cleared like the first |

Met on the way, and modelled as they are:

* The pause is tested once, before two awaits, although `risk_manager.py:100`
  says that the paused state blocks all trades; a trade under way is cleared.
* The expiry of the degraded mode forgets the retries, and while it lasts
  leveraged callers take no reading (`risk_manager.py:472`); a fifth failed
  reading in a row need not pause anything, against line 56.
* The reset of the day waits for the next call after midnight
  (`risk_manager.py:476`) and takes losses of the new day with it; it resumes a
  daily-loss pause and forgets a failure count that had reached the limit.
* A wasted nonce is a gap below the local count, which the resync never looks at
  (`engine.py:887`).
* The shutdown (`engine.py:1157`) ends neither the mempool watch nor the
  keep-warm and self-audit tasks.
* A boot whose quoter does not answer is aborted by its own warning
  (`flash_arb.py:198`), for the reason of `claim_resync`; the same kind of
  warning ends the back-off of the PartyKit client at its first failure.
* `connect()` uses `aiohttp.ClientWSTimeout` (`partykit_client.py:91`), which the
  pinned `aiohttp==3.9.3` (`requirements.txt:10`) does not have: no attempt gets
  as far as the network, against "Auto-reconnect" in line 8. The model leaves
  open whether an attempt succeeds, so it covers this version and later ones.
* `AaveBotExecutor.sol:244` tests a gain before the premium: an arbitrage that
  does not cover the premium from its own gain passes if the contract holds
  enough.
* The inner loop of the scanner refills its own heap: the sleep and the eviction
  after it (`liquidation_scanner.py:339`) are reached only when every check of a
  round fails, and the scan interval has no effect. A borrower whose check
  raised leaves the heap; the event subscription is never tried again.
* A deposit that reverts is counted, and one whose receipt is late is not.
* A deletion that arrives before the checkout it ends leaves the user active; a
  change of plan through the webhook replaces the user's own choice.
* The reporter, the dashboard and the gate count profit before the flash loan's
  fee, the strategy and the engine after it.
* The scaling FSM and the deposit command both reinvest the whole profit, every
  time; the account's health factor never moves, so the limits that look at it
  never apply.
* The MEV strategy's price cache is never filled, and it reads the amount of a
  call at the wrong offset, so every swap whose calldata is long enough passes
  its threshold; the GMX rate reaches its minimum in one block of a thousand; the
  cross-chain scan is given the prices of one chain and never finds a spread.

## 6. What is not modelled

Left out: the predictive models, formula scores, route and risk scores
(floating-point sums over tables and external quotes, ending in telemetry), ABI
encoders and the key manager (sequential, covered by unit tests), the factory,
migrations, scripts and the web page. The circuit breaker, RPC manager, blast
radius, feature flags, canary and policies are sequential counters and
dictionaries that no step of the trading path asks. Of modelled components:
Telegram and statistics of the reporter, dashboards of the backend, the
telemetry copies of the HUD, `CVaRController` and `RiskDebtTracker` of the
gate's file. `PROJECT.json` gives the reason for each component, and under
"hazards" why two of them have no property.

What could follow: a promise of the vault client to the reporter as an abstract
specification (a deposit arrives once, is refused, or is unknown), which
`ProfitCustody` would implement; and one more composition, of `TradeReporting`
with `ProfitCustody`, so that a trade's record and its deposit are compared.
