# QuantGrid: a verification project

TLA+ models of the state-changing core of QuantGrid: its trading service
(`src/services/trading-service/Backend`, `B/` below), and the two services beside it that
keep records of money, the portfolio ledger (`src/app/modules/portfolio`) and the payments of
the food truck (`src/services/foodtruck-api`); their TLC runs; and theorems about all
three that TLAPS checks. Every definition that stands for code is
listed with its lines in `PROJECT.json` under `map`.

## 1. The system

QuantGrid is a modular monolith: Nginx, a React frontend, one FastAPI trading
service, PostgreSQL (SQLite in tests) and Redis. Any number of API workers and
background workers run the same code against one database; a broker (Dhan, or an
in-process paper broker) and notification providers are outside. Almost all
correctness rests on database transactions and unique indexes, since nothing else is
shared between the workers, and on the order of transactions and network
calls inside a handler, since a worker may die between any two of them.

| Component (code) | State | Operations | Must hold |
|---|---|---|---|
| Submission intents (`application/broker_submission_intent.py`, indexes in `core/schema_migrations.py`) | one row per order: logical key, status, broker id | claim, mark started, record evidence | one unresolved submission per key; a broker order is evidence for one row; evidence is final |
| Order ledger (`application/order_store.py`, `execution/lifecycle_manager.py`) | order rows with a status | duplicate check, create, transition (unconditional) | a terminal row is off the market; its broker id is its own |
| LIVE submission (`presentation/api/execution.py`, `place_order`) | none but its local variables | check, create, approve, claim, start, send, look up, settle, open position | one exposure per key across workers, crashes and timeouts; unknown outcomes surface |
| Broker adapter (`infrastructure/broker/dhan_order_adapter.py`) | none; the broker's book is outside | place, look up, list positions | never reports more than the broker said |
| Reconciliation (`application/broker_reconciliation.py`) | local variables of a pass | recover stale orders, compare, settle, sweep positions | records only what happened; never frees a key early; never deletes exposure |
| Position store (`application/position_store.py`) | positions | create, update, close, claim exit | a position belongs to its order |
| Position exits (`trade_exit_engine.py`, `exit_monitor.py`) | the exit claim and exit order id of a position row | read, claim, send, store id, look up, close, close the trade | a position is sold once; closed only when all of it was sold |
| PAPER execution (`execution/execution_pipeline.py`, `order_management.py`, `broker_client.py`, `orders_api.py`) | order rows, intents, trades; a paper broker in the memory of each process | submit, cancel, exit, reconcile | one open position per key; ended by its exit only |
| Notification outbox (`notification_store.py`, `notification_retry.py`) | notifications with leases | enqueue, claim, send, mark, retry | sent means accepted; every alert is settled |
| Kill switch, circuit breaker (`kill_switch.py`, `broker_circuit_breaker.py`) | one row and a cache; a failure window | activate, deactivate, status, record failure | an activation is seen within the cache's lifetime; no failure and no cooldown is lost between processes |
| Backtest jobs (`backtest_jobs.py`, `backtest_job_store.py`) | job rows with recovery leases; in each process copies in memory and a thread pool | start, run, cancel, time out, recover | what a job came to stands; finished strategies survive; every job ends |
| Job queue, alert episodes, baskets (`job_store.py`, `protection_alert_episodes.py`, `trading_engine_upgrade.py`) | rows | claim, open, close, scale | not modelled, section 7 |
| Option-chain gate (`presentation/api/market_api.py`, `redis_service.py`) | a cooldown in each process, a lock and a cooldown in Redis | check, lock, ask, share a cooldown, release | not modelled, section 7 |
| Portfolio ledger (`transaction_service.py`, `holding_service.py`, `position_engine.py`) | transactions and one holdings row per symbol | record, delete and replay, change by hand | the holding is what the history gives |
| Food-truck payments (`foodtruck-api/app/main.py`) | order rows and payments rows; the provider's payments | checkout, verify, webhook | completed means paid, and for ever; what is paid is completed |
| Guardrails, risk, strategies, market data, auth, frontend | their own | compute, read, validate | not modelled, see `PROJECT.json` |

How they interact: a signal reaches `place_order`; it writes an order row, takes the
logical key `SYMBOL:SIDE:STRATEGY` by inserting an intent, commits "the
submission may have started", calls the broker, and writes what it learnt to the
intent, the order row and the positions. A reconciliation pass (an operator's request, or the
queued job `order-reconciliation`) later compares the same three tables with
the broker and settles what the handler left open. It enqueues
notifications, which the notification worker delivers under leases. In PAPER mode the
pipeline does the same steps against a broker that lives in the process, and the
worker runs a PAPER pass every 30 seconds. Exit monitors and operators sell the open
positions. Before all of this the kill switch and the circuit breaker are asked whether
orders may pass. Backtests are jobs of the API processes (two replicas in
`deploy/kubernetes/quantgrid.yaml`), apart from the rest. The portfolio
and the food truck share nothing with the trading service but the repository.

What makes it hard: every step of a handler is a transaction of its own, so other
workers and the broker move in between; a request that timed out may still
arrive; a worker may die anywhere; the order row, the intent and the position are
written by different statements and can part; a pass decides on
lists it read earlier. `PROJECT.json` lists these hazards at their lines.

One fact to keep in mind: in the commit modelled, the Dhan adapter declares
`supports_broker_native_protective_stop = False`, so a LIVE call always ends in
`RefuseUnprotected`. The models take the code as written for an adapter that
declares the capability, which is what the tests of the repository do.

## 2. Modules

| Module | Models | Notes |
|---|---|---|
| `IntentTable` | the table `broker_submission_intents` as a value: guards and effects of the three statements, both unique indexes | operators on a table, so every module uses one translation |
| `SubmissionIntent` | the three operations called by anybody in any order (`TableSpec`) | abstract specification of the table; its variable is the table of `LiveSubmission`, which extends it |
| `OrderLedger` | order statuses, `transition_order`, the duplicate check, the status mapping | operators on a ledger |
| `ExposureLock` | what the submission path promises: a key is a lock, held while the order may trade | abstract specification |
| `LiveSubmission` | `place_order` (LIVE), any number of workers, beside the broker | refines `ExposureLock` and `SubmissionIntent` |
| `LiveReconciliation` | `reconcile_broker_state` (LIVE), any number of passes, composed with `LiveSubmission` | refines `SubmissionIntent` |
| `PositionExit` | `exit_position` by any number of monitors and operators, beside the sweep's closing of positions | uses no other module |
| `PaperExecution` | the PAPER pipeline in several processes, the paper broker of each, cancellation, exits and the PAPER pass | on `OrderLedger` and `IntentTable` |
| `TradingGate` | the kill switch with each process's cache, the circuit breaker with its file and lock, and a clock | uses no other module |
| `BacktestJobs` | the API processes, the thread pool and the copies of jobs of each, and the records they share | uses no other module |
| `NotificationDelivery` | the notifications table and any number of passes of `NotificationRetryWorker` | uses no other module |
| `PortfolioLedger` | the transactions and the holding of one symbol, and overlapping requests on them | uses no other module |
| `PaidOrder` | what a shop promises: completed only when paid, and for ever | abstract specification |
| `FoodTruckPayments` | checkout, verification and webhook of the food truck, beside the provider | refines `PaidOrder` |
| `*_proofs` (eight) | theorems | section 5 |
| `MC*` | instances for TLC | section 4 |

### State and actions

*LiveSubmission.* `intents`, `orders` and `positions` are the tables; `handler[o]`
is the call of `place_order` that works for order row `o` (each call creates a row
of its own): a control point and the two local variables that matter, the
acknowledged broker id and the reply of the lookup. `request[o]` and `book` are
the broker. Each database transaction and each network call is an action, in the
order of the code: `CheckDuplicate`, `CreateOrder`, `ApproveRisk`,
`ClaimSubmission` or `ClaimConflicts`, `MarkSubmissionStarted`,
`SubmitTransition`, `SendPlacement`, `PlacementAcked`, `RecordSubmitted`,
`AcceptTransition`, `QueryStatus`, and then one action per branch of the handler.
`TryRaises` is any exception inside the `try` (`RecordUnknown` is its `except`);
`Crash` is the death of the worker, or an exception outside it. The broker acts by
itself: it accepts or loses a request whether or not its caller still waits,
fills in parts, cancels, expires, rejects.

*LiveReconciliation.* `pass[r]` holds a pass's control point and the lists and
rows it carries: stale orders, the snapshot of rows with a broker id, the
current row and answer, the position found, the broker's holdings, the positions
to sweep. `squared` says which fills were closed at the broker, so that
deleting a position can be judged. Each `continue` of the loop is `NextOrder`, each
exception that leaves the pass is a return to `NewPass`.

*PositionExit.* `rows[p]` is what an exit reads and writes of a position row: open,
claimed (`pending_exit_correlation_id`), the exit order's id, the reason of the close.
`call[c]` is a call of `exit_position`, or the moment at which the sweep closes a
position; `book` is the broker, in which an exit order may be in flight, lost, refused,
filled in parts or cancelled, and which may hold orders of somebody else. The exit's
read, claim, request, answer, store of the id, lookup, and the two halves of
`close_open_position` (read the open row, write it by its key) are steps, and a crash or
a raised exception may come at each. What the lookup says (`RepliesAbout`) may be about
another order, and a status may run ahead of the quantity. For a PAPER position
the close is followed by the close of its trade.

*PaperExecution.* `call[o]` is the one call of `_submit_paper_signal` for order row `o`
and the process it runs in; `placed[q]` is the dictionary of the `PaperBrokerClient` of
process `q`, lost in a restart and never seen by another process. That broker confirms
each order at once and says nothing else, so the branches of the pipeline and the
OMS for rejections, partial fills, retries and raising brokers (`execution_pipeline.py`
297-366 and 404-452, `order_management.py` 397-516) are reached with the test
doubles only, and left out. Exceptions of the database are `TryRaises` and `CallRaises`.
`CancelOrder`, `ClosePosition`/`CloseTrade` (an exit, detailed in `PositionExit`) and
`pass[q]` work on the same rows. Trades are unique for a signal (`SignalOf`: strategy, symbol and
time); where another has the row, the call gets that one and opens its position without a trade of its own
(`FindTradeOfSignal`).

*TradingGate.* `halted` is the row, `cache[q]` the module variables of process `q`,
`file` and `lock` the breaker's JSON file and its flock. `now` is a clock. A reader reads
the row in one step and stores it in the cache in another; activation and
deactivation load the row, commit the columns that changed, and empty the cache of
their own process. The breaker's functions take the time, then the lock, load, and save; a
file that cannot be read or decoded counts as empty (`LoadState`), which `misread` remembers.
`since` is a history variable: when the switch was last turned on.

*BacktestJobs.* `record` is the table, `memory[q]` the `_JOBS` of process `q`, which the code trusts
before the record and writes over it whole; `run[q][j]` is where the thread of `q` on job `j` stands,
`lease[j]` the recovery lease (a job that runs where it was started has none), `claimed[q]` the
copies that renew it. Each block under `_LOCK` is a step, and a save may fail after the memory has
changed (`Saves`), which `struck` remembers. A cancellation in a process without a copy reads and writes in
two steps (`Look`, `Cancel`). `Recover` returns any rows up to its limit, except rows another
process may be writing (`Listings`: `SKIP LOCKED`); a lease may end while its owner is at a
long calculation (`EndLease`), and a process may be back long before (`Restart`: `RestartSec=5` against leases of
300 s). Two history variables: `overtaken[q]`, the copies of `q` that another process has saved since,
and `missed`, the unfinished jobs that a recovery passed over while nobody worked on them.

*NotificationDelivery.* `outbox` is the table (status, retry count, claim token,
and whether `next_retry_at` has come and the lease still runs), `worker[w]` a pass:
the list it read, the notification in hand, the retry count it read. Listing,
claiming, reading, sending and settling are separate actions, since each is a
transaction or a network call; a claim that fails is `Skip`, and an update whose
`WHERE` no longer matches leaves the row and goes on (`Settle`). `accepted` and
`raised` count what the provider did, which the code does not record. `Crash` is the
death of a pass or a database error that leaves `run`.

*PortfolioLedger.* `request[n]` is the n-th request to begin its database transaction:
what it read, and what it is about to write. It reads when the code does and writes when it
commits (READ COMMITTED). The row locks of its writes only make another wait, and the
unique index on the symbol and SQLAlchemy's check of the updated row are `SameRow`. The engine
is `Apply`, the replay a recursive function over sets of transactions that applies the latest, by date
and `created_at`, to what the others give; `created_at` is the time at which a database transaction began. Quantities are
counted in parts of the last decimal of a column (`Fine`); the engine works on fractions of them, with any split ratio and
its tolerance for sales, and a column rounds what it is given (`Rounded`, `Stored`). The noise of the
code's floats is left out: it stays below that tolerance, and rounding removes it, while a quantity
has no more than 15 digits. `disturbed` is a history variable.

*FoodTruckPayments.* `order` and `payment` are the rows, `checkout[o]` the request that writes
them around its call of the provider, `verified[v]` a verification between its lookup and its
two updates, `webhook[p]` the event that process `p` handles and the row its SELECT returned.
`captured`, `declined` and `answered` are the provider, which sends what it has reported again
until it is answered, and now and then after.

Left out of the data: prices, profit, audit rows, messages, symbols (the key
stands for them: positions are matched by symbol and side in the code and by key in
the model, the same thing where one strategy trades a symbol), the age of a row (`SlowCalls`
below; in PAPER a row is stale when its call is over), rows that reconciliation takes
from the audit log or from positions without an order row.

## 3. Properties

| Property | Where | Why it could fail |
|---|---|---|
| `OneHolderPerKey` | SubmissionIntent | concurrent claims, evidence reopening a finished row |
| `BrokerIdentity`, `EvidenceIsFinal`, `KeyLeavesByEvidence` | SubmissionIntent | late, repeated or misattributed evidence |
| `SingleExposure` | LiveSubmission, LiveReconciliation | two workers, late acceptance after a timeout, early release of a key |
| `SendsAreOnRecord` | LiveSubmission | crash around the network call |
| `KeyReleasedOffMarket` | LiveSubmission, LiveReconciliation | release on a timeout, a missing lookup, another order's status |
| `SettledOrdersAreOffMarket` | LiveReconciliation | order rows settled on unconfirmed or stale answers, recovery of orders under way |
| `DurableIdentity` | LiveSubmission, LiveReconciliation | order row, intent and position linked to different broker orders |
| `UnknownOutcomeSurfaces` | LiveSubmission | an exception swallowed, a handler that stops without a trace |
| `OutcomesAreTrue` | LiveReconciliation | two passes with answers of different age |
| `ImplementsLock`, `ImplementsIntents` | LiveSubmission, LiveReconciliation | any write to the tables outside their protocol |
| `OneExitPerPosition` | PositionExit | two monitors, a lost answer, a crash before the id is stored |
| `ExitCloseIsWhole` | PositionExit | closing on a partial fill, an accepted order, another order's fill |
| `ExitIdentity` | PositionExit | a claim given back after a failure, an id stored for another position |
| `FilledExitCloses` | PositionExit | a sold position that stays open in the books |
| `OnePositionPerKey` | PaperExecution | orders cancelled, failed or recovered while their call goes on |
| `PositionsEndByExit` | PaperExecution | a broker that has forgotten its orders |
| `StaleOrdersEnd` | PaperExecution | a conflict, exception or death that leaves an active row |
| `HaltIsTimely` | TradingGate | a reader that fills the cache after the activation emptied it |
| `BreakerStands` | TradingGate | concurrent updates of the file, clocks read before the lock, reads that fail |
| `OutcomesStand`, `ResultsSurvive` | BacktestJobs | a thread that saves after a cancellation, a failure or a recovery, in its own process or another |
| `EveryJobEnds` | BacktestJobs | jobs lost between processes, claimed and not resumed |
| `SentWasAccepted`, `GivesUpAfterFailures` | NotificationDelivery | results recorded by a pass that lost its claim, or counted from a stale row |
| `DuplicatesHaveFaults` | NotificationDelivery | two passes that list the same row |
| `OutcomesStand` | NotificationDelivery | a pass that learns its result after another settled the row |
| `EverySettles` | NotificationDelivery | a claim whose pass died and that nobody takes over |
| `SyncUnlessDisturbed` | PortfolioLedger | a replay that disagrees with the steps, rounding included; a disturbance that nobody thought of |
| `CapturesAreReal` | FoodTruckPayments | two payments of one order, reported in either order |
| `AnsweredCapturesCount` | FoodTruckPayments | a capture before its row, swallowed with success |
| `ImplementsPaidOrder` | FoodTruckPayments | a late failure of a completed order |
| `PaidOrdersComplete` | FoodTruckPayments | lost verifications and reports |

## 4. Runs

| Run | Instance | Shows |
|---|---|---|
| `submission_intent` | 3 orders, 2 of one key, 2 broker ids | the table's own guarantees; both unique indexes are contended |
| `live_submission` | 2 calls of one key, 2 broker ids, lots of 2, misrouted rejections | exposure and key safety, agreement of tables and broker, both refinements, and that unknown outcomes surface |
| `live_reconciliation` | 1 call, 2 passes, lots of 2 | a complete pass with its sweep keeps that agreement and frees keys off the market only, and so do two passes after the call |
| `position_exit` | 2 calls, a LIVE and a PAPER position, 2 broker orders, lots of 2 | a position is sold once and closed when it was sold |
| `paper_execution` | 2 orders of one key, API and worker process, passes in the worker | one position per key, ended by its exit; stale rows end |
| `trading_gate` | 2 callers of a process, ticks 0..4, all durations 2, a read of 1 | the kill switch works in time, the breaker forgets nothing that it could read |
| `backtest_jobs` | 2 processes, 1 job of 2 strategies | what was decided and computed is not taken back by a process that has the last save; the job ends |
| `notification_delivery` | 2 notifications, 2 passes, limit 2, 2 faults | recorded outcomes are true and final, a duplicate costs its notification a fault, everything is settled |
| `foodtruck_payments` | 1 order, 2 payments, 2 verifications, 2 processes | rows tell what the provider did, the abstract shop is implemented, paid orders are completed |
| `portfolio_ledger` | 4 overlapping requests, 2 dates, quantities of 1 and 4/3, splits both ways, columns that keep thirds (`Fine` = 3) | holding and history part only where the code leaves it open |
| `exposure_deleted` | 1 call, 1 pass | section 6 |
| `paper_key` | 1 PAPER order | section 6 |

Bounds. Conflicts on a key need two orders and on a broker id two ids; a third order
adds a bystander with another key in the smallest module only. A lot of 2 has
exactly one partial fill (1), which is what the code tells apart from none and
all. Passes
restart for ever, so the number of passes is not bounded. In `live_reconciliation`
(`OnePassBesideCall`) one pass, sweep included, runs beside the call and two run
together once it has stopped, then without a sweep, since a sweep touches positions only.
In `position_exit` the second broker order is the second exit that must not
be, or an order of somebody else that a lookup is mistaken for.
In `trading_gate`, `MaxTime` of 4 lets a cached status and a window of 2 end and be
renewed, `MaxFailures` of 2 is the threshold; another process is a caller that dies before
`InvalidateCache` and so leaves the cache as another process's activation would.
`MaxRead` is the longest time between the read of the row and its store: the code does not
bound it, so the promise is TTL plus that time. In `backtest_jobs` two processes do
to one job what replicas can do to each other, and two strategies leave one to resume; two jobs in two
processes are more than TLC can hold. One job never waits for a thread of the pool nor is beyond the
limit of a recovery (`Workers`, `ClaimLimit` = 1): those guards are covered by the
proofs of the two safety properties only. In `notification_delivery`, `MaxFaults` bounds deaths, stalls and lost
confirmations in all (`faults` counts them for each notification): one lets another pass take a row over while its owner is still
sending, the second strikes in what follows; a limit of 2 has one retry. Passes and callers are interchangeable,
so symmetry is used in `live_reconciliation` (passes) and `trading_gate`, which check
safety only. Two calls of one key beside passes are left to the proofs (section 5).
In `foodtruck_payments` two payments of one order are what it takes to report a failure and a
capture of it, two processes to handle both at once and two verifications to race both; orders
share no row, so one is enough.
In `portfolio_ledger` four requests give two overlapping ones after two that leave a history to
replay; splits and bonuses make the order of a replay matter with quantities of 1. With `Fine` = 3 a unit has three
parts: a split of 9 to 3 leaves a third of one, which no column keeps, and `Tolerance` = 1 is the largest the
assumption allows.
`CHECK_DEADLOCK FALSE` is stated where every call may have stopped and the broker has
nothing left to do, or the clock has ended, which are normal ends.

`MisroutedReplies`: the statuses that a lookup may report of another order. Only the
rejection branch of the handler compares the id it got with the id it asked for; the other
branches write whatever id came back. So `live_submission` takes `{"rejected"}`, which that
comparison has to stand, and the properties about keys are proved for any set of statuses, passes
included. With another status misrouted `DurableIdentity` and
`SettledOrdersAreOffMarket` are false, and they are proved for rejections (the first for rejections
that the adapter confirms, as it reads the id of an unconfirmed one without comparing); `live_reconciliation` takes none (the Dhan adapter echoes
the id asked for). `exit_position` compares the ids, and its model has misrouted replies always.

`SlowCalls`: with FALSE a pass finds stale only rows whose call has stopped, as a call
takes seconds and rows are stale after 30 minutes. With TRUE a call
may be failed as stale while it is on its way to the broker, and
`SettledOrdersAreOffMarket` is violated: nothing but time protects it. It is proved for FALSE.

Fairness. `live_submission` assumes weak fairness of each call's own steps
(`FairSpec`): its network calls carry an 8 s timeout and its database calls return, and
the action that ends a wait, `TryRaises`, is among the steps. Nothing is
assumed of the broker, and a crash ends the obligation (`handler[o].at =
"crashed"`).
`position_exit` assumes that calls under way go on, that the monitor asks again and again
for the exit of a position (the worker loop does every few seconds while the rule that asks
for it holds), that a lookup of a filled order is answered truly if it is made again and again
(strong fairness of `AnsweredTruly`), and that crashes cease.
`paper_execution` assumes that calls go on, that passes of the worker go on and that one finds
what is stale again and again (every 30 s in the code), and that restarts do not interrupt
each of them; nothing is assumed of other processes, exits or cancellations. `paper_key` uses
the same assumptions, which are on the generous side for a refutation.
`backtest_jobs` assumes that threads go on (calculations have deadlines), that a pool takes
up each job in the end (it is a queue), that each process is started again and asked for
something, and that each stays up one day. Nothing is assumed of leases, which may end early or never,
of how long a restart takes, or of requests to cancel.
`foodtruck_payments` assumes that a handler ends, that the provider sends a capture again until
it is answered with success (Razorpay resends an event that is answered with an error or not at all),
and that the database does not fail each time (strong fairness of receiving and of handling a
capture). Nothing is assumed of customers, who may never ask for a verification.
`notification_delivery` assumes that each pass goes on (the worker loop starts one
every minute, and a send gives up after 10 s) and that time passes for leases of dead
passes and for retries. The end of the lease of a live pass is no such step: it
means a stall of 120 s and counts as a fault, and faults are finitely many.

Each property of a passing run has a mutant of the code in `PROJECT.json` under which
TLC finds it violated. The mutants are defined next to what they change
("Mutant of ...").

## 5. Proofs

Each theorem holds for every value of the constants that satisfies the named
assumptions of its module, and each safety result comes from an inductive invariant `IInv`
(`InvariantHolds`), which adds to the property what carries it.

`LiveReconciliation_proofs` has three parts. The first is about the intent table alone, for any
orders, keys, broker ids and callers (from `KeyOf \in [Orders -> Keys]` and `NoId \notin BrokerIds`):

- `TableTypesHold`, `OneHolderInTable` (`OneHolderPerKey`), `BrokerIdentityHolds`
  (`BrokerIdentity`): the first two are inductive together. `OneHolderPerKey` is kept by
  evidence because `EvidenceAfter` maps finished rows to themselves only: a row outside the
  index never comes back.
- `EvidenceStaysFinal` (`EvidenceIsFinal`), `KeyLeavesOnlyByEvidence` (`KeyLeavesByEvidence`).

The second is about calls and the broker (`LiveSubmission`), for any number of workers, broker ids and
any lot size, with crashes, lost and late requests, and misrouted lookups:

- `TypeCorrect`;
- `InvariantHolds`: the inductive invariant `IInv`. `SingleExposure` says
  nothing of intents or control points and is not inductive. `IInv` adds what
  carries it: who holds an intent (one per key), that a request exists
  only when the intent was started, that a call before the start has no request and no broker
  order, that a broker order's owner was accepted once, that the acknowledgement
  and the intent's id are the order's own, and that a released intent's
  broker order has ended. Two exposed orders with one key would then both hold
  the key.
- `OneExposurePerKey` (`SingleExposure`), `RecordedBeforeSent`
  (`SendsAreOnRecord`), `KeyReleaseIsSafe` (`KeyReleasedOffMarket`).
- `RefinesIntents` (`ImplementsIntents`) and `RefinesLock` (`ImplementsLock`): every step
  of a call or of the broker is a step of `SubmissionIntent`, and of `ExposureLock` with the
  stage read off the intent, the request and the book, or a stutter. The second needs `IInv`:
  that a request is sent by an order in the stage `holding`, and that only its own
  broker order ends its exposure.

The third adds any number of passes, with calls that wait as long as they like (`SlowCalls`)
unless a theorem says otherwise, and without the bounds of the run:

- `ReconTypesHold` (`ReconTypeOK`), `RecordedOutcomesAreTrue` (`OutcomesAreTrue`),
  `OneExposureBesidePasses` (`SingleExposure`), `KeyReleaseBesidePasses`
  (`KeyReleasedOffMarket`), `PassesRefineIntents` (`ImplementsIntents`), `PassesRefineLock`
  (`ImplementsLock`).
- `ReconInv` adds to `IInv` what makes a late answer harmless: an order row has a broker id
  only if its intent has one (`Linked`), so that a pass that found the two ids equal works on
  the order's own broker order from then on (`Sound`); an end that was read stays
  true of the broker order it was read of; and a wholly filled order in the book is `filled`
  (`BookSound`), as the adapter lets the quantity overrule the status. The steps of the calls
  and the broker keep `IInv` by the lemmas of the second part.
- `TableBesidePasses`: the four promises of the table hold beside calls and passes. Nothing is
  proved again: passes refine the table (`PassesRefineIntents`), and the first part is
  about every behaviour of the table.
- `IdentityBesidePasses` (`DurableIdentity`) assumes that `MisroutedReplies` is at most a rejection
  that the adapter confirms: a call compares the id of such a reply, and writes the id of any other
  into its row without comparing it (section 4). Its invariant `IdInv` ties the ids in rows, positions and
  variables of calls and passes to the owner of the broker order.
- `SettledRowsAreOffMarket` (`SettledOrdersAreOffMarket`) assumes `~SlowCalls` and that at most
  rejections are misrouted; TLC violates it without either. `SettledInv` adds that a call sends from
  a row that says so, so that an order that was sent never looks as if it had not been
  (`CallSettled`), and that what a pass holds as stale can no longer be sent and the end it is about to
  write is the one it read (`PassSettled`).

`PositionExit_proofs`, for any positions, calls, broker orders and lot size:

- `TypeCorrect`, `SoldOnce` (`OneExitPerPosition`), `ExitsAreWhole` (`ExitCloseIsWhole`),
  `ExitsAreTheirs` (`ExitIdentity`). That only one exit order is sent is not inductive, since it says
  nothing of calls that are about to send. `IInv` adds that between its claim and its request
  a call is the only one there for its position and nothing was sent for it yet
  (`OneSender`), what a call holds in its variables (`CallsAreSound`), and that a call that
  closes a position as exited saw its whole fill (`ClosersSawFill`).

`PaperExecution_proofs`, for any orders, keys, processes and passes:

- `TypeCorrect`, `PositionsAreBacked` (`OpenPositionsAreBacked`: an open position has its order with its broker id and
  its key, and the trade of its order, if its signal's row was not another's, has not been closed), `OneOpenPosition` (`OnePositionPerKey`), `OnlyExitsEnd`
  (`PositionsEndByExit`). A call opens its position only after its intent took the evidence
  "submitted", and no step of PAPER trading takes an intent out of that status: an
  open position holds its key, and the index lets one order hold it.

`TradingGate_proofs`, for any processes, callers, times and durations:

- `TypeCorrect`, `HaltsInTime` (`HaltIsTimely`), `BreakerHolds` (`BreakerStands`, which exempts a reset and
  a failure recorded after a read that failed). `IInv` adds
  that nothing is from the future, that a reader who saw the switch off and finds it on read it
  before it was turned on (`ReadersAreRecent`), that what is cached as off is older than
  the activation by one read at most (`CacheIsRecent`), and that what a holder of the lock has
  loaded is the file, or nothing if it could not read it (`LoadedIsCurrent`).

`BacktestJobs_proofs`, for any processes, jobs, strategies, threads and claim limit, and any speed of
restarts and leases:

- `TypeCorrect`, `OutcomesNeverChange` (`OutcomesStand`), `ResultsNeverVanish` (`ResultsSurvive`).
  `IInv` adds, for each process and job, that a copy nobody has overtaken is not behind the record, and
  that once the record is over, a thread still at work on such a copy sees in it that the job was
  cancelled (`Abreast`); and what a copy and its thread say of each other in any case (`Own`). A job
  is completed only with all its strategies, even by a process that was overtaken.
- `AloneNothingIsLost`: with one process nothing is overtaken, and both properties hold without
  their exception.

`NotificationDelivery_proofs`, for any notifications, number of passes, retry limit
and number of faults:

- `TypeCorrect`, `SentIsTrue` (`SentWasAccepted`), `FailedIsTrue`
  (`GivesUpAfterFailures`), from one inductive invariant. That `FAILED` takes
  `MaxRetries` failures is not inductive: a pass compares a count that it read
  earlier. `IInv` adds that a row counts no more retries than sends raised
  (`RetriesRaised`), that the count a pass read is the row's for as long as it has
  the claim (`CountRead`), and that a pass that saw a result was there when it
  happened (`ResultsHappened`).
- `RecordedOutcomesStand` (`OutcomesStand`): follows from the guards of the four
  updates.
- `DuplicatesAreFaults` (`DuplicatesHaveFaults`). The bound on acceptances is not inductive: a pass that lost
  its claim has not sent yet. The inductive account of a notification (`Accounts`) is that
  its acceptances, and the passes about to send without a valid claim, are no more than its faults, and
  one if its row reports an acceptance or the owner of the claim is about to. It is an account of one
  notification, so no sum over notifications is needed; it needs that the passes are finitely many.

`FoodTruckPayments_proofs`, for any orders, payments, verifications and processes:

- `CapturesHold` (`CapturesAreReal`), `AnsweredCapturesHold` (`AnsweredCapturesCount`). `IInv` adds that
  a row says PENDING while its checkout runs and no payments row is there before the checkout
  has written it (`CheckoutsAreSound`), that the provider reports only payments whose row is
  there (`PaymentsHaveRows`), and that what a request holds in its variables is a payment that was
  captured, or a true event and a row (`RequestsAreSound`).
- `RefinesShop` (`ImplementsPaidOrder`): each step that completes or fails an order is a step of
  `PaidOrder`, and the others stutter. It needs that what a verification or a handler is about to
  record was captured for that order.

`PortfolioLedger_proofs`, for any number of requests, any dates, quantities and split ratios, with overlapping
requests, changes by hand and columns that round:

- `HoldingIsReplay` (`SyncUnlessDisturbed`). `IInv` adds that what a request has computed is what the engine,
  or a replay of the list, gives from what it read (`Sound`), that what is on record was recorded by a
  request that is over (`HistoryIsPast`), and that an undisturbed history has a holding
  (`HistoryHasHolding`). A record that nothing overtook and that is dated last is then the
  step that the replay takes last (`AppliedLast`).
- The lemmas about replays (`ReplayExists`, `ReplaysAgree`, `ReplayStep`, `ReplayType`) say that the
  recursive function is there, is unique, satisfies its equation and gives a quantity or a
  refusal. They are inductions over finite sets, which the library's induction theorems do not
  give here; each takes the least set that would be a counterexample (`LeastSet`: strict inclusion
  is well founded on finite sets).

The type invariants of the modules are proved, as a theorem or within `IInv`; only those of
`LiveSubmission` and `LiveReconciliation` are among the runs' properties.

Every safety property of the passing runs, invariant or action property, and every refinement is
proved. The theorems are about the specifications without fairness, which those with fairness
imply. `DurableIdentity` is proved of calls beside any number of passes, of which the calls alone
are the case in which no pass begins. Only model-checked is liveness (`UnknownOutcomeSurfaces`, `FilledExitCloses`,
`StaleOrdersEnd`, `EveryJobEnds`, `EverySettles`, `PaidOrdersComplete`), which is outside the
prover's reach, as fairness is about ENABLED.

## 6. Where the code and its documents disagree

- `paper_key`: the logical key of an order is held by its intent, and nothing but terminal
  broker evidence gives it back. Cancelling an order, or recovering it as failed after its
  worker died, ends the row and leaves the intent; the paper broker never reports an end.
  The key stays taken, while `docs/execution-engine.md` (lines 11 and 41) says that terminal
  statuses release it and that recovery prevents stale orders from blocking it.
- `exposure_deleted`: the sweep judges open positions by a list of broker positions
  fetched before the loop. A fill after the fetch, and a lookup that raises or says
  `partially_filled`, close a position that the broker holds.
Observed, without a run:

- *LIVE.* Order rows settled as filled, cancelled or failed by the handler keep their key
  until a pass records evidence, and rows in `reconciliation_required` are outside
  `SUBMITTED_STATUSES`, so a confirmed rejection of one never releases its key. A worker
  that dies between `mark_submission_started` and the transition to `broker_submitted`
  leaves a row that recovery marks `not_submitted`, although the start is on record. The
  Dhan adapter never reports `rejected`, `cancelled`, `expired` or `partially_filled` as
  confirmed, so with it those branches of the handler are not reached. Two processes
  can insert two positions for one broker order. A partial fill of an order whose position has
  another quantity calls `update_open_position` with keyword arguments that it does not take
  (`broker_reconciliation.py` 507, `position_store.py` 275): the pass ends there, after the
  evidence was recorded (`SizePosition`).
- *PAPER.* The key does not name the mode: one paper trade blocks its key for every later order,
  a LIVE one included. A pass that finds an order missing writes `reconciliation_required`
  over a trade that an exit has closed. An accepted order whose position could not be
  inserted never gets one. Two orders of one signal (the first cancelled, failed or recovered) share its trade,
  so that the position of the second may be open beside a trade that is another's, or closed.
- *Exits.* The exit sells the requested quantity of the position even if the entry was filled in
  part. An exit and the sweep may both close a row, and the later reason stays. A worker that dies
  between the close of a PAPER position and the close of its trade leaves the trade open for
  good. An exit that the broker cancelled or refused keeps the claim, as the code means it to.
- *Switches.* A file of the circuit breaker that cannot be read or decoded counts as empty
  (`broker_circuit_breaker.py` 172-174), and the next failure is saved over the failures and the
  active cooldown on record: an OSError of one read is enough. `BreakerStands` exempts that step. Nothing asks the kill switch again between admission and placement. An activation
  that loaded the row before a deactivation committed may change nothing.
- *Backtests.* With the two replicas of `deploy/kubernetes/quantgrid.yaml` a job has several writers, each of which
  saves its whole copy (`backtest_jobs.py` 244, 289, 309). A job that runs where it was started has no
  lease, so the first request of another process claims it while it runs (`backtest_job_store.py` 167-171,
  262-289), and that process computes it a second time; and a cancellation is answered by whichever replica
  gets the request. Either way an acknowledged cancellation, an end or a finished strategy is written over
  by the next save of the other process, although the comments in `_run_backtest_job` say "Never publish
  results after a cancellation acknowledgement" (314) and "A worker failure after cancellation must not
  overwrite CANCELLED" (362). `OutcomesStand` and `ResultsSurvive` exempt exactly these saves
  (`SavesOvertaken`); without the exemption TLC finds the first violated in five steps (start here, claim there,
  cancel here, begin there), the second in seven. A crash between the save of the last strategy and the end of the job leaves the job
  running for ever. So does a second crash within five minutes: the process is back after 5 s
  (`RestartSec` in `quantgrid-backend.service`), the leases of the jobs that the last one had
  claimed run for 300, and a process asks only once. Jobs stopped at the hard deadline stay `TIMEOUT`, count
  towards the 100 oldest rows that a recovery reads, and may fill them. `EveryJobEnds` exempts the
  first and what a recovery passed over (`missed`).
- *Notifications.* `retries` counts sends that raised, not claims: a notification whose sending
  kills its pass is taken over after every lease and never given up. A message whose
  confirmation was lost may end as `FAILED` although it was delivered
  (`DuplicatesHaveFaults` allows it at the price of a fault).

- *Portfolio.* Two overlapping requests may lose an update of the holding, or be replayed in
  another order than they were applied. So may a transaction recorded with a date before one on
  record: a sale dated before its purchase is accepted, and every replay of it is refused.
  With `InSync` as the invariant, TLC finds the first with `Asked` of one date and `Manual` FALSE, the
  second with `Overlap` and `Manual` FALSE. A record rounds the quantity to six decimals at each
  step (`transaction_service.py` 74-78) and a replay once, at its end (152-173): a purchase of 1, a reverse split of 3 to
  1 and a split of 1 to 3 leave 0.999999 on record and 1 in a replay. `Rounds` makes that a disturbance; without it
  TLC finds `SyncUnlessDisturbed` violated. Deleting a holding leaves its transactions; a record that follows must be a BUY and
  starts from nothing, while the next deletion of a transaction replays all of them. Creating a
  holding that exists overwrites its quantity, although the comment there speaks of metadata.
- *Food truck.* The handler of a failed payment reads the status of the payments row without a
  lock and updates the row by its id (`main.py` 1264-1313): a verification that commits in between
  is overwritten, and the payment says FAILED beside an order that stays COMPLETED, although the
  comment there (1284) speaks of never downgrading a successful payment; no property covers the payments row. A checkout that dies after the provider's order leaves PAYMENT_PENDING for ever.
  Order numbers are drawn from 9000 until one is free.

## 7. Not modelled

The models cover the parts in which state is shared between processes, and with a
broker or a provider. Most of the repository is something else, and the share of its lines that
the modules stand for is small for that reason:

- Strategies, indicators, the decision pipeline, risk arithmetic and market data are
  numeric functions of prices; their correctness is a matter of values that a small
  instance does not have.
- The API, authentication, subscriptions, the portfolio's analytics, alerts and watchlists and the
  food truck's counter, menu and stock validate a request and run one transaction of single
  statements; there is no second step for another actor to come between that the tables'
  constraints leave open.
- Frontends, deployment and automation hold no trading state.

Of the trading service's own state:

- The option-chain gate (`_dhan_option_rows` in `market_api.py`, with the lock and the cooldown in
  `redis_service.py`) guards a quota of the provider and nothing that the program stores. The
  cooldown is read (733) before the lock is taken (743), so that a process may ask once more
  after another was told to stop.
- The job queue (`job_store.py`): one compare-and-set claims a job and nothing claims it back.
- Alert episodes (`protection_alert_episodes.py`): one insert under a partial unique index and one
  update, reached only for brokers with protective stops.
- Baskets and scaling (`trading_engine_upgrade.py`): reads and writes of positions on request without
  a guard: of two scalings one may be lost.
- LIVE cancellation and modification of orders (`orders_api.py` with the Dhan adapter).
- The SQLite paths of the stores, which tests use; the database paths are modelled.
