# Specifications of hqg-engine

TLA+ models of the execution engine's control plane, the TLC instances that
check them, and proofs that TLAPS checks about the permission gate, the orders,
the worker, its bars and containers, and the stored history. Paths are relative
to the repository's root; `provider.py` and the like are in `src/control/`.

## 1. The system

An account runs one **provider** (asyncio, holds the broker keys) and one
**worker** (asyncio, runs strategies in containers). A remote **dashboard** says
what may trade; PostgreSQL keeps the provider's state, its orders and the
history that a **dashboard API** reads; Alpaca is the broker. The trading
*modes* are `paper` and `live`, each with a *gate*.

| Component | Code | State | Operations | Talks to |
|---|---|---|---|---|
| Permission gate | `provider.py`, `provider_instance/server.py` | `healthy`, `deadline`, control `version`, configuration and `revision`, `boot_id`, `worker_session`; per mode gate, incident, reason, `reconciled` | `sync_once`, `watchdog`, `close`, `persist`, `register_worker`, `admit`, failure report, start and shutdown | dashboard (sync every 5 s), database, worker (HTTP) |
| Orders and reconciliation | `provider.py`, `transport.py`, `runtime.py` | rebalance and order locks, order records, execution events | `rebalance`, `submit`, `Broker.call`, `reconcile`, `save_order` | broker, database |
| Runtime database | `runtime.py`, `db/`, `database.py` | the row of state, portfolios and their modes, orders, execution and allocation events, performance by day | `save`, `order`, `save_order`, `orders`, `cycle`, the migration | PostgreSQL |
| Strategy worker | `worker.py` | loaded strategies and revision, last weights, last bars, pending rebalances, one loop per mode | `cycle`, `load_configuration`, `replay`, `send_rebalance` | provider (polls every 5 s), containers |
| Completed bars | `cadence.py`, `transport.py` | calendar, bar cache | `completed_period`, `Broker.bars`, `history` | broker data |
| Strategy container | `sandbox.py`, `sandbox_runner.py` | container, stream, buffer, lock | `start`, `exchange`, `on_data`, `close`; the runner's loop | Docker |
| Dashboard API | `routes.py`, `server.py`, `main.py` | none | queries of several statements each, while the provider writes | database |
| Packages, contracts | `packages.py`, `contract.py` | none | validation | |
| Legacy | `portfolio.py`, `aggregator.py`, `snapshot_job.py`, `marketdata_provider/`, `execution_provider/` | bar aggregates; snapshot rows | `on_data`, `snapshot` | |

What is hard about it:

* **Interleaving.** Every `await` of the provider is a point where the sync,
  the watchdog, the cleanup loop and any number of requests may run. Decisions
  (a gate may open, a mode is reconciled, a context is admitted) are made before
  an await and used after it. The worker's loops share four dictionaries, calls
  for bars share a cache, and the API reads in statements of their own while
  the provider writes.
* **Waiting in a circle.** A broker thread holds the broker's lock while it waits
  for the event loop to admit its order; the call holds two locks of its mode.
* **Lost and late messages.** Syncs, answers to orders, failure reports and
  rebalances get lost or arrive after the state they are about has passed.
* **Time.** A permission is a lease; it must end when nobody can be reached.
* **Crashes.** The provider may die between a record, a POST, its outcome and
  the record of the cycle; a save may be committed although it raised.
* **Retries.** A rebalance, a save and a sync are repeated, and must count once.

What makes each component correct:

* Gate: opens only on a Resume made after the incident that closed it, only
  reconciled, only while a lease runs; a context never outlives its permission;
  a Stop takes effect within the longest lease whatever fails.
* Orders: one POST each at most, a record before any POST, nothing outstanding
  when a gate opens, fills and cycles booked once, positions at rest when orders
  are sized; every call ends, every order is settled and booked, every mode can
  be reconciled unless an order was lost.
* History: no portfolio mixes modes, no answer shows one mode's history under
  another's name, a refused save changes nothing.
* Worker: no bar twice, complete rebalances, a pending rebalance that ends, stale
  failures without effect; history before the first bar of a container, and nothing
  of an old permission or configuration used under a new one (these do not hold, nor
  does the third for weights the provider refuses: see section 6).
* Bars: complete periods only, never two in one slice.
* Container: each question gets its own answer, or an error in bounded time.

## 2. Modules

| Module | Models | Code it stands for |
|---|---|---|
| `ProviderGate` | the gate in full, with dashboard, clock and worker around it | `provider.py`, `server.py` |
| `GatePermit` | abstract: orders leave only under the permit they were taken under | |
| `SettledGate` | abstract: a mode opens only after a reconciliation that found nothing under way | |
| `OrderFlow` | rebalance, submission, records, broker and reconciliation of one mode | `provider.py`, `runtime.py`, `transport.py` |
| `PortfolioHistory` | portfolios, events and performance, the provider's transactions and the API's statements | `runtime.py`, `database.py`, `db/models.py`, `routes.py` |
| `WorkerCycle` | the worker's loops against a small provider | `worker.py` |
| `MarketBars` | periods, calendar and the shared bar cache | `cadence.py`, `transport.py` |
| `SandboxChannel` | the stream between worker threads and a container | `sandbox.py`, `sandbox_runner.py` |
| `ProviderGateProofs`, `ProviderGateRefinement`, `OrderFlowProofs`, `PortfolioHistoryProofs`, `WorkerCycleProofs`, `MarketBarsProofs`, `SandboxChannelProofs` | inductive invariants, theorems, refinements (section 4) | |
| `MC*` | constants, views and symmetry for TLC | |

`PROJECT.json` maps each definition to its lines. In all modules one action is
the code between two awaits (or, for threads, under one lock; for the database,
one transaction or statement): nothing interrupts it.

**ProviderGate.** `modes[m]` is `Provider.modes[mode]`: `gate`, `incident`,
`since` (`incident_version`), `reconciled`, `reason`; `lease` counts down to
`deadline`. The tasks `sync`, `watchdog` and `cleanup` have a program counter and
the locals they keep across awaits. `sync_once` is `SyncSend`,
`DashboardAnswers` (the dashboard sees the reported incidents), `SyncAccept` (all
checks, then the installation and the candidates), `SyncOpen` after the save, and
the failure paths. `reconcile` is `ReconcileStart`, `ReconcileChecksLock`,
`ReconcileFinds`. A request slot `req[r]` carries a context through
`StartSubmit`, `SendOrder` (the last admission) and the answer. `persist` fails
anywhere. Ids are numbers that nobody holds any more, so that the state space is
finite; the proofs use only that they are fresh. History variables: `permit` (the
Resume each gate was opened with), `closedAt`, `stopAge`. At most one
configuration download and one sync are under way (`sync_lock`); the check of
broker accounts before the first sync is one of the ways in which a sync fails.

**OrderFlow.** A request is a call of the rebalance route: waiting for the
rebalance lock, checking, pricing, submitting symbol by symbol with the steps of
`submit` (record, admission, POST, answer, record), then the record of the
finished operation and its cycle. The POST follows `Broker.call`: the thread
takes the broker's lock, asks the event loop for the admission (`AskAdmission`)
and writes; while it has the lock (`BrokerBusy`) no other call of the broker
proceeds. `db`, `ops`, `ledger` and `cycles` are order records, operation
records, execution and allocation events; `wire` is what was written to the
network and may still arrive; `broker` is what Alpaca knows. Saves may be
committed and still raise. A reconciliation lists open orders, asks for every
record that is not final, cancels and records, and goes on after an order it
cannot settle. The gate is abstract here: it opens when reconciled with no
reconciliation running, which is what `ProviderGate` keeps (`SettledGate`). Sells before
buys, sizes, an unreadable record, and the recovery of orders whose id the
database lost are left out; `reconcile` counts the last as outstanding, so it can
only keep a gate closed. The branch of `submit` that finds an existing order
record is modelled and never reached: the operation's record is found first.

Both `ProviderGate` and `OrderFlow` implement two abstract specifications, the
contract between gate and orders. `GatePermit`: orders leave one at a time and
under the very permission their context was read under. `SettledGate`: a mode is
open, closed, reconciling, checked or reconciled; it opens only from reconciled,
and becomes that only by a reconciliation that began after the last closure,
found no submission in flight, and was not overtaken by another closure.
`ProviderGate` keeps this for every mode with a broker (without one there is
nothing to reconcile), and `OrderFlow`, which says what a reconciliation does, for
its mode.

**PortfolioHistory.** A row of the portfolio table has a mode and the dashboard's
id; `stored` is the configuration in the saved state, `writers` whose history a
row holds, `performance` the equity by day. `Save` is the transaction of
`Runtime.save`: a mode finds its row, adopts the first row of before (paper only)
or gets a new one, row by row as the session flushes them, and the unique index
refuses an id that another row has. `SaveOrder` and `Cycle` write to the mode's
row. A request of the API is one action per statement (`GetPortfolio`, then
`GetEvents`, `GetEquity`, or the two statements of `GetNewest` and
`GetBaseline`), and `report` is what it has read. The API runs in another
process, so that the provider may write between any two statements.

**WorkerCycle.** `loop[m]` is the loop of a mode, at one await of its cycle, with
the locals it keeps there: `Poll`, then `Resend`, or `load_configuration`
(`AlreadyLoaded`, or `LoadStart`, one `CloseStrategy` for each container and
`LoadFinish`); a closed mode goes on to close its own containers, one at a time,
and then drops what it knew (`Forget`). An open one reads the bar of one strategy
after the other (`ReadBar`) and positions, account and quotes (`Quotes`); each
strategy with a fresh bar has its turn: `History` and one `Replay` for each bar of
it if no last bar is known, `OnData`, and `Continue` with the result, which moves
on to the next turn or ends (`Conclude`). Any of these may fail; `CloseFails` is a
removal that raises, which abandons the other closings. Positions, account and
quotes are three awaits in one action: nothing that the loops share is read or
written between them. A container is the last bar it was given; instances are
numbered by the load that made them. A target is the revision and the permission
of its evaluation, and whether the weights sum to more than one: the provider
refuses those (`Excess`), as `_rebalance` does, each time they are sent. The
provider is gates, versions and revisions; `Admissible` is `Provider.admit`. A
worker that finds its session replaced ends (`mode_loop` lets the `RuntimeError`
pass); that is the `Restart`, which closed every gate under a new version before.

**MarketBars.** A day has five moments. `CompletedPeriod` is `completed_period`;
`Begin`, `CalendarAnswers`, `BarsAnswer` are the three parts of `Broker.bars`
between its awaits, on dictionaries with an identity, since calls keep references
to them. The exchange may announce holidays and early closes of later days.
`MaxCalls` bounds the calls of a behaviour, `Call` those that overlap.

**SandboxChannel.** Threads take the lock, start a container or ask the running
one, and wait; the runner answers, raises, hangs or dies; a close may fail to
remove the container and then only ends its input.

## 3. Runs

All runs use `CHECK_DEADLOCK FALSE`: the bounded operator, market or caller may
have nothing left to do, and then the system rightly idles. Type invariants that
are proved (section 4) are not checked again.

| Run | Checks | Bounds | Distinct states |
|---|---|---|---|
| `GateSafety` | stale contexts, open gates, reconciliation against submission, bounded stop, resume after closure; `ProviderGate` implements `SettledGate` | 1 mode, 1 request, lease 3, request timeout 2, from the operator's Resume on, 1 further action | 867 k |
| `GateRace` | `ProviderGate` implements `GatePermit`; configurations change at rest | 2 modes, 1 without broker, 2 requests, from the operator's Resume on | 614 k |
| `GateLiveness` | gates need syncs, stops take effect | 1 mode, fair | 172 k |
| `OrderSafety` | one POST, records, settled before open, sized at rest, duplicates find results, fills and cycles booked once, reconciled means settled; `OrderFlow` implements `GatePermit` and `SettledGate` | 2 overlapping calls, 1 symbol, orders of quantity 2, 2 permissions | 981 k |
| `OrderLiveness` | calls end, orders settle, modes reconcile | 1 call at a time, quantity 1, 2 permissions, fair | 125 k |
| `History` | one mode per portfolio, stored mapping, truthful answers, baseline, refusals | 3 ids, 3 rows, 2 days, any database of before | 80 k |
| `WorkerSafety` | complete rebalances, bars once, stale failures | 2 modes of 2 strategies, history of 1 bar, 2 loads, 1 fresh bar | 1.5 M |
| `WorkerLiveness` | pending rebalances settle unless refused, closed modes release | 1 mode of 2 strategies, 2 fresh bars, 2 configurations, fair | 43 k |
| `Bars` | aligned slices, no look ahead, next open, no falling back | 2 calls at a time and 3 in all, 2 symbols, periods of 2 days, all calendars of 3 days | 437 k |
| `Sandbox` | own answers, one container, calls end | 2 threads, 4 questions, 3 containers | 8.6 k |
| `WorkerResume`, `WorkerMixed` | one documented promise each, violated (section 6) | | |

*Why the bounds are enough.* The races are between one decision and one event
that overtakes it: a second permission, a second configuration, a second call,
one lost answer. Each run has that second one and the failure between. In
`GateSafety` the operator stops, or resumes after a failure, around failing
syncs; a lease of three ticks and a sync of up to two leave room for a late
answer to overtake the Stop. More versions repeat the same comparisons, and the
theorems of section 4 hold for every bound. Two requests and two modes are
`GateRace`. The gate runs start from `Established`, states that `Init` reaches up
to the numbering of ids, to spend the operator's actions on what follows; the
proofs are about `Spec` and so include start-up. `OrderSafety` has one symbol:
with two, the orders of a call only follow each other, which the abstract permits
and the records treat alike; its orders fill in up to two parts, and its two calls
are duplicates of one operation, or the retry under a second permission.
`WorkerSafety` races two loops over the shared dictionaries, await by await, from
the history to the first fresh bar and over the load of another configuration;
`WorkerLiveness` has the second fresh bar, but one mode: with two it is too large,
and so the other loop is in the safety run and in the proofs alone. In `History` three ids for two modes allow an
id to be handed over, kept or new; the code reports three days of a snapshot
(`Newest`) where the instance has one of two, so that the baseline is outside the
reported days, which is the case with two different statements.

*Views and symmetry.* The views of `MCProviderGate` replace ids by whether they
are the present one and drop history that the run's properties do not mention,
and the rest of a lease nobody holds. Two states with one view have the same
futures, since ids are only compared with the present id and a held id is never
issued again. The view of `MCMarketBars` drops dictionaries nothing refers to. That
of `MCWorkerCycle` keeps of a target whether it is there, since the safety
properties and the guards ask nothing else of weights that the provider takes (the
run has no others), and of a polled context whether it is still the present one,
which an old one cannot become again.
Symmetry is used for interchangeable calls, operations, symbols, ids and modes,
with invariants and action properties, never with a liveness property.

*Fairness.* `ProviderGate`: time passes while a permission runs, the watchdog
(every 0.1 s) takes its steps, saves end within their timeout; nothing of the
dashboard, the database or the worker. `OrderFlow`: asyncio's locks are first in,
first out (a waiting call enters: strong fairness of `Enter`); a call that has
its lock goes on, since each await ends with an answer or the timeout of the
adapter; the reconciliation goes on; the network delivers an order or loses it;
a broker that is asked to cancel an order again and again does so at some time.
`OrdersSettle` and `ModeReconciles` further suppose, in their statement (`Calm`),
that the mode stays closed and that nothing fails any more. Overlapping calls are
in `OrderSafety` alone: a liveness instance with two calls is too large.
`WorkerCycle`: each loop runs on (its requests time out and it polls again); a
poll, and a load that is tried again and again, succeed at some time; and a
rebalance that the provider would carry out, sent again and again, does not always
get lost or meet open orders. Nothing is assumed of rebalances that the provider
refuses, of strategies, or of the operator. `RebalancesEnd` has one call at a time
beside the reconciliation: it shows that the timeouts end a call, and says nothing
of several calls in a circle.
`SandboxChannel`: the deadline of a read.

Every property of a passing run has a mutant in `PROJECT.json`: a definition with
a plausible mistake (marked `Mutant:` in the module) with which TLC finds the
property violated.

## 4. Proofs

The theorems hold for any values of the constants that satisfy the modules'
assumptions: finitely many modes and calls, timings the constructor accepts,
natural bounds of counters, finitely many positive bar sizes, and `None` different
from the values it stands beside. Each module about a component proves `Inductive`
(`MarketBarsInductive`), `Spec => []IInv`, and derives the others from it.
None of the invariants is inductive alone, because a decision is used after an
await; `IInv` adds what the waiting parties know.

| Theorem | Statement |
|---|---|
| `ProviderGateProofs` | |
| `TypeCorrect` | `Spec => []TypeOK` |
| `OpenGates` | `Spec => []OpenGateSound` |
| `NoStaleContext` | `Spec => []StaleContextNeverAdmitted` |
| `ReconciledQuiet` | `Spec => []ReconciledMeansNoneInFlight` |
| `StopIsBounded` | `Spec => []BoundedStop` |
| `ConfigAtRest` | `Spec => ConfigChangesOnlyAtRest` |
| `ResumeAfterClosure` | `Spec => ResumeFollowsClosure` |
| `ProviderGateRefinement` | |
| `GateKeepsPermits` | `Spec => PermitsRefined`: `ProviderGate` implements `GatePermit` |
| `GatesOpenSettled` | `Spec => GateOpensSettled`: `ProviderGate` implements `SettledGate` |
| `OrderFlowProofs` | |
| `TypeCorrect` | `Spec => []TypeOK` |
| `OrdersPostedOnce` | `Spec => []AtMostOnePost` |
| `OrdersRecorded` | `Spec => []RecordsCoverOrders` |
| `FillsBookedOnce` | `Spec => []BookedOnce` |
| `OneCycleEach` | `Spec => []CycleOfCompleted` |
| `NothingLeftOver` | `Spec => []SettledBeforeOpen` |
| `ReconciledSettled` | `Spec => []ReconciledMeansSettled` |
| `SizedFromRest` | `Spec => []RebalanceFromRest` |
| `DuplicatesAnswered` | `Spec => []DuplicateFindsResult` |
| `OrdersKeepPermits` | `Spec => OrdersUnderPermit`: `OrderFlow` implements `GatePermit` |
| `OrdersOpenAfterSettling` | `Spec => OrdersOpenSettled`: `OrderFlow` implements `SettledGate` |
| `PortfolioHistoryProofs` | |
| `TypeCorrect` | `Spec => []TypeOK` |
| `HistoryOfOneMode` | `Spec => []HistoryKeepsMode` |
| `MappingOfState` | `Spec => []MappingMatchesState` |
| `ReportsNameTheirMode` | `Spec => []ReportOfOneMode` |
| `BaselinesAgree` | `Spec => []BaselineWithoutProfit` |
| `RefusedExactlyOnHandover` | `MaxRow >= 3` implies `Spec => []RefusedOnHandover` |
| `WorkerCycleProofs` | |
| `TypeCorrect` | `Spec => []TypeOK` |
| `OnlyCompleteTargets` | `Spec => []TargetsComplete` |
| `StaleFailures` | `Spec => FailureClosesOwnPermit` |
| `BarsGivenOnce` | `Spec => []BarOnce` |
| `MarketBarsProofs` | |
| `CompletedPeriodIsTheLatest` | `completed_period` returns the latest published period, or none if it awaits its open, for any calendar, size, timing and time |
| `BarsTypeCorrect` | `Spec => []TypeOK` |
| `SlicesAreAligned` | `Spec => []SlicesAligned` |
| `SlicesDoNotLookAhead` | `Spec => []NoLookAhead` |
| `SlicesAwaitTheOpen` | `Spec => []NextOpenHonoured` |
| `CompletedPeriodAdvances` | `Spec => PeriodsAdvance` |
| `SandboxChannelProofs` | |
| `TypeCorrect` | `Spec => []TypeOK` |
| `OwnAnswers` | `Spec => []AnswersMatch` |
| `OneHeard` | `Spec => []OneContainer` |

**ProviderGate.** `IInv` says: incidents lie in the past (`IncidentsPast`); a mode
whose reconciliation runs is unreconciled (`ReconcilingUnreconciled`); a candidate
whose incident still stands may open (`CandidatesSound`); whoever names the
present incident in a Resume was told of it after the closure
(`ResumesAfterIncident`); a context of this boot is either older than its mode's
incident or its gate is open under the same permit (`ContextsSound`); an order on
its way keeps a closed mode unreconciled (`SentUnreconciled`); an answer from
before a Stop is as old as the Stop, and so a lease it grants ends in time
(`AnswerAge`, `LeaseEnds`). The argument about ids is in one place: `UnheldIsNew`
shows that a finite set leaves a number in range that is not in it, so an id
issued by `Close` differs from every id somebody still holds. `NextInv` has one
lemma per group of actions; `CloseFacts` and `CloseAllFacts` say what a closure
does, `ClosingStep` that any step that only closes gates preserves `IInv`,
`InstalledFacts` and `SyncExchange` carry the sync.

The refinement adds two invariants: every Resume anybody knows of lies in the
past, and a closed gate was last opened by one from before its closure
(`ResumesPast`), so that every opening is a newer permit; and one request of a
mode is inside `submit` (`OneSubmission`), so that orders leave one at a time.
Every step is then a `Grant` (`SyncOpen`), a `Take` (`ReadState`), a `Send`, an
`Answered`, or closes gates and gives up contexts (`Revoke`).

For `SettledGate` the phase of a mode is read off its gate, its `reconciled` and the
cleanup task: a reconciliation counts as under way only if the incident it began
with is the mode's. Every closure of an open gate, and every forced one, issues an
incident that nobody holds, so the phase falls to closed and the verdict of the
stale reconciliation, when it comes, is dropped (`ReconcileFinds` compares
incidents). A step is then a `Begin` (`ReconcileStart`), a `Check` (the order
lock), a `Settle` (the verdict), an `Open` (`SyncOpen`), a `Send` (`SendOrder`; by
`OneSubmission` nothing else is in flight), or a `Close`, which covers all others.

**OrderFlow.** The heart is what a reconciliation knows while it is under way:
past its check of the order lock no order is being placed (`SettledAlone`), what
the records it read called final or never sent still is (`ReadSound`), and each
order is settled, still to be settled, or counted as outstanding (`SeenSound`).
Beside it: what records, network and broker say of one order (`OrderKnown`); what
a call knows at each of its steps (`CallSound`: its permission, the record of its
order, the record of its operation, the rest it started from); one call holds the
rebalance lock (`OneRebalance`); an unfinished operation that may be admitted has
its call (`OperationsCarried`), and so has every order on the network while the
gate is open (`WireCarried`). The refinement of `SettledGate` goes step by step as
for the gate and rests on `GateSound` (while a reconciliation runs the mode is
closed and unreconciled) and on `OneRebalance` (an admitted order is alone).

**PortfolioHistory.** `IInv` adds that a mode has one row (`OneRowEach`), that the
row of an answer has the mode the answer names or was adopted by paper since
(`ReportNamed`), and that the days an answer found keep an equity.
`RefusedOnHandover` is about what a save would do: it follows from `Mapped` (a row
is unused, of before or a mode's with an id, and each mode has one row at most),
which also holds between the two writes of `Save`. It supposes that the table has
room for three rows; the code's table has no bound, and with less room the model
refuses for want of it.

**WorkerCycle.** What a loop polled is of the past and, at the present version,
names the present permission, and where a loop is says what it has in hand
(`LoopsKnow`); one loop loads at a time (`LoadingAlone`); a pending rebalance and
one that is being sent are complete (`PendingComplete`). `BarOnce` rests on a second
invariant, `BarsInv`, about a container and what is remembered of it. The last bar
of a strategy of the present load is its container's or later, but for the bar it is
just given (`Remembered`); a strategy whose turn is still to come is to get a bar
later than that, or, if its load was replaced meanwhile, has no container left
(`TurnsAhead`), and one whose turn it is has seen only what is earlier than what
comes, all of its history included (`TurnNow`). What keeps this when the last bars
are dropped is that the containers are closed by then: those that a load has closed
stay closed until their turn (`ClosedByLoad`), those of a closed mode until it forgets
them (`Cleared`), and no container is of a load to come (`NewLoads`).

**MarketBars.** The calendar a call finds agrees with the exchange up to its day and
knows every session still to be held (`CalendarSound`), so that what a call decides
on its own calendar is true of the exchange's: the period it waits for is published
and, where the strategy asks for it, the next session has opened (`CallsDue`). A
dictionary that the cache or a waiting call refers to holds bars of the period they
mean and of no other, whoever replaced the cache meanwhile (`CacheSound`,
`CallsSound`). `CompletedPeriodIsTheLatest` states `completed_period` without the
detour of the code, as the latest period that is published; `CallsDue` rests on it.

**SandboxChannel.** At most one message is under way, and it belongs to the
thread that has the lock (`OneUnderWay`); a container not yet started knows
nothing (`NewContainers`).

Every safety property of a passing run is proved. Only model-checked is liveness,
which is out of the prover's reach: `GateNeedsSyncs`, `StopTakesEffect`,
`RebalancesEnd`, `OrdersSettle`, `ModeReconciles`, `SoundPendingSettles`,
`ClosedModesRelease` and `CallsEnd`.

## 5. Not modelled

* Validation of packages and contracts (`packages.py`, `contract.py`): stateless;
  a valid package or configuration is a value of the models.
* The floating-point arithmetic of targets and sizes (`aggregator.py`,
  `validate_weights`, quantities in `_rebalance`): values would be a small grid
  that says little about rounding. `OrderFlow` keeps the control around it.
* `quotes` and `history` of the broker: reads that keep nothing.
* The metrics of the API and the time frames of its queries: arithmetic over one
  list of days. Its allocation queries read tables that nothing writes any more.
* The legacy `Portfolio`: nothing imports it, and its strategy map is empty, so no
  strategy of it can be constructed.
* The snapshot job: it snapshots active portfolios, of which the program leaves
  none, from provider endpoints that are no longer served; only `compose.yaml`
  still starts it.
* SDK adapters and the retired client: thin wrappers over a network.

## 6. Where the code and its documentation part

* **`WorkerResume`.** A mode stopped and resumed between two polls of the worker
  is never seen closed: a pending rebalance, last weights and containers of before
  the Stop are used after the Resume. The run shows a rebalance carried out twice,
  before the Stop and after it. `worker.py:73`: "Resume starts fresh."
* **`WorkerMixed`.** While the loop of one mode evaluates, the loop of the other
  may load the next configuration; the old strategy's targets end up in the new
  dictionaries and are traded under the new configuration.
  `tests/test_worker_cadence.py:179` names the opposite.

Further consequences show in the models or on reading and have no run:

* A strategy may return weights that sum to 1 + 1e-7 (`sandbox.py:24`); the provider
  refuses a sum above 1 each time (`provider.py:495`), and the worker keeps the
  rebalance and sends it again at every poll of an open mode, before anything else: no
  further bar is evaluated until the mode is seen closed or another configuration
  comes. `worker.py:208` speaks of a "temporary rejection". `WorkerLiveness` has such
  weights, and `SoundPendingSettles` is true only because it excepts them.
* A strategy that fails loses its container and keeps its last bar; if the report of the
  failure is lost, the mode stays open and the next bar starts a container without the
  replay of `worker.py:192`, "Rebuild a fresh strategy's state from the bars before its
  first live bar." In `WorkerCycle` this is `EvaluationFails`, `ReportLost`, and a `Turn`
  that does not lead to `History`.
* `on_data` of an instance that another loop has just closed starts its container
  again, which nothing closes any more.
* An order that is recorded as uncertain and never reached the broker is never
  settled: its mode stays unreconciled (`ModeReconciles` names this as the only
  reason).
* A configuration that exchanges the portfolio ids of the modes is valid, and no
  save of it ever succeeds (`RefusedOnHandover`): rows are written one after the
  other under a unique index.
* `get_metrics` asks for two data points (`routes.py:227`) and fails with exactly
  two, with no spread, or with too few losses; queries without a time frame
  compare a date with `None`; and "actual holdings" (`routes.py:102`) are empty
  after a cycle, which records allocation events instead.

## 7. Plan

Done: gate, orders, history, worker, bars and container; the refinements of
`GatePermit` and `SettledGate`; liveness of gate, orders, worker and container;
proofs of all safety properties. What is left, in this order:

1. One composition of gate and orders with several modes, in which the verdict of
   the reconciliation is taken from the broker. The two meet in `GatePermit` and
   `SettledGate`: what each supposes of the other is proved of the other.
2. Liveness of two worker loops, and the containers of a replaced configuration that
   an evaluation starts again; overlapping calls in the liveness of the orders.
3. The arithmetic of targets and order sizes over small grids against a reference
   definition.
