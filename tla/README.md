# A verification of the multitrade engine

TLA+ modules, TLC runs and TLAPS proofs about `multitrade`: the reservation of
risk, the life of an order from signal to release, the managed exits of option
packages, the equity references of the loss guards, the gate every signal
passes, what a package is worth, the bars and replays decisions rest on, the
registry of research evidence, the loops of the worker containers, and the
actions of administrators.  Every definition is a translation of the Python
source; `PROJECT.json` names the lines of each one.

## 1. Inventory

The program is a set of containers (`src/compose.yaml`) around one SQLite
database in WAL mode: the engine heartbeat (`cli._run`), the automation worker
(`PaperAutomationSupervisor`), research, asset universe, strategy lab, option
evidence and the dashboard.  They share the database and nothing else.  Every
writing method of `SqliteAuditStore` is one `BEGIN IMMEDIATE` transaction, so a
method is atomic and everything between two methods interleaves.

| Component | State it keeps | Operations | What makes it correct |
|---|---|---|---|
| Firm risk authority (`audit.py`, `risk.py`) | `risk_reservations`, `account_equity_state` | evaluate_and_reserve, mark_submitted, release, reconciliation | active risk within the account's and the firm's limits under any interleaving of accounts; stale equity adds no capacity |
| Entry lifecycle (`engine.py`, `automation.py`, `cli.py`) | reservation, `trade_records`, `strategy_signals`, the view of one cycle | run_cycle, process, record_order_reconciliation | a live order has an active reservation; one live order per symbol; daily limit and cooldown hold; a reservation ends when its order has |
| Option exits (`automation.py`, `options.py`) | `trade_exit_orders`, trade and reservation of the entry | _manage_option_positions, record_exit_submitted, reconciliation | one closing order at a time; a held package keeps its reservation; a filled exit frees it |
| Equity state (`audit.py`) | `account_equity_state` | apply_account_equity_state | references of the daily-loss and drawdown guards survive recoveries within a day |
| Alpaca adapter (`brokers/`) | none | reconcile (four REST calls), submit_order | what it returns is read at several moments |
| Supervisor and other loops (`automation.py`, `cli.py`, `option_evidence.py`, `research.py`) | health files | one cycle per account, failure isolation | one account's failure stops no other; a failure shows |
| Strategy overrides (`dashboard.py`, `audit.py`, `portfolio.py`) | `strategy_configuration_overrides`, base plan of each container | overview, save, reload | a save replaces only what its page showed; what is applied fits the capital; what is saved is applied |
| Trial registry (`trials.py`, `audit.py`) | `strategy_model_trials`, `strategy_experiment_manifests` | record, verify | one manifest per experiment; a recorded link never reads as broken |
| Experiments and strategy lab (`experiments.py`, `strategy_lab.py`) | experiment program of a release | bind, rotate, run cycle | no trial before the observation boundary counts |
| Backtest (`backtest.py`) | positions and cash of a replay | step per bar | no look-ahead; stop before target; a loss stays near the risk taken |
| Research, validation, robustness (`research.py`, `robustness.py`) | reports | split, folds, statistics and gates | no bar counts for two parts; a gate fails closed |
| Option selection and evidence (`options.py`, `option_evidence.py`) | packages, evidence rows | select, price, observe | defined risk; the estimates agree; evidence ends with the trade |
| Strategies, features, patterns | none (functions of bars) | evaluate | signals of closed bars only |
| Asset universe (`universe.py`) | `asset_universe_reports` | collect, screen, assign | an assignment rests on evidence of its day |
| Market data (`market_data.py`) | `market_bars` | fetch, store | complete pages, no unclosed bar |
| Admin agent and dashboard actions (`admin_agent.py`, `dashboard.py`) | `.env`, backups, the state of the last action | update, edit a setting, validate | one action at a time; no setting is lost; a status is left at running without work only if the start of a validation cannot be recorded |
| Settings, account plans | none after start | parse | refuses what is inconsistent |

The hard behaviours: two processes reconcile the same account without a lock
around their REST calls; the broker's answer may be lost after the order was
accepted; a process may die between any two transactions; positions and orders
are fetched at different moments; a browser, a service and a command work on
data another writer has replaced; a page of rows ends before the row that
matters.  `PROJECT.json` lists each as a hazard at its line, with the properties
that watch it.

## 2. Modules

| Module | Models |
|---|---|
| `ReservationLedger` | the abstract specification: the moves one row of `risk_reservations` may make |
| `RiskAuthority` | `evaluate_and_reserve` with `RiskEngine.evaluate` and the firm layer, and every other transaction on a reservation; all accounts |
| `OrderLifecycle` | one account: broker, heartbeat and automation around the entry order of each signal |
| `OptionExit` | one open option package: broker, heartbeat and automation around its closing orders |
| `EquityState` | one account's equity row, the two processes that write it, the clock |
| `SignalGate` | one account over several bars: the automation's loop over its allocations and the block reasons that count orders or measure times |
| `OptionPackage` | what a package is worth: its legs out of a chain, the two risk estimates, the exit decision, its end |
| `OptionEvidence` | the evidence worker's cycle over frozen packages, while trades close and bars arrive late |
| `MarketBars` | `fetch_stock_bars` page by page and window by window, `record_market_bars` and `closed_bars`, while bars form |
| `Backtest` | the replay of one strategy on two continuations of one history |
| `Validation` | how a series is cut into in-sample, out-of-sample and folds, with their warmups, and the trades each part counts |
| `Universe` | screenings by the service and by a manual command, evidence with outages, the assignment the lab reads |
| `StrategyControls` | strategy overrides: browsers, dashboard, automation, and releases that change the plan |
| `StrategyLab` | the lab's cycles, the registry of experiments and trials, and the dashboard's check of the chain |
| `ServiceLoop` | the loop of the heartbeat, evidence, automation and research workers over their accounts |
| `ControlPlane` | server update, edits of `.env`, the validation action, restarts |
| `MCRiskAuthority`, `MCOrderLifecycle`, `MCSignalGate`, `MCBacktest`, `MCStrategyControls`, `MCStrategyLab` | constants of the instances for TLC |
| `MCDecisions` | eight parts side by side, one moving in a behaviour: orders, gate, package, universe, replay, evidence, bars, walk |
| `MCStore` | five parts side by side, one moving in a behaviour: equity, controls, lab, loop, plane |
| `RiskAuthorityProofs` | proofs about `RiskAuthority` |
| `EntryProofs` | proofs about `OrderLifecycle` and `SignalGate` |
| `OptionExitProofs` | proofs about `OptionExit` |
| `EvaluationProofs` | proofs about `OptionPackage`, `Backtest` and `Validation` |
| `CollectorProofs` | proofs about `MarketBars`, `Universe` and `OptionEvidence` |
| `StoreProofs` | proofs about `EquityState`, `StrategyControls`, `StrategyLab`, `ControlPlane` and `ServiceLoop` |
| `DecisionsProofs` | proofs about `MCDecisions` |
| `NumberLemmas` | lemmas on numbers and finite sets that the proofs share |

`RiskAuthority` and `OrderLifecycle` both implement `ReservationLedger`: each has
`Ledger == INSTANCE ReservationLedger WITH Intents <- Intents, reservation <- reservation`
and the property `ImplementsLedger == Ledger!Spec`.  The ledger is how the two
views fit together: `RiskAuthority` knows amounts and limits and lets
reconciliation act on any evidence, `OrderLifecycle` knows where the evidence
comes from and ignores amounts.  `RiskAuthority` takes from `EquityState` that a
snapshot's peak is not below its start or its equity (`Snapshots`); the theorem
`SnapshotsOrdered` says so of any number of processes.  `Backtest` is the replay that
`Validation` runs on each part; `Validation` keeps of it when a position is open.

The parts of `MCDecisions` and of `MCStore` share no state in the program, so each
is explored with the others at rest: a behaviour of all is an interleaving of
theirs, and each property speaks of one of them.

### Correspondence with the code

* **Transactions.**  `EvaluateAndReserve`, `MarkSubmitted`, `Release`,
  `RecordOrderReconciliation`, `ApplyAccountEquityState`, `RecordSignal`,
  `RecordTradeResult`, `RecordExitSubmitted` are one store method each.
* **REST calls.**  `FetchPositions` and `FetchOrders` are the second and third
  request of `AlpacaPaperBroker.reconcile`; `FetchAccount` and `Stamp` are its
  first request and `observed_at`, read after the last one; `Submit` and
  `SubmitExit` are `submit_order`, which may raise before or after the broker
  accepted the order (`ResponsesLost`).
* **Control.**  `pc` is the place of a process in its cycle, `view` what it
  fetched, `current` the intent in hand; a process that dies (`Crash`) loses
  all three and nothing else.  `ReleaseAfterFailure` is the except branch of
  `TradingEngine.process`.
* **Gate.**  `gateOrder` is the broker, `gateReserved`, `gateTraded` and
  `gateSignals` the rows of three tables; a row is missing after a crash or a
  lost answer, which is when the counts of the gate are put to the test.  A
  signal is an allocation and a bar, `gateCycle` keeps `checked_at` and the
  broker view of the cycle's start.
* **Packages.**  One operator per structure of `options.py` (`BullCallDebit`,
  `BearPutDebit`, `BullPutCredit`, `BearCallCredit`, `IronCondor`,
  `ProtectivePut`); `OptionMaxLoss` is the payoff at its breakpoints, which is
  what the authority reserves, `RecordedMaxLoss` the figure of the record.  Which
  delta the code prefers is left open, so every acceptable package is selected.
* **Evidence.**  A cycle takes observations and trade rows once (`BeginRound`)
  and evaluates package by package (`EvaluatePackage`); `crowded` are packages
  whose trade row the query of 200 rows does not return any more.
* **Bars.**  Bar t forms while the clock shows t and may change until it ends
  (`TradePrinted`); the version of a bar is the number of its trades.
* **Replay.**  `ForkBar` is a choice of the next bar that is drawn twice; all
  the replay knew before it is the same on both tapes, whatever came after.
* **Validation.**  `FoldBoundary` is the integer quotient of the code; `WarmupStart`
  and `SignalStart` the two bars a part's replay begins at.
* **Universe.**  `Collect` is one candidate's evidence, from the references or
  from SEC; `OutageEvidence` what `SecOutage` leaves of it; a report carries the
  time its cycle began, and `Newer` is the order of the query (time, then policy),
  not of writing.
* **Settings.**  `ReadPlans` and `ReadOverrides` are the two reads of
  `DashboardData.overview`; `CheckUpdate` is a request up to the call of the
  store and holds `config_lock`; `SetOverride` and `RevisionConflict` are the two
  ends of the transaction.  `basePlan` is the portfolio file a container read when
  it started, so a release reaches the two containers at different moments.
* **Trials.**  A trial's hash is its position, the manifest its own fingerprint.
  `pending` are the reports of a cycle, recorded one transaction each; `ReadChain`
  and `VerifyPage` are the two reads of `recent_strategy_model_trials`.
* **Loops.**  The kinds differ in what a failing `record_event` does
  (`FailureEndsCycle`) and in who writes the health file
  (`AccountWritesHealth`); `broken` and `databaseUp` change at any moment.
* **Administration.**  An edit of `.env` is four steps: read, back up, open for
  writing (which empties the file), write.  `Emptied` is the file between the
  last two; a restart of the agent between them leaves it so.  `updates` are the
  updates the agent waits for.  A validation is marked running (`RequestValidation`),
  recorded and given a thread (`StartValidation`), or its record fails and there is no
  thread (`EventRaises`).
* **Amounts** in `RiskAuthority` are integers: money in its smallest unit,
  fractions in percent, and budgets multiplied by 100, so that the comparison
  and the floor are those of the code.  `Decimal` rounds a quotient at 28
  digits, which no amount of this size reaches.  `Backtest` and `OptionPackage`
  count in hundredths and in money per package of 100.
* **Statuses.**  Order statuses that the code treats alike are one value; the
  comment at `Statuses` says which.

## 3. Runs

| Run | Shows | Bounds |
|---|---|---|
| `RiskAuthority` | account and firm ceilings hold; stale equity adds no capacity; the ledger is implemented | 2 accounts, 3 intents sharing pairwise a symbol, a strategy, an account, 2 equities; or 2 of the intents with a clock 0 to 2 and equity fresh for 1 |
| `Decisions`, part orders | live orders reserved, one per symbol | automation only, 3 intents on 2 symbols, 1 crash, whole fills, no answer lost |
| gate | daily orders limited up to the failures of the day; entries spaced | 2 allocations of one symbol, one with an interval of 2 bars; 3 bars, 2 a day; 1 order a day, 1 crash or lost answer |
| package | the reserve covers every end at expiration and agrees with the record; a target that is taken is realised | strikes 10 to 25, spot 17, 4 quotes (tight, wide, closed) |
| universe | symbols assigned on evidence of their day; never an older report | service and command, 2 policies, 1 referenced and 1 reporting company, 2 dates, 3 reports, a page of 2 |
| replay | no look-ahead; losses bounded | 5 bars of 6 shapes, 2 strategies, holding at most 2 bars, two tapes |
| evidence | evidence ends with the trade; a policy exit is final | 1 package, 4 bar times, exit window from 4 |
| bars | a cycle decides on the final version of closed bars | 2 workers, 3 bars, windows of 2, pages of 1, 4 pages, 2 versions of a bar |
| walk | no bar counts for two parts of a validation | 6 to 11 bars, 2 or 3 folds, splits of 40, 50 and 60 %, history 2 |
| `OrderLifecycleDuo` | what survives everything: orders arrive under an untouched reservation, closed trades are released, the ledger is implemented, reservations that are over are eventually released | both processes, 2 intents, 1 crash, lost answers, partial fills |
| `OptionExit` | the package stays reserved; one known live exit; a filled exit frees the risk | both processes, 2 exits of a package of 2, 1 crash, lost answers |
| `Store`, part equity | peak and start of day | one process, two UTC days of 2 ticks, 2 equities |
| controls | no newer change lost, stored and applied settings within the capital, saved settings applied | 2 browsers, 3 strategies, 2 saves, 2 releases of which the second retires a strategy |
| lab | one manifest per experiment, boundary kept, no false alarm | 2 strategies, 4 experiments, 3 releases, 3 instants, 4 trials, a page of 2 |
| loop | working accounts served, broken ones reported | 2 accounts, 4 kinds of worker, a health file fresh for 1 tick |
| plane | actions exclude one another; no status is left at running without work but by an event that cannot be recorded; no acknowledged setting lost | 2 administrators, 2 keys of 2 values, 1 restart, no edit beside another action |
| `OrderLifecycleRace` | violation, see below | both processes, 1 intent, no crash, no lost answer |
| `OptionExitPartial`, `OptionExitRare` | violations | 3 exits, no crash |
| `EquityStateRace` | violation | two processes, 2 days |
| `StrategyControlsTorn` | violation | settings as in `Store`, saves may commit within an overview |
| `SignalGateProxy` | violation | one allocation whose signals name SPY and whose orders name SPX, interval 2 bars |
| `ControlPlaneOverlap` | violation | 2 administrators, no restart, edits beside other actions |

Why the bounds are enough: each pair of intents that can influence each other
(same symbol, same strategy, same account) is in the instance; the two-absence
rule needs two reconciliations after a fill, which every run reaches; a crash
can hit each of the steps; two processes are all the code has.  The third
intent of the orders part lets a symbol be traded again after a release
while another order is live.  Three bars of the gate cross a midnight and reach
past both cooldown and interval; one failure hides one row, which is the most a
failure can hide.  The strikes admit every structure, the iron condor
included.  A series of 11 bars cut in 3 has
folds of unequal length, one of 6 is too short for some calls, which then raise.
Pages of one bar put a page boundary between any two bars, and a window of two a
window boundary.  Three reports push one of a policy off a page of two.  Two saves
are the fewest that can conflict, or
exceed the capital together.  The second release of the lab moves the boundary
of a registered experiment to an earlier instant, makes a comparison the
baseline and drops another; the third has code no manifest describes.  Four
trials are twice a page and let a strategy's chain skip over the other's.  Two
accounts let one fail before and one after the other; two administrators are the
fewest that can collide, and with two keys a rewritten `.env` has one that no
one edited.

Every bound on a counter is a guard named in the module: `MaxCrashes`,
`MaxFailures`, `MaxBars`, `MaxReplay`, `MaxBarTime`, `MaxBar`, `MaxVersion`,
`MaxDate`, `MaxReports`, `MaxTime`, `MaxLabTime`, `MaxTrials`, `MaxSaves`,
`MaxRestarts`.  `MaxPages` is the code's own.  The runs do not check for deadlock
where a bound stops the system; `ControlPlaneOverlap` does.

**Fairness.**  `OrderLifecycle!FairSpec` and `OptionExit!FairSpec` assume weak
fairness of each process's reconciliation and of the automation's cycle: both are endless loops with bounded steps
(`stop_event.wait` and a sleep between cycles, HTTP calls with a timeout).
Nothing is assumed of the broker, and crashes are bounded, as a process that
dies for ever at the same step makes no progress in the program either.
`ControlsFairness` assumes the same of the automation's reload, which begins
every cycle.  `LoopFairness` says that a loop goes on (Docker restarts a worker
that exits) and that time passes; accounts and database may fail and recover at
any time, and the properties speak of those that settle.  `StoreFairness` is these
two for the part that moves.  Nothing is assumed of administrators and their
requests: that an action ends is not claimed, since one whose start cannot be
recorded does not.

### What the violation runs found

* `OrderLifecycleRace`: the heartbeat sees the new order before
  `mark_submitted` and moves the row from `reserved` to `open`; `mark_submitted`
  finds no `reserved` row and raises; the failure path releases the reservation
  of a live order.  An answer of `submit_order` that is lost takes the same
  branch.  The next cycle blocks every entry as long as its view shows the order
  (`unmanaged_broker_order_present`); an order that fills between the read of the
  positions and that of the orders is in neither, and a second one of its symbol can
  follow.  The risk is not counted.
* `OptionExitPartial`: what an exit leaves after a partial fill cannot be closed
  by a later exit, which asks for the whole quantity again.
* `OptionExitRare`: four statuses that reconciliation calls active are not among
  those that stop a second exit.
* `EquityStateRace`: a stale observation applied across midnight restarts the
  peak of the new day.
* `StrategyControlsTorn`: an overview that straddles a save shows old settings
  under the new revision, and a save from that page is accepted.  The page
  reloads every 15 seconds but leaves a form in use alone.
* `SignalGateProxy`: the interval of an allocation is looked up under the symbol
  of its signals; orders on another underlying are recorded under that one, so
  that no earlier entry is found.
* `ControlPlaneOverlap`: the completion of an edit overwrites the state `running`
  of a server update, and a second update is accepted.

Outside these environments the properties hold, which the passing runs show:
`LiveOrdersReserved` needs cycles that take turns, answers that arrive and whole
fills.  Two further environments break it and are recorded as hazards: two
processes that each read positions before and orders after a fill count two
absences of a position that is there; and an order that fills in part and is
canceled is terminal at once, so that one torn read releases it.

## 4. Proofs

TLC checks the instances above; the proofs are for every value of the
constants.  All constants' assumptions are named `ASSUME`s of the component, and
every inductive invariant below was first checked by TLC on the instances.  All
properties of the passing runs that are not about liveness are proved.

**Types.**  Every component has a theorem `...TypeCorrect` for its type invariant.
Some types are not inductive by themselves: that nothing is reserved for less than
nothing needs the worst case of every structure (`PackageTypeCorrect`), that the
quantity of an evidence row was approved needs the row its cycle was begun with
(`EvidenceTypeCorrect`), and that a replay ends with its tape needs its invariant
(`ReplayTypeCorrect`).

**Joint runs.**  In `MCDecisions` and `MCStore` a part that does not move stutters.  So
a behaviour of the joint run is one of each part, by the way it is put together, and
what is proved of a part holds of the run; `DecisionsTypeCorrect`, the type invariant
that run checks, follows so from the types of the eight parts.

**`RiskAuthorityProofs`**: `TypeOK`, `AccountWithinCeiling`,
`FirmWithinCeilings`, `ImplementsLedger` and `StaleEquityAddsNoCapacity`.

* A sum of amounts is the cardinality of a disjoint union, so its laws (monotone
  in the set, one element added) follow from those of finite cardinalities.  The
  ceilings are inductive together with `TypeOK`: a step that approves sets the
  ceiling and adds an amount the budget allows, every other step only removes
  active rows.
* If no other account was observed recently, the equity the firm's limit is
  computed from is that of the approving account alone, and the quantity is
  floored from a budget that all active risk was subtracted from.

**`EntryProofs`**.  The lifecycle comes in three layers, from the harshest
environment to the mildest.

* With both processes, crashes, lost answers and partial fills:
  `OrdersArriveReserved`, `ClosedTradesReleased` and `ImplementsLedger`.  No
  process sees an order the broker does not have (`ViewsBehind`), an intent
  without a row has no order (`NoRowNoOrder`), and an automation about to submit
  holds an untouched reservation whose order is absent (`ReadyToSubmit`), because
  a reconciliation only moves rows of orders it saw.
* With cycles that take turns (`OneCycleAtATime`: no process starts a cycle while
  another is in one) and whole fills, but any crashes and lost answers:
  `ReleasedByFailureOnly`, an action property.  A reconciliation releases only what is
  over for good, since an order it saw ended has ended (`SeenFinal`), a first absence
  was counted only of an order that has filled (`PendingFilled`), and an absence in its
  view is one (`AbsenceCertain`).  What is left is the failure path of `process`: it is
  the only step that takes the reservation from something that lives, and only from
  the intent in hand.
* With answers that arrive as well: `LiveOrdersReserved` and
  `OneLiveOrderPerSymbol`, for any number of crashes.  `SoloInv` adds that the
  automation knows whether its submission has arrived (`SubmissionKnown`).  The two
  properties are inductive only together: the reservation is what blocks a second
  order whose first one the view is too old to show.
* The code takes no such turns, which is what `OrderLifecycleRace` shows; a lock held
  over a cycle would be enough.  One process always takes turns, so that
  the automation without a heartbeat keeps both promises (`AutomationAlone`).

Of the gate:

* `DailyLimitKept`: orders sent whose row will never be written are no more than the
  failures (`HiddenByFailures`), the rows of a day are within its limit, and one
  below it while an order is on its way (`RowsWithinLimit`).  The limit itself
  follows from the cardinality of a union.
* `EntriesSpaced`, if the orders of an allocation are on the symbol of its signals
  (`Unproxied`): the signal in hand keeps its distance from every marked reservation
  until it is marked itself (`SpacedInHand`).  `SignalGateProxy` is the run without
  that condition.

**`OptionExitProofs`**

* `PositionReserved`: a reconciliation releases only on a filled exit, which closed
  everything (`FillsAccounted`), or when it saw no position, and a position only
  shrinks (`ViewsBehind`).
* `OneLinkedExit`, if every live status stops a second exit
  (`LiveStatuses \subseteq PendingExitStates`): a row never claims an end the broker
  has not reached (`LinksBehind`), and the exit in submission is alone
  (`SubmitsAlone`).  `OptionExitRare` is the run with the other statuses.

**`EvaluationProofs`**

* `EstimatesHold`: every structure is worth least at one of its own strikes, and
  loses there (`WorstAtStrike`, from the shapes of the payoffs and the width that
  bounds a credit); both estimates look there, and nowhere at anything worse.  An
  entry fills at its limit or better, so the reserve covers it too.
* `TargetIsRealised`: the limit of a closing order is the price its estimate was
  made from, and it fills there or better (`TargetAtLimit`).
* `NoLookAhead`: until the tapes fork their books are the same (`OneTape`); after it the
  next bar enters a book only by its open and by its being there.
* `LossBounded`: a position that is sized has its stop on the losing side of its entry and
  the distance to it, over the whole quantity, within the risk fraction (`Sized`), and
  every exit is at the stop or better.
* `PartsIndependent`: the boundaries of the folds are integer quotients, a quotient grows
  with its dividend, so the parts follow one another; and every trade counted lies between
  the signal and the last bar of its own part (`WalkInv`), however far its warmup reaches
  back.

**`CollectorProofs`**

* `UsableBarsFinal`: what a fetch has read up to its token is what the broker has now
  (`ReadToToken`), since a bar that had ended when the fetch began changes no more; so
  it does not matter when a page is read.
* `AssignedOnEvidence` and `NeverOlderReport`: what a screening has sized on its way,
  and what a report picked, rests on evidence of its own date (`SizedOnEvidence`).  The
  newest report exists because dates are bounded, and of one policy and date the first
  row counts (`NewestExists`); a report appended makes another one newest or none.
* `EvidenceEndsAtClose` and `PolicyExitStable`: a close a cycle does not know of came
  after its begin (`ClosesKnown`), so no row of it reaches beyond (`EvidenceWithinClose`);
  an exit found on finished bars is the first one of the package (`ExitsFirst`), which
  bars that arrive later cannot change.

**`StoreProofs`**

* `SnapshotOrdered` for any number of processes: the peak of a day covers its start and
  the equity of the observation that is applied, in whatever order they are
  (`EquityInv`).
* `ReferencesKept` (`PeakCoversDay` and `StartOfDayFixed`) in every behaviour in which no
  observation of an earlier day is applied after one of a later day (`DayInOrder`): the
  row then carries all of its day (`RowCarriesDay`).  Two conditions on the constants
  imply that one: a clock that stays within one UTC day, and one process, whose stamps
  are applied in the order they were taken.  The race of `EquityStateRace` is thus the
  only one there is.
* `AppliedWithinCapital`, `SavedPlanFits` and, if no save commits within an overview,
  `NewerChangeKept`.  The invariant says what a request between its check and its
  transaction may rely on: at most one such request exists (`config_lock`), so the rows
  it checked are the rows it joins; and a page whose revision is current shows the
  settings in force.
* `EvidenceOfOneManifest`, `CountedAfterBoundary` and `NoFalseAlarm`, for any releases.
  Every trial carries the registered manifest and was flagged by it, and its link is the
  last trial of its strategy before it (`ChainIntact`), which appending a trial does not
  change for the older ones.
* Of the administration, what holds of every behaviour, and under which steps the rest
  does.  Two validations never run at once: they have a lock of their own
  (`ValidationAlone`).  No two updates run at once as long as no edit is completed while
  one runs (`CompletedApart`): a running update is then always announced
  (`UpdateAnnounced`).  No acknowledged setting is lost as long as no edit begins beside
  another (`EditsApart`): while `.env` may be empty or half edited, a backup holds what
  every key was promised (`SettingsKept`).  The theorems under `~ Overlap`, the
  environment of the run, follow from these.
* `StuckByFailedEvent`, with edits that overlap or not: an update that is shown as
  running has its thread (`UpdateAtWork`), and of the steps of a validation only a
  `record_event` that raises leaves the status behind, until the dashboard is recreated.
* `EveryAccountRuns` and `OkAfterFullCycle`, action properties of the worker's loop: an
  aggregate is written only when the accounts that succeeded and those that failed are
  all of them and no one twice, and where accounts do not write the health file
  themselves it turns to `ok` only after a cycle in which all succeeded.

The theorems rest on the named assumptions on the constants.  Two of those say what
the code checks when it builds the values: bars have ordered, positive prices and
strategies return signals of known fields (`BacktestAssumption`, from
`MarketBar.__post_init__`), and an allocation's interval is not negative
(`GateAssumption`, from `StrategyAllocation.__post_init__`).  Some theorems state a
condition on their environment.  Without those of this table TLC finds the property
violated on the constants of the run named (`SymbolTradedOnce` needs a second intent of
the symbol); the run itself checks one such property:

| Theorem | Condition | Constants without it |
|---|---|---|
| `LiveStaysReserved`, `SymbolTradedOnce` | cycles take turns (one process: `AutomationAlone`), answers arrive, whole fills | `OrderLifecycleRace` |
| `OnlyFailureReleases` | cycles take turns, whole fills | `OrderLifecycleDuo` |
| `LinkedExitsOneAtATime` | live statuses stop a second exit | `OptionExitRare` |
| `OrderedDaysSuffice`, `ReferencesHoldWithinDay`, `ReferencesHold` | observations of a day are not applied after those of a later one; within one day; one process | `EquityStateRace` |
| `EntriesKeepApart` | orders on the symbol of the signals | `SignalGateProxy` |
| `StaleBrowsersConflict` | no save within an overview | `StrategyControlsTorn` |
| `CompletedApartSuffices`, `ActionsStayExclusive` | no edit is completed while an update runs; no edit beside another action | `ControlPlaneOverlap` |
| `EditsApartSuffice`, `SettingsStay` | no edit begins beside another one; no edit beside another action | `ControlPlaneOverlap` |

Only model-checked is liveness (`OverReservationsReleased`, `FilledExitReleases`,
`SavedChangesApply`, `WorkingAccountsServed`, `BrokenAccountReported`), which is out of the prover's reach.

## 5. Not modelled

`PROJECT.json` lists every component with its status.

* **Strategies, features, patterns**: numerical functions of bars without state.
  A signal is a choice bound to its bar in `SignalGate`, `Backtest` and
  `Validation`; the metrics and excursions of a replay, bootstrap and robustness statistics,
  promotion gates and parameter optimisation are numerical functions of results.
* **Settings and account plans**: parsed and validated once at start.
* **Choices left open**: the preferred delta of a package, the reasons of
  `_signal_block_reason` that depend on market data (one `Block`), the size and
  liquidity classes of a screened asset.  In `OrderLifecycle` and `RiskAuthority`
  the loss per unit of an intent is a parameter; `OptionPackage` computes it for
  packages, not for stocks.
* **Protocol detail**: payload building and parsing, tokens, sessions, the HTTP
  servers, charts, events and logs.
* **Limits**: the page of 500 orders (a row missing from a page is modelled); the
  key of `market_bars`, which has no adjustment, so that a raw and an adjusted bar
  replace each other (decisions use what a cycle fetched, not the table); batches
  of several symbols.
* **What outlives `update.sh`**: after 900 seconds the agent kills bash, but not the git
  or docker it had started, and takes the update for failed; that the next update then
  finds them still at work is not modelled.  Threads are taken to start.
* **Rows changed behind the program's back**, which the hashes of the registry
  are for; the symbols and timeframe of an override; the universe and lab loops,
  which have the shape of the research loop.

## 6. Plan

1. Proofs: that a live order keeps its reservation up to the intents whose answer was
   lost, with the symbols they block; which interleavings of the two processes
   `LiveOrdersReserved` survives.
2. `SignalGate` with several lost rows a day, and composed with the two-process
   reconciliation of `OrderLifecycle`; the exit of one package beside the entries
   of another.
3. Promotion and retest of experiments as decisions over the trial registry; the
   page of 500 orders in `OrderLifecycle`; pairs of edits with a dying agent in
   `ControlPlane` under `Overlap`.
