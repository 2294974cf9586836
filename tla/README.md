# TraderRd: a TLA+ model of intake, risk, Demo trading and simulation

TraderRd listens to one Telegram topic, parses trading signals, asks a portfolio
risk engine for a reservation, places PostOnly orders on Bybit Demo, and keeps
the exchange, its own rows and the risk ledger in agreement until the position
has been closed and its result attributed. A supervisor runs the processes, two
file locks keep operator commands apart from them, and a simulator decides from
historical candles what would have become of each signal. This directory holds
TLA+ models of these parts, the TLC instances that check them, and theorems
that TLAPS proves for every instance.

Paths below are relative to the repository; `traderrd/` stands for
`src/src/traderrd/`, and `README` followed by a line for `src/README.md`.

## The system

| Part | State it keeps | Operations | Talks to |
|---|---|---|---|
| risk engine (`domain/risk.py`) | mode, marks and boundaries, reservations, staged reversals | nine commands, pure | ledger |
| risk ledger (`infrastructure/risk_repository.py`, `application/risk_engine.py`) | engine state, log of commands with their decisions | execute once per command id, load, epoch check | SQLite |
| intent store (`infrastructure/execution_repository.py`) | intents, events, submission attempts, performance outcomes | save, transition, queries | SQLite |
| execution service (`application/demo_execution.py`) | none of its own | plan, submit, reconcile, cancel expired, attribute, operator close | store, ledger, exchange |
| lifecycle monitor (`application/demo_monitor.py`) | none across cycles | inspect every intent, hand evidence to the ledger, sweep overdue entries | service, ledger |
| signal worker (`application/demo_worker.py`) and bridge (`application/demo_bridge.py`) | cursor, bridge runs | retry plans, propose, plan, submit, advance | service, ledger |
| Bybit Demo (`infrastructure/bybit_demo.py` is the client) | orders, positions, stops, closed PnL | create, cancel, trading stop, queries | - |
| watch loops (`demo_cli.py`) | none of their own | run a cycle, catch its error, run the next | all of the above |
| supervisor and locks (`demo_runtime.py`) | two file locks, three child processes | start, watch, stop in three stages; exclude the operator | kernel, children |
| operator (`demo_risk_epoch.py`, close, re-arm) | - | new epoch, close a position, re-arm | locks, ledger, service |
| observer (`telegram_listener.py`, `application/ingestion.py`) | one task per update | ingest a message or an edit | Telegram, signal store |
| backfill (`telegram_backfill.py`) | checkpoint of the topic | scan, record, advance | Telegram, signal store |
| signal store (`infrastructure/sqlite_repository.py`), `audit_reprocess.py` | messages, revisions, signals | record an event, reprocess a row | SQLite |
| historical simulator (`domain/simulation.py`, `application/historical_simulation.py`, kline client) | outcomes and attempts | select, fetch pages of candles, decide, record | candles, checkpoint |
| status, heartbeats, dashboard | one heartbeat row per component | read | all stores |

How they interact. The worker and the monitor are two processes that share one
SQLite file and the exchange account, and no lock excludes one from the other:
both hold the operation lock in shared mode. The worker turns a signal into a
risk decision, the decision into intents, the intents into orders. The monitor
turns orders and positions into states of intents, those into risk decisions
and these into further intents, which the worker submits. The engine itself
never calls anybody; a decision is a list of actions that someone has to plan.

Upstream, the observer and the backfill write the same signal store, each looking a
message up before the transaction that records it; the worker reads the store behind a
cursor of its own. Beside them, `demo-run` supervises observer, worker and monitor, and
the owned close and the risk epoch have to be alone with the account. Downstream of the
checkpoint, the simulator reads what the backfill has passed and never touches orders.

Where it is hard:

* the two processes interleave at every request and every transaction, and an
  intent's row is written without comparing the state it was judged from;
* an order can fill, in part or in whole, while its cancellation is under way,
  while it expires, while a reversal is staged or while the kill switch trips;
* a POST may fail before or after it has taken effect, a GET may fail at any
  moment, a process may die between any two steps;
* one decision may concern several reservations and symbols, and an error in
  one step ends the whole cycle of its process;
* day, week, high-water mark, pause, kill, re-arm and epoch each rewrite part of
  the same account;
* two writers find no row for a message and both insert it; an edit replaces a signal
  while updates of the older text are still on their way; a crash falls between the
  recording of a message and its checkpoint;
* locks are tried without waiting and freed by the kernel: a killed supervisor leaves
  children that still hold their share; an epoch's evidence is older than its commit;
* candles are fetched page by page while the market goes on, and an outcome that has
  been decided is never computed again.

What makes each part correct:

* *engine*: one active reservation per symbol, at most three, whose risk the
  equity of their admission pays; reversals that wait for something alive; a
  kill switch and halts that latch; no request that is forgotten;
* *ledger*: a command id is executed once, and its decision is stored with it;
* *execution*: an order is posted at most once, an exposure always has an active
  reservation, a fill that is recorded was executed, a position reported as
  protected has its stops, a release follows an attributed outcome;
* *loops*: an overdue entry leaves the book, a fill is protected, a closed
  position is released;
* *signal intake*: rows and signals agree, a content is stored once, a signal leaves
  the store by an edit alone, the checkpoint leaves nothing behind and catches up;
* *runtime*: an operator command is alone, one runtime trades, an epoch moves the
  boundary once and from a flat account, one child's end is the end of all;
* *simulator*: an outcome is what the finished candles say, is final, rests on pages
  without holes, and every signal that has its data gets one.

## The modules

| Module | Models | Extends or instantiates |
|---|---|---|
| `RiskEngine` | `domain/risk.py` | - |
| `MCRiskEngine` | its instances | `RiskEngine` |
| `RiskEngineProofs` | theorems about its book, decisions, modes, requests and risk | `RiskEngine`, `FiniteSetFacts`, `TLAPS` |
| `FiniteSetFacts` | lemmas on least elements and on sums over finite sets | `TLAPS` |
| `BybitDemo` | the exchange, external, from the requests and answers of the code | - |
| `DemoIntents` | intents, ledger log, account evidence, the processes' local state | `RiskEngine`, `INSTANCE BybitDemo` |
| `DemoReconcile` | `DemoExecutionService.reconcile` and `attribute_closed_outcome` | `DemoIntents` |
| `DemoExecution` | monitor, worker, bridge, submission, environment, specification | `DemoReconcile` |
| `OwnedClose` | the operator's `--close-owned-position`, with the runtime stopped anywhere | `DemoExecution` |
| `MCDemoExecution` | instances of both | `OwnedClose` |
| `DemoExecutionProofs` | the invariant of the lifecycle; exchange, clock, worker and monitor keep it | `OwnedClose`, `RiskEngineProofs` |
| `OwnedCloseProofs` | the operator keeps it; all theorems about the lifecycle | `DemoExecutionProofs` |
| `ExposureLedger` | what the lifecycle promises about risk, abstractly, and three theorems about it | instantiated by `DemoExecution` |
| `SignalIntake` | observer, backfill, signal store, reprocessing, worker's cursor | - |
| `MCSignalIntake`, `SignalIntakeProofs` | its instance, its theorems | `SignalIntake` |
| `DemoRuntime` | supervisor, children, both locks, owned close, risk epoch | - |
| `MCDemoRuntime`, `DemoRuntimeProofs` | its instance, its theorems | `DemoRuntime` |
| `HistoricalSimulation` | `simulate-history`: selection, pages, decision, records | - |
| `MCHistoricalSimulation`, `HistoricalSimulationProofs` | its instance, its theorems | `HistoricalSimulation` |

A definition whose comment starts with `Mutant:` is not part of the model. It is
a plausible defect of the definition next to it, which a property has to refuse.

### RiskEngine

`PortfolioState` is split into `account` (clock, marks, boundaries, halts, epoch)
and `book` (mode, reservations, reversals); `decision` is the decision of the last
command. An action is one command with its whole handler: `Prelude` is what
`process` does before it dispatches (clock, expiry cancellations, optional mark,
circuit breakers), and the rest of the action is the handler. A command for which
the code raises changes nothing and is no step: an instant before the last one,
an epoch that is not allowed.

Equity is a natural number and risk is counted in 1/2000 of its unit, so every
percentage of the policy is exact, as it is with `Decimal`. A signal's rate of
loss is a constant in permille. The policy's projected loss is the smaller of
1.5 % of equity and half of equity times that rate. The limit of 5 % total risk
and the three places are both kept although three trades of 1.5 % stay below 5 %
at constant equity: equity that fell since an admission makes the first one bind.
A signal's id fixes its symbol and direction, as its fingerprint does in the code.

`requested` is a history variable: the cancel and close requests emitted for
reservations they still concern. It lets `NothingForgotten` say that everything
the engine wants out has been asked for.

### DemoIntents, DemoReconcile, DemoExecution

A process is cut into steps at its requests to the exchange and its database
transactions; between two steps the other process, the exchange, the clock, the
equity or a crash may act. `job[p]` holds the tasks left in the cycle, the place in
the first one (`pc`) and the local variables that live across steps: the order as it
was read (`seen`), the filled quantity as it was read (`known`), the state to be
handed to the ledger (`view`), the command whose plan is being stored, and whether
an error goes on once the ledger has been told (`failed`). An error that `run_cycle`
lets through empties the job, as the watch loop catches it and starts over; a crash
does the same.

| Action | Code |
|---|---|
| `MonitorBegins`, `MonitorSweeps`, `MonitorExpires`, `MonitorSettles` | `DemoLifecycleMonitor.run_cycle`, `cancel_expired` |
| `Reconcile`, `Resolve`, `Protect`, `CancelRemainder`, `ReadAgain` | `reconcile`, `_reconcile_entry_order`, `_set_and_verify_protection` |
| `Attribute` | `attribute_closed_outcome` |
| `Synchronize`, `PlansFollowUp`, `FollowedUp` | `_sync_risk`, `_materialize_follow_up_actions` |
| `WorkerBegins`, `WorkerRetries`, `WorkerPlaces`, `WorkerPassesStale`, `WorkerAdvances`, `WorkerEnds` | `DemoSignalWorker.run_cycle`, `_retry_planned_intents` |
| `WorkerProposes`, `WorkerPlans`, `WorkerRecordsRun` | `DemoSignalBridgeService.process` |
| `SubmitsNothing` ... `SubmitsCancel`, `Post` | `_submit_intent`, `_entry_dependencies_confirmed`, `DemoExecutionService.submit` |
| `QueryFails` | an error of a GET |
| `ExchangeWorks`, `PriceMoves`, `Tick`, `Mark`, `Crash` | the environment |

The risk commands are those of `RiskEngine`: `Execute(c, Command)` runs the action and
logs its decision, or leaves everything alone when the id is in the log.

### OwnedClose

`close_owned_position` as a third process of the same state. `Begins` takes both locks: worker
and monitor were stopped wherever they were, so their jobs are empty and their half-done work
stays behind in the rows. Until the command ends only the operator, the exchange, the clock,
the equity and a crash act (`RuntimeStep`). The operator's own steps are tasks like those of the
other two; what it has in common with them (the second half of `reconcile`, `_sync_risk`, the
follow-up plans, `submit`, `attribute_closed_outcome`) are the same definitions with the process
as their parameter. The command may stop at any step (`OperatorStops`) and be repeated any
number of times.

| Action | Code |
|---|---|
| `Begins` | the locks, the guards, `find_close`, and the repair of a command interrupted behind the release |
| `Inspects`, `Proves` | `reconcile_for_operator_close`; the fill is handed to the ledger without a TP or SL |
| `Requests` | the durable `RequestPositionClose` under one command id per entry |
| `Orders`, `OrdersPlanned` | the existing close is taken over, or the request is planned |
| `Drops`, `Accounts`, `Finishes` | a position that was flat already; closed PnL, release, end |

`OperatorTakesOver` says that what a fill asked for (a kill or a reversal that raced it) and what
the operator asks for end in one close intent, whenever the runtime was stopped.

### ExposureLedger

The promise of the whole: a signal is reserved, placed once, filled, withdrawn, exited
and released, one at a time per symbol, and never released while its entry may execute or
anything is held. It knows nothing of intents, cycles, requests or verdicts. `DemoExecution`
instantiates it (`Ledger`) with the active and released reservations of the risk ledger
and the orders and positions *of the exchange*, so `KeepsThePromise == Ledger!Spec` relates
what the ledger believes to what is the case, over every step of every process. It is a
PROPERTY of `demo_faults`.

### Abstractions of the execution modules

The abstractions, each of which loses no behaviour a property tells apart:

* an entry has `EntrySize` quantity steps; prices appear only as "a fill", "a stop",
  "a refusal of a PostOnly order";
* reads that follow one another without a write of the same process between them, and
  whose answers are combined in one verdict, happen in one step, except the order and
  the position, which stay apart;
* a reconciled cancellation and its entry are written together; a crash between the two
  writes is repaired by the next cycle, which judges the pair again;
* an account snapshot and the command that uses it share an instant;
* `Report` publishes a closed PnL for any exposure that came to an end, also one
  that ended in several pieces, where the code would often find no single row. This
  makes releases more frequent than in reality, so it never hides a wrong one;
* follow-up intents of one symbol are planned cancellation first, those of different
  symbols in any order (a `set` in the code).

### SignalIntake

A topic is chosen at the start: what its author makes of each message (a text, then its
edits), which messages are from another sender, and which rows an earlier release left as
invalid or marked as a repetition. A text stands for itself, `Content` for the fingerprint
the parser makes of it, or `NoSignal`; two wordings may have one content.

| Action | Code |
|---|---|
| `Publish`, `Edit`, `Connect`, `Disconnect` | author and connection; one asyncio task per update (`telegram_listener.py`) |
| `Look`, `Ingest` | `find_message` before, and `record_event` in, its transaction |
| `BackfillStarts` ... `BackfillEnds`, `BackfillFails` | `backfill_history`, message by message, with every way it ends |
| `RepairStarts`, `Reprocess` | `reprocess-audit`, row by row |
| `WorkerInitializes`, `WorkerLists`, `WorkerTakes` | the cursor of `demo_worker.py` |

What was found by the look-up travels in the task (`found`) and in `backfill.found`; a second
insertion for one message is rolled back (`Collides`), which ends the task or the backfill.
`boundary` is a history variable: the value with which the live cursor started. Reprocessing
runs with observer and backfill stopped (README:906). How long a signal stays fresh is
modelled in `DemoExecution` and left out here.

### DemoRuntime

A lock is the set of its holders, which its process's end empties, however it ends. A command
goes from `idle` through `claimed` (supervisor lock) to its work under the operation lock and
back; a child takes its own share. `Die` is a process that is killed, `Fail` a child that ends
of itself, `Quit` the operator's Ctrl-C; `MaxFaults` bounds the first two. `_stop_children` is
`Interrupt`, `Terminate`, `Kill`, each of which may come before a child has obeyed the one
before; the children of a killed supervisor run on until they print to a broken pipe.
Account and ledger are one `trade` seen from far away: reserved, open, closed, settled.
`Consult`, `Fetch` and `Commit` are the three places where `run_demo_risk_epoch` looks at
them: before, by snapshot, and in the transaction. The owned close appears as a holder of
the exclusive lock that may settle a trade; its requests are in `OwnedClose`.

### HistoricalSimulation

Time is counted in half minutes, so that a receipt can fall inside a candle. Of a candle only
matters which of entry, target and stop its range touches; an open candle shows any part of
what it will touch in the end. `Simulate` is `HistoricalOutcomeSimulator` as a function of the
fetched rows, `Truth` the reference definition over the finished market. `Page` and
`RequestsPage` are the paging of `bybit_kline.py`, in which the range shrinks from its newest end.
`unfinished` is a history variable: the outcomes that were decided by an open candle.

## The runs

| Run | Instance | Question |
|---|---|---|
| `risk_reversal` | two opposite signals on X; marks 100, 93 and 84; instants 0 and 2 | every command in every order over active, paused and killed books |
| `risk_breakers` | one signal; marks 100, 95, 90, 84; instants 0, 1, 7 with one-tick days; one epoch | daily, weekly and drawdown boundaries, recoveries, a new day and a new week |
| `risk_capacity` | four symbols for three places; marks 100 and 72 | the limits, and the requests of kills of several positions, through recoveries and re-arms, with symmetry between the signals |
| `demo_faults` | seven courses of events over three signals on two symbols | the whole lifecycle under crashes, lost POSTs and answers, refusals, partial fills, failed questions, expiry, falling equity and an operator who closes a position |
| `demo_liveness` | one signal in three courses: fills, refusals, stops, an operator; fair | what has to happen in the end |
| `intake` | three messages in four topics; one failure; fair | rows, signals, checkpoint and cursor under concurrent writers |
| `runtime` | two supervisors, one command by hand, one owned close, one epoch; one trade, one fault; fair | who runs beside whom, and what the end of a process leaves |
| `simulation` | two signals, four candles, pages of two; one failure; fair | every small market, with open, missing and future candles |
| `kill_ignores_other_symbols` | two symbols; falling equity | finding 1 |
| `reversal_fill_blocks_monitor` | two opposite signals; fair | finding 2 |
| `kill_during_fill` | one signal; falling equity; fair | finding 3 |
| `release_without_outcome` | two opposite signals; failing GETs | finding 4 |

Why the bounds are enough. The engine looks at one symbol, at the number of active
reservations and at their sum, never at the identity of a signal: two signals on one
symbol make every reversal (`risk_reversal`), and four symbols fill three places and
meet in every kill and cancellation (`risk_capacity`). The marks sit on both sides of
the boundaries: from 100, 95 is inside all of them, 93 halts the day, 90 is exactly the
10 % of the week and 84 trips the kill; over two days 95 to 90 halts the week alone, 90
to 84 the day alone. At 72 the limit of 5 % is less than three places hold at 100, and
three places taken at 72 leave room for a fourth at 100, so each of the two limits is
somewhere the only one in the way. Instants are before and at an expiry and a change
of day and of week.

*Execution.* Two signals suffice for one reversal, the longest chain the code builds in one
decision. Events multiply, so an instance names its `Courses`: which signals arrive in which
order, what may happen, and when. One run explores them all from one initial predicate
(some 490,000 states). `EntrySize = 2` is the least that has a partial fill; a fill may be
of any number of steps. No course lets the equity fall, or a question to the exchange fail,
while a reversal is being filled: the violation runs look at those, each for one property. The operator
meets one entry, while it is filled, stopped out and its equity falls; with a reversal beside it
the instance has more than 800,000 states of its own and is not part of the run.

*Intake* (330,000 states). Three messages are the least for "something before, the message,
something after". The four topics hold what the code tells apart: an old invalid row with a
duplicate that is edited away and back; one content in two wordings, with a foreign signal
behind it; a comment that becomes a signal while another is edited into it; a row marked as
a repetition and one that stays invalid. One failure puts one disconnection, crash or failed
request at every place.

*Runtime* (350,000 states). Two supervisors contend for one lock; with one command of each
other kind every pair of kinds meets. An epoch is tried any number of times. One trade is
enough for an epoch before, during and after it.

*Simulation* (370,000 states). Four candles hold an entry window of two and a horizon of two,
one signal starts on the minute and one inside it, and pages of two make several requests.
Every market over the relevant ranges is explored, with and without a missing candle; the
moments lie inside, at the edges of and behind the candles.

For each property of a passing run `PROJECT.json` names a defect of the code which that very
instance detects.

The execution and intake instances say `CHECK_DEADLOCK FALSE`: when every signal has been passed
and every intent is final, or everything has been published and taken, the loops idle and the
instance comes to rest. The other instances never come to rest.

### Fairness

`FairExecutionSpec` assumes weak fairness of a step of the monitor and of the worker,
of time, and of what the exchange has accepted (cancellations, market orders, closed PnL).
The first two are the watch loops (`demo_cli.py:254-430`): an error is caught, and another
cycle starts after an interval; the requests have timeouts, so a cycle ends. Nothing is
assumed of the market: an entry need not fill and a stop need not be hit. In the fair
runs `Happens` leaves out the errors whose end a property would have to assume.

`FairOwnedCloseSpec`, the specification of `demo_liveness`, assumes the same of worker and
monitor while the runtime is up, that a command of the operator which has begun goes on or
stops, and that at some time the operator leaves the runtime alone (`<>[]`: README:769 has normal
supervision resume after the closure). It does not assume that the operator ever begins, or
repeats a command that was interrupted.

`FairIntakeSpec` assumes strong fairness of the backfill's steps: the operator runs it again
until it has caught up (README:164), although reprocessing excludes it now and then; and weak
fairness of a reprocessing that has begun. The observer need not connect and the worker need
not run.

`FairRuntimeSpec` assumes that a supervisor that lives goes on (its loop polls) and that a
child which was sent SIGTERM or SIGKILL ends. It does not assume that a child heeds SIGINT, that
one ever fails, or that a command is ever started.

`FairSimulationSpec` assumes time, the progress of a run that is not killed, and that runs
without a limit are started again and again (README:215), whenever they are killed. With a
`--limit` alone `AllGetDecided` is false: signals whose data never comes use the limit up in
every run.

### Properties that are only model-checked

What is liveness, which TLAPS cannot reach: the properties of `demo_liveness`,
`BackfillCatchesUp` of the intake, `ExitStopsAll` of the runtime, `AllGetDecided` of the
simulator. Every safety and action property that a passing run checks has a theorem.

## Findings

1. **A kill tripped by one symbol's proposal leaves the other symbols open.**
   `plan_decision` skips every action whose symbol is not that of the rules it is given
   (`demo_execution.py:74`), and the bridge gives it those of the signal
   (`demo_bridge.py:174`). The ledger has all filled positions in `close_requested`, no close
   intent exists for the others. README:291 promises "closure of every filled position".
2. **The fill of a reversal is not protected.** The entry that the reversal displaced is
   reconciled against the new position, becomes `reconciliation_required`, and ends every
   monitor cycle (`demo_monitor.py:257`) before the new entry is reached.
3. **A kill that trips while a fill is confirmed never closes it.** The decision also
   cancels the entry that has just been filled; the exchange refuses, and the worker never
   gets to the close (`demo_execution.py:184`, `demo_worker.py:312`).
4. **A failed closed-PnL request releases risk.** The except branch (`demo_monitor.py:170`)
   hands a `close_confirmed` to the ledger, against the comment six lines above it.

Limits found on the way that the README documents as waiting for a person: an entry whose
POST was lost stays in `reconciliation_required` and keeps the expiry sweep from starting;
an entry that fills and closes between two inspections, or is stopped out before its
remainder is cancelled, matches no expected quantity. This is why `demo_liveness` has
entries of one step and no lost requests.

What else the models make explicit and the documentation does not say:

* *An outcome may rest on an open candle.* `fetch_candles` asks up to the end of the range,
  the exchange serves the current minute as well, and neither drops it. A signal whose window
  reaches the present can be decided, for good, by a candle that goes on to touch something
  else. README:222-235 speaks of complete minute candles. `OutcomesAreTrue` excludes exactly
  these outcomes (`unfinished`); without that condition TLC refutes it.
* *Orphans trade.* The children of a supervisor that is killed run on, and the supervisor lock
  is free at once: a second `demo-run` starts a second worker beside the first. `OneRuntimeTrades`
  is therefore stated for `deaths = 0`. Operator commands stay alone all the same
  (`ExclusiveMeansAlone` has no such condition): the orphans hold their share of the lock.
* *A cursor passes what is stored behind it.* A signal stored late under a smaller id, by the
  backfill or by an edit, is never read by the worker. `InOrderSignalsAreTaken` says which are.
* *A sweep can end the monitor.* The sweep of overdue entries looks up an account snapshot that
  exists only for symbols inspected in the same cycle (`demo_monitor.py:192`); the KeyError is
  not one the watch loop catches. `DemoRuntime` has the consequence: a child ends, all end.
* *A second close after the owned one.* A close that was decided under another command (a
  signal that reverses, a cancellation that lost its race) but not yet planned when the operator
  stopped the runtime is planned after the restart, although the operator's close exists: both
  have the `orderLinkId` of the reservation, the second can never be posted, and `find_close`
  (`execution_repository.py:396`) fails from then on. TLC shows it in a course with a reversal
  and an operator. `OperatorTakesOver` is therefore about the closes of the fill and the operator.
* *A repeated owned close may not release.* README:766 asks to repeat the invocation until the
  risk is released. When a TP or SL wins the race against the close order, that order ends
  without an execution and stays the close that is looked up: no repetition releases the
  reservation, the resumed monitor does (`ClosedPositionsAreReleased` holds with the operator).

## The proofs

`RiskEngineProofs` proves, for all sets of signals, symbols, marks and instants and all
lengths of a day and of an entry:

| Theorem | States |
|---|---|
| `Invariance` | `Spec => []Inv`, the inductive invariant |
| `TypeCorrect` | `Spec => []TypeOK` |
| `ExposureIsExclusive` | one active reservation per symbol |
| `ReservationsAreCapped` | at most three active reservations |
| `ReversalsAreLive` | what a staged reversal may wait for |
| `KilledIsFlat` | a killed book keeps no position |
| `KillSwitchLatches` | what a step out of the killed mode looks like |

The assumptions are those of `RiskEngine`: signals have a symbol, a direction, a positive
rate and an integer expiry; marks are positive; instants are natural numbers. Nothing is
assumed finite: that the active reservations are finite is part of what is proved.

The argument. None of the properties is inductive alone: that a proposal keeps one
reservation per symbol rests on a symbol with a reversal refusing proposals; that a
release may let the reversal in rests on the reversal's symbol having nothing else
active and its own signal never having been admitted; the limit survives a reversal only
because it takes a place that has just become free; and a killed book stays flat because a
kill leaves no reversal behind. `Sound` joins them as a predicate of *a book*, and not of
the variable, because one command goes through several books: `PreludeSound` carries it over
the clock, the mark and the breakers, then each handler's lemma (`AdmittedSound`, `StagedSound`,
`DroppedSound`, `ForwardSound`, `AfterReleaseSound`, `ReopenedSound`) over its own change.
A release is the delicate one: `ReleasedSound` states what holds between the release and the
admission of the reversal, when the reversal waits for something that is no longer active.
One lemma per action (`SnapshotStep` ... `EpochStep`) puts them together for `CommandStep`
and `NextInv`. `KillSwitchLatches` follows from the same invariant by cases over the actions.

Its second part proves the rest of what the engine's runs check, from the same assumptions:

| Theorem | States |
|---|---|
| `DecisionInvariance` | `Inv` and the three invariants below, joined |
| `ModesFollowLosses` | `ModeFollowsLosses` |
| `NothingIsForgotten` | `NothingForgotten` |
| `RiskStaysUnderPeak` | `ReservedRiskUnderPeak` |
| `ReservationsOnlyMoveForward` | `ReservationsMoveForward` |
| `AdmissionsAreAffordable` | `AdmissionIsAffordable` |
| `PeriodHaltsLatch` | `HaltsLatch` |

The argument cuts a command in two *strides*: what the prelude does to book, account and
actions (`PreludeFacts`), and what the handler does behind it (`Handled`), reservation by
reservation: `Moved` is one that was there and moves on with the request that asks for it,
`Entered` one that is admitted with its create. `CommandStrides` shows that every command is two
strides, or starts over from an empty book (`Restarted`). Each property is then an argument about
two strides and no longer about nine commands. `ReservedRiskUnderPeak` is a sum over the active
reservations: what leaves makes it smaller, and an admission adds to it only what the limit at
the equity of that moment leaves free, which is no more than the limit at the peak. The mode
needs that pauses are decided from the same marks as halts, in the order kill, week, day.

Sums and least elements need an induction over data, and the theorems of the library that give
one take an operator as a parameter. `FiniteSetFacts` gets them from the theorems about sets
instead: a set of natural numbers that is not empty has a least element (`LeastSet`), so a
least set without the wanted function, or a least counterexample, is refuted by the set
with one element less. `SumAdd`, `SumType` and `SumSame` are what the rest of the proofs cite.

Out of the prover's reach, and so with TLC: liveness and anything with `ENABLED`.

`ExposureLedger` ends with the proof, for every set of signals and symbols, of what the promise is good
for: exposure is reserved (`RiskCoversExposure`), one entry or position per symbol is at the
exchange (`OneExposure`), and a release is final (`ReleaseIsFinal`). The invariant that carries
them is the exclusion of reservations together with `Reserved`: at the exchange nothing excludes
two entries of one symbol but the reservations behind them. That the lifecycle keeps the promise
is `PromiseIsKept`, and carries the three over to the lifecycle (`RiskCoversTheMarket`).

`OwnedCloseProofs` proves, with the lemmas of `DemoExecutionProofs`, for every set of signals and sizes
of their entries, all instants, marks and courses of events, with requests lost on either side and
processes killed between any two steps:

| Theorem | States |
|---|---|
| `ExposureInvariance` | `OwnedCloseSpec => []ExposureInv`, the inductive invariant |
| `ExecutionTypes` | `ExecutionTypeOK` |
| `FillsHappened` | `FillsAreReal` |
| `PromiseIsKept` | `KeepsThePromise`, the refinement of `ExposureLedger` |
| `RiskCoversTheMarket` | `Reserved`, `OneAtTheExchange`, `SettledForGood` of that ledger, said of the lifecycle |
| `IntentsOnlyMoveForward` | `IntentsMoveForward` |
| `ProtectionHolds` | `ProtectionIsReal` |
| `AttributionFirst` | `AttributionComesFirst` |
| `OperatorTakesOne` | `OperatorTakesOver` |
| `RuntimeIsTheOwned` | `ExecutionSpec => OwnedCloseSpec`: all of this holds without the operator too |

Assumed is what `SignalAssumption`, `MarkAssumption` and `ExecutionAssumption` say: signals are
finitely many (the store lists its rows in order), each entry has a positive quantity, the clock
starts at 0 and the account at the highest of the equities that occur.

The argument. Releasing a reservation is a step of the ledger, that the entry is over and flat is
a fact of the exchange, and between the two lie a request, a row that another process may write
meanwhile, and a process that may die. `ExposureInv` says what is evidence for what:

* `ExchangeOK`, `EvidenceOK`: what an order executed and what was closed of it agree with
  the position, and an order exists only for a row that was sent;
* `TableOK`, with `Claim` for each row: a state of a row stands for a fact of the exchange that
  cannot be undone. `filled` stands for an execution, `cancelled` for an order that is over
  without one, `close_confirmed` for a flat position. The state itself may be overwritten by a
  stale verdict, and often is; what makes the invariant inductive is that the stale verdict has
  its own evidence, which is as good as before (`Progress`: orders go on, rows keep what they
  executed and that they were sent, the log only grows);
* `LogOK`, `BookOK`: which command can have been logged, and which status of a reservation
  asks for which evidence: a reservation that is `closed` has an entry that is over and flat;
* `JobsOK`: what a process carries in its hands between two steps, a verdict, a plan, a list
  of tasks, is backed by the same kinds of evidence, so that a process that is not scheduled
  stays in order whatever the others do (`JobStays`).

Every action is then shown to lead from `ExposureInv` to `ExposureInv`, to make `Progress`, and to
be a step of `ExposureLedger` or a stutter (`Advances`): a fill is `Fill`, a cancellation that gets
through `Withdraw`, the transaction of a lifecycle event `Release` (with the reversal that takes
its place), and the transaction of a proposal `Reserve`. Where the engine's command runs inside
such a transaction, `RiskEngineProofs` says what it may move of the book (`Moves`). The
operator only acts while both processes stand still: the steps of worker and monitor are
proved under that condition, which the specification gives them.

`ProtectionHolds` speaks of two variables that nobody writes together: the state
`protection_verified` of a row and the TP and SL at the exchange. `Protect` sets them only for a
position in the direction of its entry. Under `OneEachWay`, and since at most one entry of a symbol is
at the exchange, that position is the entry's own (`Shields`); a protected entry executes no more, and
an exit takes TP and SL away only with the whole position (`KeepsStops`). Without `OneEachWay`
the property is false, and TLC shows it: of three signals on one symbol the first is in
`reconciliation_required`, gave way to a reversal, and is looked at again while the third, of the
same side, is open; its TP and SL are then put on that one.

`AttributionFirst` follows the evidence through the job of a process. Whoever hands an exit to the
ledger has the closed PnL attributed (`AsksFirst`), from the answer of the walk (`Settle`,
`Attribute`, the operator's `Accounts`) to `Synchronize`, where nothing but `ConfirmPositionClosed`
closes a reservation, and only the one it is about (`ClosesOnly`). Two branches of the code do not
ask, and the property excepts them: the inspection of a row that failed hands over the state it left
behind (finding 4), and the expiry sweep synchronizes what it finds. TLC shows that the
sweep can release without attribution too: the worker reconciles the overdue entry, which has been
filled and stopped out meanwhile, between the sweep's request and its synchronization.

`OperatorTakesOne` is about a command that may stop at any step and be repeated: nothing in the store
keeps a second close of the same position out, only that the command looks at what the fill asked
for before it orders its own. The property says nothing of that look, so its inductive
invariant does (`TakeoverInv`, which needs `ExposureInv` beside it):

* `RequestsHeld`: what the operator asked for is about a fill that is confirmed, and no decision
  takes that back (`StaysTaken`). A fill is confirmed by one command, so the fill cannot ask for a close
  after the operator did;
* `RequestsAlone`, the property one level down: where the operator's request became a close row,
  the fill had asked for none (`Asked`);
* `OperatorPlans`, `OrderAlone`: only the operator's command plans the request, at its task "order",
  and only where the fill asked for none. Worker and monitor plan what other commands asked for;
  a restart finds the request in the log and goes through the look again;
* `OrdersLooked`: before every "order" on the list comes a look. Either what the fill asked for has its
  close, or the command is about to prove the fill, hand it over and plan what it asked for. The
  tasks of one command are in this order (`FirstTasks`), and while it runs nobody else
  confirms a fill: the trading processes hold no share of the lock.

TLC held the five conjuncts on the instances of `demo_faults` and `demo_liveness` before they were
proved, and reached a close planned for the operator and an "order" that was not looked at yet.

What stays with TLC: liveness, as everywhere.

`DemoRuntimeProofs` proves, for every number of supervisors, commands and faults:

| Theorem | States |
|---|---|
| `Invariance`, `TypeCorrect` | the inductive invariant; `RuntimeTypeOK` |
| `OperatorIsAlone` | `ExclusiveMeansAlone` |
| `OneSupervisorTrades` | `OneRuntimeTrades` |
| `EpochCommitsOnce`, `EpochsStartFlat` | `EpochOnce`, `EpochBoundaryIsFlat` |

`ExclusiveMeansAlone` speaks of stages, the code of locks: the invariant says which stage holds
which lock (`Held`, `Joined`), and that the holders exclude each other (`Single`). That trades
stand still between an epoch's evidence and its commit (`Proven`) needs all three: whoever could
trade would hold a share of the lock that the epoch has alone, except the exchange, which acts
only on open trades. Assumed is that kinds of commands are disjoint.

`SignalIntakeProofs` proves for every topic:

| Theorem | States |
|---|---|
| `Invariance`, `TypesHold` | the inductive invariant; `IntakeTypeOK` |
| `RowsFollowTexts` | `RowsAndSignalsAgree` |
| `CheckpointIsSafe` | `CheckpointLeavesNothingBehind` |
| `CursorSkipsNothingInOrder` | `InOrderSignalsAreTaken` |
| `OnlyEditsEndSignals` | `SignalsEndByEdit` |

The backfill jumps from one published
message to the next, so the checkpoint passes ids it never sees. The argument is that ids
ascend (`Ascending`): what is unpublished in front of something published stays unpublished;
a message that is passed without a record was no signal at that moment, so it is not one that
always was; and no row ever disappears (`RecordFacts`), so what was handled stays handled, even
if the other writer recorded it and the backfill's own insertion was rolled back.

`RowsAndSignalsAgree` relates a sequence and a function (`Agreement`). Three changes of the table
carry it through every writer: a message taken out (`Without`), a message put at the end, and the
row beside it. `SignalsEndByEdit` needs what the tasks carry (`Work`): each has the text of a
signal, and one that is an edit has a text that was published as an edit. `InOrderSignalsAreTaken`
needs the batch that the worker has listed (`Turns`): a row stored before any later one is in the
batch together with any later one of it, and the cursor moves to the smallest of the batch.
Assumed is that
ids are positive, that the rows of earlier releases are the oldest of the topic, and that an
earlier release marked at most one message as a repetition.

`HistoricalSimulationProofs` proves for every market, window, page size and number of failures:

| Theorem | States |
|---|---|
| `Invariance`, `TypesHold` | the inductive invariant; `SimulationTypeOK` |
| `PagesAreComplete` | `PagesCoverTheRange` |
| `TerminalOutcomesAreTrue` | `OutcomesAreTrue` |
| `OutcomesAreFinal` | `TerminalStays` |

Pages are defined by counting (the newest `PageLimit` candles of the range), the
next request by the smallest of them: `PageFacts` connects the two, by a choice of the
candle left out with the fewest above it. While a run is asking, a candle that was there
at the first request is fetched or still in front of the range (`Covered`).

`OutcomesAreTrue` compares what `Simulate` says of the fetched rows with what `Truth` says of
the finished market. Either the rows show each candle as the market will have it in the end, and
both choose the same first candle that ends the signal; or one was open when it was fetched, and
the outcome is among those that `unfinished` names. Between the two lies that the deciding candle
exists: the definitions choose a least or greatest candle, and `LeastSet` and `GreatestExists` say
that there is one. Assumed is that candles are finitely many natural numbers.

## Not modelled

The components table of `PROJECT.json` gives the state of each part.

* *Signal parser, configuration, command line*: pure functions of their input; the models take
  a text as a signal of some content, or as none.
* *Market quotes, status, heartbeats, dashboard*: reads, and rows that only reports read.
* *Database snapshots, login, preflight*: run by hand with everything stopped, or without
  effect.
* *Previews and dry runs* of worker, bridge, execution and risk commands change nothing.
* *The pagination of executions* that the owned close demands: the models read all executions
  at once.
* *Rounding of quantities and prices* (instrument rules) and the *matching of closed-PnL rows* by
  side, size and window: the models treat a quantity as fitting and an attribution as a
  record that exists or not.
* *Quote captures and message revisions*: tables that only grow.
* *Two simulator processes at once*: `HistoricalSimulation` has one. Nothing but the documentation
  keeps a second one away.

One branch of the model is defensive and never taken in its instances: a planned entry that
is neither overdue nor pending in the ledger (`risk_submission_guard`).

## Plan

1. `RiskEngine`, its instances and proofs - done.
2. `BybitDemo`, `DemoIntents`, `DemoReconcile`, `DemoExecution` - done.
3. `ExposureLedger`, its refinement by `DemoExecution` and its proofs - done.
4. `DemoRuntime`, its instance and proofs - done.
5. `SignalIntake`, its instance; theorem about the checkpoint - done.
6. `HistoricalSimulation`, its instance; theorems about pages and final outcomes - done.
7. Proofs of every safety and action property of engine, intake, runtime and simulator - done.
   The Demo lifecycle: its invariant, types, fills, intents and the refinement of
   `ExposureLedger`, `ProtectionIsReal`, `AttributionComesFirst` and `OperatorTakesOver` - done.
8. `OwnedClose`, the operator's close over the same state - done.
9. Models next: quantities against instrument rules and the matching of closed-PnL rows as
   operators with reference definitions; an owned close beside a reversal.
