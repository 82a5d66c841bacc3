# A verification development of tdapp

tdapp is a trading advisory and paper-trading platform: a FastAPI service
(`src/backend/app`) that scans markets for signals, lets the owner or an auto
trader turn them into paper orders, guards the open positions, stops trading
when losses reach limits the owner set, and studies its own strategy on price
history. This directory holds TLA+ models of the parts where its own logic is
hard to test, the TLC configurations that check them, and proofs for the TLA+
proof system.

## 1. The system

One process runs the HTTP API and the scheduled jobs (`main.py`, `_safe_job`) on
one asyncio event loop. The exceptions are the portfolio monitor, which runs in a
thread (`asyncio.to_thread`), the simulation, which has one worker thread, and the
routes that are plain functions, such as `PUT /settings`, which run in the
server's thread pool: these interleave with the loop at every database call.
State lives in three places: Supabase tables, reached through a client whose
errors are mostly swallowed (`services/database.py`: `select` answers `[]`,
`insert` answers `None`, `update` answers `False`); the in-memory book of the
paper broker; and module-level caches. A redeploy kills the process at any point;
the tables survive.

| component | state | operations | who it talks to | modules |
|---|---|---|---|---|
| Limit expansion (`services/limit_expand.py`) | `kill_expand_requests`, limits in `trading_settings` | request, decide, settle a lapsed request, timeout policies | monitor, guard, owner, settings, pause | `LimitExpand`, `LimitPolicy` |
| Settings API (`api/routes/settings.py`) | `trading_settings` | read, merge and write, reset | everyone | `LimitExpand` |
| Portfolio monitor (1 min, a thread), kill switch, monitor card | `equity_snapshots`, `trading_control` | measure losses and drawdown, pause, settle, ask | expansion, gates, guard | `LimitExpand`, `Account` |
| Signal scanner and strategy engine (`workers/market_scanner.py`, `engine/strategy_engine.py`) | `signals` | score, grade, propose a card | quotes, thesis check | `Setup`, `Evidence`, `Cards` |
| Auto trader (`workers/auto_trader.py`, 1 min) | what one cycle read | expire, judge and fire pending cards | gates, execution | `TradeBook`, `EntryGates`, `Cards` |
| Order execution (`services/execution.py`) | `paper_trades` | gates, sizing, place, journal, close | broker, log, alerts | `EntryGates`, `TradeBook` |
| Paper broker (`integrations/brokers.py`) | positions, ticket sequence | place, close, partial close | guard, execution, API | `TradeBook`, `GuardCycle` |
| Position guard (`workers/position_guard.py`, 1 min, 50 s watchdog) | the broker's book | emergency exit, stops and targets, slices, trailing, rebuild at startup | broker, journal, expansion | `GuardCycle`, `TradeBook`, `LimitExpand` |
| Smart exit (`engine/smart_exit.py`) | none | judge one position on nine factors | guard | `SmartExit` |
| Quotes (`integrations/quotes.py`) | caches, last prints, key index | batches of spot prices and of snapshots, fallbacks | all | `Quotes`, `Snapshots` |
| Signals and Positions API | `signals.approval` | list, approve, reject, levels, manual close, reset | execution, broker | `TradeBook`, `EntryGates`, `GuardCycle` |
| Signal log (`services/signal_log.py`) | `signal_logs` | append, purge | ticket seeding | `TradeBook` |
| Scheduler (`main.py`) | jobs in flight, `scheduler_runs` | run, skip, time out | all jobs | `Jobs` |
| Notifications, LINE, web push, maintenance, digest | `notifications`, `push_subscriptions` | raise, deliver, retry, prune | all | `Alerts` |
| Simulation (`services/simulation.py`) | `simulation_runs`, `simulation_events` | start, cancel, run, optimise, reap orphans | price history, replay | `Study`, `Verdict` |
| Triple barrier and replay (`engine/triple_barrier.py`) | none | events, labels, cells | simulation | `Barrier` |
| Price history (`services/price_history.py`) | `price_history_daily` | sync, refresh, read back | simulation | `History` |
| Meta filter, goal and portfolio engines, AI, chat, PIN, calendar, news, frontend | | computation and I/O | | not modelled (section 6) |

What is hard here:

- **Interleaving.** The monitor thread settles a request while the owner answers
  it on the loop; on the loop, a coroutine acts after an await on what it read
  before it (the auto trader's open assets, the manual close's volume, the row a
  push failure is counted on, two scans over one queue of cards); the monitor
  thread pauses the account between an order's gates and the broker; a cancel comes
  after a run's last look at its flag.
- **Failure.** A failing call looks like an empty answer; several writes belong
  together (settings and request; order, journal and log; delete and insert of
  the day's bar).
- **Restart.** The book, the ticket sequence and the cooldowns are rebuilt from
  the tables; a run of the simulation is left behind as `running`.
- **Time.** Confirmation windows, cooldowns, watchdogs and budgets that cut a
  batch of feeds, prices that age in caches.
- **Twins.** The same measure computed in two or three places (drawdown, the
  pipeline of an order and of its card, buys and sells).

What makes each component correct: silence and rejection never loosen a limit or
resume trading unless the owner opted in, and every question is answered
(expansion); the readers of the account agree on when it is in breach (monitor, kill
switch, card); every open trade is guarded with its journalled size and a ticket
names one trade (guard, broker, execution); no order outgrows the budget it was
sized for, or the quota its gates were told of, and the card says so beforehand
(gates); a card is born alive, alone and fires on its thesis (scanner); a stop only
ever tightens and what worsens never cancels an exit (guard, smart exit); no price
is served older than its bound (quotes); a tick runs alone and leaves one row
(scheduler); an alert rings once or is seen to fail (notifications); a run says what
became of it, a label never looks ahead, and gate and cell of a run are picked on
its train period (simulation); a finished bar never changes (history).

## 2. Modules

A module per component, an `MC` module where an instance needs values or several
components are checked side by side, a `Claims` module for what comments say and
the code does not do, a `Proofs` module per proved component.

| module | content |
|---|---|
| `LimitPolicy` | the abstract promise of the expansion flow: a question is asked once and closed once, a limit only takes chosen values |
| `LimitExpand` | expansion flow, monitor, guard's emergency exit, owner, Settings, pause; implements `LimitPolicy` |
| `Account` | equity, curve, loss windows and drawdown for monitor, kill switch and card |
| `TradeBook` | cards, orders, broker's book, journal, log, closes, restart |
| `EntryGates` | effective stop, gates 0 to 7, sizing, for auto trader, approval, extended open and card |
| `Setup`, `Evidence` | score, confidence, regime, stop and thesis codes of a snapshot; what is promised of them |
| `Cards` | the scan, the queue of cards, firing on a thesis; built on `Setup` |
| `GuardCycle` | the guard's walk over the positions: marks, breakeven, trailing, slices, exits |
| `SmartExit` | `evaluate_exit` over positions that age and markets that move |
| `Quotes`, `Snapshots` | batches of spot prices; batches of candles |
| `Jobs`, `Alerts` | `_safe_job`; raising and delivering alerts |
| `History`, `Study` | one asset's stored prices; the simulation run that reads them |
| `Barrier`, `Verdict` | labels over growing histories; what a run concludes and proposes next |
| `MCTradeBook`, `MCEntryGates`, `MCStudy` | constants of one module |
| `MCGuard`, `MCAlerts`, `MCLab`, `MCEntry` | several components as *benches*, of which one runs in a behaviour |
| `LimitExpandClaims`, `AccountClaims` | statements of comments and docstrings that behaviours contradict |
| `LimitExpandProofs` | theorems about `LimitExpand`, and that it implements `LimitPolicy` |
| `TradeBookProofs` | theorems about `TradeBook`: types and tickets, then journal, book and profit |
| `JobsProofs`, `AlertsProofs` | theorems about `Jobs` and about the three benches of `MCAlerts` |
| `GuardProofs` | theorems about `MCGuard`: the stops, the smart exit, the prices, the candles |
| `EntryProofs` | theorems about all three benches of `MCEntry` |
| `LabProofs` | theorems about all three benches of `MCLab`, and the stored prices its runs read |
| `FiniteLemmas` | what those proofs need of finite sets: least and greatest elements, the value of a fold |

*Benches.* The components of `MCGuard` answer one question together (what the
guard does to a position, what it is told about it, on which prices), and so do
those of the other three, but their states do not interact within a check: the
guard takes a price, a smart-exit verdict and a snapshot as inputs. An `MC` module
therefore holds them side by side with a variable `bench` that is chosen once and
never changes, and every action of the others is blocked. A property of a bench
is implied by `bench = ...`, or speaks of variables only its bench moves. What a
component takes as a parameter its `MC` module takes too, with a value in the
`.cfg`, so that the theorems about these four modules hold for every value, not
for those of the run.

### LimitExpand and LimitPolicy

*State.* `settings` is the row of `trading_settings` (the limits and the two policy
columns), `rows` the request table in the order of `requested_at`, with the age of
each request in ticks; `paused` is the pause switch, `book` says whether positions
are open, `metric` holds the losses compared with the limits. `job[p]` is what a
process `p` is doing: `monitor` (a thread), `guard` and `owner` (the loop), `desk`
(`PUT /settings`): its place `pc`, the caller to go `back` to, the settings it read
(`snap`), the row it picked and its status then, the outcome so far. `optedIn`,
`misread`, `granted`, `rescued` are history.

*Actions.* One action is one database call with the local code up to the next,
because the threads interleave there; `guard` and `owner` do not suspend inside
the flow and exclude each other. The code of `limit_expand.py` is written once and
taken by any process: `Find`, `CheckQuota`, `Weigh`, `Persist`, `Mark`, `Scan`,
`Sweep`, `Resume`, `Recheck` (together `Settle`) are `settle_expired` and
`_approve`; `Capped`, `Look`, `Cool`, `Insert`, `Reread` (together `Ask`) are
`request_and_notify`. The `Monitor*`, `Guard*`, `Owner*` and `Desk*` actions are
the callers; `OpenTrade`, `MetricMove`, `Tick` and `Restart` are the world.
A failing call, or one whose answer is lost, is a choice inside the action.

*Data.* Limits and losses are natural numbers; windows, cooldowns and the quota
are ages that saturate at `Horizon`.

*Refinement.* `Policy == INSTANCE LimitPolicy` maps the limits to `settings`, the
chosen values to `granted`, trust to `optedIn` or `misread`, and a request to
`unasked`, `open` or `closed` by its row (`Question`, which follows `_mark`).
`Implements == Policy!Spec`, checked in `desk`. Writing the settings and marking
the request are two steps of the code and one decision plus one closing of the
policy, in either order.

### Account

*State.* `closed` is the closed rows of `paper_trades` with the time and the
profit, `curve` the row per UTC day of `equity_snapshots`, `floating` what the book
is worth, `paused` what the monitor's last cycle found. *Actions.* `Cycle` is
`monitor_once`: three reads of the closed rows and a write of today's row, each of
which may fail; `Close`, `Drift`, `Reseed` and `Tick` are the world. `WindowLoss`,
`WorkerLoss`, `Peak`, `KillPeak`, `EngineBreaches`, `KillTriggers` and
`CardBreaches` are what `RiskEngine.check`, `evaluate_kill`, `equity_drawdown_pct`
and `monitor_snapshot` compute. *Data.* Whole money, percent limits, two ticks a day.

### TradeBook

*State.* `signals` is `signals.approval`; `journal` is `paper_trades` by order
placed; `book` and `seq` are the broker's memory; `logged` the tickets
`signal_logs` remembers; `auto`, `desk`, `closing` what the auto trader, an
approval and a manual close hold across awaits. `auto.alone` (no one else placed
an order since the cycle began), `placed` and `failed` (kinds of calls that
failed since startup) are history.

*Actions.* All of this code runs on the loop, where a database call blocks and
the paper broker never suspends, so one action is the code between two awaits
that can suspend (feeds, notifications). `Order` is the end of `execute_signal`
(place, journal, log, one go), taken by `AutoPlace`, `DeskPlace`, `ExtendedOpen`.
`GuardClose` is any whole close of the guard, `GuardPartial` a slice of TP1 or
smart exit. `CloseStart`, `CloseBroker`, `CloseJournal` are the manual close.
`Restart` loses book and coroutines and reads the open rows, `RehydrateRow` puts
one of them back into the book, `Seed` walks the ticket sequence past what the
tables remember: the order of the lifespan hook. Nothing else runs until `Seed`
(`Up`), but the process may be redeployed in the middle of it.

*Data.* Prices, sizing and the gates only decide whether an order or a close
happens, so they are choices here (`EntryGates` and `GuardCycle` decide them).
Profit is counted in the lots it was booked for: a trade closed correctly is
`priced = Lots`. An order of `Lots <= Slice` is one too small to scale out.

*Failing calls.* `Kinds` names the calls that may fail in a run. `failed` starts
over at a restart, so the properties say that a startup that succeeds makes up
for what failed before it. Updates of `signals.approval` do not fail in the model.

### EntryGates

*State.* `settings` and `world` (pause, market hours, calendar, rates) move under the
feet of an order; `pending` the cards, `open`, `cooled`, `loss`, `today`, `week` what
the journal says, `auto` the cycle with the one read it shares between its cards,
`desk` an approval in flight, `passed` an order past its gates and not yet with the
broker, `orders` the history, `halt` how many there were when pause and market last
changed. *Actions* follow `trade_once` and `approve_signal` from await to await; the
gates are one operator each, and an order needs all of them.
From the gates to the broker the loop runs nothing else (`OnLoop`), but the monitor's
thread may pause the account and the market may shut: `AutoFire` and `DeskPass` end at
`passed`, `Place` is the fill, the row and the cycle's accounting. `RiskLots`, `Sized`,
`Tier`, `Band`, `Lid`, `Floor` are `risk_to_lot_for` and `effective_sl_tp`, with the
multiple of the spread from the settings; the correlation, exposure and calendar
engines are operators. `FillDist` adds the half spread of the fill.

*Failing reads.* A read that fails answers no rows, and `get_pause` "not paused", so a
lost read opens its gate: `Reads(lost)` is what the gates are told and `Fresh` what the
reads made at every order say. An order remembers in `lost` what it was not told, and
the properties say what holds of the rest. The `None` of `build_shared_cycle_state`
does not occur, since `select` does not raise. *Data.* Whole points and hundredths of
a lot, so that the rounding of lots is the code's rounding; a point has one worth with
the conversion rate and another without.

### Setup, Evidence, Cards

`Setup` translates `strategy_engine.py` and `thesis_validation.py` as functions of
a snapshot record (gap between the EMAs, ADX, Supertrend, RSI, ATR, sentiment,
breakout) with the code's weights, thresholds and half-even rounding. `Evidence`
lets one indicator move at a time. `Cards` runs two scanners (`job`, `owner`) that
share preloaded quotes and give way to each other where a snapshot is missing and where a
spot price is (`ScanSpot`, between the look at the waiting cards and the insert);
the queue of cards with its TTL, and the auto trader and an approval that check the
thesis again when they fire.

### GuardCycle and SmartExit

*State.* `book` (mark, stop, slice taken) and `rows` (the same in `paper_trades`),
`cycle` (which of `judge`, `trail`, `smart`, `time` is next and what is left to do).
*Actions* are the pieces of `guard_once` between two awaits: judge a stop or a
target, move the stop (breakeven, trail, R ladder), take a slice, smart exit, time
stop; the owner's levels and close; market hours; restart. Prices are distances
from the entry in the direction of the profit. `SmartExit` is `evaluate_exit`: nine
factors, hard rules, left-behind and reversal rules, on integers; days pass, the
market moves, the stop trails.

### Quotes and Snapshots

Each asset of a batch is a task with its place (`yahoo`, feed, key), the memory of
the process is shared between overlapping batches, the budget cuts what is not
finished. The tasks of a batch whose caller was cut off go on until their client is
gone and still turn the key index: `strays` counts the turns left to them. A price
is the time of the print behind it and where it came from.

### Jobs and Alerts

`Jobs`: `Begin`, `Skip`, `Finish`, `Overdue` are the branches of `_safe_job`; a hung
coroutine never finishes by itself. `Alerts`: a `call` per actor with the place
between its two pushes; `notes` are the rows, which are cooldown and retry queue at
once; `subs` the devices with their fail counts.

### History, Study, Barrier, Verdict

`History`: a sync is `rows`, `put`, `read`, one call at a time; the feed reprints
bars; `FillGaps` is one pass over the days, a function of the day it has come to.
`Study` extends it with the run: start, fetch, label, round, score, analyse, cancel,
reaping at boot, purge. The last look at the cancel flag (`Settles`), the last write
(`JobFinishes`) and the `finally` (`JobLeaves`) are steps of their own, because
`request_cancel` comes from another thread and answers True until the `finally`.
`Barrier` computes in every state what a run on the history so far would compute.
`Verdict` is `_analyse`, `_score` and `_recommend_next` over samples of event kinds,
followed by the runs its proposals start. A sample, its train period and what a gate
keeps of it are sets of indices of the run's events; a gate is a row of the sweep
only if it kept a sample (`GateRows`), and the assets a proposal may drop are
weighed against those the train period sampled at the winning cell (`PerAsset`).

## 3. Runs

| run | module | checks | shows |
|---|---|---|---|
| `desk` | LimitExpand | `TypeOK`, `OnlyGrantedLimits`, `RejectionHolds`, `NoSilentResume`, `Implements` (refinement) | a decision and a Settings save racing monitor and guard: without opt-in silence loosens nothing, and the flow implements `LimitPolicy` |
| `silent` | LimitExpand | `OneQuestion`, `StepPerQuestion` | two requests on two limits, no owner, all four timeout policies |
| `faults` | LimitExpand | `EveryRequestSettles` (liveness) | a failing call, a redeploy: each request is still answered |
| `cycle` | MCTradeBook | `TypeOK`, `NoStackedFire` | one cycle on stale reads, two cards of one asset, failing reads |
| `reboot` | MCTradeBook | `Guarded`, `Journalled`, `FreshTicket`, `PricedByGuard` | two restarts, every write and startup read failing at will, re-used tickets |
| `guard` | MCGuard | `StopsKept`, `CycleSteps`; `ExitsFair`, `WorseNeverHolds`; `PricesFresh`, `NoneForgotten`; `CandlesOnce` | the guard's cycle beside the owner with failing calls and a restart; the smart exit; batches of prices and candles cut by their budgets |
| `alerts` | MCAlerts | `RowsHonest`, `BreachHeard`, `Quiet`, `Settled` (liveness); `TicksCounted`, `SlotReturned` (liveness); `MeasuresAgree` | alerts raised and delivered while devices come and go and ticks are cut; the scheduler with hung jobs; the account as three readers measure it |
| `lab` | MCLab | `RunsHonest`, `ImmutablePast`, `SlotFreed` (liveness); `LabelsSound`, `NoLookahead`; `RoundsFair` | runs with cancels, redeploys and lost writes; labels over every short history; verdicts, the same with another test period, and the rounds after them |
| `entry` | MCEntry | `OrdersBounded`, `CardAgrees`, `CycleBounded`; `CardsSound`; `GradedAlike`, `MoreIsMore` | an order from its indicators to the broker, with the gates' reads failing |
| `asked` | LimitExpandClaims | `AskedFirst` | violated (section 4) |
| `blind`, `ruin` | AccountClaims | `NoPhantomLoss`, `RuinSeen` | violated (section 4) |

A property of a composite run names the properties of its component that it
joins; the comment at its definition says which.

*Deadlock* is checked in the runs of `LimitExpand` and `TradeBook`. In the composite
runs it is not: there every behaviour is bounded by counts of orders, alerts, days
or runs and stops when they are used up.

*Bounds, and why they are enough.*

- `desk`, `faults`: one request, one owner decision and one Settings save (or one
  failing call and one restart), each at every point of every cycle; the races these
  runs are about are between the processes that handle one request. `silent`: two
  requests, the least for two open questions or two stacked steps, and two limit
  columns, so that a stale row can take one back while it widens the other. The
  losses reach past a limit widened once, so that it is breached again; windows of
  one tick and a `Horizon` of two, so that each window lapses and a second one can.
- `cycle`: two cards of one asset, two orders, no restart. `reboot`: two orders of
  either of two assets (symmetric), three tickets (two rows with one ticket need a
  third number), two restarts (the first forgets, or dies half way, the second has
  to repair), a slice of half an order.
- `guard`: two positions, one too small to slice; a price below the entry, one past
  breakeven and the R rung, one past the trail; one failing call, one restart, one
  stop set by the owner. Smart exit: positions in profit and in loss over six days
  and two policies, the second a patient owner; `HalvesUp` names the halves of a
  point that Python's `round` takes upwards, which the decimals decide. Quotes: an
  asset with a feed key and one without, two keys, two callers whose batches
  overlap, one of them cut off with keys still to try. Snapshots: one slot for two
  assets, so that one waits.
- `alerts`: an alert and a second of its kind, one device, a clock of two half
  hours, so that a cooldown runs out; one trouble in each scene, two actors awake
  besides the courier. Jobs: two ticks of a watched job and of one without a
  timeout, two failures. Account: three half days, so that a day and a week pass
  and the month does not; two trades, one failing read, one reseed across ×2.5.
- `lab`: histories of three days that reprint one bar and lose one call; two runs;
  labels of all histories of three bars over eight bars that lie on, between and
  beyond the barriers; verdicts over at most four events of six kinds, so that 70 %
  leaves a test period of one or two.
- `entry`: three assets that share currencies, three plans (strict, loose, and one
  its validation refuses), two orders, one turn of the world (the pause, the
  market, the news, the rates, the settings, a midnight, a cooldown) and one time that
  reads fail (of the pause, of kill switch and cooldown, of the journal, of the
  calendar: `Outages`), each anywhere in the other's behaviour; two scans, two
  cards, the feed of the pair down at first, one move of the market or turn of a
  feed; snapshots on both sides of every threshold.

*Fairness.* In `LimitExpand`, `FairSpec` lets time pass, keeps the monitor running
(the scheduler starts it every minute, in a thread of its own), and lets every
cycle, press or save that has begun go on: `asyncio` resumes a ready coroutine and
the pool runs its threads. No new cycle of the guard, no decision of the owner, no
save and no fault is ever assumed. In `Alerts` the courier's coroutine goes on and
is started again (`CourierStep`; the scheduler runs it every minute); in `Jobs` time
passes and `wait_for` fires at its limit (`Passing`), no job is assumed to finish; in
`Study` the worker thread runs (`JobStep`) and the process boots after it was killed
(`Boot`: the platform restarts it). The other modules have safety properties only.

*Mutants.* Every property of a passing run has a definition in the same module
that changes a mapped definition the way a bug would, marked by a comment in
parentheses; several are the code as it was before a fix the source dates
(`OpenAssetsSwallowed`, `PatchUnbanked`, `SeededFromJournal`, `SlicesToNothing`).

## 4. Where code and words part

Three violation runs, each with a behaviour that contradicts a quoted line:

- `asked`: `position_guard.py:1086` promises never to close without asking; the
  asker evaluates the breach again, may find none, files nothing, and the guard
  goes on to close.
- `blind`: `database.py:163` wants safety gates to tell *no rows* from *read failed*;
  `portfolio_monitor.py:84` reads the closed trades with the swallowing `select`, so
  a failed read drops the profits, writes a phantom equity and pauses the account.
- `ruin`: `execution.py:794` says snapshots above 3x the current capital are
  ignored; the code compares with the newest equity, so an account that lost more
  than two thirds of its peak forgets the peak and reads no drawdown.

Others, met while modelling. The models follow the code; the properties are stated
so that they hold of it.

*Limits and account.* `_approve` says limits only ever move up, but writes a
snapshot and can lower one saved, or widened by another settler, in between
(`limit_expand.py:814`; the later request may then quote from the higher one, so a
single write can raise a limit by more than one step, and what holds is
`StepPerQuestion`); at most one
silent rescue a day counts from the request, not the rescue (`:470`); a rejection
leaves the limits untouched, unless a settlement picked the row before it
(`:1055`). The monitor card "can never disagree with the worker's pause verdict"
(`execution.py` near 3051), but the worker's month is every closed row it reads
(`portfolio_monitor.py:302`) and the card's is 30 days: an old loss re-pauses for
ever. The engine breaches at the limit, the kill switch strictly above it. The
day's row is overwritten each minute, so an intraday peak is lost; a withdrawal
that leaves more than a third reads as drawdown.

*Orders and cards.* `build_shared_cycle_state` "returns None when ANY read fails"
(`execution.py:1684`), but it reads through the `select` that swallows: a failed read is
an empty journal, and quota and cap are overdrawn; the reads per signal (`:1778`)
swallow in the same way, and `get_pause` answers "not paused" when its read fails
(`:221`). `QuotaInCycle` and `StopsAtOnce` leave out what an order was not told; what
then still holds is that a cycle does not overdraw by its own orders. "A stale analytic
snapshot only ever blocks" (`:1654`), but news that turns to danger, or a position an
approval opens, after the snapshot does not block. A pause written by the monitor's
thread between the gates and the broker lets one more order through, so `StopsAtOnce`
says at most one. An order sized while the feed of rates was down is held to its budget
in the nominal worth of a point only, and its loss in dollars may be larger; the fill is
half a spread beyond the entry that was sized (`:2542`); `WithinBudget` says both.
The auto trader's gate is called the last line before an order
but looks at positions read before the quote prefetch (`auto_trader.py:51`); a manual
close counts a slice twice when the guard took it meanwhile (`execution.py:376`).
The tier is applied twice: the scanner persists the result of `effective_sl_tp`
though `schemas.py:893` says stored rows carry the medium one. The heat gate sizes
with `size_position` even where an explicit volume is ordered; shared rows carry the
stored stop with the lots of the effective one; a cycle's open assets are not updated
after a fire. The comment near `execution.py:2358` says the effective stop is skipped
for an extended open; tier, band and floor still apply. Rounding up to the smallest
lot is compared after rounding to 0.01 (`:2155`). Overlapping scans, or one that could
not read the pending cards, leave twin cards.

*Strategy.* The MACD of a snapshot is the gap between the two EMAs, so the "two
independent confirmations" are the trend once more and it counts twice as evidence
(`CorroborationIsTrend` states it). A sell gets the breakout bonus of an upside
break, sell cards of gold are born dead under the breakout rule; RSI 0 counts as
unknown; coinciding EMAs read as a downtrend. The structural stop of gold is called
exempt from the clamp but `effective_sl_tp` clamps it. A fresh snapshot never carries
a news flag, so `news_state_changed` cannot fire at execution.

*Guard and smart exit.* R is measured against the trailed stop, so a winner can be
treated as left behind (`position_guard.py:1418` against `:1352`); the momentum
branch for overbought and oversold is unreachable; equal EMAs favour shorts. The
kill verdict "computed ONCE per cycle" (near `:922`) is asked again; a stop hit with an
unknown conversion rate raises after the close was journaled (`:143`, `:1531`).

*Quotes.* A cached daily price can pass the trusted fetch when another batch marks
the asset as spot during the wait; two batches that rotate the keys may skip a good
one; a daily rate can overwrite a fresher print; cross pairs have no candle
fallback though the comment says so; the per-asset timeout of 30 s is longer than
the total of 20 s; nothing remembers that a feed failed. What a batch did not finish
is marked as failed "instead of silently dropping" (`quotes.py:886`), but when the client
cannot be opened (`:893`) the assets are neither in the prices nor in the failures
(`Ask`; `NoneForgotten` speaks of batches that got to their tasks).

*Scheduler.* A job without a watchdog can stay in flight for ever while its skipped
ticks log `ok`; the routes that run a scan or a guard cycle by hand bypass the
in-flight set.

*Simulation.* `request_cancel` "returns False when it is not cancellable"
(`simulation.py:291`) but True from the last look at the flag (`:385`, `:800`) to
the `finally` (`:433`): such a run ends as done, with a verdict, and
`CancelHonoured` says of a cancel that every look after it heeds it. "Every choice
below is made on the TRAIN period only" (`:948`) is true of the gate and the cell of
one run; which round of a search is kept is decided by the mean of the test period
(`:776`; `BestRound` says which), and whether a proposal is made, and which kind,
depends on the test results too (`:1326`, `:1366`, `:1381`). Pending events count as
0 R in `_score` (`simulation.py:911` against the comment at `:535`); `bar_index` is
per asset, so the chronological split is none when histories differ in length;
pruning looks at excursions of the test period too; excursions use the high and the
low whatever the side (`triple_barrier.py:236`); an event is labelled again each
time, though the docstring says once; the spike check has no previous close for the
first bar of a fetch; a run is said never to raise (`:737`) and to read the full
series (`price_history.py:394`), and a failed write or a shorter window says
otherwise.

*Outside the models.* The portfolio engine's weights need not sum to 100 % after
rounding.

## 5. Proofs

Each theorem below holds for every value of the constants that satisfies the named
assumption of its module: any number of orders, cards, callers or positions, any
setting the assumption admits, any number of faults and restarts. The assumptions
say what the code's schema and callers guarantee and no more: types, that a
lot or a timeout is positive, that a batch is finite, that at least one plan and
one asset exist. TLC evaluates them in every run.

A property a run checks is seldom inductive. For each component the proofs state
the stronger invariant that is, show that `Init` gives it and every action keeps it
(one lemma or step per action), and draw the property from it.

### The expansion flow (`LimitExpandProofs`)

- `TypeCorrect`, `OwnerOnly` (`OnlyGrantedLimits`), `NoSilentUnpause`
  (`NoSilentResume`), `NoIsNo` (`RejectionHolds`), `Refines` (`Implements`);
- `OneAtATime` (`OneQuestion`), `StepByStep` (`StepPerQuestion`).

`TypeOK` is inductive, because the type of a job says that one that quotes, weighs
or writes has a row in hand. `OnlyGrantedLimits` is not: a settler writes a settings
row it read long before. `Sound` adds that every row in memory that may still be
written is `Backed` by the owner, and that a job on its way to write, or to lift
the pause, is there on a decision or on the opt-in. The history variables only grow
(`Grows`), so what backs a row keeps backing it. `NoIsNo` and `Refines` need `Filed`
besides: what is still true of a request's row that a process read before a wait.
The row a job rules on was inserted; the place it will insert into is free and no
other job's; nobody but the owner rejects, and who writes on the owner's word holds
a row that is not rejected. With it every step of the flow maps to a question of
`LimitPolicy` asked or closed, to limits that take chosen values, or to a stutter,
whichever of the two writes of a decision comes first.

Two questions can be open for a moment, when monitor and guard file one each.
`Attended` says that then a process is on its way to close one of the two: it has
inserted one of them and is about to read the queue again, or it is about to sweep.
What it reads again is still inside its window because it is at most a tick old,
and no row is younger than those after it (`Young`). That needs a window of at least
one tick (`LimitExpandAssumption`; the code clamps it to five minutes) and that no
call failed and no cycle was lost, which the property says. `StepByStep` follows a
limit along the way it is widened: quoted from a snapshot, kept in a job, stamped,
kept in a row, compared with another snapshot and written (`Modest`). Along all of
it the limit is within one Step per question of a limit the owner chose; a quote
that waits for its stamp is one Step ahead, and taking the stamp makes up for it.

### Trades (`TradeBookProofs`)

- `WellTyped` (`TypeOK`), `NeverReused` (`FreshTicket`);
- `AlwaysGuarded` (`Guarded`), `AlwaysJournalled` (`Journalled`), `AlwaysPriced`
  (`PricedByGuard`), `NeverStacked` (`NoStackedFire`), `CapKept` (`WithinCap`).

`TypeOK` is not inductive: `Inv` adds that what is left of an order and what is
banked of it fit its size, in the journal and in the book (otherwise a slice after a
restart could bank more than there was), that startup only walks rows that are still
open, and that an approval or a close in flight has a signal or a ticket in hand.
`FreshTicket` needs `Past`: once the process is up, the sequence is past every
ticket `Known` anywhere, also the one a manual close still holds in memory and will
log later.

The journal and the book find each other by ticket, and a ticket may be used again
after a startup that could not read. So `Guarded` and `Journalled` rest on what
makes a search by ticket find the right row: orders are `Numbered`; a position is
`Rooted` in the row startup restored it from, or in the newest row of its ticket; no
lot is lost (`Whole`); the row of a position is open and agrees with it (`Own`); no
other open row has its ticket (`Sole`); and the manual close whose rates are on
their way holds the row whose position it took out (`Covered`). Proving them also
showed what the first statements assumed without need: `Journalled` holds
whatever startup could read, as long as no insert and no update was lost, and
`PricedByGuard` whenever startup could read the open rows or both sources of the
ticket sequence. `Alone` carries one cycle: while nobody else places an order, what
was not open when the cycle looked is open now only because of the cycle, and then
it has left the batch.

### Scheduler, alerts and account (`JobsProofs`, `AlertsProofs`)

- `NeverBeside`, `EveryTick`, `TrueBeat`; for the bench `AlwaysCounted`
  (`TicksCounted`); `AlwaysHonest` (`RowsHonest`); `BreachAlwaysHeard`
  (`BreachHeard`), `AlwaysQuiet` (`Quiet`); `MeasuresAlwaysAgree` (`MeasuresAgree`).

The three results about jobs are inductive only together (`JobInv`): a tick is
counted where it began and where it ended, and only because a slot holds one tick is
the end of a tick the end of what its slot stands for. In the alerts every coroutine
waits between two pushes on what it read before. `Book` says what is still true
then: an alert has one carrier, a coroutine or its row, which only the courier takes
up (`Owned`); until it has rung, the carrier remembers all that was delivered
(`Told`); while nothing failed, what is still to be delivered has not rung
(`Fresh`). `Heeded` says that a device is charged with no more failures than it had,
whichever reading of its row is written last.

How long a breach goes unheard, and how soon an alert is repeated, rest on `Hearing`:
rows are in the order of their times (`Dated`); only the monitor and the keeper warn
about the account, under one type (`Commissioned`); and while a breach stands, some
word of it or some warning lies at most a window back, and the warnings since the last
word follow it within a window for each restart or failed call, and one more
(`Blocked`). The keeper waits an hour between two of its own and the window is shorter
than that (`AlertsAssumption`, half an hour in the table), so two warnings that close
have a restart between them. `Quiet` holds of the rows a cooldown can see: the guard's
reads back the newest rows of the kind, and an asset's row with that many others after
it is out of sight. The proof turned up that bound, and the property states it.

The account needs no more than its types, but the arithmetic of three readers that
do not take the same rows for a peak. Today's row is on the curve, so the kill
switch has an equity to compare with (`WrittenIs`); any row it counts is below the
peak of the card (`PeakAbove`); a drop from a higher peak to a lower equity is no
smaller in percent as long as the limit is at most 100 (`DropsGrow`); so the strict
comparison of the one implies the loose one of the other, and a book worth less is
deeper in drawdown. `AccountAssumption` asks for a capital above zero and a drawdown
limit of at most 100 %, as the schema does; the windows may nest in any way.

### The guard (`GuardProofs`)

- `StopsAlwaysKept` (`StopsKept`), `CycleAlwaysSteps` (`CycleSteps`);
- `ExitsAlwaysFair` (`ExitsFair`), `WorseAlwaysExits` (`WorseNeverHolds`),
  `CandlesAlwaysOnce` (`CandlesOnce`), `PricesAlwaysFresh` (`PricesFresh`),
  `NoneEverForgotten` (`NoneForgotten`).

That a position is sliced once rests on the flag in its row, which a restart reads
back, and that a cycle begun on a shut market moves nothing on its never getting
past the judging: `Kept` joins row, book, rung, slices and the place of the cycle.
The results about the smart exit are about its arithmetic: how a market and its
mirror image are scored, and that no factor rises when an input worsens, factor by
factor and then through the order of the rules. For the batches the invariant
(`CandleInv`, `SpotInv`) says of a batch in flight what will let its answer be
right: a batch of candles that still has an asset in the queue has all its slots
taken; a task that rotates the feed's keys alone has tried exactly the keys behind
the one it holds; a price in hand is no older than the batch allows. Alone means that no
other batch and no stray task of one turns the key index. The rounding of the score may
take a half either way (`HalvesUp` is any set), and still reverses no order
(`RoundsUpwards`).

### Orders and cards (`EntryProofs`)

- `OrdersAlwaysBounded` (`OrdersBounded`), `CardAlwaysAgrees` (`CardAgrees`),
  `CycleAlwaysBounded` (`CycleBounded`), `AlwaysGradedAlike` (`GradedAlike`),
  `MoreAlwaysMore` (`MoreIsMore`), `CardsAlwaysSound` (`CardsSound`).

`OrdersBounded` is about the arithmetic of the effective stop (tier, band, cap and
floor, each an integer division), of the lot that is rounded to it and of the half
spread of the fill; an order keeps the plan and the worth of a point it was sized by,
so the bound survives a change of settings. The gates need `GateInv`: an order past its
gates is `Ready` (within its bounds, and what its gates read has not changed, since the
loop ran nothing else), the one read of a cycle lags behind the journal by what the
desk did since and counts the cycle's own orders even where it failed (`Overseen`), and
once an order came after a pause no other is past its gates that read it (`LastOne`).
`GradedAlike` and `MoreIsMore` compare two snapshots
term by term; the confidence is a rounded quotient of votes, and `NearestGrows` shows
that half-even rounding never reverses an order. `CardInv` carries the cards: two
waiting cards of an asset are apart from each other by what the second one's scan
saw, a scan passes over every asset whose card it saw waiting, also while it waits for
a spot price, and an order is
faithful to its card although queue, batch and page may have held it for long.

### Simulation (`LabProofs`)

- `RunsAlwaysHonest` (`RunsHonest`), `PastNeverChanges` (`ImmutablePast`);
- `LabelsAlwaysSound` (`LabelsSound`), `NeverLooksAhead` (`NoLookahead`);
- `RoundsAlwaysFair` (`RoundsFair`).

`StudyInv` says of a run that one job works, on the newest row; that only this row,
or one that lost a write, can still read as live after startup; that an accepted
cancel is seen by the job's next look (`Flagged`); that the row a job has settled on and
not yet written obeys the cancels it could see (`Decided`); and that of every two rounds
of a search one improved, which is what makes the kept round the first of the best.
`StoreInv` says of the stored prices that nothing newer than the day of a sync is
stored while the sync runs, so the one bar it deletes, that of a day not over, is
the newest; a gap is filled only by days it lacks (`Completes`, by the least day at
which that could fail).

The labels rest on their operators. What decides a pair of barriers is the least bar
that reaches one, so a longer series decides it at the same bar (`LabelPersists`);
the mirror image of a bar reaches the mirrored barriers (`DecidedMirrored`); a
nearer target is reached no later (`DecidedNearer`). The invariant is only that bars
are bars (`BarsTyped`), and `LabelAssumption` asks of a bar that its open lies
between its low and its high. `VerdictInv` says that a verdict is what the analysis
of the events at hand concludes and that the grid is usable; `SameSample`,
`SameGate` and `SameWinner` show that gate and cell of a run are a function of the
first 70 % of its events, `SameProposal` that what it may propose around a cell that
held out, or as a fixed gate, is too, and `ProposalFair` that no proposal empties a
grid or a sample. The sums of `Verdict` and of `Account` are folds over a set of
indices; `FiniteLemmas` shows that such a fold has a value, and that equal functions
have equal sums.

### Only model-checked

- Liveness is beyond the prover: `EveryRequestSettles`, `Settled`, `SlotReturned`,
  `SlotFreed`.

Every other property of a passing run is stated by a theorem.

## 6. Not modelled, and why

The meta filter is a logistic regression on real-valued features, trained offline,
that fails open. The goal and portfolio engines are closed formulas behind two
pages that nothing reads back. AI thesis and providers: a language model whose text
decides nothing. LINE webhook and chat are parsers in front of operations modelled
here. The PIN gate is access control in front of the API. The calendar and news
workers are periodic I/O; what they store is an input of `EntryGates`. The frontend
is a user interface. Within modelled components: `close-all` and `close-group`
repeat the manual close row by row; the live re-anchor of an order moves entry and
stop together; the entry mode switch, the throttle of failure notices, the audit
rows, the CSV export, presets and the column-drop retry of the settings, the
indicators computed from candles, the back-tester of `schemas.py`, and failing
updates of `signals.approval` are left out; an order whose journal row fails is a step
of `TradeBook`, not of `EntryGates`. `PROJECT.json` lists each component's
status with its note, and the hazards no property covers with the reason.

## 7. Plan

1. `close-all` beside the guard, and the presets of the settings.
2. The read of `kill_expand_requests` that fails and answers no request, in
   `LimitExpand`, with the excuse `OneQuestion` and `EveryRequestSettles` then need.
3. The manual close pricing a trade with the volume it read before two awaits, as a
   step of its own in `TradeBook`.
