# A verification project for tvbot

tvbot (`src/`, Go, one process and one PostgreSQL database) takes TradingView
alerts over a webhook, judges them with risk rules and optionally with a language
model, and trades them on Binance futures.  This directory holds TLA+ models of
that program, the TLC runs that check them on small instances, and TLAPS proofs of
what matters most for every instance.

- [1. The system](#1-the-system): parts, state, interactions, what is hard
- [2. The modules](#2-the-modules): what is modelled, and how it corresponds to the code
- [3. The runs](#3-the-runs): questions, bounds, results, fairness
- [4. The proofs](#4-the-proofs): what holds for all constants, and why
- [5. Where the code and its documents disagree](#5-where-the-code-and-its-documents-disagree)
- [6. What is not modelled](#6-what-is-not-modelled)
- [7. Plan](#7-plan)

`PROJECT.json` lists the components, runs, mutants (a plausible bug per property,
which the run then finds), the source lines of every definition, the findings, the
hazards and the theorems.

## 1. The system

### 1.1 Components, their state and their operations

| Component | State | Operations |
|---|---|---|
| Webhook handler (`web/webhook/handler.go`) | none | `Post`: Receive, then Submit to the dispatcher, answer at once |
| Ingest service (`application/ingest`) | none of its own | `Receive` (idempotency, INSERT `pending`), `Process` / `processSignal` (load context, armed flag, risk, scorer, trade, `UpdateDecision`) |
| Idempotency (`idempotency`) | LRU of 10000 keys, in memory | `SeenOrAdd`, then `ExistsByKey` on the table |
| Dispatcher (`application/ingest/dispatcher.go`) | one buffered channel and worker per strategy | `Submit` (non-blocking, synchronous fallback when full), `run`, `Shutdown` (drain) |
| Signals table | `signals.decision`, unique (strategy, timestamp) | Insert ON CONFLICT DO NOTHING, UpdateDecision, ListPendingForRecovery, MarkAbandoned |
| Signal recovery (`application/reconcile/signal_recovery.go`) | none | at boot: young `pending` rows are re-submitted, old ones abandoned |
| Risk pipeline (`risk`, `ingest/risk_inputs.go`) | `settings`, `system_state`, `strategies` rows it reads | `loadAll`, `MaxPosition`, `TotalLeverage`, `DailyLossBreaker` |
| System state (`store/system_state_repo.go`) | armed, daily_pnl_usdc / date, breaker | Arm, Disarm, AddDailyPnL, ResetBreaker |
| Trade service (`application/trade/service.go`) | `virtual_positions`, `orders`, `position_history` | `OpenPosition` (row, entry order, protective legs, one transaction), `ClosePosition` (cancel legs, exit order, transaction) |
| Exit orchestrator (`application/trade/exit_orchestrator.go`) | the same rows | `ExitNow`, `TightenSL`, `TakePartial` for the exit agent |
| Reconciler (`application/reconcile/reconciler.go`) | none | every 30 s: pending orders against the exchange; a filled leg closes its position |
| Recovery (`application/reconcile/startup_recovery.go`) | none | at boot (disarms first) and every 2 min: active positions against the exchange's net positions; ghosts are reported |
| Binance adapter (`infrastructure/binance`) | the account | Place, Cancel, GetOrder, GetPositionRisk; Algo or regular endpoint by client id prefix |
| Scorer and its hook (`agent/scorer`, `ingest/agent_hook.go`) | window of the health tracker, times of the last alerts | score a signal, fail open or closed, dry run, alert |
| Exit agent (`agent/exit`) | `agent_exit_decisions`, the semaphore of a pass | `RunOnce`: eligible positions, cooldown, one answer of the LLM each, row, execution, status |
| Critique agent (`agent/critique`) | timer, `lastRun`, manual queue, critiques and patterns | daily and manual runs, pinning |
| Evaluation replay (`eval/worker.go`, `cmd/agent-eval`) | `replay_runs`, `replay_run_rows`, counters of a run | form, sweep at boot, claim, goroutines per case, report; agent-eval is a second process |
| Outcome backfillers (`eval/outcome`) | labels of evaluations and exit decisions | `RunOnce` of both, oldest pending rows first |
| SSE broker (`eval/broker.go`) | map of subscribers, their channels | Subscribe, Unsubscribe, Publish, dropSub |
| News worker (`agent/news`) | `news_snapshots` | fetch, classify, store, publish, notify |
| Prompt context (`agent/calendar`, `perpmetrics`, `market`, `macrocontext`) | events, snapshots, candle cache | two pollers, the load for a prompt, `GetContext` |
| Settings (`store/settings_repo.go`, `system_handler.go`, `settings_handler.go`) | the row of settings | Bootstrap, forms, enabling of workers |
| Strategies page (`strategies_handler.go`) | `strategies` | create, save, toggle, archive, delete |
| Other admin pages, notifications, configuration, tools | none that matters | |

### 1.2 How they interact

```
 TradingView -> handler -Receive-> signals (pending) -Submit-> channel -> worker
                                        ^                (full: runs in the handler)
                      SignalRecovery ---+ (boot)                 |
                                                          processSignal
       strategies, limits, daily PnL, armed flag  --reads-->     |
                                                     OpenPosition / ClosePosition
   Reconciler (30 s), Recovery (boot, 2 min) ----+              |
   exit agent: ExitNow --------------------------+--> rows <----+----> Binance
```

Everything runs in one process; goroutines share the database rows, the LRU and the
channels, and none of them takes a lock on a position.  PostgreSQL gives atomic
statements and transactions, the partial unique index on active positions, and
nothing else.

### 1.3 What is hard here

- A position lives in two places, rows and exchange, that no transaction spans.  An
  order may be executed and its answer lost; the process may die between an exit and
  the row that records it.
- Four paths close a position (`ClosePosition`, `ExitNow`, Reconciler, heartbeat),
  each reads the row first and acts on what it read.
- Two goroutines may process signals of one strategy (worker and fallback), and
  strategies may share a symbol, hence one net position.
- A key is remembered in memory before its row exists; a row is `pending` while
  nobody may be working on it; a restart re-submits.
- The risk picture is read statement by statement and is old when the order goes out.
- The exit agent acts on a snapshot of a position through an LLM that takes seconds,
  and what it replaces on the exchange (a stop) is replaced in no transaction.
- Batch workers share their tables with forms, with a second process and with their own
  earlier life; counters are added to by one statement and written by another.
- A channel may be closed from two sides, and a send to a closed one panics; a handler's
  write has no timeout.
- Nearly every form reads, checks and writes in separate statements.

### 1.4 What makes each component correct

| Component | Property |
|---|---|
| Trade service, exit orchestrator, reconcilers | exposure always has an active row (`ExposureHasOwner`); an open position keeps a live leg (`Protected`); one goroutine books a PnL once (`BookedBySingleWorker`); rows catch up with the exchange (`Reconciled`) or an alert is raised (`AnomalyFlagged`) |
| Ingest, dispatcher, idempotency, recovery | a signal is worked on by one goroutine at a time (`SingleFlight`), is never forgotten (`NothingForgotten`), is decided (`PendingDecided`), in order (`StrictFIFO`), and never traded unless the operator armed this life (`ArmedWhenTraded`); the table keeps a simple promise (`LedgerKept`) |
| Risk, system state, forms | an opening keeps the leverage it was checked for (`LeverageCapped`), exits get through (`ExitAllowed`), the daily sum is right (`DailyTotal`) |
| Exit agent | what it did is on record (`Recorded`), nothing is ordered twice or unrecorded, and a 'success' was accepted by the exchange (`OrderedOnce`), decisions keep their cooldown (`DecisionsApart`), a pass ends (`PassEnds`) |
| Replay, broker, backfillers, critique | a finished run accounts for every case (`DoneAddsUp`) and none is paid twice (`NeverRequeued`); who is registered can be sent to and no channel is closed twice (`RegisteredOpen`), who was dropped goes unless its client stalls (`DroppedEnds`); outcomes are judged not early, and in the end (unless rows that always fail fill the batch) (`JudgedInTime`, `OutcomesSettle`); the critique runs daily and not twice in its window (`EveryDay`, `SpacedRuns`) |
| News, context, scoring | what is told is on record (`NotifiedStored`), what a prompt says is no older than its parts and the signal's deadline allow (`ContextFresh`), alerts are for cause and spaced (`AlertSpaced`) |
| Settings, strategies | nothing that needs the LLM is on without a key (`KeyedWhenOn`); an archived strategy is out of the market (`ArchivedIdle`) |

## 2. The modules

| Module | Models |
|---|---|
| `Trading` | trade service, `ExitNow`, Reconciler, Recovery heartbeat, the exchange |
| `Ingest` | webhook handler, Receive/Process, LRU, dispatcher, signal recovery, boot, shutdown, crash |
| `SignalLedger` | abstract: what the signals table promises; `Ingest` is shown to refine it |
| `Risk` | loadAll, the risk rules, daily PnL, strategy and limit forms |
| `ExitAgent` | a pass of the exit agent, `TightenSL`, `TakePartial`, `ExitNow` |
| `Replay` | replay runs: form, worker, agent-eval, the report |
| `Feed` | SSE broker and the handlers of its stream |
| `Outcome` | the two outcome backfillers |
| `Critique` | critique worker, its form, automatic and manual pinning |
| `News` | the news worker |
| `Context` | calendar and perpetual pollers, candle cache, what a prompt reads |
| `Scoring` | agent hook, scorer, health tracker, alerts, verdict |
| `Settings` | the settings row: Bootstrap and the forms that enable workers |
| `Strategies` | the strategies page against signals |
| `MCTrading`, `MCTradingSafety`, `MCIngest`, `MCRisk`, `MCExitAgent` | values of the constants for TLC |
| `MCEvaluation` | `Replay`, `Feed`, `Outcome`, `Critique` in one run |
| `MCAgents` | `News`, `Context`, `Scoring`, `Settings`, `Strategies` in one run |
| `Trading_proofs`, `TradingSafety_proofs` | theorems about `Trading` and `MCTradingSafety` |
| `Ingest_proofs`, `IngestFlight_proofs` | theorems about `Ingest`; the second has its refinement of `SignalLedger` |
| `Risk_proofs`, `ExitAgent_proofs` | theorems about `Risk`, `ExitAgent` |
| `Agents_proofs` | theorems about `News`, `Context`, `Scoring`, `Settings`, `Strategies` and their run |
| `Evaluation_proofs` | theorems about `Replay`, `Feed`, `Outcome`, `Critique` and their run |

`Ingest` and `Risk` treat a call of the trade service as one step that succeeds or
fails; `Trading` shows that step from inside and receives its signals from nowhere.
`Ingest` leaves the verdict of rules and scorer open; `Risk` and `Scoring` show where it
comes from.  `Trading` has `ExitNow` among the paths that close; `ExitAgent` has what
leads to it.  The modules of `MCEvaluation` and `MCAgents` share no state in the code
either, so a behaviour of these two chooses one module at the start (`which`) and stays
with it; that saves runs and loses nothing but the product of independent parts.

### 2.1 Trading

State: `st`, `owner`, `side`, `ord`, `hist`, `booked` are the rows of
`virtual_positions`, `orders`, `position_history` and the bookings into
`daily_pnl_usdc`; `xord` and `pos` are the exchange's orders and net positions;
`proc`, `rec` and `hb` are the program counters of the trade goroutines, of one
Reconciler tick and of one heartbeat pass.  A row "opening" belongs to a transaction
that has not committed, "void" to one that was rolled back.

One action is one network call with the statement that records its answer, or one
statement or transaction.  OpenPosition is `Insert`, `EntryFilled` (or its failure or
lost answer), one step per leg, `OpenCommits`; ClosePosition is the read of the row,
one `Cancel` per leg, the exit order, the closing transaction; a failed call
(`Fault`) takes the code's error path.  The exchange may trigger any live leg at any
time, and an operator may close by hand.  Every VP has quantity one, prices are left
out, a leg fills whole.

`Routed` is the set of legs that `Cancel` and `GetOrder` reach.  The trade service
names legs with prefixes (`s-`, `b-`, `t-`) the adapter does not know, so as built
`Routed = {}`: a cancelled leg stays live and a filled one is never seen by the
Reconciler.  `Routed = Legs` is an adapter that keeps its contract.  The value
`{"stop"}` puts both kinds into one run.

### 2.2 Ingest and SignalLedger

State: `decision` and `rows` (the table, in order of arrival), `armed`, `lru`,
`queue`, `run` (one program counter per handler, per worker and for main), `boot`
(disarm, list, submit, run, drain).  `life` is history: what has happened since the
process started.  Deliveries of one signal are repeated and concurrent; the LRU
evicts; a call may fail; the process may crash, or be stopped, and start again.  The
risk rules and the scorer are a nondeterministic verdict of `Judge`.

`SignalLedger` has two variables, the decision per signal and what was handed to the
trade service in this life, and five moves.  `LedgerKept` states that every
behaviour of `Ingest` is one of the ledger's, with `tried <- life.tried`.

### 2.3 Risk

State: `rows` (strategies), `held` (notional of a strategy's active position), `state`
(daily PnL and its date), `limits`, `day`, and per goroutine the picture it has taken so
far.  Begin, ReadPosition, ReadState and ReadSum are loadAll and the two checks behind it;
CheckLeverage and CheckLoss are the rules, each with the settings as they are then;
CloseFills and CloseBooks are separate because ClosePosition takes `now` before its
transaction waits for the row of `system_state`.  `Save`, `SetArchived`, `SaveRisk` and
`ResetBreaker` are the statements of the admin pages. Money is counted in units (the open
notional is the number of units held), and the equity, a constant of the configuration, is
folded into the limit.  A position costs what its entry order is filled at, not what the
signal's price said: `Slip` bounds the units it costs more.  `past` is history.

### 2.4 ExitAgent

State: `cfg` (the settings row), `pass` (RunOnce: the configuration it read, positions
left to scan), `job` (a goroutine per position: its snapshot and its decision), `rows`
(`agent_exit_decisions`), `st`, `qty` and `stops` (the row's status and the exchange).
The scan asks for age and cooldown, takes a slot of the semaphore, and starts the
goroutine; that one asks the LLM, which may answer anything, applies the constraints,
writes the row, executes in active mode and writes the status.  `TightenSL` cancels and
places, `TakePartial` sells a part and leaves the row as it was.  A market order that the
exchange accepts may be filled in any part, or expire: the orchestrator does not look at
the status it gets back, and neither does the worker, so `Place` succeeds in each case.
`sent` counts the orders accepted per decision.  Any call may fail, an order's answer may
be lost, the process may crash, the market may hit a stop.

### 2.5 Replay, Feed, Outcome, Critique

`Replay`: `run` and `saved` are the tables, `wk` the worker, `gr` its goroutines with the
counter values each has read and not yet written, `ndone` and `nfailed` the atomic
counters, `cli` the second process.  Claim, load, start, call, count, write progress and
the final write are separate; a restart may come between any two.

`Feed`: `subs` is the broker's map, `ch` the channels, `pub` a Publish with its copy of
the map.  A Publish that reaches a closed channel panics and is over for the subscribers
it had not served.  `Close` counts every close, also of a channel that is closed (which
Go would answer with a panic).  A handler writes what it received; `client` says whether
the other end reads, stalls or has left.  The server sets no write timeout
(`web/server.go:40-44`), so a handler whose client stalls is held by its write for as long
as the client stalls and learns neither of a closed channel nor of anything else.

`Outcome`: a row has the time it was inserted, by which pending rows are selected and
ordered, and the time of its signal, from which horizon and staleness count and which
TradingView wrote: it may be earlier or later.  It also keeps what its label was computed
from and the time of that price; trades of a signal end at any time or never.

`Critique`: time is in steps of five minutes; `cw` is the worker with its timer and the
settings it saw last, `queue` the manual requests, `bulk` a BulkPin half way.  A worker
that cannot read its settings at the start is gone for good (`Boot`).

### 2.6 News, Context, Scoring

`News`: one worker, so the only interleaving is with the settings; what matters is what
failed.  A run carries its Classification from step to step, and `told` is history.

`Context`: `events` and `perp` are what the pollers have stored, `cache` is the provider's,
`mkt` and `load` are the two goroutines of each score.  The mutex of the cache is held
for the look-up and for the write and not for the fetch between them.  A load reads the
lookback of perpetual data under the signal's context alone, takes the default of 30
minutes when that fails, and compares whole minutes (`MinutesBetween` cuts the fraction
off).  Time passes at every request and statement, also while the four goroutines of
`assembleInput` are waited for; only `processTimeout` bounds a signal's, and nothing the
poller's requests.

`Scoring`: `sg` is a goroutine per signal, `entries` the tracker's window, `lastSent`
and `alerts` the throttles and, as history, what was sent.

### 2.7 Settings and Strategies

Both are forms that read, check and write in statements of their own, several at a time.
`Settings` keeps for a text column whether it is NULL, from the configuration or from a
form; `Strategies` keeps one value for the columns nobody here looks at.  `late` and
`blind` in `Strategies` are history: a position that appeared amid an archiving, and an
archiving whose count had failed (the handler drops the error and takes 0).

## 3. The runs

All bounds are constants of the modules (`NumVPs`, `MaxFaults`, `MaxDeliveries`,
`QueueCap`, `LruSize`, `Slip`, `MaxOpens`, `MaxEdits`, `LastDay`, `MaxTime`, `MaxRows`, `NumRuns`,
`ReplayFaults`, `Stalling`, `MaxEvents`, `OutcomeTime`, `OutcomeFaults`, `CritTime`, `MaxClicks`,
`MaxCritiques`, `CritFaults`, `MaxNews`, `MaxSaves`, `NewsFaults`, `ContextTime`,
`ContextFaults`, `ScoreTime`, `ScoreFaults`, `MaxForms`, `MaxBoots`, `MaxSignals`,
`MaxPosts`).

| Run | Instance | Shows |
|---|---|---|
| `trading_safety` | 1 strategy, 2 VPs, `Routed` as built; 1 goroutine and 2 faults, or 2 goroutines and none (`overlap`) | `TypeOK`, `ExposureHasOwner`, `Protected`, `BookedBySingleWorker` |
| `trading_live` | 1 VP, the exit agent, 1 fault, one leg reachable, fairness | `Reconciled`, `AnomalyFlagged`, `ExposureHasOwner` |
| `ingest_pass` | 2 signals, 2 handlers, channel and LRU of one; two of redeliveries, faults and restarts (`Bounded`); fairness | `IngestTypeOK`, `SingleFlight`, `NothingForgotten`, `ArmedWhenTraded`, `StrictFIFO`, `LedgerKept`, `PendingDecided` |
| `risk_pass` | 2 strategies and goroutines, 4 forms, 2 limits, 2 openings that may each cost a unit more, 1 edit, 1 midnight; both strategies start with one form (`Alike`) | `RiskTypeOK`, `ExitAllowed`, `DailyTotal`, `LeverageCapped` |
| `exit_pass` | a long and a short, 2 settings rows (active with a concurrency of 0; shadow with 2), 1 fault or crash, fairness | `TypeOK`, `Recorded`, `OrderedOnce`, `DecisionsApart`, `PassEnds` |
| `evaluation_pass` | 2 runs (one of agent-eval), 2 cases; 2 streams (one whose client may stall or leave), 2 publishers, 3 events; 2 evaluations and 2 exit decisions, a batch of one, the price of one of each never to be had; 1 critique and 2 clicks; 1 fault each; fairness | `EvalTypeOK`, `DoneAddsUp`, `NeverRequeued`, `RegisteredOpen`, `DroppedEnds`, `JudgedInTime`, `OutcomesSettle`, `EveryDay`, `SpacedRuns` |
| `agents_pass` | 2 news runs; 1 symbol beside BTC, 1 event, two minutes and a half of two steps each; 2 signals scored at once; 2 admins, 5 forms, 1 boot; 1 strategy, 2 requests at once, 2 signals | `AgentsTypeOK`, `NotifiedStored`, `ContextFresh`, `AlertSpaced`, `KeyedWhenOn`, `ArchivedIdle` |
| `trading_booked`, `trading_cancel`, `ingest_duplicate`, `exit_tighten`, `news_failure` | as small as shows it | a counterexample each, see section 5 |

**Why the bounds suffice for what they are meant to show.**  Two VPs of one strategy
are a close followed by a reopening, so legs of the first survive into the second (the
first is a long one: the other behaviours are mirror images); two
faults are a failed or lost call plus a crash or a second failure in its recovery.
Channel and LRU of one are full, or evict, with the second signal.  A delivery and one
redelivery are all it takes to race with oneself.  Two openings of different size are
the least that reaches the leverage limit; one edit may come at any point of a
goroutine's picture; `Large`, `Levered` and `Broken` are a form that all rules accept,
one that MaxPosition refuses and one that strategy.New rejects.  `LastDay = 1` has the
days before and after one midnight; `Risk_proofs` covers any number of them.
`Slip = 1` lets a fill cost more than was
checked.  `risk_pass` uses the symmetry that swaps the two strategies together with their
goroutines, `agents_pass` that of the signals; no liveness is checked under either.

In `exit_pass` the concurrency of 0 in the settings is the one that could block the
semaphore for ever, two positions are the least that fill a pass, two rows the least that
a cooldown separates, and `Lot = 2` makes a partial close leave something: five tenths are
a lot, three tenths an order the exchange refuses.  In active mode the raised concurrency
of one makes the goroutines of a pass take turns; that two positions' orders may go out
side by side is covered by the proofs, which have any concurrency.  In `evaluation_pass`
two concurrent cases can overwrite each other's progress; a channel of one slot, three
events and a limit of two drops remove a slow subscriber while another Publish holds a
copy of the map; one client stalls, resumes and leaves at any time; a batch of one is full
of a row that cannot be judged (`Delisted` has no price) while the next one waits, for an
evaluation as well as for an exit decision; `CritTime` is two days and two more steps, so
that a daily run is due twice.  In `agents_pass` two signals are the least that can alert
twice; a `TTL` of one and a fetch that takes one step let an old answer of a scoring or
the poller overwrite a newer one; with a minute of two steps and a lookback of one minute,
data three steps old is shown and data four steps old is not; `ContextTime` reaches what a
wrong comparison would let through, and the poller ticks on whole minutes
(`TicksOnMinutes`; the proof has it tick at any time); five forms and one boot suffice for
two admins to enter a key, ask for every worker and be cut off half way; the key `"blank"`
is one that EnableAgentScorer rejects and the other paths accept.

**Fairness.**  `FairSpec` and `IngestFairness` assume weak fairness of every goroutine
that has begun: each network call and statement has a deadline
(`processTimeout`, the HTTP client's timeout, the contexts of the tickers), so it
returns or fails, and the code after it runs.  The tickers of Reconciler and Recovery
keep firing and a worker receives from its channel.  A signal's arrival, a trigger, the
operator and a restart are not fair: nothing makes them happen.  Weak fairness is
enough everywhere, since a step of a goroutine that is enabled stays so until it is
taken.  Faults are bounded, so "sooner or later" means once they cease.
The `Fairness` of `ExitAgent` is that of the pass and of each of its goroutines, for the
same reason, and not of the settings, the market or the next pass.  `EvalFairness` is
that of a stream's handler and of a Publish that has begun, and, for `OutcomesSettle`, of
the clock and of the backfillers, which a ticker wakes.  A handler in a write to a client
that stalls has no step that fairness could ask for, since no timeout ends the write;
nothing is assumed of the client, of the number of events, or of a trade ending.

**Reading the properties.**  `ExposureHasOwner` and `AnomalyFlagged` except what
`OpenPosition` leaves behind when it fails after its entry order was executed: the rolled
back row is gone and the exposure is an orphan that only an alert reports. `Protected`
holds as built only because a cancel never reaches a leg (`Routed = {}`); with an adapter
that cancels, an exit that fails after the cancels leaves the position without a
leg.  `BookedBySingleWorker` is about the worker of each strategy (`WorkerOf`) while no
fallback runs beside it; two goroutines and an orphan on the symbol can book twice,
because `MarkClosed` does not look at the status.  `StrictFIFO` speaks of signals that
went through the channel: the synchronous fallback overtakes those waiting in
it.  `LeverageCapped` bounds an opening by the sum it was checked on: two strategies that
read it at the same time may exceed the limit together.  `DecisionsApart` excepts a
decision whose cooldown could not be read, since the worker then goes on.  `OrderedOnce`
takes 'success' for what the code means by it, an order the exchange accepted: whether it
was filled nobody asks (`SuccessFilled` in section 5). `DroppedEnds` speaks of connections
whose client does not stall for ever. `OutcomesSettle` excepts what `Starved` names: an
exit decision whose own requests always fail, and one behind as many such decisions, no
younger, as a batch takes.  The worker passes over a failed request before it looks at the
age, so these rows keep their place.  `NotifiedStored` lets a failed run be told without a
row. `ArchivedIdle` excepts a position inserted amid or after an archiving and one that
could not be counted: the code does nothing about either.  `ArchivedIdle` watches the
archived column only: that a toggle overwrites the other columns of a concurrent Save is
accepted. `DailyTotal` is about the day the sum is dated; a sum of yesterday that is read
before anything is booked today, and a booking of yesterday that comes late, are outside
it. `LeverageCapped` allows the opening its own slippage: the rule checks quantity times
the signal's price, and the position counts at its fill price ever after. `ContextFresh`
bounds perpetual data by less than a minute more than the lookback it was read under, and
that is the default of 30 minutes, whatever is configured, when the settings cannot be
read.  The candles it bounds by the cache's life and by what their own request took; a
request of the poller has no timeout of its own, so its answer may be old when it is
cached.  To each comes `processTimeout`, since `g.Wait` waits for all four goroutines. The
regime and the news parts are left out because the code puts no bound on their age.

The runs of `Trading`, `Ingest` and `Risk` check for deadlock: when deliveries, openings
and edits have run out, tickers, restarts or signals that are refused are still there.
In `exit_pass`, `evaluation_pass`, `agents_pass` and `news_failure` clocks, requests and
events are bounded and nothing goes on after them, so deadlock is not checked; that a
pass, a stream and a row come to their end is stated by `PassEnds`, `DroppedEnds` and
`OutcomesSettle` instead.

## 4. The proofs

Each theorem is for all values of the constants under the named assumptions of the
module (which TLC evaluates on every run).

| Theorem | Says | Inductive invariant |
|---|---|---|
| `Trading_proofs!TypeCorrect` | `Spec => []TypeOK` | `TypeOK`, inductive by itself: it ties each program counter to what the goroutine holds |
| `TradingSafety_proofs!ExposureOwned` | `OneStrategyPerSymbol => (Spec => []ExposureHasOwner)` | `IInv` |
| `TradingSafety_proofs!LegsProtect` | the same for `[]Protected`, for `Routed = RoutedAsBuilt` | `IInv /\ Guarded` |
| `TradingSafety_proofs!BookedOnce`, `BookedByWorkers` | `[]BookedAtMostOnce` if no two goroutines serve one strategy; `SafetySpec => []BookedBySingleWorker` | `BInv /\ OneHolds` |
| `Ingest_proofs!UnarmedNeverTrades` | `IngestSpec => []ArmedWhenTraded` | `ArmInv` |
| `IngestFlight_proofs!FlightsSingle`, `NeverForgotten` | `IngestSpec => []SingleFlight`, `[]NothingForgotten` | `FlightInv` |
| `IngestFlight_proofs!LedgerImplemented` | `IngestSpec => LedgerKept` | `FlightInv` |
| `IngestFlight_proofs!ProcessedInOrder` | `IngestSpec => []StrictFIFO` | `FlightInv /\ OrderInv` |
| `IngestFlight_proofs!IngestTyped` | `IngestSpec => []IngestTypeOK`, for finitely many signals | `FlightInv /\ OrderInv /\ CacheOK /\ Bounds` |
| `Risk_proofs!DailyTotalHolds` | `RiskSpec => []DailyTotal` | `DailyInv` |
| `Risk_proofs!RiskTyped`, `ExitsAllowed` | `RiskSpec => []RiskTypeOK`, `[]ExitAllowed` | `RulesInv` |
| `Risk_proofs!LeverageKept` | `RiskSpec => LeverageCapped`, for finitely many strategies | `RulesInv /\ LeverageInv` |
| `ExitAgent_proofs!ExitTyped` | `Spec => []TypeOK` | `Types /\ Handed` |
| `ExitAgent_proofs!ExitRecorded` | `Spec => []Recorded` | and `Recorded` itself |
| `ExitAgent_proofs!ExitOrderedOnce` | `Spec => []OrderedOnce` | and `Sent /\ Unsent /\ Told` |
| `ExitAgent_proofs!ExitDecisionsApart` | `Spec => []DecisionsApart` | and `AtSemaphore /\ AtWork /\ DecisionsApart` |
| `Agents_proofs!NewsToldStored` | `NewsSpec => []NotifiedStored` | `NewsInv` |
| `Agents_proofs!PromptFresh` | `ContextSpec => []ContextFresh` | `ContextInv` |
| `Agents_proofs!AlertsForCause` | `ScoringSpec => []AlertSpaced` | `ScoringInv` |
| `Agents_proofs!SettingsTyped`, `SettingsKeyed`, `KeyKept` | `SettingsSpec => []SettingsTypeOK`, `[]KeyedWhenOn`, and a stored key stays | `SettingsIInv` |
| `Agents_proofs!StrategiesTyped`, `ArchivedStaysIdle` | `StrategiesSpec => []StrategiesTypeOK`, `[]ArchivedIdle` | `StratInv` |
| `Agents_proofs!AgentsTyped`, `AgentsSafe` | types and safety of the composition `AgentsSpec` | `AgentsInv` |
| `Evaluation_proofs!ReplaysAddUp`, `ReplaysOnce` | `ReplaySpec => [](ReplayTypeOK /\ DoneAddsUp)`, `NeverRequeued` | `ReplayIInv` |
| `Evaluation_proofs!FeedRegisteredOpen`, `PanicOnlyGone`, `FeedTyped` | `FeedSpec => []RegisteredOpen`, whom a panic can be about, `[]FeedTypeOK` | `FeedIInv /\ DropsCounted /\ ClientsTyped` |
| `Evaluation_proofs!OutcomesInTime` | `OutcomeSpec => [](OutcomeTypeOK /\ JudgedInTime)` | `OutcomeIInv` |
| `Evaluation_proofs!CritiqueEveryDay`, `CritiqueRunsApart`, `CritiqueTyped` | `CritSpec => []EveryDay`, `SpacedRuns`, `[]CritTypeOK` | `TimesInv /\ PatternsInv` |
| `Evaluation_proofs!EvalTyped`, `EvalSafe` | types and safety of the composition `EvalSpec` | `EvalInv` |

**ExposureOwned.**  Assumes that no two strategies share a symbol (with sharing, two VPs
can be flat together and be closed for it: `SharedSymbolIsolated` in section 5).  The
heart is `PosMatches`: without an orphan the net position of a symbol is zero or that of
its one active VP, and `ClosingIsFlat`: whoever is about to mark an active VP closed (a
transaction after a filled exit, a Reconciler or heartbeat that decided to, a filled leg)
does so on a flat symbol.  `OneActive` (the unique index), `KnowsVP`, `RecKnows` and
`HbKnows` (what a goroutine may rely on about the VP it works on), `OneOpener` and
`OrdersHaveRows` are what makes these two inductive.  The steps are first sorted by their
*effect* on rows and exposure (`Effect`: none, a symbol is flattened, an opening moves, a
row is voided or closed, a crash), and each part is preserved per effect, not per action.

**LegsProtect.**  `Guarded` adds to `IInv` that as long as the exposure of an active VP
stands, so do its legs: all of them if the row is open, those placed so far if it is being
opened.  A leg goes away when it fills, and then the symbol is flat; or when the exchange
expires it, which it does of a reduce-only order only when there is nothing to reduce; or
when it is cancelled, and `Routed = RoutedAsBuilt` says that a cancel is sent elsewhere.
The assumption is what the code is, and the theorem is not true without it: see
`trading_cancel`.

**BookedOnce.**  `BInv`: who holds a VP in the transaction that books it holds one that has
not been booked, and a booked row is closed for good (`RowsGoOn`).  `OneHolds` carries it
from one close to the next, and is where the assumption enters, since the transaction does
not look at the row's status.  Reconciler, heartbeat and `ExitNow` close rows and never
book, so they need no assumption.  `BookedByWorkers` is this theorem for `SafetySpec`,
where a strategy has several goroutines and in one of the two scenarios its worker alone
runs.

**UnarmedNeverTrades.**  `ArmedWhenTraded` relates what was traded to what was
armable.  From the moment main has disarmed, an armed system has made every signal with
a live row armable (`LiveIsArmable`: Arm adds all of them, an INSERT under arms adds its
own); before that moment nobody in the new life works (`QuietBoot`); and what goroutines,
channels and main hold has a live row (`HeldIsLive`).  So a Judge that reads *armed*
finds its signal armable, and stays right until the trade (`TradeIsArmable`), a disarm
in between included.

**DailyTotalHolds.**  A booking that starts a day sets the sum to its own PnL; that is
the day's total only if nothing was booked that day before.  `Ledger` adds this, and
`Numbers` that neither the sum nor a close that waits for its booking is dated into the
future, which lets every midnight start afresh.

**FlightsSingle, NeverForgotten, LedgerImplemented.**  `FlightInv` extends `ArmInv`: each
signal is in at most one place (`OnePlace`: one hand of a goroutine, one slot of one
channel, or main's lists of young and old rows), what is in a place has a `pending` row,
and a `pending` row without a place is either lost to an error of this life or waits for
the boot to list it.  Cardinality enters only at the end: `Flights(k)` is empty or a
singleton.  The refinement needs nothing more: a step that changes
the table changes it for the one signal its goroutine holds, whose row is still `pending`,
and `HandsOK` says that one that was tried is held only to be accepted.

**ProcessedInOrder.**  `OrderInv`: a signal is put into a channel at most once in a life
(`SubmittedOnce`, `ChannelOf`); what a channel holds, and what its worker has begun, are
in the order of submission (`InOrder`, `BegunInOrder`); whatever was submitted and not yet
begun still waits in the channel (`NoneSkipped`); and main submits the recovered ones
before a handler submits anything (`BootFirst`).  Then a signal that was begun while an
earlier one of its strategy was not would have passed it in the channel.  `IngestTyped`
adds `CacheOK` (the LRU holds each key once and no more than its size) and `Bounds`;
the row count needs `FlightInv`, since a key is inserted by one delivery only.

**ExitsAllowed.**  `RulesInv` adds to `DailyInv` what a goroutine carries (`Lawful`: a row
that strategy.New accepted, a date that is none of the future) and the tables; an exit
leaves CheckLeverage and CheckLoss by one way, and ReadSum refuses it only for its row.

**LeverageKept.**  `LeverageInv`: a goroutine that TotalLeverage has let pass carries a
sum, a notional and a limit with room for the notional, through the exit that a reversal
begins with; no other step touches the three.  An opening adds what it costs to the open
sum and nothing else (`OpenAdds`), and it costs at most its notional and `Slip`: the sum
is the size of the set of all open units, so that a union of disjoint sets stands where an
induction over strategies would.

**ExitAgent.**  All four theorems rest on `Handed`: a goroutine that executes a decision
holds the number of a row of its own position, written in active mode, with the action and
price it is about to order.  No step rewrites a row other than its status (`Grown`), and
no step makes a position larger or takes a decision's stop from one that lives
(`Forward`), so a row's truth survives the crash that makes everyone forget it.
*Recorded*: an order goes out only from a goroutine with such a row.  *OrderedOnce*:
`Unsent` says that the row of a goroutine that has still to order has no order yet, and
that one at its last step without an error has exactly one; no two goroutines hold one row,
and a crash leaves a row that nobody will hold again.  Whether the order was filled does
not enter, as in the code.  Delicate is the cancel before a later TightenSL, which takes the
original stop only: a decided stop differs from it because it had to be tighter.
*DecisionsApart*: between the look at the cooldown and the INSERT lie the semaphore and
an answer of the LLM.  `AtSemaphore` and `AtWork` say that the cooldown has been over
since, for nobody else writes rows of that position.

**NewsToldStored.**  A run carries its classification and the id of its row from statement
to statement while settings change under it; `RunHolds` says what it may rely on at each,
`IdsStored` that no told id is of a row to come.  That the worker classifies at most `TopN`
headlines needs a least element of a set of numbers.

**PromptFresh.**  A candle is as old as its request.  An entry of the cache knows when it
was asked for (`EntryAges`), so a load that finds it adds no more than the cache's life to
what the request took (`LoadAges`); one that fetches asked at its own `now`.  That two misses
overwrite each other, the older answer last, does no harm.  Perpetual data is compared with
the load's `now` in whole minutes: `CutOff` bounds what the division cuts off, and
`LoadNear` keeps the bound, under the lookback this load has read or fallen back to.  From
`now` to the prompt no more than `ProcessTime` passes, which is the guard of the clock:
the signal's context ends then, and nothing else bounds the wait for the four goroutines.

**AlertsForCause.**  `Tracked`: the tracker's window is an enumeration of the calls since
some time before the window, so that eviction, which drops the front, leaves exactly the
calls of the window, as many as they are and with as many failures.  `Throttled` ties
`lastSent` to the last alert, and `ForCause` each alert to the failures it saw.

**ArchivedStaysIdle.**  The request that archives counts, and sets the flag later.
`Awaited` says that between the two its count is still right or the change is on record.
That `Update` leaves `archived` as it is carries the rest: a toggle that read the row
before the archiving does not undo it.

**SettingsKeyed.**  Each handler checks the key in one statement and writes the flag in a
later one.  What saves it is `KeyKept`: no statement empties a key, so `Carried` (who is
past its check found a key) stays true until the flag is written.

**FeedRegisteredOpen.**  `Close` counts whoever closes and whatever state the channel is in,
so that a second close would show.  `Owned`: the handler and any number of Publishes may
want to remove a subscriber, the one that takes it out of the map under the lock closes,
and nobody puts it back; so whoever is about to close finds the channel open (`ClosedOnce`).
From it follows as well that only a subscriber who has left can make Publish panic.

**ReplaysAddUp.**  While a run is under way the counters in memory count the cases whose
call has returned (`Counted`), although the goroutines that add to them write progress in
any order.  So when the last is done the counts add up to the sample.  For the
report, the buckets of `CountsOf` and the flips partition the cases that were scored; that
the sum over the parts is the size of the whole is proved through a bijection with an
interval, since no induction over the cases is at hand.  `Accounted` keeps the report of a
run that is done, `Held` and `FormOnly` that nobody else ends the run in hand.
`ReplaysOnce` follows from the same invariant, step by step.

**CritiqueEveryDay, CritiqueRunsApart.**  `DaysCovered`: every due time since the worker
was switched on (at its start, if it can read its settings then, or later) has a run that
began late enough to count for it, up to the time the worker waits for; and none is due
before that one, for due times are a day apart. `RunTimes` says that an idle worker knows
when the last run ended, which is what TryRun compares with.

**OutcomesInTime.**  Pending rows are chosen by the time of their insertion, and judged by
that of their signal.  `InHand`: the rows of a batch were inserted before it, and the PnL in
hand is that of the row in hand, which a trade that has closed keeps.  The assumptions on
the constants are the code's: the tolerance around the target time (5 minutes) is no more
than the horizon, which the settings page does not accept below 5 minutes.

**The compositions.**  `AgentsInv` and `EvalInv` are the conjunctions of the parts'
invariants; a step of one part leaves the variables of the others alone.

**Only model-checked.**  Liveness (`Reconciled`, `AnomalyFlagged`, `PendingDecided`,
`PassEnds`, `DroppedEnds`, `OutcomesSettle`): fairness is beyond the prover.  Every other
property of a passing run is stated by a theorem above.  What the theorems do not cover is
said by their assumptions: symbols shared by strategies (`ExposureOwned`, `LegsProtect`),
an adapter that does cancel legs (`LegsProtect`), a fallback beside a worker
(`BookedOnce`).  The counterexamples of section 5 are TLC's.

## 5. Where the code and its documents disagree

Each of these is a run that expects a counterexample.

1. **Stop-losses are missing from the daily PnL** (`trading_booked`).  Only
   ClosePosition calls AddDailyPnL; a close found by a reconciler, or made by ExitNow,
   never reaches the sum the loss breaker reads.
2. **Cancelled legs are live** (`trading_cancel`).  Client id prefixes of the trade
   service and of the adapter differ, so cancels and queries of legs go to the wrong
   endpoint and "Unknown order" is taken for success.
3. **A duplicate that nobody processed** (`ingest_duplicate`).  The LRU learns the key
   before the row exists; a redelivery that overtakes the first delivery writes the
   `duplicate` row, and the first one's INSERT then conflicts.
4. **A tightening that loosens** (`exit_tighten`).  `TightenSL` compares with the stop
   price of the original order, which it never updates.  Its second call accepts a stop
   between the original and the live one.
5. **Failed news runs are not on record** (`news_failure`).  A classifier error leaves
   `PerHeadlineJSON` nil, the column is NOT NULL, and the error of the INSERT is dropped.

The modules state further promises that the code does not keep, each after the comment or
document it is from.  They have no run of their own, but TLC finds each violated
on a small instance:

| Property | What happens |
|---|---|
| `HistoryOnce` (`Trading`) | heartbeat and ClosePosition, or two reconcilers, both read the row as open and both write history |
| `SharedSymbolIsolated` (`Trading`) | a long and a short of equal size on one symbol are flat together, and both rows are closed |
| `RefusedForTodaysLoss` (`Risk`) | the roll-over of the day's PnL is part of a booking; until something is closed on the new day entries are refused for the old day's loss |
| `CliUndisturbed` (`Replay`) | the bot's sweep at boot aborts a run agent-eval has under way |
| `SummaryKept` (`Replay`) | the flip matrix is written with keys that reading it does not know; it reads back as zeros |
| `PartOfPosition` (`ExitAgent`) | `TakePartial` "places a market-close for `pct` of the position" and closes a share of the row's quantity, which it leaves as it was: a second half is all that is left |
| `SuccessFilled` (`ExitAgent`) | neither the orchestrator nor the worker looks at the status of the order: a market exit that expires, or fills in part, is a 'success' |
| `RetriesEnd` (`Outcome`) | "so we don't keep retrying forever" holds of a missing candle; after a failed request the loop goes on before it looks at the age, so the decision stays pending, and a batch of such decisions keeps the later ones waiting |
| `FannedOut` (`Feed`) | a recovered panic passes over the subscribers that Publish had not served |
| `CounterfactNearTarget` (`Outcome`) | the close of the hourly candle that opens near the target time is taken: a price from an hour later |
| `ToggleTakesEffect` (`Critique`) | a request restarts the timer and does not read the settings: asked once a day, a disabled worker never sees that it was enabled |
| `BootKeepsChanges` (`Settings`) | a setting that a form has cleared is NULL, and the next boot fills it from the configuration |
| `ClientKeyed` (`Settings`) | a key entered while the process runs is not given to the LLM client before the next boot |
| `DryRunHarmless` (`Scoring`) | a failed score under "fail closed" abandons the signal in a dry run as well |

## 6. What is not modelled

- Prices, quantities and partial fills in `Trading`, rounding to tick and step size, fees,
  paging of income records: no property depends on them yet.  `ExitAgent` has prices and
  lots, of stops and partial closes only.
- The regime worker: one INSERT per interval, which the prompt reads whatever its age.
- `SaveAdvanced`: numbers that only the next start reads.
- Texts of messages and prompts, and whether a message arrives: notifications are fire
  and forget.
- HTML, and the SQL of the statistics pages, costs and rank correlations: read-only.
- IP whitelist, sessions and configuration: they act before any state is touched.
- The tools `backfill-vp` and `notifytest`: offline.

`PROJECT.json` lists every component with its status.

## 7. Plan

The modules planned exist: `Trading`, `Ingest` over `SignalLedger`, `Risk`, `ExitAgent`,
`Replay`, `Feed`, `Settings`, `Strategies`, `Scoring`, `Outcome`, `Critique`, `News`,
`Context`.

What would add most next:

1. Quantities in `Trading`: partial fills and partial closes, so that what `TakePartial`
   leaves in the row meets the heartbeat's comparison.
2. `BookedOnce` with a fallback beside the worker: what of it is left when the transaction
   does not look at the row's status.
