# deribit-paper-bot in TLA+

A verification development of the crypto options bot in `crypto_options_bot/`,
the services and the scripts beside it: specifications of the parts that hold
money, limits, the record of trades and the connections they depend on, the
instances TLC checks, and proofs TLAPS checks. Source positions are those of
the repository; `PROJECT.json` maps every definition to its lines.

    tlc -workers 2 -config MCPaperBroker.cfg MCPaperBroker
    tlapm PaperBroker_proofs.tla

## 1. The system

The bot is one process. The runner's loop (`__main__.py: run`) reads the
account, asks the strategies for plans, has the risk engine and the trader
agent judge them, hands them to the order manager, watches targets, stops and
expiries, and looks for the operator's files. A feed thread delivers ticks to
the broker, which fills orders inside the callback. Broker and journal each
keep a JSON file; supervisors outside restart the process.

    exchange ◄── feed thread ──inject_tick──► broker ◄──place/close── order manager
                  │ chain, DVOL                │ lock                   │ lock
                  ▼                            ▼                        ▼
               context                 paper_state.json        trades_state.json
                  │                            ▲   ▲                    ▲
                  ▼                            scripts, by hand ────────┘
    loop: strategies ─plan─► risk engine ──► trader agent ──► order manager
              ▲                                  │ LLM client
              └── settings.yaml ◄── evolver ◄────┘◄── scheduler (operator process)
    supervisors, service, watchdog: process table, liveness.json ──► process

| Component | State | Operations | What is hard | What makes it correct |
|---|---|---|---|---|
| Paper broker `broker/paper_client.py` | orders, positions, cash, realized P&L, ticks, the file | place, modify, cancel, inject_tick, close all, save, load, reset | two threads, saves that fail, crashes mid-tick | every fill counted once, limits kept, kill leaves nothing |
| Risk engine `risk/engine.py` | account, market, pauses, peak, preset, streaks, caps | the update methods, check_trade, pause and resume, presets, reload | order of calls, two pauses, caps from two sources | sizes within budget, the breaker holds, presets follow results |
| Runner loop `__main__.py` | cycle, kill file, settings, cooldowns | one cycle | everything may happen between two calls, fills included; the feed changes its expiry or names none | trades open inside the limits as they were checked, a compared plan in no option twice, kill is obeyed and final |
| Order manager `execution/order_manager.py` | trades, symbol map, the file | execute_plan, close_trade, tick hook, save, load | legs one by one, two files, failed writes, restarts | the journal explains the book |
| Deribit client `broker/deribit_client.py` | token, order objects, cache, positions | the same over JSON-RPC | a request fails before or after the exchange acted | what it takes for final is final, no leg closed beyond its fill, the kill switch cancels what it cannot know |
| WebSocket feed `data/deribit_ws.py` | socket, channels, pins, instruments, ticks | connect, subscribe, pin, receive, stop | two threads, the lock not held while sending, reconnects | what is open is recorded, a broken feed comes back or gives up late |
| REST feed `data/deribit_feed.py` | last ticks | poll | stale lists | a listed expiry, a near strike |
| Strategies `strategy/` | none | context to plan | strikes snapped to what is quoted; prices in coins, strikes in dollars | the payoff at expiry is what the kind promises |
| LLM client `agent/llm.py` | providers, blacklist, last good one, budget | call with retries and fallback | nested retries, edits, restarts, days | a call ends, only the keyless and the blacklisted are left out, the budget holds |
| Trader `agent/trader.py` | history, probes supported | decide a plan, answer the idle question | replies of any form, read differently than meant, exceptions | it only makes trades smaller or stops them |
| Scheduler `agent/scheduler.py` | jobs, times | pass, pause, resume | slow and failing jobs in one loop | no slot used twice, none long overdue |
| Evolver, memory `agent/evolver.py`, `memory.py` | proposals, settings.yaml | review, rate, file, apply, approve | stopped anywhere, in the middle of a write too, ids used again | what needs a human waits, changes are filed first |
| Sentinel, healer, reflector | reports, lessons | probe, heal, write | the probe counts the operator itself as a bot | (not modelled, section 6) |
| Supervisors `supervisor.py`, `scripts/crypto_supervisor.py`, `watchdog.ps1` | child, exits, service, liveness file | launch, wait, back off, sweep | guards that do not know of each other | a bot comes back, no two stay side by side for ever, restart limits kept, a signal is heard |
| Bus `services/contracts/bus.py` | queues, tasks, ring | publish, subscribe, events, stop | tasks that share a queue, full queues, stop | nothing a group takes is lost, and nothing comes to a handler twice or out of order |
| Repair scripts `scripts/` | the two files, read whole and written whole | rebuild, clean ghosts, fresh start | a bot up beside them | a script alone does its work |
| Greeks, backtest, dashboard, alerts, logger | none that matters here | | | |

`PROJECT.json` lists them with what is and is not modelled, and under
`hazards` the places where each can go wrong.

## 2. The modules

| Module | Models | Proofs |
|---|---|---|
| `PaperBroker` | the paper broker with both threads, its file and crashes | `PaperBroker_proofs` |
| `RiskEngine` | the risk engine, its methods called in any order | `RiskEngine_proofs` |
| `RiskLoop` (extends `RiskEngine`) | the loop that uses the engine | `RiskLoop_proofs` |
| `Ledger` | what a broker is to its users: orders, quantities, a file | |
| `TradeBook` | the order manager over a broker reduced to quantities | `TradeBook_proofs` |
| `Scripts` (extends `TradeBook`) | the repair scripts on the files of a bot that may be up | `TradeBook_proofs` |
| `BoundedQueues` | what the bus promises a group | |
| `EventBus` | the in-process bus, its tasks and its stop | `EventBus_proofs` |
| `WSFeed` | connection, channels and pins, by two threads | `Services_proofs` |
| `Chain` | instruments, strip, ticks and the context built from them | `Services_proofs` |
| `Plans` | the eight strategies as functions of a context | `Agents_proofs` |
| `Entries` (extends `Plans`) | which plans become trades, cycle by cycle | `Agents_proofs` |
| `DeribitClient` | the live client, order manager and kill switch over an exchange | `Agents_proofs` |
| `LLMRouter` | provider order, retries, blacklist, budget, restarts | `Services_proofs` |
| `Trader` | how replies become a decision and what the runner makes of it | `Agents_proofs` |
| `Scheduler` | the operator's jobs in one loop | `Agents_proofs` |
| `Evolver` | reviews, proposals, settings and the human | `Agents_proofs` |
| `Supervisor` | `supervisor.py` with one child | `Services_proofs` |
| `Guards` | service, supervisor daemon, orphan killer and watchdog | |

`DataTheorems` holds what several proofs need of data: sums over finite sets, ranks
in them, least and greatest elements.

Four times a detailed module implements an abstract specification. `RiskLoop` implements
`RiskEngine`: the loop's steps call the engine's actions, and the theorem
`LoopImplementsEngine` says that each is a step of the engine or none. `EventBus`
implements `BoundedQueues` under the mapping `queue <- queues, taken <- taken` (the
property `QueuesAsPromised` and the theorem `BusImplementsQueues`). `TradeBook` uses a
broker in which whether an order fills is a choice, with nothing of prices. That this
broker and the real one are the same to their user is what `Ledger` is for: a book of
orders with signed quantities and of positions, and a file. Orders are entered, fill or
are cancelled, positions move by whole orders as they fill or are flattened, each change
may be saved at once, and a restart goes on from the file with some of its orders
cancelled. `PaperBroker` implements it (`LedgerKept`, the theorem
`PaperBroker_proofs.KeepsTheLedger`) with an order shown by its symbol, quantity and
status (`Lot`, `Shown`), the two threads, the locks, the prices and the two ways to fill
hidden; `TradeBook` does (`BrokerIsLedger`, `TradeBook_proofs.KeepsTheLedger`) with the
journal hidden. While the process is down, memory is taken to be what the next start
loads. `Scripts` and `Entries` compose: the scripts' steps interleave with all of
`TradeBook`'s, the entries take the plans of `Plans` in a context whose expiry the feed
may change.

The MC modules instantiate one component each, or several that share no state:
`MCServices` the supervisor, the guards, the bus, the feed and the router,
`MCMarket` the scripts, the chain and the plans, `MCAgents` the client, the
entries, the trader, the evolver and the scheduler. In these a variable `part`
says which one a behaviour follows. It never changes, and the others stay in
the one state they begin in; the state space is the sum of the parts', not their
product, and each property is checked in the behaviours of its part. As `part`
is constant, weak fairness of a disjunction with one disjunct for each part is
weak fairness of the disjunct of the part that is followed. `MCMarket` has
"edges", the chain with the index about the thresholds of the strike step, and
`MCAgents` has "closing", the client with a plan of one leg and no fault, closed
again and again. The scripts are followed without the kill switch, which
`MCTradeBook` has. `MCPaperBroker` follows a broker with two orders or with three
in the same way (`size`).

### PaperBroker

One variable per attribute of `PaperClient` (`orders`, `positions`, `ticks`,
`cash`, `realized`), `disk` for the file, `feed` and `main` for the places
inside `inject_tick` and the kill switch where another thread or a crash can
come in. `place_order`, `modify_order`, `cancel_order`, `get_positions` and
`reset` hold the lock throughout and are one step each. A tick is a step per
order visited. `cancel_all_open_orders` takes the lock for each order,
`close_all_positions` once. A save writes the state or, up to `MaxSaveFailures`
times, fails and goes on. `flattened` and `balanced` are history variables:
what the kill switch removed, and whether an operation that books one side
only has happened (a sale into a short, a contract size other than the
position's, the kill switch).

Prices are integers of 0.0001, the rounding of the code; the Black-Scholes
price of `market_like` mode is any of `BSPrices`. Left out: `pos.pnl`, tags
and times; the last-ditch write that is not atomic; a second process on the
same file.

### RiskEngine

A variable per field of `RiskState` and per cap; thresholds are in tenths of a
percent and `drawdown_pct` is compared without being stored. Settings are
complete records. The streak counters stop at their thresholds, the only
values they are compared to. `best`, `equity`, `fresh`, `recent` and `forced`
are history: the best equity told, the last one, whether the breaker has been
evaluated on it, the last results and whether the preset was forced. The
wording of pause reasons is dropped.

### RiskLoop

`stage` is the call the loop makes next and `left` the strategies still to be asked. The
broker is its cumulative realized and its unrealized P&L, the journal its number of open
trades. Between two calls a tick may move the marks and fill resting orders, which
realizes P&L (`MarkMoves`), the operator may put the kill file, and the day may break.
The trader's answer arrives a step after the check; `asked` is history, the realized P&L
the check read. The module is one life of the process; what an earlier one left is
arbitrary in `LoopInit`. A malformed kill file is not modelled.

### TradeBook

`orders`, `pos` and `brokerFile` are the broker, `trades`, `symMap` and `tradesFile` the
journal, `op` the operation the loop is in. A plan's legs reach the broker one by one
and the journal is written after the last. In a running process the journal's orders are
the broker's objects; after a restart they are copies (`copied`), which keep the status
they were loaded with (`seen`). A tick fills any set of open orders in one step (the
book cannot be seen in between, the lock is held) and saves in the next. The kill
switch, stops, crashes, starts and orphan recovery are as in the runner. Each write of
the journal may fail, which is logged and not tried again (`SaveJournal`); `behind` says
that the last one did. `torn` says that a crash fell between two legs or between the
journal's and the broker's save, or a start came before a failed write was made good,
`overridden` that positions were set otherwise than by fills, `killed` that the kill
switch has run and no plan was executed since. Left out: prices and scaling, failed
saves of the broker's file (`PaperBroker` has them), and a feed that names no expiry,
when plans get a symbol no option has (in `Entries`). After a crash the broker's
variables show what the next start will find.

### Scripts

All of `TradeBook` is in it: the bot goes on, or is down, while a script that has
read a file whole (`script`) writes it whole. `alone` is history: the bot has
been down since the script began. `fresh_start.py` removes the files, then
stops the bot, then resets, in three steps.

### BoundedQueues and EventBus

`BoundedQueues` is put if there is room, take from the front, nothing else.
In `EventBus` a queue belongs to a pair of a pattern and a group, a task to a
subscription or an iterator (`events()`). A task takes an event in one step and
calls each of the group's handlers, as the list is at that moment, in a step of
its own; whether a handler raises makes no difference to the loop, which logs
and goes on. `publish` and `subscribe` do not suspend. `stop` puts its pills
queue by queue and waits at a full one; a subscription that comes while it
waits makes its iteration raise (`StopRaises`). `received`, `taken` and
`refused` are history. The payload of an event is its number.

### WSFeed

A thread takes the socket and the channels that are not recorded (`Choose`),
sends them on that socket (`Send`), which goes unnoticed or raises when the
connection is gone, and records them (`RecordSent`): `sending` has what each
thread is about to send. `record` is `_subscribed_channels`, `opened` what the
exchange sends on the connection there is, `link`, which may break at any time.
`phase` and `caller` are the places in `_run_loop` and in the runner's calls of
`start`, `subscribe`, pinning and `stop`. A symbol that gives no channel
(`BTC-PERPETUAL` is no option and no currency) may be pinned and has none.

### Chain

Both feeds of one currency and what the runner makes of them. Time is a day and whether
the list was fetched within the hour; a fetch may fail, which is cached as an empty
list. A published close of the volatility index is a percentage; what the code makes of
it, a percentage above 3 and a decimal times 100 otherwise, is `DvolPct`. The strip, the
nearest expiry, the strike at the money and the rank are operators of the list, the
ticks and the index. A list of options is a set: in every list they have the order of
`listing`, the exchange's. The ticks are a function from options to quotes with the
place of each key in the dictionary, on which a lookup by strike and side depends.

### Plans

A context is strikes, last prices, spot, rank, DVOL, momentum, regime and days
to expiry; each strategy is an operator that gives a set of at most one plan
with its legs, target and stop. Units are the code's: strikes, spot and settlements are
dollars; option prices are in coins (Deribit's mark_price), here in thousandths of
one, and so are an option plan's target and stop. At a settlement an option pays dollars
and has cost coins, which are worth the settlement then: `Gain` and `Pnl` are in
thousandths of a dollar. Two terms mix the units, as the code does: the condor's
stop and the bound on the spread's target are dollars less coins. A
perpetual's stop and target have its contract size (`ContractSize`). Quantities are
one contract.

### Entries

A cycle builds one context and lets each instance of `Order` have its turn
(`turn`); `nearest` is the expiry the feed names, which may change between the
context and the order, since the runner asks for it again, and may be missing
(`Unnamed`): then a plan is not compared with the open trades, and its options have
the symbols of none there is. A comparison that raises is passed over as well
(`Compared`). A trade keeps whether it was compared. The gate and the cooldowns are as
in the code, risk engine and trader are a choice. A plan one leg of which cannot be
placed is no trade; the orders it leaves are `TradeBook`'s and `DeribitClient`'s.

### DeribitClient

An order exists three times: in the exchange's `book`, as the object a trade
keeps (`mine`), and in the client's `cache`, whose object a read replaces. A
request fails before or after the exchange has acted; the client sees the same
exception. `op` is the call under way: opening or closing a trade leg by leg,
reading positions kind by kind, or the kill switch, which lists, cancels and
then fails to unwind (`deribit_client.py:594`). `MaxFaults` bounds the requests
that fail. The exchange, external here, fills working orders at will.

### LLMRouter

`call` is the call in progress: the providers still to ask, the attempt, and
those asked so far. Keys are good, bad or unset, in the settings and as the
client has read them (`clientKeys`). A bad key blacklists the name (`dead`). A
200 with another body than expected ends the call (`Garbled`). `now` moves
between any two steps, days change under a call, a restart forgets everything.

### Trader

A text is what each step of the parser finds in it: as a whole, between its first
braces, in its first line, and as the first of the four words (`whole`, `braces`,
`line`, `first`). What its author means is not modelled, since nothing in the code
tells: "Veto is not warranted" is a veto. `Gate` is one plan: six
judgements, or else probes, or else text, or else approval; writing the
history may fail (`written`); `executed` is the quantity the runner is left with, if any.
The prompts are left out.

### Scheduler

A pass reads the clock once (`start`) and goes through the jobs; a job takes up
to `MaxLong`, in which time passes, and its last run is the start of its pass.
Daily jobs have a time of day. Pause, resume and stop come from elsewhere.

### Evolver

A setting is its dotted path, `Leaf` the last part, by which the file is
searched: a change goes to the first line with that leaf (`LineOf`). `false` is
0 and `true` is 1, as `float()` has them, `NaN` compares with nothing and `Text`
cannot be read. A review files each proposal, applies one of low risk and marks
it, and may stop before any of these; the human decides at any time and looks
at no status. The settings are written in place (`evolver.py:312`), so a write may
stop after any line and within one (`TearFile`): what is behind is `Missing`, and
`cutOff` remembers whose lines these were.

### Supervisor

`pc` is the place in the loop; the signal handler runs between any two of its
statements. `exits` are ages within the window, so time has no bound. `gap` is
history: the signal came while a child was being started, which is when nobody
passes it on. A child may ignore the signal (`hung`).

### Guards

Bots are process numbers with a state; the daemon queries the service, looks at
the liveness file, lists other bots, kills them and restarts the service, in
separate steps. A query of the service that fails leads to a bot started beside a
running service. The watchdog starts one when there is none, and when nobody serves
the dashboard's port (`port`), though a bot may be alive. Equal numbers are
told apart by taking the least that is free, which stands in for symmetry.
`QuickStart` says that a bot writes its liveness file within one cycle of the
daemon; the run has it TRUE (section 5 says what happens without it).
`MaxFaults` bounds crashes, hangs, failed queries, refused starts and failed sweeps,
`MaxBeside` the bots beside the service's. After the last fault the guards may still
go on starting and ending bots.

## 3. The runs

| Run | Bounds | Shows |
|---|---|---|
| `paper_mixed` | an option and a perpetual, 2 orders, 2 fill modes, 1 failed save; and one option, 3 orders | cash and positions follow the fills, limits hold, the kill switch leaves nothing, the ledger is kept |
| `risk_engine` | 2 settings, 3 presets, thresholds of 2, 2 days | sizes, breaker, presets |
| `risk_loop` | 2 checks a cycle, 2 trades, 2 days, losses of 5 on a capital of 100 | openings inside the limits as checked, the kill file |
| `trade_book` | a strangle and a perpetual, 2 trades, 4 orders, 1 restart | journal against book, symbol map, failed writes, restarts, the same ledger |
| `services` | see below | the bus implements its queues; limits of restarts, budget and give-up; everything goes on |
| `market` | see below | strip, expiry, strike and rank; payoffs of all plans in dollars; the repair scripts |
| `agents` | see below | the live client, no option in two compared trades, the trader restricts, the evolver's rails, the scheduler's slots |
| `loop_auto_resume`, `loop_daily_cap`, `loop_losing_run`, `trade_book_kill`, `ws_feed_pins` | as above | the findings of section 5 |

Why the bounds are enough to meet the hard cases: a flip and a later close need three
orders of one instrument, for which the fill mode that fills at once will do, without
saves that fail and without the kill switch; those are met with two. A fill between two
cancels needs two open orders; a stale count of open trades needs two checks a cycle and
a cap below the number of trades; a loss of 5 reaches the daily cap and one of 10 trips
the breaker; a late leg, its closing order and a second trade in the same instrument
need four orders; a restart that loses something needs one.

In `services`: queues of one event are full after one; two tasks may share a
queue, have one each, or one of them be an iterator, with two subjects and a
pattern over both. Four exits in a window of ten, pauses of at most four: the
window both forgets exits and fills. Two connections and two attempts: a
reconnect, and a give-up after one. Four processes: the service's child, one
started beside it by each guard, and one being started. One fault: after it the
guards cross each other for ever. Two providers, one retry, two days of
one tick, a budget of two calls: a call that fails over, ends after midnight, or
begins with the budget spent.

In `market`: three expiries of which one is too near, in both orders of the
list; indexes on both sides of the thresholds of the strike step; every way to
quote up to five strikes with the prices 0, 10 and 60 thousandths of the coin, for the
shipped instance of each strategy and a narrow spread; settlements at every strike,
at twice the highest and below the lowest. Closes of the volatility index on both
sides of 3. One trade and one script suffice to have a script beside, after
and before a bot that is up.

In `agents`: a plan of two legs and one fault, so that each leg can fail or lose its
answer; two trades, three instances, two expiries and none, so that a strangle, a short
call and a second strangle compete for a strike; every combination of the six
judgements, and texts whose braces, line and first word say different things; two
reviews of up to two proposals with two ids, so that an id is used again while the first
proposal waits, settings that share a leaf, and a write that stops at each of six lines,
also under a second review; a frequent, a daily and a slow job over three days, the
daily one paused and resumed: long enough for a job to be due while each of the others
takes its time twice.

Each property has a mutant in `PROJECT.json`, a plausible bug of the code under
which its run fails, so the bounds let it be violated.

`trade_book`, `services`, `market`, `agents` and `ws_feed_pins` run without the
deadlock check: the bot may have no trade and no restart left, the counters run
out, a supervisor ends when it is told to. Elsewhere something can always happen.

Fairness, in the specifications that have liveness properties:

- `RiskLoop`, `WF(LoopStep)`: the loop makes its next call. Its calls return, the
  trader's answer included (the HTTP clients have timeouts).
- `EventBus`, `WF` of each task's step and of a `stop` under way: the event loop runs
  what is ready, and a handler returns or raises.
- `Supervisor`, `WF(LoopStep)` and `WF(ChildObeys)`: the loop runs, and a child that
  was sent the signal and is not stuck ends.
- `Guards`, `WF` of the minute's liveness write, of a start that completes, of
  NSSM's restart, of the daemon's next step and of the watchdog's poll: all of them
  are periodic or the operating system's.
- `WSFeed`, `WF(FeedStep)` and `WF(RunnerEnds)`: the feed's thread runs (connecting
  and receiving have timeouts), and the runner finishes a `stop` it has begun.
- `LLMRouter`, `WF(Step)`: each HTTP request returns or times out.

Ticks, fills, publications, good answers, crashes and acts of the operator are
never assumed to happen.

What the properties say of the code, each a conjunction of named parts where it
has several:

- `BooksFollowFills` (`CashMatchesFills`, `PositionsMatchFills`, `BooksBalance`): every
  fill counted once, on the right side, through forced fills, failed saves, kills
  and crashes.
- `KillLeavesFlat`: no fill slips between the cancels and the closes.
- `LedgerKept` (`L!Spec`, `FinishedOrdersStay`): whichever thread works, an order moves the
  position once, by all of its quantity, and is then finished for good; what a restart
  finds is a book that was once in memory as it was saved, not one in the middle of a step.
- `LimitRespected`: no way of filling goes beyond a limit.
- `SizeWithinBudget`, `BreakerHolds`, `PresetsFollowResults` (`LossRunIsDefensive`,
  `AggressiveIsEarned`): what the engine decides, for any order of its methods. A
  single contract is allowed even if it can lose more than the budget, as the code
  says.
- `OpensInsideLimits`: several plans are checked against one account, and each opening
  has room under the caps for trades and drawdown at that moment. The daily loss is
  below its cap as the check read it: what ticks realize between the check and the
  opening nobody looks at again.
- `KillHalts`, `KillFileObeyed`: the kill switch is final and not missed.
- `BookReconciles`: a position is explained by an open trade or by one of three
  leftovers of a closed one: a leg that filled late, a leg the restarted journal
  thought open, a closing order that has not filled.
- `SymbolMapExact`, `JournalSurvives` (`TradesKept`, `TradesOlder`): the map; and that a
  start finds the journal as it was left or, if the last write of it failed, as it was
  after an earlier one: trades may be missing then or open again, none is made up and no
  legs are changed. `BrokerIsLedger`: the broker it works with is the paper broker's
  ledger.
- `BusDelivers` (`NoneLost`, `OnceAndInOrder`), `BusGoesOn` (`EventsTaken`,
  `StopStops`), `QueuesAsPromised`: whatever tasks share a queue, no event a group takes
  is lost, none comes to a handler twice or out of order, and a full queue holds up
  neither events nor a stop for ever. To how many handlers of a group an event goes is
  left open (section 5).
- `PolicyKept` (`NeverThrashes`, `PausesFirst`), `SupervisorGoesOn` (`ComesBack`,
  `StopEnds`): limits of restarts, and what follows an exit and a signal.
- `GuardsRecover`: guards that start and kill bots behind each other's back come, time and
  again, to a bot that works, to no stuck one, and for any two bots to a moment at which
  one of them is gone. They need not come to rest (section 5).
- `FeedCovers` (`PinsOpenAtFirst`, `OpenIsRecorded`), `FeedGoesOn` (`GivesUpLate`,
  `Reconnects`, `FeedStops`): two threads on one socket lose no channel; the feed
  neither gives up early nor stays down. Pins are promised for the first
  connection only; `ws_feed_pins` shows the second.
- `RouterKeeps` (`BudgetHolds`, `NoneLeftUntried`), `CallEnds`: the budget holds, a call that
  fails has left out only providers without a key and those whose blacklist was in force
  when it began, and every call ends.
- `ChainSound` (`StripBounded`, `TradedIsListed`, `AtmIsNearest`,
  `RankFollowsVolatility`): the cap is on options, calls and puts together, and the rank
  follows closes of the index above 3 percent.
- `PlansPayOff` (`KeepsTerms` with `DebitIsTheRisk` and `QuietMarketPays`, `EndsInReach`,
  `FollowsMomentum`): a buyer loses the debit at most, a seller keeps the credit in a
  quiet market, target and stop are ends the market can reach but for the two terms that
  mix units, and a plan on the momentum gains with it (but for the spread) and loses
  against it.
- `NoTwins`: of two open trades that share an option the later one was not compared.
- `ClientIsRight` (`FinalIsTrue`, `NeverOverCloses`, `KillCancels`): what the client
  calls final is, a leg is closed once as long as no request fails (after one that did
  it may be closed twice), and as far as the requests of the kill switch are answered,
  also orders nobody knows of are cancelled.
- `TraderRestricts` (`OnlyRestricts`, `OnlyVetoStops`, `VetoStops`, `WorseNeverLoosens`):
  failures of the model neither stop a trade nor enlarge one; what stops one was read as
  a veto by some step of the parser, meant or not, and a veto that could be recorded
  stops it.
- `RailsHold` (`PositionsKept`, `DeployedWasLow`): no proposal changes a number of
  positions, in whatever order ids are used again, and what is on file as deployed is on
  file as of low risk, which says nothing of its being small. A write that is cut off may
  lose lines, which the first leaves out.
- `ChangesAreTracked` (`RecordedFirst`, `OwnNameByAFifth`): a change is on file before it is
  made, and moves a setting whose name no other line has by a fifth at most.
- `SlotsKept` (`Spaced`, `Punctual`).
- `ScriptsKeep` (`AloneTakes` and `SymbolMapExact` beside the scripts).

## 4. The proofs

They hold for all values of the constants that satisfy the named assumptions of the
modules (`InputsAssumption`, `SettingsAssumption`, `LoopAssumption`, `PlansAssumption`,
`ContextAssumption`, `ModestAssumption`, `BusAssumption`, `FeedAssumption`,
`PolicyAssumption`, `RouterAssumption`, `ChainAssumption`, `EntriesAssumption`,
`TraderAssumption`, `EvolverAssumption`, `JobsAssumption`; TLC evaluates them in the
runs). Most give a constant its type. Five say more. `LoopAssumption` requires that what
the loop tells the engine is among the inputs of `RiskEngine`. `SettingsAssumption`
requires that the recovery threshold is below the one that trips the breaker: the code
does not validate it, the shipped settings and defaults satisfy it. `ChainAssumption`
requires that the exchange lists no option twice. `ContextAssumption` requires that
strikes and settlements are whole dollars, that every strategy but the perpetual's asks
for a strike, as the code does, and that a seller's profit target is no more than 100%
of its credit and a multiple is not negative: these are not validated, the shipped
settings and defaults satisfy them. `ModestAssumption` bounds what the market may do:
two options with the plan's target or stop, a multiple of their price, come to at most
half a coin (less, when they are bought), and a trend's stop and target are at most half
the price away. The code assures none of this; it is what makes a market that doubles or
halves reach them.

Each theorem `Spec => []P` goes through an inductive invariant, whose parts are
named below; every action has a lemma or a step of its own. Sums over sets of
orders, fills or legs cannot be proved about by induction over data here:
`DataTheorems` defines them by the community modules' fold, and its lemmas on them
(a sum over one element more, over two disjoint sets, of equal terms) take a
least counterexample among the sizes of sets instead.

- `PaperBroker_proofs`. `TypeCorrect` needs `Quiet`: an idle feed and a loop outside
  the kill switch have no order left to visit, and nobody is at work in a process that
  is down. `KillFlat` rests on `KillInv`: what a tick still has to visit is open, the
  feed is idle while positions are closed (the lock), while the kill switch cancels
  every open order is one it still has to visit, and while it closes none is open.
  `FinishedForever` goes through the actions and uses that each replaces open orders
  only. `LimitsRespected` carries the limit through the file as well as the memory.
  `BooksFollow` is the bookkeeping: a fill adds one term to each of the sums that cash,
  position and realized profit equal, every other step none, and a load brings a file
  back for which the equations held when it was written. `KeepsTheLedger` takes each
  step of either thread to one of `Ledger` or to none (`LedgerStep`, with a lemma for each
  operation): a fill is `Fill` of one order, a placement that fills at once is both in one
  step, a save is the file with the book of that moment. Its invariant `LedgerInv` is made
  of those before, with the fact that a process that is down has no book in memory
  (`DownEmpty`): what is shown then is what the next start will load.
- `RiskEngine_proofs`. `SizesAreBounded` is arithmetic: what the budget affords,
  halving, scaling by half and the cap. `BreakerAlwaysHolds` needs `BreakerInv`: a
  breaker evaluated on the last equity and not tripped means that the drawdown is
  below the threshold; a recovered one is, because recovery is below the
  threshold. `LossesTurnDefensive` and `AggressiveOnlyEarned` need `ResultsInv`,
  which relates the counters to the last results; `PresetsFollow` is both.
- `RiskLoop_proofs`. `LoopImplementsEngine` is the refinement; from it
  `EngineHoldsInLoop`. `KilledForGood` rests on `HaltedInv`: after the kill switch the
  engine is paused, nothing in the loop lifts a pause, and a paused engine lets no plan
  to the gate. `OpensWithinLimits` rests on `GateInv`: at the gate what the check found
  of the caps, the open trades and the drawdown still holds, and of the daily loss that
  it was below the cap for what `asked` remembers; ticks keep `GateInv` although they
  change what is realized. `LoopTypeCorrect` needs `CycleInv`: while the loop is with a
  strategy there is one left.
- `TradeBook_proofs`. `MapStaysExact` and `JournalKept` share the invariant `Inductive`:
  the broker knows every order a trade or its file names (`OrdersInv`), memory and file
  hold the same trades up to what is known of their legs or, after a failed write, the
  file those of an earlier moment (`JournalInv`, `Older`: `RecordKeeps` shows that
  saving keeps them, `StartKeeps` that loading does), the map is exact for them, in the
  file too (`MapExact`), and a plan being placed shares no option with an open trade
  (`OpInv`), which is what the dedupe has checked before its first leg. Futures are not
  deduped, hence the map is exact for options only. `BookAlwaysReconciles` adds, in
  `Strong`: positions that nobody has set are the sum of the fills, in the file as in
  memory (`BookInv`); a leg and its order agree, no order is two legs', a closing order
  undoes exactly the order it closes (`LinkInv`); and, as long as no crash has torn the
  files, every order is a leg's, a closing order's or of the plan under way, a leg has
  one closing order at most, and one that has been passed over is among the excuses of
  the property (`WholeInv`). The sum of all fills is then regrouped by trades.
  `KeepsTheLedger` rests on `Strong` too: a tick that fills any set of orders is one
  `Fill` whose sums over the orders of a symbol are the ledger's (`LedgerTotal`), and
  orphan recovery is its `Restate`. For the scripts, `ScriptsAlwaysKeep` says the same
  of every copy at once: each journal, in memory, on disk or in a script's hands, is a
  list of trades beside an exact map of its own orders (`IsJournal`), a book is one
  (`IsBook`), and a bot that is up still knows the orders of its own trades whatever a
  script has done to the files (`OwnOrders`), though it may not know those of the files:
  there the map of `TradeBook` is too strong to be kept. A script that has the files to
  itself still has in its hands what is in them (`AloneInv`).
- `EventBus_proofs`. The invariant `Inductive` adds to the types that the position a
  stop waits at is one of the keys' (`StopInv`), that a task that calls has someone to
  call (`CallInv`) and the type of the history. `BusImplementsQueues` maps every step
  to a put, a take or a stutter; a stop puts into several queues at once, each of which
  has room (`PillsFit`). `NothingTakenLost` follows from two facts that every step keeps:
  what a handler has got, or is about to, it still has (`GotKept`), and what is taken
  anew is taken by a task about to call the handlers (`TakenIsGot`). `BusAlwaysDelivers`
  adds that a queue holds newer events than those taken, in order (`FifoInv`), and that
  tasks that call have different events, which no handler they are still to call has
  had (`OnceInv`); a single task has the last one taken, hence the order.
- `Services_proofs`, a section for each service. Supervisor: `AlwaysPausesFirst` needs
  `PauseInv`: while it sleeps, every exit that counts is at least as old as the part of
  the pause that is over; with `NeverThrashing` it gives `AlwaysPolicyKept`. Feed:
  `OpenAlwaysRecorded` needs to know that a channel which is open but not recorded has
  been *sent* by a thread: that it was chosen is not enough, since a thread drops its
  choice when the connection breaks (`SentInv`). `GivesUpOnlyLate` rests on
  `AttemptsInv`: the feed's counter is at least the number of failures in a row.
  `FeedAlwaysCovers` adds `FirstInv`: on the first connection what is recorded is open,
  and a pin is open, or a thread has yet to come to it. Router: `RouterAlwaysKeeps`
  rests on what is left of the budget of the day a call began, and on a reason for every
  provider that was passed over (`PassedForReason`). Chain: `ChainAlwaysSound` has
  `LatestInv`, that the keys of the ticks have places of their own, and otherwise shows
  that the operators are sound for any lists and any published close above 3: at most as
  many expiries as there are places before the last one taken (`FirstAreFew`), the
  multiple of a step nearest to an index, and a rank that never falls when the
  volatility grows.
- `Agents_proofs`, again by sections. Entries: `NeverTwins` is inductive with the fact
  that `open` is a sequence: a trade that is compared is entered only if it shares no
  option with an open one, by the names of that moment, and closing one (`RemovedAt`)
  keeps the others apart. Trader: the decision in hand is one of the judgements' or
  milder (`TraderInductive`), and `AggregateCases` orders the actions. Evolver: what is
  in hand between two steps of a review is still harmless and on file (`InHand`),
  although the human may act between them, and a line that a write has cut off stays
  among `cutOff`. Scheduler: `AlwaysKeepsSlots` bounds a pass by what each job before
  its place may have taken (`PassIsBounded`); a job waits for the rest of one pass and
  the part of the next before its turn (`TurnsKept`), which gives (2N - 1) times the
  longest job. Client: the exchange's book only moves on (`BookKept`), copies are of
  states it has been in (`CopiesTrue`), a leg is nobody else's (`TradesKept`, `OpKept`),
  a kill switch whose requests come through has every working order still before it
  (`KillKept`), and without a fault nobody has sent a closing order for a leg that is
  still to be closed (`ClosesKept`). Plans: `ContextShape` is all the state there is;
  the rest is arithmetic of the operators. No target is snapped across a strike it is
  beyond (`SnapStays`), so the strikes sold are on their sides of the one at the money
  (`WingStrikes`, `ShortIsBeyond`), for any grid, rounding and ties. What a plan earns
  is its credit and what its legs are worth (`PnlIs`), of which `TermsAlwaysKept`,
  `EndsAlwaysInReach` and `MomentumAlwaysFollowed` follow, one strategy at a time, and
  with them `PlansAlwaysPayOff`, which is `PlansPayOff` itself. The proof names the
  outcome for each strategy: a seller's target is earned at the strike at the money, a
  call's and a straddle's where the market has doubled, a put's where it has halved, a
  stop at the other end or, for a straddle, at its strike. There an option is worth more
  dollars than the coins it cost with the target, which is where `ModestAssumption` is
  used.

Only model-checked: liveness (`KillFileObeyed`, `BusGoesOn`, `SupervisorGoesOn`,
`GuardsRecover`, `Reconnects`, `FeedStops`, `CallEnds`), which with ENABLED is beyond the
prover; the type invariant of `Supervisor`, which needs the values of powers of two, and
with it those of the groups (`ServicesTypeOK`, `MarketTypeOK`, `AgentsTypeOK`), whose
parts are proved for the feed, the router, the bus, the chain, the evolver and the
scheduler. Every other property that a run checks is stated by a theorem.

## 5. Where code and documents disagree

With a run of their own:

1. `loop_auto_resume`: settings.yaml:82-83 promise that the drawdown breaker resumes
   by itself. It pauses the whole engine and un-pauses its own flag only.
2. `loop_daily_cap`: the daily loss cap is compared to the cumulative realized P&L.
3. `loop_losing_run`: closed trades are reported with a P&L of zero, so losses never
   lead to the defensive preset.
4. `trade_book_kill`: the kill switch leaves the journal's trades open; closing one
   later opens new positions in the flat book.
5. `ws_feed_pins`: deribit_ws.py:259-261 promise the pins on every reconnect. The record
   of subscribed channels is never cleared, so after a reconnect they are taken for open.

Promises the code does not keep, which are stated in the modules and are in no run's cfg;
put there as INVARIANT (the last one as PROPERTY), TLC refutes each in the run named:

- `AtMostOncePerGroup` (`EventBus`, in `services`): bus.py:54-55 say that a queue group
  gives at-most-once delivery across replicas. The tasks of one group call all of its
  handlers (`bus.py:140`), so two replicas under one group both get each event.
- `NewKeyIsTried` (`LLMRouter`, in `services`): llm.py:23-24 say that a call after a new key
  tries again. The blacklist goes by the provider's name and is looked at first
  (`llm.py:455`), so that for half an hour the new key is not tried.
- `SpreadTargetInReach` (`Plans`, in `market`): debit_spread.py:129 says that the target is
  bounded by the most the spread can gain. That bound is dollars less coins
  (`debit_spread.py:121-129`), which no target in coins comes near.
- `NoneIdentical` (`Entries`, in `agents`): __main__.py:1036-1039 name the comparison with
  open trades as what keeps identical positions from piling up. It is left out when the
  feed names no expiry (`__main__.py:1052`) and passed over when it raises (1076).
- `VetoBlocks` (`Trader`, in `agents`): tests/test_trader_wiring.py:5 says that a veto blocks
  execution. When the history cannot be written the exception takes the veto's place, and
  the plan is executed (`trader.py:892`).
- `EveryLineByAFifth` (`Evolver`, in `agents`): README.md:411 says that a proposal changes a
  setting by 20% at most. A change goes to the first line with the same leaf
  (`evolver.py:280`), whose value may be far from the one it was measured by.

Seen while modelling; the models behave as the code does, and where a property would say
otherwise its text names the exception:

- Broker, journal and engine. `close_all_positions` moves no cash and saves nothing (its
  comment speaks of a cash adjustment, README.md:700 of a save on every change); a sale
  into a short realizes the wrong P&L (`paper_client.py:469-477`); closing orders of a
  perpetual lack its contract size (`order_manager.py:384-396`); `_apply_preset` ignores
  `max_contracts_per_trade` and a reload overwrites the caps of the preset in force. The
  journal's write is not tried again (`order_manager.py:164-165`, against "Atomic write
  + retry" in 147), so a stop after one that failed brings back an older journal. The
  daily cap is not looked at again when a trade opens, although a fill may have passed
  it meanwhile.
- Entries. A plan whose second leg cannot be placed leaves its first with the broker,
  without a trade or a cooldown, and the next cycle places it again
  (`__main__.py:1197`, against lines 1036-1039). The expiry of an order is asked for after
  the strategy has looked at the context's (`__main__.py:1022`, `short_call.py:96-98`), and
  `min_dte` filters the strip but not that expiry (settings.yaml:39-42). Without an expiry the
  options of a plan get a symbol no exchange has (`order_manager.py:437-440`).
- Live client. The kill switch unpacks each Position into two names and leaves every
  position open (`deribit_client.py:594`, against 581-582); a refresh in which a request
  fails drops the positions of that kind (`deribit_client.py:478`, against 461-462).

- Supervisors. The grace period of `supervisor.py:157` is never used, since the handlers
  leave no KeyboardInterrupt; a signal while a child is started reaches nobody (line 152).
  A bot that writes its liveness file later than a daemon cycle after its start is
  killed as an orphan, again and again (`crypto_supervisor.py:185`,
  `__main__.py:1606-1614`): `GuardsRecover` is checked with `QuickStart`. With it, too, the
  guards may fight for ever: a sweep ends the bot with the dashboard, the watchdog starts
  another beside the one that is left (`watchdog.ps1:96-112`), and the next sweep chooses
  again. The sentinel's probe for a
  dead bot matches the operator itself, so the healer's playbook for it never runs
  (`sentinel.py:124`, `healer.py:8-10`), and the launcher it would run is not where it
  looks (`healer.py:99`).
- Market data. `get_nearest_expiries` takes the first N of the exchange's list before it
  sorts (`deribit_ws.py:695`); the strip's cap counts options from the lower end of its
  window (784, against 752-753), where deribit_ws.py:124-125 and settings.yaml:36 speak of
  strikes; a volatility index of 3 percent or less is taken for a decimal and ranked 100
  (`deribit_ws.py:982-985`); quotes are looked up by strike and side over all expiries
  (317); a failed fetch is cached as an empty list for an hour (716); a rank of 50 passes
  for data when there is none (`__main__.py:894`).
- Strategies. The condor's stop is dollars less coins (`iron_condor.py:86-90`), which no
  loss comes near, and the call wing's, though the put wing may be wider; a strangle's
  call may be below the spot when all known strikes are (`short_strangle.py:61`); a
  spread is sized by half of its debit (`debit_spread.py:128`); the bearish spread asks
  for direction "B" and finds no strike (98); the calendar spread is never given its
  expiries (`calendar_spread.py:64`).
- LLM and trader. Every provider is asked for the trader's model (`llm.py:525`); a
  restart forgets the calls of the day (126). The parser takes the first word of a text
  for its decision, and what is in its first braces (`trader.py:656-660`, 616-631),
  whatever the rest says: "Veto is not warranted" stops a trade; "action is" is looked
  for without its blank (645); "hold" counts as approval (`__main__.py:1181`); the
  probes' probabilities are read from the wrong level (`trader.py:839`); "normal", which
  the prompt recommends, is rejected for two of the judgements (99); a pass without an
  idle context begins the next without waiting (`__main__.py:1716`).
- Evolver. The settings are written in place, so a stop leaves part of a file
  (`evolver.py:312`); the absolute limits are asked for by path and never found (238); a
  setting that is 0 or false, and NaN, pass the rails (235, 239); each proposal of a
  review is measured from the file as the one before left it (226); a proposal replaces
  another of its id (`memory.py:134`). `autonomy` (README.md:428) is read by no code,
  and the strategy parameters it deploys take effect at the next start only.
- Scripts. A running bot overwrites what a rebuild or a cleanup has written
  (`rebuild_broker_positions.py:239`, `cleanup_ghost_trades.py:144`); a rebuild drops a leg
  that filled after the journal's last write (70); `fresh_start.py:44` removes the files
  before it stops the bot.

## 6. Not modelled, and the plan

Not modelled: the services on the bus, its NATS backend and replay; the sentinel's and
the healer's probes and playbooks, which read files, start scripts and send messages;
the reflector, which writes lessons; the histories the agents append to; the dashboard's
views and the Telegram alerts; the Greeks, which are floating-point formulas, and the
backtest; scripts that archive logs or only read; the Deribit client's start in live
mode, which fails before the first cycle (`__main__.py:452` and 948 read an attribute only
the paper client has); HTTP, parsing, prompts and wording throughout.

In this order:

1. `Entries` composed with `Chain`, so that the expiry it is named is the chain's, and
   with `TradeBook` for the legs that fail.
2. The services as clients of `EventBus`.
