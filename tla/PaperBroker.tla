----------------------------- MODULE PaperBroker -----------------------------
(***************************************************************************)
(* The paper broker, crypto_options_bot/broker/paper_client.py: an order   *)
(* book, signed positions, a cash account and a realized P&L, changed by   *)
(* two threads (the runner's loop and the feed's tick callback) under one  *)
(* re-entrant lock, and saved to paper_state.json.                         *)
(*                                                                         *)
(* Prices are integers in units of 0.0001, the precision fill prices are   *)
(* rounded to.  Contract sizes are multiples of the smallest one, CsOne    *)
(* stands for the default 1.0, and money is price * quantity * size.       *)
(*                                                                         *)
(* inject_tick visits the orders one by one while it holds the lock; each  *)
(* visit is a step here, so that the kill switch, which takes the lock     *)
(* anew for every order, and a crash can fall between any two of them.     *)
(***************************************************************************)
EXTENDS Integers, Sequences, FiniteSetsExt

CONSTANTS
    Symbols,          \* instruments
    Options,          \* those with a strike and an expiry
    OrderInputs,      \* the orders a caller may submit
    ModifyPrices,     \* prices modify_order may set
    TickPrices,       \* last prices the feed may report, 0 included
    BSPrices,         \* Black-Scholes prices of an option (0: no volatility or
                      \* no spot price to compute one from)
    FillModes,        \* configured fill modes
    StartingCapital,  \* virtual cash
    CsOne,            \* the contract size 1.0
    SlippageBps, SpreadBps, MinSpread, NearBps,
    MaxOrders,        \* bound on the order book
    MaxSaveFailures   \* bound on failed writes of the state file

OrderTypes == {"MARKET", "LIMIT", "SL", "SL-M"}
Statuses   == {"open", "complete", "cancelled"}

OrderInput == [symbol : Symbols, side : {"BUY", "SELL"}, qty : Nat \ {0},
               type : OrderTypes, price : Nat, trigger : Nat, cs : Nat \ {0}]

ASSUME InputsAssumption ==
    /\ Options \subseteq Symbols
    /\ OrderInputs \subseteq OrderInput
    /\ ModifyPrices \subseteq Nat /\ TickPrices \subseteq Nat /\ BSPrices \subseteq Nat
    /\ StartingCapital \in Int /\ CsOne \in Nat \ {0}
    /\ SlippageBps \in 0..9999 /\ SpreadBps \in 0..9999 /\ MinSpread \in Nat /\ NearBps \in Nat
    /\ MaxOrders \in Nat /\ MaxSaveFailures \in Nat

VARIABLES
    proc,         \* "down", "loaded" (constructed) or "connected"
    fillMode,     \* broker.fill_mode of settings.yaml
    orders,       \* _orders, in insertion order
    positions,    \* _positions: a function on the symbols held
    ticks,        \* _ticks: last price of the symbols seen
    cash,         \* _cash
    realized,     \* _realized_pnl
    disk,         \* paper_state.json
    feed,         \* where the feed thread is inside inject_tick
    main,         \* where the runner's loop is inside the kill switch
    saveFailures, \* writes of the state file that failed so far
    flattened,    \* history: signed quantity close_all_positions removed
    balanced      \* history: no operation yet that books P&L and cash apart

book  == <<orders, positions, cash, realized>>
ghost == <<flattened, balanced>>
vars  == <<proc, fillMode, orders, positions, ticks, cash, realized, disk,
           feed, main, saveFailures, flattened, balanced>>

NoFile == [file |-> "absent"]

Snapshot == [file |-> "present", orders |-> orders, positions |-> positions,
             cash |-> cash, realized |-> realized,
             flattened |-> flattened, balanced |-> balanced]

FeedIdle == [phase |-> "idle", todo |-> {}]
MainRun  == [phase |-> "run", todo |-> {}]

\* The lock: the feed holds it from the first to the last order of a tick, the
\* kill switch while it closes positions; every other method is one step.
LockFree == feed.phase = "idle" /\ main.phase # "close"
MainFree == LockFree /\ main.phase \in {"run", "killed"}

EmptyMap == [x \in {} |-> 0]

EmptyBook == [orders |-> <<>>, positions |-> EmptyMap,
              cash |-> StartingCapital, realized |-> 0,
              flattened |-> [s \in Symbols |-> 0], balanced |-> TRUE]

BookBecomes(b) ==
    /\ orders' = b.orders
    /\ positions' = b.positions
    /\ cash' = b.cash
    /\ realized' = b.realized
    /\ flattened' = b.flattened
    /\ balanced' = b.balanced

Init ==
    /\ proc = "down"
    /\ fillMode \in FillModes
    /\ orders = EmptyBook.orders
    /\ positions = EmptyBook.positions
    /\ cash = EmptyBook.cash
    /\ realized = EmptyBook.realized
    /\ flattened = EmptyBook.flattened
    /\ balanced = EmptyBook.balanced
    /\ ticks = EmptyMap
    /\ disk = NoFile
    /\ feed = FeedIdle
    /\ main = MainRun
    /\ saveFailures = 0

------------------------------------------------------------------------------
(* Functions with a changing domain, for the dictionaries of the code. *)

Put(f, k, v)  == [x \in DOMAIN f \cup {k} |-> IF x = k THEN v ELSE f[x]]
Without(f, k) == [x \in DOMAIN f \ {k} |-> f[x]]

Larger(a, b)  == IF a >= b THEN a ELSE b
Smaller(a, b) == IF a <= b THEN a ELSE b
Abs(n)        == IF n >= 0 THEN n ELSE -n

OrderIds == DOMAIN orders
First(k, S) == \A j \in S : k <= j
LastPrice(s) == IF s \in DOMAIN ticks THEN ticks[s] ELSE 0

\* mutant: saves the state before the step
SaveBefore ==
    \/ disk' = Snapshot /\ UNCHANGED saveFailures
    \/ /\ saveFailures < MaxSaveFailures
       /\ saveFailures' = saveFailures + 1
       /\ UNCHANGED disk

\* A write of paper_state.json either replaces the file with the state after
\* the step or, every retry having failed, leaves it as it was and goes on.
SaveState ==
    \/ disk' = Snapshot' /\ UNCHANGED saveFailures
    \/ /\ saveFailures < MaxSaveFailures
       /\ saveFailures' = saveFailures + 1
       /\ UNCHANGED disk

------------------------------------------------------------------------------
(* The fill simulator. *)

Slip(ref) == (ref * SlippageBps) \div 10000
Slipped(o, ref) == IF o.side = "BUY" THEN ref + Slip(ref) ELSE ref - Slip(ref)
Near(o, ref) == ref > 0 /\ Abs(o.price - ref) * 10000 < ref * NearBps

\* mutant: a near limit order fills at the market instead of at its price
MarketableLimitPrice(o, ref) ==
    IF Near(o, ref) THEN ref ELSE 0

LimitPrice(o, ref) ==
    LET spread == Larger(MinSpread, (ref * SpreadBps) \div 10000)
        ask == ref + spread
        bid == ref - spread
    IN  IF o.side = "BUY" /\ o.price >= ask THEN Smaller(o.price, ask)
        ELSE IF o.side = "SELL" /\ o.price <= bid THEN Larger(o.price, bid)
        ELSE IF Near(o, ref) THEN o.price
        ELSE 0

Triggered(o, ref) == IF o.side = "BUY" THEN ref >= o.trigger ELSE ref <= o.trigger

StopPrice(o, ref) ==
    IF ~Triggered(o, ref) THEN 0
    ELSE IF o.type = "SL" /\ o.price > 0 THEN o.price
    ELSE ref

\* The reference price of _try_fill: the tick, or the order's own price when
\* the instrument is unquoted (ltp = 0).
TryRef(o) == IF LastPrice(o.symbol) > 0 THEN LastPrice(o.symbol) ELSE o.price

\* _try_fill: the price it fills at, 0 when the order stays open.
TryFill(o) ==
    IF o.symbol \notin DOMAIN ticks THEN 0
    ELSE IF o.type = "MARKET" THEN Slipped(o, TryRef(o))
    ELSE IF o.type = "LIMIT" THEN LimitPrice(o, TryRef(o))
    ELSE StopPrice(o, TryRef(o))

\* _try_fill notes the price it expects even when it does not fill.
Expecting(o) ==
    IF o.symbol \in DOMAIN ticks THEN [o EXCEPT !.expected = TryRef(o)] ELSE o

\* The fallback chain of _force_fill_market_like; 0 is the SKIP at its end.
ForceRef(o, bs) ==
    IF LastPrice(o.symbol) > 0 THEN LastPrice(o.symbol)
    ELSE IF o.price > 0 THEN o.price
    ELSE IF o.expected > 0 THEN o.expected
    ELSE IF o.symbol \in Options \cap DOMAIN ticks /\ bs > 0 THEN bs
    ELSE IF o.symbol \in DOMAIN positions THEN positions[o.symbol].avg
    ELSE 0

------------------------------------------------------------------------------
(* _apply_fill: what a fill of the whole order at this price does. *)

FillValue(o, price) == o.qty * price * o.cs

NewPosition(o, price) ==
    [qty |-> IF o.side = "BUY" THEN o.qty ELSE -o.qty,
     avg |-> price, ltp |-> price, cs |-> o.cs]

\* mutant: closing more than the short keeps the short's average price
BuyKeepingAverage(p, o, price) ==
    [p EXCEPT !.qty = @ + o.qty]

BuyInto(p, o, price) ==
    IF p.qty > 0
    THEN [qty |-> p.qty + o.qty, ltp |-> price, cs |-> p.cs,
          avg |-> (p.avg * p.qty + price * o.qty) \div (p.qty + o.qty)]
    ELSE [qty |-> p.qty + o.qty, ltp |-> p.ltp, cs |-> p.cs,
          avg |-> IF p.qty + o.qty > 0 THEN price ELSE p.avg]

\* Selling into a short leaves its average price alone.
SellInto(p, o, price) ==
    [qty |-> p.qty - o.qty, ltp |-> p.ltp, cs |-> p.cs,
     avg |-> IF p.qty > 0 /\ p.qty < o.qty THEN price ELSE p.avg]

PositionsAfter(o, price) ==
    IF o.symbol \notin DOMAIN positions
    THEN Put(positions, o.symbol, NewPosition(o, price))
    ELSE LET p == positions[o.symbol]
             q == IF o.side = "BUY" THEN BuyInto(p, o, price) ELSE SellInto(p, o, price)
         IN  IF q.qty = 0 THEN Without(positions, o.symbol) ELSE Put(positions, o.symbol, q)

\* The P&L a fill books: contract sizes are not applied, and a SELL into a
\* short books the difference to its average as if it closed that quantity.
GainOf(o, price) ==
    IF o.symbol \notin DOMAIN positions THEN 0
    ELSE LET p == positions[o.symbol]
             q == Smaller(Abs(p.qty), o.qty)
         IN  IF p.qty > 0 /\ o.side = "BUY" THEN 0
             ELSE IF p.qty > 0 THEN (price - p.avg) * q * CsOne
             ELSE (p.avg - price) * q * CsOne

\* The fills after which cash and P&L no longer tell the same story; the last
\* are those whose average price falls between two units of this model.
SplitsBooks(o, price) ==
    \/ o.cs # CsOne
    \/ /\ o.symbol \in DOMAIN positions
       /\ LET p == positions[o.symbol] IN
          \/ p.cs # o.cs
          \/ o.side = "SELL" /\ p.qty < 0
          \/ /\ o.side = "BUY" /\ p.qty > 0
             /\ (p.avg * p.qty + price * o.qty) % (p.qty + o.qty) # 0

ApplyFill(o, price) ==
    IF price > 0
    THEN /\ positions' = PositionsAfter(o, price)
         /\ cash' = IF o.side = "BUY" THEN cash - FillValue(o, price)
                                      ELSE cash + FillValue(o, price)
         /\ realized' = realized + GainOf(o, price)
         /\ balanced' = (balanced /\ ~SplitsBooks(o, price))
    ELSE UNCHANGED <<positions, cash, realized, balanced>>

Completed(o, price) ==
    IF price > 0 THEN [o EXCEPT !.status = "complete", !.filled = o.qty, !.fill = price]
                 ELSE o

\* _force_fill_market_like: the order it leaves, with the price in fill.
Forced(o, bs) ==
    LET ref == ForceRef(o, bs)
    IN  IF ref > 0 THEN Completed([o EXCEPT !.expected = ref], Slipped(o, ref)) ELSE o

------------------------------------------------------------------------------
(* Orders: the runner's loop. *)

Submitted(i) ==
    [symbol |-> i.symbol, side |-> i.side, qty |-> i.qty, type |-> i.type,
     price |-> i.price, trigger |-> i.trigger, cs |-> i.cs,
     status |-> "open", filled |-> 0, fill |-> 0, expected |-> 0]

\* place_order: fill against the cached tick, else force the fill when the
\* mode is market_like, else leave the order open.
PlaceOrder(i, bs) ==
    /\ proc = "connected" /\ MainFree
    /\ Len(orders) < MaxOrders
    /\ LET o == Completed(Expecting(Submitted(i)), TryFill(Submitted(i)))
           placed == IF o.status = "open" /\ fillMode = "market_like" THEN Forced(o, bs) ELSE o
       IN  /\ orders' = Append(orders, placed)
           /\ ApplyFill(placed, placed.fill)
    /\ main' = MainRun
    /\ UNCHANGED flattened
    /\ SaveState
    /\ UNCHANGED <<proc, fillMode, ticks, feed>>

\* modify_order: refused on a finished order; tries a fill, never forces one.
ModifyOrder(k, price) ==
    /\ proc # "down" /\ MainFree
    /\ orders[k].status = "open"
    /\ LET o == [orders[k] EXCEPT !.price = price]
           p == TryFill(o)
       IN  /\ orders' = [orders EXCEPT ![k] = Completed(Expecting(o), p)]
           /\ ApplyFill(o, p)
    /\ UNCHANGED flattened
    /\ SaveState
    /\ UNCHANGED <<proc, fillMode, ticks, feed, main>>

\* What cancel_order does to order k: a filled order is refused, any other
\* one, a cancelled one included, is marked cancelled and the book saved.
Cancel(k) ==
    /\ orders' = [orders EXCEPT ![k].status = "cancelled"]
    /\ UNCHANGED <<positions, cash, realized, flattened, balanced>>
    /\ SaveState

CancelOrder(k) ==
    /\ proc # "down" /\ MainFree
    /\ orders[k].status # "complete"
    /\ Cancel(k)
    /\ UNCHANGED <<proc, fillMode, ticks, feed, main>>

\* get_positions refreshes the last price of what is held.
GetPositions ==
    /\ proc # "down" /\ MainFree
    /\ positions' = [s \in DOMAIN positions |->
                       IF s \in DOMAIN ticks THEN [positions[s] EXCEPT !.ltp = ticks[s]]
                                             ELSE positions[s]]
    /\ UNCHANGED <<proc, fillMode, orders, ticks, cash, realized, disk, feed, main,
                   saveFailures, ghost>>

------------------------------------------------------------------------------
(* inject_tick: the feed's thread. *)

OpenOrders == {k \in OrderIds : orders[k].status = "open"}

TickArrives(s, ltp) ==
    /\ proc # "down" /\ LockFree
    /\ ticks' = Put(ticks, s, ltp)
    /\ positions' = IF s \in DOMAIN positions
                    THEN [positions EXCEPT ![s].ltp = ltp] ELSE positions
    /\ feed' = [phase |-> "try", todo |-> {k \in OpenOrders : orders[k].symbol = s}]
    /\ UNCHANGED <<proc, fillMode, orders, cash, realized, disk, main, saveFailures, ghost>>

TickTriesOrder ==
    /\ feed.phase = "try"
    /\ \E k \in feed.todo :
         /\ First(k, feed.todo)
         /\ LET p == TryFill(orders[k])
            IN  /\ orders' = [orders EXCEPT ![k] = Completed(Expecting(orders[k]), p)]
                /\ ApplyFill(orders[k], p)
         /\ feed' = [feed EXCEPT !.todo = @ \ {k}]
    /\ UNCHANGED <<proc, fillMode, ticks, disk, main, saveFailures, flattened>>

\* In market_like mode a second pass forces every open order, of any symbol.
TickBeginsForcing ==
    /\ feed.phase = "try" /\ feed.todo = {}
    /\ feed' = [feed EXCEPT !.phase = "force",
                            !.todo = IF fillMode = "market_like" THEN OpenOrders ELSE {}]
    /\ UNCHANGED <<proc, fillMode, book, ticks, disk, main, saveFailures, ghost>>

TickForcesOrder(bs) ==
    /\ feed.phase = "force"
    /\ \E k \in feed.todo :
         /\ First(k, feed.todo)
         /\ LET o == Forced(orders[k], bs)
            IN  /\ orders' = [orders EXCEPT ![k] = o]
                /\ ApplyFill(o, o.fill)
         /\ feed' = [feed EXCEPT !.todo = @ \ {k}]
    /\ UNCHANGED <<proc, fillMode, ticks, disk, main, saveFailures, flattened>>

\* The save that ends inject_tick; then the lock is released.
TickEnds ==
    /\ feed.phase = "force" /\ feed.todo = {}
    /\ feed' = FeedIdle
    /\ UNCHANGED <<book, ghost>>
    /\ SaveState
    /\ UNCHANGED <<proc, fillMode, ticks, main>>

------------------------------------------------------------------------------
(* The kill switch: cancel_all_open_orders, then close_all_positions. *)

\* cancel_all_open_orders holds no lock of its own: it lists the orders, then
\* cancels them one by one, and ticks may fill some of them in between.
\* mutant: the kill switch closes the positions without cancelling first
KillClosesFirst ==
    /\ proc = "connected" /\ MainFree
    /\ main' = [phase |-> "close", todo |-> {}]
    /\ UNCHANGED <<proc, fillMode, book, ticks, disk, feed, saveFailures, ghost>>

KillBegins ==
    /\ proc = "connected" /\ MainFree
    /\ main' = [phase |-> "cancel", todo |-> {k \in OrderIds : orders[k].status # "complete"}]
    /\ UNCHANGED <<proc, fillMode, book, ticks, disk, feed, saveFailures, ghost>>

KillCancels ==
    /\ main.phase = "cancel" /\ LockFree
    /\ \E k \in main.todo :
         /\ First(k, main.todo)
         /\ main' = [main EXCEPT !.todo = @ \ {k}]
         /\ IF orders[k].status = "complete"
            THEN UNCHANGED <<book, ghost, disk, saveFailures>>
            ELSE Cancel(k)
    /\ UNCHANGED <<proc, fillMode, ticks, feed>>

KillTakesLock ==
    /\ main.phase = "cancel" /\ main.todo = {} /\ LockFree
    /\ main' = [main EXCEPT !.phase = "close"]
    /\ UNCHANGED <<proc, fillMode, book, ticks, disk, feed, saveFailures, ghost>>

\* One position marked to market: P&L is booked, the cash account is not
\* touched, and nothing is saved.
KillCloses(s) ==
    /\ main.phase = "close" /\ s \in DOMAIN positions
    /\ LET p == positions[s]
           price == IF p.ltp > 0 THEN p.ltp ELSE p.avg
       IN  /\ realized' = realized + (price - p.avg) * p.qty * p.cs
           /\ flattened' = [flattened EXCEPT ![s] = @ + p.qty]
    /\ positions' = Without(positions, s)
    /\ balanced' = FALSE
    /\ UNCHANGED <<proc, fillMode, orders, ticks, cash, disk, feed, main, saveFailures>>

KillEnds ==
    /\ main.phase = "close" /\ DOMAIN positions = {}
    /\ main' = [main EXCEPT !.phase = "killed"]
    /\ UNCHANGED <<proc, fillMode, book, ticks, disk, feed, saveFailures, ghost>>

------------------------------------------------------------------------------
(* Life cycle and persistence. *)

\* A restart cancels the open orders that were saved without a price.
\* mutant: the status is written in upper case
ZombieUpper(o) ==
    IF o.status = "open" /\ o.price = 0 THEN [o EXCEPT !.status = "CANCELLED"] ELSE o

ZombieClean(o) ==
    IF o.status = "open" /\ o.price = 0 THEN [o EXCEPT !.status = "cancelled"] ELSE o

Loaded(b) == [orders |-> [k \in DOMAIN b.orders |-> ZombieClean(b.orders[k])],
              positions |-> b.positions, cash |-> b.cash, realized |-> b.realized,
              flattened |-> b.flattened, balanced |-> b.balanced]

\* __init__ and _load_state.
Start ==
    /\ proc = "down"
    /\ proc' = "loaded"
    /\ IF disk = NoFile THEN UNCHANGED <<book, ghost>> ELSE BookBecomes(Loaded(disk))
    /\ UNCHANGED <<fillMode, ticks, disk, feed, main, saveFailures>>

Connect ==
    /\ proc = "loaded" /\ LockFree
    /\ proc' = "connected"
    /\ UNCHANGED <<fillMode, book, ticks, disk, feed, main, saveFailures, ghost>>

Disconnect ==
    /\ proc = "connected" /\ MainFree
    /\ proc' = "loaded"
    /\ UNCHANGED <<book, ghost>>
    /\ SaveState
    /\ UNCHANGED <<fillMode, ticks, feed, main>>

Crash ==
    /\ proc # "down"
    /\ proc' = "down"
    /\ BookBecomes(EmptyBook)
    /\ ticks' = EmptyMap
    /\ feed' = FeedIdle
    /\ main' = MainRun
    /\ UNCHANGED <<fillMode, disk, saveFailures>>

\* reset: wipes the memory and removes the file.
Reset ==
    /\ proc # "down" /\ MainFree
    /\ BookBecomes(EmptyBook)
    /\ ticks' = EmptyMap
    /\ disk' = NoFile
    /\ UNCHANGED <<proc, fillMode, feed, main, saveFailures>>

------------------------------------------------------------------------------
Runner ==
    \/ \E i \in OrderInputs, bs \in BSPrices : PlaceOrder(i, bs)
    \/ \E k \in OrderIds : \/ CancelOrder(k)
                           \/ \E p \in ModifyPrices : ModifyOrder(k, p)
    \/ GetPositions
    \/ KillBegins \/ KillCancels \/ KillTakesLock \/ KillEnds
    \/ \E s \in Symbols : KillCloses(s)

Feed ==
    \/ \E s \in Symbols, p \in TickPrices : TickArrives(s, p)
    \/ TickTriesOrder \/ TickBeginsForcing \/ TickEnds
    \/ \E bs \in BSPrices : TickForcesOrder(bs)

Lifecycle == Start \/ Connect \/ Disconnect \/ Crash \/ Reset

Next == Runner \/ Feed \/ Lifecycle

Spec == Init /\ [][Next]_vars

------------------------------------------------------------------------------
(* Properties. *)

Order == [symbol : Symbols, side : {"BUY", "SELL"}, qty : Nat \ {0}, type : OrderTypes,
          price : Nat, trigger : Nat, cs : Nat \ {0}, status : Statuses,
          filled : Nat, fill : Nat, expected : Nat]

Position == [qty : Int, avg : Nat, ltp : Nat, cs : Nat \ {0}]

\* A dictionary from some of the symbols to T.
SymbolMap(f, T) ==
    /\ DOMAIN f \subseteq Symbols
    /\ f = [s \in DOMAIN f |-> f[s]]
    /\ \A s \in DOMAIN f : f[s] \in T

BookType(b) ==
    /\ b.orders \in Seq(Order)
    /\ SymbolMap(b.positions, Position)
    /\ b.cash \in Int /\ b.realized \in Int
    /\ b.flattened \in [Symbols -> Int] /\ b.balanced \in BOOLEAN

\* Type invariant: the state of paper_client.py, in memory and on disk.
TypeOK ==
    /\ proc \in {"down", "loaded", "connected"}
    /\ fillMode \in FillModes
    /\ BookType(Snapshot)
    /\ SymbolMap(ticks, Nat)
    /\ disk = NoFile \/ BookType(disk)
    /\ feed \in [phase : {"idle", "try", "force"}, todo : SUBSET OrderIds]
    /\ main \in [phase : {"run", "cancel", "close", "killed"}, todo : SUBSET OrderIds]
    /\ saveFailures \in 0..MaxSaveFailures

Signed(o) == IF o.side = "BUY" THEN o.filled ELSE -o.filled
Held(s) == IF s \in DOMAIN positions THEN positions[s].qty ELSE 0
Of(os, s) == {k \in DOMAIN os : os[k].symbol = s}

\* Signed quantities and values of orders, and what positions have cost.
Quantities(os) == [k \in DOMAIN os |-> Signed(os[k])]
Values(os)     == [k \in DOMAIN os |-> Signed(os[k]) * os[k].fill * os[k].cs]
Costs(ps)      == [s \in DOMAIN ps |-> ps[s].qty * ps[s].avg * ps[s].cs]

\* Every fill moves cash exactly once: whatever ticks, forced fills, cancels,
\* kill switches, failed saves and restarts came before, the cash account is
\* the starting capital less the signed value of the completed orders.
CashMatchesFills ==
    proc # "down" =>
        cash = StartingCapital - SumFunctionOnSet(Values(orders), OrderIds)

\* The positions are the net of the completed orders, but for what the kill
\* switch has flattened: no fill is lost, applied twice or applied to the
\* wrong side, and a SELL into nothing is a short.
PositionsMatchFills ==
    proc # "down" =>
        \A s \in Symbols :
            Held(s) = SumFunctionOnSet(Quantities(orders), Of(orders, s)) - flattened[s]

\* Double-entry: cash plus the cost of what is held is the capital plus the
\* realized P&L, as long as no fill sold into a short, no order had a contract
\* size other than 1, no average price had to be rounded to a unit and the kill
\* switch closed nothing (the operations that book one side only).
BooksBalance ==
    proc # "down" /\ balanced =>
        cash + SumFunctionOnSet(Costs(positions), DOMAIN positions) = StartingCapital + realized

\* Once the kill switch has run, and until the runner places another order,
\* nothing is held and nothing is open, whatever ticks arrived while it was
\* cancelling the orders one by one, and whatever ticks arrive afterwards.
KillLeavesFlat ==
    main.phase = "killed" => DOMAIN positions = {} /\ OpenOrders = {}

\* A filled limit order that paid more, or got less, than its limit.
BeyondLimit(o) ==
    /\ o.type = "LIMIT" /\ o.status = "complete"
    /\ IF o.side = "BUY" THEN o.fill > o.price ELSE o.fill < o.price

\* A limit order never fills beyond its limit in the modes that do not force
\* fills, whichever of place_order, modify_order and inject_tick fills it.
LimitRespected ==
    fillMode # "market_like" => \A k \in OrderIds : ~BeyondLimit(orders[k])

FinishedStay ==
    proc # "down" /\ proc' # "down" /\ Len(orders') >= Len(orders) =>
        \A k \in OrderIds : orders[k].status # "open" => orders'[k] = orders[k]

\* While a process lives, a completed order keeps its fill and a cancelled
\* order never comes back: no later tick, modification or kill switch touches
\* either.  (After a crash the book is the one last saved.)
FinishedOrdersStay == [][FinishedStay]_vars

\* What the ledger shows of an order, of the book in memory or, while the bot is
\* down, of the one the next start will find, and of the file.
Lot(o) == [symbol |-> o.symbol, status |-> o.status,
           qty |-> IF o.side = "BUY" THEN o.qty ELSE -o.qty]

Shown(os, ps) == [orders |-> [k \in DOMAIN os |-> Lot(os[k])],
                  pos |-> [s \in Symbols |-> IF s \in DOMAIN ps THEN ps[s].qty ELSE 0]]

Saved    == IF disk = NoFile THEN EmptyBook ELSE disk
OnFile   == Shown(Saved.orders, Saved.positions)
InMemory == IF proc = "down" THEN Shown(Loaded(Saved).orders, Saved.positions)
                             ELSE Shown(orders, positions)

L == INSTANCE Ledger WITH book <- InMemory, file <- OnFile

\* The broker is a ledger: whichever thread works and wherever a save fails or the
\* process dies, positions move by whole orders as these fill, once each, or are
\* flattened, and a restart goes on from a book that was once saved.
LedgerKept == L!Spec /\ FinishedOrdersStay

\* Cash, positions and realized P&L are what the fills make them, through ticks,
\* kills, lost saves and restarts.
BooksFollowFills == CashMatchesFills /\ PositionsMatchFills /\ BooksBalance

==============================================================================
