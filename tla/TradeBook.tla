----------------------------- MODULE TradeBook -----------------------------
(***************************************************************************)
(* The order manager, crypto_options_bot/execution/order_manager.py: the   *)
(* journal of multi-leg trades it keeps over the paper broker's book, each *)
(* with its own file, and how the runner opens, closes, kills, restarts    *)
(* and repairs them.                                                       *)
(*                                                                         *)
(* The broker is reduced to quantities (PaperBroker has prices, cash and   *)
(* the fill rules): whether an order fills at once or on a later tick is a *)
(* choice here.  A plan's legs reach it one by one, and the journal is     *)
(* written after the last of them, so ticks and crashes fall in between.   *)
(*                                                                         *)
(* In a running process the journal's orders are the broker's own objects. *)
(* After a restart they are copies, whose status nobody updates.           *)
(***************************************************************************)
EXTENDS Integers, Sequences, Functions

CONSTANTS
    Options, Futures,  \* instruments: the runner's dedupe sees options only
    Plans,             \* the legs of the plans strategies may build
    RecoverOrphan,     \* whether the bot may be started with --recover-orphan
    MaxTrades,         \* bound on the trades ever opened
    MaxOrders,         \* bound on the orders ever placed
    MaxRestarts        \* bound on stops and crashes

Symbols == Options \cup Futures

Leg == [symbol : Symbols, qty : Int \ {0}]

ASSUME PlansAssumption ==
    /\ Options \cap Futures = {}
    /\ Plans \subseteq Seq(Leg) /\ <<>> \notin Plans
    /\ RecoverOrphan \subseteq BOOLEAN /\ RecoverOrphan # {}
    /\ MaxTrades \in Nat /\ MaxOrders \in Nat /\ MaxRestarts \in Nat

VARIABLES
    up,          \* the process runs
    paused,      \* the risk engine's pause, as the kill switch sets it
    orders,      \* broker: orders by number
    pos,         \* broker: signed quantity held
    brokerFile,  \* paper_state.json
    dirty,       \* the feed has filled an order and not saved yet
    trades,      \* journal: _trades, in order of opening
    symMap,      \* journal: _symbol_to_trade
    tradesFile,  \* trades_state.json
    op,          \* the operation the runner's loop is in
    serial,      \* orders placed so far; their numbers are never used again
    restarts,    \* stops and crashes so far
    behind,      \* history: the last write of the journal failed
    torn,        \* history: a crash or a failed write separated the two files
    overridden,  \* history: positions were set otherwise than by a fill
    killed       \* history: the kill switch has run, no plan was executed since

broker  == <<orders, pos>>
journal == <<trades, symMap>>
files   == <<brokerFile, tradesFile, behind>>
history == <<torn, overridden, killed>>
vars    == <<up, paused, broker, files, dirty, journal, op, serial, restarts, history>>

EmptyMap == [x \in {} |-> 0]
Nothing  == [s \in Symbols |-> 0]
Idle     == [kind |-> "idle", plan |-> <<>>, trade |-> 0, next |-> 1, placed |-> <<>>]

BrokerState == [orders |-> orders, pos |-> pos, overridden |-> overridden]

Init ==
    /\ up = FALSE /\ paused = FALSE
    /\ orders = EmptyMap /\ pos = Nothing
    /\ brokerFile = [orders |-> EmptyMap, pos |-> Nothing, overridden |-> FALSE]
    /\ dirty = FALSE
    /\ trades = <<>> /\ symMap = EmptyMap
    /\ tradesFile = [trades |-> <<>>, symMap |-> EmptyMap]
    /\ op = Idle /\ serial = 0 /\ restarts = 0
    /\ behind = FALSE /\ torn = FALSE /\ overridden = FALSE /\ killed = FALSE

------------------------------------------------------------------------------
(* Orders and trades. *)

CompleteIn(os, k) == k \in DOMAIN os /\ os[k].status = "complete"
Complete(k)       == CompleteIn(orders, k)

TradeIds   == DOMAIN trades
OpenTrades == {t \in TradeIds : ~trades[t].closed}

LegsOf(t) == {trades[t].legs[i].order : i \in DOMAIN trades[t].legs}

\* The status the order manager reads off leg i of trade t.
LegStatus(t, i) ==
    LET leg == trades[t].legs[i]
    IN  IF trades[t].copied THEN leg.seen ELSE orders[leg.order].status

LegsIn(ts) == UNION {{<<t, i>> : i \in DOMAIN ts[t].legs} : t \in DOMAIN ts}

\* The sum of the quantities of some legs of ts, each by its trade and place.
SumLegs(ts, legs) == SumFunctionOnSet([p \in legs |-> ts[p[1]].legs[p[2]].qty], legs)

\* The journal as _save_state writes it: with the statuses of the moment.
JournalRecord(ts) ==
    [t \in DOMAIN ts |->
       [ts[t] EXCEPT !.legs = [i \in DOMAIN ts[t].legs |->
          [ts[t].legs[i] EXCEPT !.seen =
             IF ts[t].copied THEN @ ELSE orders[ts[t].legs[i].order].status]]]]

\* Written to another file, which takes the place of the old one; if that fails
\* the old one stays, a warning is logged, and nothing is tried again.
SaveJournal ==
    \/ /\ tradesFile' = [trades |-> JournalRecord(trades'), symMap |-> symMap']
       /\ behind' = FALSE
    \/ UNCHANGED tradesFile /\ behind' = TRUE

\* An order the broker fills: the position moves by its quantity.
Filled(o, late) == [o EXCEPT !.status = "complete", !.late = late]

\* mutant: leaves the save to the next tick
PlaceUnsaved(symbol, qty, closes) ==
    /\ serial < MaxOrders
    /\ serial' = serial + 1
    /\ \E fills \in BOOLEAN :
         LET o == [symbol |-> symbol, qty |-> qty, closes |-> closes,
                   status |-> "open", late |-> FALSE]
         IN  /\ orders' = [k \in DOMAIN orders \cup {serial'} |->
                             IF k # serial' THEN orders[k]
                             ELSE IF fills THEN Filled(o, FALSE) ELSE o]
             /\ pos' = IF fills THEN [pos EXCEPT ![symbol] = @ + qty] ELSE pos
    /\ UNCHANGED <<overridden, brokerFile>>

\* place_order: the order is entered, filled at once or not, and saved.
Place(symbol, qty, closes) ==
    /\ serial < MaxOrders
    /\ serial' = serial + 1
    /\ \E fills \in BOOLEAN :
         LET o == [symbol |-> symbol, qty |-> qty, closes |-> closes,
                   status |-> "open", late |-> FALSE]
         IN  /\ orders' = [k \in DOMAIN orders \cup {serial'} |->
                             IF k # serial' THEN orders[k]
                             ELSE IF fills THEN Filled(o, FALSE) ELSE o]
             /\ pos' = IF fills THEN [pos EXCEPT ![symbol] = @ + qty] ELSE pos
    /\ UNCHANGED overridden
    /\ brokerFile' = BrokerState'

\* The broker's lock: not while the feed is inside inject_tick.
Ready == up /\ ~dirty

------------------------------------------------------------------------------
(* Opening: _process_strategy's dedupe, then execute_plan. *)

\* mutant: the strategy is only held back by its cooldown
NoDedupe(plan) == {}

\* The option symbols of the plan that an open trade already has.
Duplicates(plan) ==
    {plan[i].symbol : i \in DOMAIN plan} \cap Options \cap
        UNION {{trades[t].legs[i].symbol : i \in DOMAIN trades[t].legs} : t \in OpenTrades}

BeginOpen(plan) ==
    /\ up /\ op = Idle /\ ~paused /\ Len(trades) < MaxTrades
    /\ Duplicates(plan) = {}
    /\ op' = [Idle EXCEPT !.kind = "open", !.plan = plan]
    /\ UNCHANGED <<up, paused, broker, files, dirty, journal, serial, restarts, history>>

PlaceLeg ==
    /\ Ready /\ op.kind = "open" /\ op.next <= Len(op.plan)
    /\ Place(op.plan[op.next].symbol, op.plan[op.next].qty, 0)
    /\ op' = [op EXCEPT !.next = @ + 1, !.placed = Append(@, serial')]
    /\ killed' = FALSE
    /\ UNCHANGED <<up, paused, tradesFile, behind, dirty, journal, restarts, torn>>

\* The trade is entered, its unmapped symbols are mapped to it, and saved.
EndOpen ==
    /\ up /\ op.kind = "open" /\ op.next > Len(op.plan)
    /\ LET legs == [i \in DOMAIN op.plan |-> [order |-> op.placed[i],
                                              symbol |-> op.plan[i].symbol,
                                              qty |-> op.plan[i].qty, seen |-> "open"]]
           id   == Len(trades) + 1
       IN  /\ trades' = Append(trades, [legs |-> legs, closed |-> FALSE, copied |-> FALSE])
           /\ symMap' = [s \in DOMAIN symMap \cup {legs[i].symbol : i \in DOMAIN legs} |->
                           IF s \in DOMAIN symMap THEN symMap[s] ELSE id]
    /\ SaveJournal
    /\ op' = Idle
    /\ UNCHANGED <<up, paused, broker, brokerFile, dirty, serial, restarts, history>>

------------------------------------------------------------------------------
(* Closing: _monitor_targets_stops picks an open trade, close_trade. *)

BeginClose(t) ==
    /\ up /\ op = Idle /\ t \in OpenTrades
    /\ op' = [Idle EXCEPT !.kind = "close", !.trade = t]
    /\ UNCHANGED <<up, paused, broker, files, dirty, journal, serial, restarts, history>>

\* mutant: closes with the side of the entry
SameSide(qty) == qty

ClosingQty(qty) == -qty

\* A leg that is complete, as far as the journal knows, gets a closing order of
\* the opposite side; the others are passed over, not cancelled.
CloseLeg ==
    /\ op.kind = "close" /\ op.next <= Len(trades[op.trade].legs)
    /\ LET leg == trades[op.trade].legs[op.next]
       IN  IF LegStatus(op.trade, op.next) = "complete"
           THEN /\ Ready
                /\ Place(leg.symbol, ClosingQty(leg.qty), leg.order)
           ELSE up /\ UNCHANGED <<broker, brokerFile, serial, overridden>>
    /\ op' = [op EXCEPT !.next = @ + 1]
    /\ UNCHANGED <<up, paused, tradesFile, behind, dirty, journal, restarts, torn, killed>>

Unmapped(t) == [s \in {x \in DOMAIN symMap : symMap[x] # t} |-> symMap[s]]

EndClose ==
    /\ up /\ op.kind = "close" /\ op.next > Len(trades[op.trade].legs)
    /\ trades' = [trades EXCEPT ![op.trade].closed = TRUE]
    /\ symMap' = Unmapped(op.trade)
    /\ SaveJournal
    /\ op' = Idle
    /\ UNCHANGED <<up, paused, broker, brokerFile, dirty, serial, restarts, history>>

------------------------------------------------------------------------------
(* The feed: inject_tick fills, then saves, both under the broker's lock. *)

QtyOf(ks) == SumFunctionOnSet([k \in ks |-> orders[k].qty], ks)

\* A leg that fills when its trade is closed, or is being closed, is late:
\* close_trade may have passed it over.
IsLate(k) ==
    \/ \E t \in TradeIds \ OpenTrades : k \in LegsOf(t)
    \/ op.kind = "close" /\ k \in LegsOf(op.trade)

TickFills(ks) ==
    /\ Ready /\ \A k \in ks : orders[k].status = "open"
    /\ orders' = [k \in DOMAIN orders |->
                    IF k \in ks THEN Filled(orders[k], IsLate(k)) ELSE orders[k]]
    /\ pos' = [s \in Symbols |-> pos[s] + QtyOf({k \in ks : orders[k].symbol = s})]
    /\ dirty' = TRUE
    /\ UNCHANGED <<up, paused, files, journal, op, serial, restarts, history>>

TickSaves ==
    /\ up /\ dirty
    /\ brokerFile' = BrokerState
    /\ dirty' = FALSE
    /\ UNCHANGED <<up, paused, broker, tradesFile, behind, journal, op, serial, restarts, history>>

------------------------------------------------------------------------------
(* The kill switch: cancel every open order, close every position, pause. *)

\* mutant: cancels the orders that have filled too
CancelsFilled ==
    /\ Ready /\ op = Idle
    /\ orders' = [k \in DOMAIN orders |-> [orders[k] EXCEPT !.status = "cancelled"]]
    /\ brokerFile' = [BrokerState EXCEPT !.orders = orders']
    /\ op' = [Idle EXCEPT !.kind = "kill"]
    /\ UNCHANGED <<up, paused, pos, tradesFile, behind, dirty, journal, serial, restarts, history>>

\* Each order that is not complete is cancelled, and each cancel is saved.
KillCancels ==
    /\ Ready /\ op = Idle
    /\ orders' = [k \in DOMAIN orders |->
                    IF Complete(k) THEN orders[k] ELSE [orders[k] EXCEPT !.status = "cancelled"]]
    /\ brokerFile' = IF \A k \in DOMAIN orders : Complete(k)
                     THEN brokerFile ELSE [BrokerState EXCEPT !.orders = orders']
    /\ op' = [Idle EXCEPT !.kind = "kill"]
    /\ UNCHANGED <<up, paused, pos, tradesFile, behind, dirty, journal, serial, restarts, history>>

\* close_all_positions places no order, saves nothing and leaves the journal alone.
KillCloses ==
    /\ Ready /\ op.kind = "kill"
    /\ pos' = Nothing
    /\ overridden' = TRUE /\ killed' = TRUE
    /\ paused' = TRUE
    /\ op' = Idle
    /\ UNCHANGED <<up, orders, files, dirty, journal, serial, restarts, torn>>

------------------------------------------------------------------------------
(* Stops, crashes and starts. *)

\* The loop ends, the feed is stopped and disconnect saves the broker.
Shutdown ==
    /\ Ready /\ op = Idle /\ restarts < MaxRestarts
    /\ up' = FALSE
    /\ brokerFile' = BrokerState
    /\ restarts' = restarts + 1
    /\ UNCHANGED <<paused, broker, tradesFile, behind, dirty, journal, op, serial, history>>

\* The journal on disk knows of a fill that the broker's file does not have: it
\* was written between the fill and the feed's save.
AheadOfBroker ==
    \E t \in DOMAIN tradesFile.trades : \E i \in DOMAIN tradesFile.trades[t].legs :
        LET leg == tradesFile.trades[t].legs[i]
        IN  leg.seen = "complete" /\ ~CompleteIn(brokerFile.orders, leg.order)

\* Between two legs, or ahead of the feed's save, the files are torn for good.
\* The broker's memory is gone: it is shown as the next start finds it.
Crash ==
    /\ up /\ restarts < MaxRestarts
    /\ up' = FALSE
    /\ torn' = (torn \/ op.next > 1 \/ AheadOfBroker)
    /\ dirty' = FALSE /\ op' = Idle
    /\ restarts' = restarts + 1
    /\ orders' = brokerFile.orders /\ pos' = brokerFile.pos
    /\ overridden' = brokerFile.overridden
    /\ UNCHANGED <<paused, files, journal, serial, killed>>

\* mutant: takes the orders of closed trades for those of open ones
Reopened(ts) == [t \in DOMAIN ts |-> [ts[t] EXCEPT !.copied = TRUE, !.closed = FALSE]]

\* The journal's orders become copies of the broker's.
Loaded(ts) == [t \in DOMAIN ts |-> [ts[t] EXCEPT !.copied = TRUE]]

\* Both files are loaded.  After a failed write the journal's is an older one.
Start ==
    /\ ~up
    /\ up' = TRUE /\ paused' = FALSE
    /\ trades' = Loaded(tradesFile.trades)
    /\ symMap' = tradesFile.symMap
    /\ torn' = (torn \/ behind) /\ behind' = FALSE
    /\ op' = [Idle EXCEPT !.kind = "startup"]
    /\ UNCHANGED <<broker, brokerFile, tradesFile, dirty, serial, restarts, overridden, killed>>

\* The journal has open trades and the broker no position.
Drifted == OpenTrades # {} /\ pos = Nothing

\* The feed runs already: its fills may come before the check and after it.
CheckDrift ==
    /\ up /\ op.kind = "startup"
    /\ \E recover \in RecoverOrphan :
         op' = IF recover /\ Drifted THEN [Idle EXCEPT !.kind = "recover"] ELSE Idle
    /\ UNCHANGED <<up, paused, broker, files, dirty, journal, serial, restarts, history>>

\* What the journal on disk says the open trades hold of s.
Journalled(s) ==
    LET ts == tradesFile.trades
    IN  SumLegs(ts, {p \in LegsIn(ts) : /\ ~ts[p[1]].closed
                                        /\ ts[p[1]].legs[p[2]].symbol = s
                                        /\ ts[p[1]].legs[p[2]].seen = "complete"})

\* _recover_orphan sets the positions without the broker's lock and saves them.
Recover ==
    /\ up /\ op.kind = "recover"
    /\ pos' = [s \in Symbols |-> Journalled(s)]
    /\ overridden' = TRUE
    /\ UNCHANGED orders
    /\ brokerFile' = BrokerState'
    /\ op' = Idle
    /\ UNCHANGED <<up, paused, tradesFile, behind, dirty, journal, serial, restarts, torn, killed>>

------------------------------------------------------------------------------
Next ==
    \/ \E plan \in Plans : BeginOpen(plan)
    \/ PlaceLeg \/ EndOpen
    \/ \E t \in TradeIds : BeginClose(t)
    \/ CloseLeg \/ EndClose
    \/ \E ks \in SUBSET DOMAIN orders : TickFills(ks)
    \/ TickSaves
    \/ KillCancels \/ KillCloses
    \/ Shutdown \/ Crash \/ Start
    \/ CheckDrift \/ Recover

Spec == Init /\ [][Next]_vars

------------------------------------------------------------------------------
(* Properties. *)

Status == {"open", "complete", "cancelled"}

\* Orders, trades and files are well formed: every leg of a trade names an order
\* the broker knows, and a closing order names the order it closes.
TypeOK ==
    /\ DOMAIN orders \subseteq 1..MaxOrders /\ serial \in 0..MaxOrders
    /\ \A k \in DOMAIN orders :
          /\ orders[k].symbol \in Symbols /\ orders[k].qty \in Int \ {0}
          /\ orders[k].status \in Status
          /\ orders[k].closes = 0 \/ orders[k].closes \in DOMAIN orders
    /\ pos \in [Symbols -> Int]
    /\ \A t \in TradeIds : \A i \in DOMAIN trades[t].legs :
          /\ trades[t].legs[i].order \in DOMAIN orders
          /\ trades[t].legs[i].symbol = orders[trades[t].legs[i].order].symbol
    /\ DOMAIN symMap \subseteq Symbols
    /\ op.kind \in {"idle", "open", "close", "kill", "startup", "recover"}
    /\ restarts \in 0..MaxRestarts
    /\ {up, paused, dirty, behind, torn, overridden, killed} \subseteq BOOLEAN

\* A leg of a closed trade that is still held, and why it may be: it filled too
\* late to be closed, or the restarted journal did not know that it had filled,
\* or its closing order has not filled.
Leftover(t, i) ==
    LET leg == trades[t].legs[i]
        closing == {k \in DOMAIN orders : orders[k].closes = leg.order}
    IN  /\ trades[t].closed /\ Complete(leg.order)
        /\ \A k \in closing : ~Complete(k)
        /\ \/ orders[leg.order].late
           \/ trades[t].copied /\ leg.seen # "complete"
           \/ closing # {}

Held(t, i) == ~trades[t].closed /\ Complete(trades[t].legs[i].order)

\* The journal explains the broker's book: as long as every position comes from
\* fills, no crash fell between two legs and none came before a failed write of
\* the journal was made good, the quantity held of a symbol is what open trades
\* hold of it, plus the leftovers of closed ones.
BookReconciles ==
    up /\ op = Idle /\ ~torn /\ ~overridden =>
        \A s \in Symbols :
            pos[s] = SumLegs(trades, {p \in LegsIn(trades) :
                        /\ trades[p[1]].legs[p[2]].symbol = s
                        /\ Held(p[1], p[2]) \/ Leftover(p[1], p[2])})

\* _symbol_to_trade, through opens, closes and restarts: a mapped symbol leads to
\* an open trade with that symbol, and an option of an open trade to that trade.
SymbolMapExact ==
    op = Idle =>
        /\ \A s \in DOMAIN symMap :
              symMap[s] \in OpenTrades /\
              \E i \in DOMAIN trades[symMap[s]].legs : trades[symMap[s]].legs[i].symbol = s
        /\ \A t \in OpenTrades : \A i \in DOMAIN trades[t].legs :
              trades[t].legs[i].symbol \in Options =>
                 trades[t].legs[i].symbol \in DOMAIN symMap
                 /\ symMap[trades[t].legs[i].symbol] = t

\* No trade is lost, no closed one reopened and no set of orders changed.
TradesKept ==
    \A t \in TradeIds :
        t \in DOMAIN trades' /\ LegsOf(t) = LegsOf(t)' /\ (trades[t].closed => trades'[t].closed)

\* An earlier journal: no trade that was never opened, none closed too soon.
TradesOlder ==
    \A t \in DOMAIN trades' :
        t \in TradeIds /\ LegsOf(t) = LegsOf(t)' /\ (trades'[t].closed => trades[t].closed)

\* "This survives bot restarts", as far as it does: the trades are kept by every
\* step, and by every crash and restart between steps, unless the last write of
\* the journal failed, which is not tried again; then the restart goes back to an
\* earlier journal, and to nothing else.
JournalSurvives == [][IF ~up /\ behind THEN TradesOlder ELSE TradesKept]_vars

\* What the ledger shows of the broker, in memory and on file.
Lots(os) == [k \in DOMAIN os |->
               [symbol |-> os[k].symbol, qty |-> os[k].qty, status |-> os[k].status]]
InMemory == [orders |-> Lots(orders), pos |-> pos]
OnFile   == [orders |-> Lots(brokerFile.orders), pos |-> brokerFile.pos]

L == INSTANCE Ledger WITH book <- InMemory, file <- OnFile

\* The broker the order manager works with is the ledger that PaperBroker keeps:
\* opening, closing, killing, stopping and repairing ask nothing else of it.
BrokerIsLedger == L!Spec

\* The kill switch's contract, tests/test_kill_switch.py: after it the book is
\* flat, until a strategy opens something again.
KillStaysFlat == killed => pos = Nothing
=============================================================================
