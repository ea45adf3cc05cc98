---------------------------- MODULE DeribitClient ----------------------------
(***************************************************************************)
(* The live broker, crypto_options_bot/broker/deribit_client.py, under the *)
(* calls the order manager and the runner's kill switch make on it.        *)
(*                                                                         *)
(* Every private call is an HTTP request under the client's lock.  It may  *)
(* fail before the exchange has acted (the token refresh raises, the       *)
(* connection is refused) or after (the answer is lost): the client sees   *)
(* the same exception.  The exchange itself, external here, fills working  *)
(* orders whenever it likes.                                               *)
(*                                                                         *)
(* An order exists three times: in the exchange's book, as the object      *)
(* place_order returned, which the trade keeps, and in the cache _orders.  *)
(* The cache starts with that object; every read from the exchange puts a  *)
(* new one in its place, and the trade's is updated no more.               *)
(***************************************************************************)
EXTENDS Integers, SequencesExt

CONSTANTS
    Options, Futures,  \* instruments; get_positions asks for each kind apart
    Plans,             \* the plans strategies may build: sequences of legs
    MaxOrders,         \* bound on the orders sent to the exchange
    MaxFaults          \* bound on the requests that fail or lose their answer

Instruments == Options \cup Futures
Kinds   == {Options, Futures}
ClientLeg     == [symbol : Instruments, qty : Int \ {0}]

ASSUME PlansAssumption ==
    /\ Options \cap Futures = {}
    /\ Plans \subseteq Seq(ClientLeg) /\ MaxOrders \in Nat /\ MaxFaults \in Nat

VARIABLES
    book,       \* exchange: every order, by its number
    connected,  \* client: _connected
    mine,       \* the objects place_order returned, by order number
    cache,      \* client: _orders, objects read from the exchange
    positions,  \* client: _positions, symbol -> quantity
    trades,     \* order manager: trades
    resting,    \* runner: the strategy's cooldown runs
    op,         \* the operation the runner's thread is in
    faults      \* requests that have failed so far

clientVars == <<book, connected, mine, cache, positions, trades, resting, op, faults>>

Empty == [x \in {} |-> 0]

\* The table f with what g says of its keys (g @@ f, written out for the proofs).
Updated(f, g) == [x \in DOMAIN f \cup DOMAIN g |-> IF x \in DOMAIN g THEN g[x] ELSE f[x]]

Idle  == [kind |-> "idle"]

\* What the runner's thread is in: reading the positions, executing a plan,
\* closing a trade, listing and cancelling the open orders.
Reading(todo, found, back)   == [kind |-> "positions", todo |-> todo, found |-> found, back |-> back]
Opening(plan, placed)        == [kind |-> "open", plan |-> plan, placed |-> placed]
Closing(trade, todo)         == [kind |-> "close", trade |-> trade, todo |-> todo]
Listing(todo, found, smooth) == [kind |-> "list", todo |-> todo, found |-> found, smooth |-> smooth]

ClientInit ==
    /\ book = <<>> /\ connected = FALSE
    /\ mine = Empty /\ cache = Empty /\ positions = Empty
    /\ trades = <<>> /\ resting = FALSE /\ op = Idle /\ faults = 0

------------------------------------------------------------------------------
(* The exchange. *)

Size(k)    == IF book[k].qty > 0 THEN book[k].qty ELSE -book[k].qty
Working(k) == book[k].state = "open"
Traded(k)  == IF book[k].qty > 0 THEN book[k].filled ELSE -book[k].filled

Held(s) == SumFunctionOnSet([k \in DOMAIN book |-> Traded(k)], {k \in DOMAIN book : book[k].symbol = s})

Filled(o, n) ==
    [symbol |-> o.symbol, qty |-> o.qty, filled |-> n,
     state |-> IF n \in {o.qty, -o.qty} THEN "filled" ELSE o.state, closes |-> o.closes]

Fill(k) ==
    /\ Working(k)
    /\ book' = [book EXCEPT ![k] = Filled(@, @.filled + 1)]
    /\ UNCHANGED <<connected, mine, cache, positions, trades, resting, op, faults>>

\* What a read of order k gives: _hydrate_order_from_state.
Status(state) == CASE state = "filled" -> "complete"
                   [] state = "cancelled" -> "cancelled"
                   [] OTHER -> "open"
Hydrated(k) == [filled |-> book[k].filled, status |-> Status(book[k].state)]

------------------------------------------------------------------------------
(* Requests.  A request that raises has reached the exchange or not. *)

Fault == faults < MaxFaults /\ faults' = faults + 1
Fine  == UNCHANGED faults

\* _orders.get: the object read last, or the one placed.
Known(k)  == k \in DOMAIN cache \cup DOMAIN mine
Cached(k) == IF k \in DOMAIN cache THEN cache[k] ELSE mine[k]

\* The orders that the request for leg l may leave in the book: a limit order
\* fills at once as far as it meets the other side.  Its label says which order
\* it closes, 0 for none.
Accepted(l, of) ==
    LET o == [symbol |-> l.symbol, qty |-> l.qty, filled |-> 0, state |-> "open",
              closes |-> of]
        n == IF l.qty > 0 THEN l.qty ELSE -l.qty
    IN  {Filled(o, m) : m \in 0..n}

\* place_order: COMPLETE only when all is filled; a partial fill is noted on
\* an order that stays open.
Placed(o) == [filled |-> o.filled, status |-> Status(o.state)]

NextOrder == Len(book) + 1

PlaceOrder(l, of) ==
    /\ connected /\ Len(book) < MaxOrders
    /\ \E o \in Accepted(l, of) :
         /\ book' = Append(book, o)
         /\ mine' = Updated(mine, [k \in {NextOrder} |-> Placed(o)])
    /\ Fine
    /\ UNCHANGED <<connected, cache, positions>>

\* place_order raises: not sent, or sent and the answer lost.
PlaceOrderFails(l, of) ==
    /\ connected /\ Len(book) < MaxOrders /\ Fault
    /\ \/ book' = book
       \/ \E o \in Accepted(l, of) : book' = Append(book, o)
    /\ UNCHANGED <<connected, mine, cache, positions>>

------------------------------------------------------------------------------
(* connect and disconnect. *)

Connect ==
    /\ ~connected /\ op = Idle /\ Fine
    /\ connected' = TRUE
    /\ op' = Reading(Kinds, Empty, Idle)
    /\ UNCHANGED <<book, mine, cache, positions, trades, resting>>

Disconnect ==
    /\ connected /\ op = Idle /\ Fine
    /\ connected' = FALSE
    /\ UNCHANGED <<book, mine, cache, positions, trades, resting, op>>

(* get_positions, one request for each kind: one that fails is passed over,
   and the cache becomes what the others gave. *)

GetPositions ==
    /\ connected /\ op = Idle /\ Fine
    /\ op' = Reading(Kinds, Empty, Idle)
    /\ UNCHANGED <<book, connected, mine, cache, positions, trades, resting>>

ReadKind ==
    /\ op.kind = "positions"
    /\ \E kind \in op.todo :
         \/ /\ Fine
            /\ LET rows == {s \in kind : Held(s) # 0}
               IN  op' = Reading(op.todo \ {kind}, Updated(op.found, [s \in rows |-> Held(s)]), op.back)
         \/ /\ Fault
            /\ op' = Reading(op.todo \ {kind}, op.found, op.back)
    /\ UNCHANGED <<book, connected, mine, cache, positions, trades, resting>>

EndPositions ==
    /\ op.kind = "positions" /\ op.todo = {} /\ Fine
    /\ positions' = op.found
    /\ op' = op.back
    /\ UNCHANGED <<book, connected, mine, cache, trades, resting>>

(* get_order: a final order is answered from the cache, another is read. *)
GetOrder ==
    /\ connected /\ op = Idle /\ Fine
    /\ \E k \in DOMAIN mine :
         /\ Cached(k).status = "open"
         /\ cache' = Updated(cache, [j \in {k} |-> Hydrated(j)])
    /\ UNCHANGED <<book, connected, mine, positions, trades, resting, op>>

CancelAtExchange(k) == book' = [book EXCEPT ![k].state = "cancelled"]

\* cancel_order: the object that is cached changes once the exchange has agreed.
\* A filled order is refused, by the exchange or from the cache.
CancelOrder(k) ==
    /\ Known(k) /\ Cached(k).status # "complete"
    /\ Working(k)
    /\ CancelAtExchange(k) /\ Fine
    /\ IF k \in DOMAIN cache
       THEN cache' = [cache EXCEPT ![k].status = "cancelled"] /\ UNCHANGED mine
       ELSE mine' = [mine EXCEPT ![k].status = "cancelled"] /\ UNCHANGED cache

CancelRefused(k) ==
    /\ ~(Known(k) /\ Cached(k).status # "complete" /\ Working(k)) /\ Fine
    /\ UNCHANGED <<book, cache, mine>>

CancelFails(k) ==
    /\ Known(k) /\ Cached(k).status # "complete" /\ Fault
    /\ book' = book \/ (Working(k) /\ CancelAtExchange(k))
    /\ UNCHANGED <<cache, mine>>
------------------------------------------------------------------------------
(* execute_plan. *)

OpenTrades   == {t \in DOMAIN trades : ~trades[t].closed}
SymbolsOf(t) == {book[k].symbol : k \in Range(trades[t].orders)}
Dedupe(p)    == \E t \in OpenTrades, i \in DOMAIN p :
                    p[i].symbol \in Options /\ p[i].symbol \in SymbolsOf(t)

ExecutePlan ==
    /\ connected /\ op = Idle /\ ~resting /\ Fine
    /\ \E p \in Plans : /\ ~Dedupe(p)
                        /\ op' = Opening(p, <<>>)
    /\ UNCHANGED <<book, connected, mine, cache, positions, trades, resting>>

PlaceLeg ==
    /\ op.kind = "open" /\ op.plan # <<>>
    /\ PlaceOrder(Head(op.plan), 0)
    /\ op' = Opening(Tail(op.plan), Append(op.placed, NextOrder))
    /\ UNCHANGED <<trades, resting>>

\* The exception leaves execute_plan: no trade, and no cooldown.
LegFails ==
    /\ op.kind = "open" /\ op.plan # <<>>
    /\ PlaceOrderFails(Head(op.plan), 0)
    /\ op' = Idle
    /\ UNCHANGED <<trades, resting>>

RecordTrade ==
    /\ op.kind = "open" /\ op.plan = <<>> /\ Fine
    /\ trades' = Append(trades, [orders |-> op.placed, closed |-> FALSE])
    /\ resting' = TRUE
    /\ op' = Idle
    /\ UNCHANGED <<book, connected, mine, cache, positions>>

CooldownOver ==
    /\ resting /\ resting' = FALSE
    /\ UNCHANGED <<book, connected, mine, cache, positions, trades, op, faults>>

(* close_trade: a limit order against each leg whose own object is complete. *)

BeginClose ==
    /\ connected /\ op = Idle /\ Fine
    /\ \E t \in OpenTrades : op' = Closing(t, trades[t].orders)
    /\ UNCHANGED <<book, connected, mine, cache, positions, trades, resting>>

Closes(k) == mine[k].status = "complete"
Against(k) == [symbol |-> book[k].symbol,
               qty |-> IF book[k].qty > 0 THEN -mine[k].filled ELSE mine[k].filled]

SkipLeg ==
    /\ op.kind = "close" /\ op.todo # <<>> /\ ~Closes(Head(op.todo)) /\ Fine
    /\ op' = Closing(op.trade, Tail(op.todo))
    /\ UNCHANGED <<book, connected, mine, cache, positions, trades, resting>>

CloseLeg ==
    /\ op.kind = "close" /\ op.todo # <<>> /\ Closes(Head(op.todo))
    /\ PlaceOrder(Against(Head(op.todo)), Head(op.todo))
    /\ op' = Closing(op.trade, Tail(op.todo))
    /\ UNCHANGED <<trades, resting>>

\* The exception leaves close_trade: the trade stays open and is closed again.
CloseFails ==
    /\ op.kind = "close" /\ op.todo # <<>> /\ Closes(Head(op.todo))
    /\ PlaceOrderFails(Against(Head(op.todo)), Head(op.todo))
    /\ op' = Idle
    /\ UNCHANGED <<trades, resting>>

\* mutant: leaves the trade open
EndCloseOpen ==
    /\ op.kind = "close" /\ op.todo = <<>> /\ Fine
    /\ op' = Idle
    /\ UNCHANGED <<book, connected, mine, cache, positions, trades, resting>>

EndClose ==
    /\ op.kind = "close" /\ op.todo = <<>> /\ Fine
    /\ trades' = [trades EXCEPT ![op.trade].closed = TRUE]
    /\ op' = Idle
    /\ UNCHANGED <<book, connected, mine, cache, positions, resting>>

------------------------------------------------------------------------------
(* The kill switch: cancel_all_open_orders, then close_all_positions. *)

Kill ==
    /\ connected /\ op = Idle /\ Fine
    /\ op' = Listing(Kinds, {}, TRUE)
    /\ UNCHANGED <<book, connected, mine, cache, positions, trades, resting>>

\* get_open_orders puts every order it reads into the cache, unknown ones too.
ListKind ==
    /\ op.kind = "list"
    /\ \E kind \in op.todo :
         LET rows == {k \in DOMAIN book : Working(k) /\ book[k].symbol \in kind}
         IN  \/ /\ Fine
                /\ cache' = Updated(cache, [k \in rows |-> Hydrated(k)])
                /\ op' = Listing(op.todo \ {kind}, op.found \cup rows, op.smooth)
             \/ /\ Fault
                /\ op' = Listing(op.todo \ {kind}, op.found, FALSE)
                /\ UNCHANGED cache
    /\ UNCHANGED <<book, connected, mine, positions, trades, resting>>

CancelNext ==
    /\ op.kind = "list" /\ op.todo = {}
    /\ \E k \in op.found :
         \/ /\ CancelOrder(k) \/ CancelRefused(k)
            /\ op' = Listing({}, op.found \ {k}, op.smooth)
         \/ /\ CancelFails(k)
            /\ op' = Listing({}, op.found \ {k}, FALSE)
    /\ UNCHANGED <<connected, positions, trades, resting>>

CancelsDone ==
    /\ op.kind = "list" /\ op.todo = {} /\ op.found = {} /\ Fine
    /\ op' = Reading(Kinds, Empty, [kind |-> "unwind", smooth |-> op.smooth])
    /\ UNCHANGED <<book, connected, mine, cache, positions, trades, resting>>

\* "for sym, pos in positions" cannot unpack a Position: with any position the
\* loop raises before its first order, and the runner goes on.
CloseAllPositions ==
    /\ op.kind = "unwind" /\ Fine
    /\ op' = [kind |-> "killed", smooth |-> op.smooth]
    /\ UNCHANGED <<book, connected, mine, cache, positions, trades, resting>>

AfterKill ==
    /\ op.kind = "killed" /\ Fine
    /\ op' = Idle
    /\ UNCHANGED <<book, connected, mine, cache, positions, trades, resting>>

ClientNext ==
    \/ \E k \in DOMAIN book : Fill(k)
    \/ Connect \/ Disconnect \/ GetPositions \/ ReadKind \/ EndPositions \/ GetOrder
    \/ ExecutePlan \/ PlaceLeg \/ LegFails \/ RecordTrade \/ CooldownOver
    \/ BeginClose \/ SkipLeg \/ CloseLeg \/ CloseFails \/ EndClose
    \/ Kill \/ ListKind \/ CancelNext \/ CancelsDone \/ CloseAllPositions \/ AfterKill

ClientSpec == ClientInit /\ [][ClientNext]_clientVars

------------------------------------------------------------------------------
(* Properties. *)

Object == [filled : Nat, status : {"open", "complete", "cancelled"}]

\* The state keeps its shape: numbers name orders of the book, and no order is
\* filled beyond its size.
ClientTypeOK ==
    /\ \A k \in DOMAIN book :
         /\ book[k] \in [symbol : Instruments, qty : Int \ {0}, filled : Nat,
                        state : {"open", "filled", "cancelled"}, closes : 0..Len(book)]
         /\ book[k].filled <= Size(k) /\ (book[k].filled = Size(k) <=> book[k].state = "filled")
    /\ DOMAIN mine \cup DOMAIN cache \subseteq DOMAIN book
    /\ Range(mine) \cup Range(cache) \subseteq Object
    /\ DOMAIN positions \subseteq Instruments /\ Range(positions) \subseteq Int \ {0}
    /\ \A t \in DOMAIN trades : /\ Range(trades[t].orders) \subseteq DOMAIN mine
                               /\ trades[t].closed \in BOOLEAN
    /\ connected \in BOOLEAN /\ resting \in BOOLEAN /\ faults \in 0..MaxFaults

\* What the client or a trade takes for final is final at the exchange: an order
\* they call complete has filled, one they call cancelled fills no more, however
\* many answers were lost and whichever copy is asked.
FinalIsTrue ==
    \A k \in DOMAIN mine \cup DOMAIN cache :
        \A o \in {mine[j] : j \in DOMAIN mine \cap {k}} \cup {cache[j] : j \in DOMAIN cache \cap {k}} :
            /\ o.status = "complete" => book[k].state = "filled"
            /\ o.status = "cancelled" => book[k].state = "cancelled"

\* A kill switch none of whose listing and cancelling requests failed leaves no
\* order working: those are cancelled too whose answer was lost when they were
\* placed, that no trade knows or that were partly filled meanwhile.
KillCancels ==
    op.kind \in {"unwind", "killed"} /\ op.smooth => \A k \in DOMAIN book : ~Working(k)

\* As long as no request has failed, closing a trade never trades more than its
\* leg had filled: no leg is closed twice and none beyond its own fill.
NeverOverCloses ==
    faults = 0 => \A k \in DOMAIN book :
        SumFunctionOnSet([c \in DOMAIN book |-> Size(c)],
                         {c \in DOMAIN book : book[c].closes = k}) <= book[k].filled

\* What the client believes of an order may be old, but is never wrong, no close
\* relies on it beyond what has filled, and the kill switch does without it.
ClientIsRight == FinalIsTrue /\ NeverOverCloses /\ KillCancels

=============================================================================
