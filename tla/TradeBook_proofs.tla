-------------------------- MODULE TradeBook_proofs --------------------------
(***************************************************************************)
(* What TradeBook says of the journal, for every set of plans and any       *)
(* number of trades, orders and restarts: the journal survives, the map     *)
(* from symbols to trades is exact, and the journal explains the broker's   *)
(* book.                                                                    *)
(*                                                                          *)
(* Inductive is what the journal and its map need.  Strong adds what the    *)
(* book needs: positions are the sum of the fills, a leg and its closing    *)
(* order belong together, and as long as no crash has torn the files every  *)
(* order is a leg's, a closing order's or the plan's under way.             *)
(*                                                                         *)
(* The last part is about Scripts: the map stays exact although a script    *)
(* takes orders and trades away, and a script that is alone does its work.  *)
(***************************************************************************)
EXTENDS Scripts, DataTheorems

OrderRec == [symbol : Symbols, qty : Int \ {0}, closes : Nat, status : Status, late : BOOLEAN]
LegRec   == [order : Nat, symbol : Symbols, qty : Int \ {0}, seen : Status]
Trade    == [legs : Seq(LegRec), closed : BOOLEAN, copied : BOOLEAN]

\* The broker knows every order placed so far, in memory and in its file.
OrdersInv ==
    /\ serial \in Nat
    /\ orders \in [1..serial -> OrderRec]
    /\ brokerFile.orders \in [1..serial -> OrderRec]

\* Trades are made of orders the broker knows.
Known(ts) ==
    /\ ts \in Seq(Trade)
    /\ \A t \in DOMAIN ts : \A i \in DOMAIN ts[t].legs : ts[t].legs[i].order \in 1..serial

\* The same trades, up to what is known of the status of their legs.
SameTrades(a, b) ==
    /\ DOMAIN a = DOMAIN b
    /\ \A t \in DOMAIN b :
          /\ a[t].closed = b[t].closed
          /\ DOMAIN a[t].legs = DOMAIN b[t].legs
          /\ \A i \in DOMAIN b[t].legs :
                /\ a[t].legs[i].order = b[t].legs[i].order
                /\ a[t].legs[i].symbol = b[t].legs[i].symbol
                /\ a[t].legs[i].qty = b[t].legs[i].qty

\* The trades of an earlier journal: fewer may be there, fewer closed.
Older(a, b) ==
    /\ DOMAIN a \subseteq DOMAIN b
    /\ \A t \in DOMAIN a :
          /\ a[t].closed => b[t].closed
          /\ DOMAIN a[t].legs = DOMAIN b[t].legs
          /\ \A i \in DOMAIN a[t].legs : a[t].legs[i].order = b[t].legs[i].order

HasSymbol(trade, s) == \E i \in DOMAIN trade.legs : trade.legs[i].symbol = s

\* What SymbolMapExact says, of any map and any trades.
MapExact(m, ts) ==
    /\ \A s \in DOMAIN m : m[s] \in DOMAIN ts /\ ~ts[m[s]].closed /\ HasSymbol(ts[m[s]], s)
    /\ \A t \in DOMAIN ts : ~ts[t].closed =>
          \A s \in Options : HasSymbol(ts[t], s) => s \in DOMAIN m /\ m[s] = t

\* Memory and file hold the same journal between any two steps, except after a
\* write that failed, when the file's is an earlier one.
JournalInv ==
    /\ Known(trades) /\ Known(tradesFile.trades) /\ behind \in BOOLEAN
    /\ Older(tradesFile.trades, trades)
    /\ MapExact(tradesFile.symMap, tradesFile.trades)
    /\ ~behind => SameTrades(tradesFile.trades, trades) /\ tradesFile.symMap = symMap

\* What an operation under way relies on.
OpInv ==
    /\ op.kind = "open" =>
         /\ op.plan \in Seq(Leg) /\ op.placed \in Seq(1..serial)
         /\ op.next \in Nat /\ Len(op.placed) = op.next - 1
         /\ op.next <= Len(op.plan) + 1
         /\ Duplicates(op.plan) = {}
    /\ op.kind = "close" => op.trade \in OpenTrades /\ op.next \in Nat \ {0}

Inductive == OrdersInv /\ JournalInv /\ OpInv /\ MapExact(symMap, trades)

------------------------------------------------------------------------------
(* The journal on disk. *)

\* A function on 1..n is a sequence.
LEMMA FunctionIsSeq ==
    ASSUME NEW S, NEW n \in Nat, NEW f \in [1..n -> S]
    PROVE  f \in Seq(S) /\ Len(f) = n
  BY SeqDef, LenProperties

\* Writing the journal keeps its trades, if the broker knows the orders whose
\* status is written.
LEMMA RecordIsSame ==
    ASSUME NEW ts \in Seq(Trade),
           \A t \in DOMAIN ts : ~ts[t].copied =>
               \A i \in DOMAIN ts[t].legs : orders[ts[t].legs[i].order] \in OrderRec
    PROVE  JournalRecord(ts) \in Seq(Trade) /\ SameTrades(JournalRecord(ts), ts)
<1> DEFINE seen(t, i) == IF ts[t].copied THEN ts[t].legs[i].seen
                         ELSE orders[ts[t].legs[i].order].status
           leg(t, i) == [order |-> ts[t].legs[i].order, symbol |-> ts[t].legs[i].symbol,
                         qty |-> ts[t].legs[i].qty, seen |-> seen(t, i)]
           legs(t) == [i \in DOMAIN ts[t].legs |-> leg(t, i)]
           rec(t) == [legs |-> legs(t), closed |-> ts[t].closed, copied |-> ts[t].copied]
           written(t) == [ts[t] EXCEPT !.legs = [i \in DOMAIN ts[t].legs |->
                  [ts[t].legs[i] EXCEPT !.seen =
                     IF ts[t].copied THEN @ ELSE orders[ts[t].legs[i].order].status]]]
<1>1. ASSUME NEW t \in DOMAIN ts
      PROVE  rec(t) \in Trade /\ written(t) = rec(t)
  <2>1. ts[t] \in Trade
    BY <1>1
  <2>2. ts[t].legs \in Seq(LegRec)
    BY <2>1 DEF Trade
  <2>3. ASSUME NEW i \in DOMAIN ts[t].legs
        PROVE  /\ leg(t, i) \in LegRec
               /\ [ts[t].legs[i] EXCEPT !.seen =
                     IF ts[t].copied THEN @ ELSE orders[ts[t].legs[i].order].status] = leg(t, i)
    <3>1. ts[t].legs[i] \in LegRec
      BY <2>2, <2>3
    <3>2. ~ts[t].copied => orders[ts[t].legs[i].order] \in OrderRec
      BY <1>1, <2>3
    <3>3. seen(t, i) \in Status
      BY <3>1, <3>2 DEF LegRec, OrderRec
    <3> QED BY <3>1, <3>3 DEF LegRec
  <2>4. DOMAIN ts[t].legs = 1..Len(ts[t].legs) /\ Len(ts[t].legs) \in Nat
    BY <2>2
  <2>5. legs(t) \in Seq(LegRec)
    <3> HIDE DEF leg
    <3>1. legs(t) \in [1..Len(ts[t].legs) -> LegRec]
      BY <2>3, <2>4
    <3> QED BY <2>4, <3>1, FunctionIsSeq
  <2>6. written(t) = [ts[t] EXCEPT !.legs = legs(t)]
    <3> HIDE DEF leg
    <3> QED BY <2>3
  <2>7. rec(t) \in Trade
    <3> HIDE DEF legs
    <3> QED BY <2>1, <2>5 DEF Trade
  <2>8. [ts[t] EXCEPT !.legs = legs(t)] = rec(t)
    <3> HIDE DEF legs
    <3> QED BY <2>1 DEF Trade
  <2> QED BY <2>6, <2>7, <2>8
<1>2. JournalRecord(ts) = [t \in DOMAIN ts |-> rec(t)]
  <2>1. JournalRecord(ts) = [t \in DOMAIN ts |-> written(t)]
    BY DEF JournalRecord
  <2> HIDE DEF written, rec
  <2> QED BY <1>1, <2>1
<1>3. DOMAIN ts = 1..Len(ts) /\ Len(ts) \in Nat
  BY LenProperties
<1>4. JournalRecord(ts) \in Seq(Trade)
  <2> HIDE DEF rec, written
  <2>1. JournalRecord(ts) \in [1..Len(ts) -> Trade]
    BY <1>1, <1>2, <1>3
  <2> QED BY <1>3, <2>1, FunctionIsSeq
<1>5. DOMAIN JournalRecord(ts) = DOMAIN ts
  BY <1>2
<1>6. ASSUME NEW t \in DOMAIN ts
      PROVE  /\ JournalRecord(ts)[t].closed = ts[t].closed
             /\ DOMAIN JournalRecord(ts)[t].legs = DOMAIN ts[t].legs
             /\ \A i \in DOMAIN ts[t].legs :
                  /\ JournalRecord(ts)[t].legs[i].order = ts[t].legs[i].order
                  /\ JournalRecord(ts)[t].legs[i].symbol = ts[t].legs[i].symbol
                  /\ JournalRecord(ts)[t].legs[i].qty = ts[t].legs[i].qty
  <2>1. JournalRecord(ts)[t] = rec(t)
    <3> HIDE DEF rec
    <3> QED BY <1>2, <1>6
  <2> QED BY <2>1
<1> QED
  BY <1>4, <1>5, <1>6 DEF SameTrades

\* Writing the journal keeps its trades.
LEMMA RecordKeeps ==
    ASSUME OrdersInv, NEW ts, Known(ts)
    PROVE  Known(JournalRecord(ts)) /\ SameTrades(JournalRecord(ts), ts)
<1>1. ts \in Seq(Trade) /\ \A t \in DOMAIN ts : \A i \in DOMAIN ts[t].legs :
        ts[t].legs[i].order \in 1..serial /\ orders[ts[t].legs[i].order] \in OrderRec
  BY DEF Known, OrdersInv
<1>2. JournalRecord(ts) \in Seq(Trade) /\ SameTrades(JournalRecord(ts), ts)
  BY <1>1, RecordIsSame
<1> QED
  BY <1>1, <1>2 DEF Known, SameTrades

\* The map is exact for trades that are the same.
LEMMA ExactForSame ==
    ASSUME NEW a, NEW b, NEW m, SameTrades(a, b), MapExact(m, b)
    PROVE  MapExact(m, a)
<1>1. \A s : \A t \in DOMAIN b : HasSymbol(a[t], s) <=> HasSymbol(b[t], s)
  BY DEF SameTrades, HasSymbol
<1> QED
  BY <1>1 DEF SameTrades, MapExact

\* A trade with one of its flags set is otherwise the same.
LEMMA TradeFields ==
    \A v : \A x \in Trade :
        /\ [x EXCEPT !.closed = v] = [legs |-> x.legs, closed |-> v, copied |-> x.copied]
        /\ [x EXCEPT !.copied = v] = [legs |-> x.legs, closed |-> x.closed, copied |-> v]
  BY DEF Trade

------------------------------------------------------------------------------
(* Steps. *)

\* The initial state satisfies the invariant.
LEMMA InitInductive == Init => Inductive
<1> SUFFICES ASSUME Init PROVE Inductive
  OBVIOUS
<1>1. OrdersInv
  BY DEF Init, OrdersInv, EmptyMap
<1>2. trades = <<>> /\ tradesFile.trades = <<>> /\ tradesFile.symMap = symMap /\ symMap = EmptyMap
  BY DEF Init
<1>3. JournalInv
  <2>1. Known(<<>>) /\ Older(<<>>, <<>>) /\ SameTrades(<<>>, <<>>) /\ MapExact(EmptyMap, <<>>)
    BY DEF Known, Older, SameTrades, MapExact, EmptyMap
  <2>2. behind = FALSE
    BY DEF Init
  <2> QED BY <1>2, <2>1, <2>2 DEF JournalInv
<1>4. OpInv
  BY DEF Init, OpInv, Idle
<1>5. MapExact(symMap, trades)
  BY <1>2 DEF MapExact, EmptyMap
<1> QED
  BY <1>1, <1>3, <1>4, <1>5 DEF Inductive

\* An order that fills changes its status, and whether it filled late.
LEMMA FilledOrder ==
    ASSUME NEW x \in OrderRec, NEW l \in BOOLEAN
    PROVE  Filled(x, l) = [symbol |-> x.symbol, qty |-> x.qty, closes |-> x.closes,
                           status |-> "complete", late |-> l]
<1>1. [x EXCEPT !.status = "complete"] = [symbol |-> x.symbol, qty |-> x.qty, closes |-> x.closes,
                           status |-> "complete", late |-> x.late]
  BY DEF OrderRec
<1> DEFINE y == [x EXCEPT !.status = "complete"]
<1>2. Filled(x, l) = [y EXCEPT !.late = l]
  BY DEF Filled
<1> QED BY <1>1, <1>2

\* Placing an order adds the next one to the broker's orders, and to its file.
LEMMA PlaceKeeps ==
    ASSUME OrdersInv, NEW symbol \in Symbols, NEW qty \in Int \ {0}, NEW closes \in Nat,
           Place(symbol, qty, closes)
    PROVE  OrdersInv' /\ serial' = serial + 1
<1>1. PICK fills \in BOOLEAN :
        orders' = [k \in DOMAIN orders \cup {serial'} |->
                     IF k # serial' THEN orders[k]
                     ELSE IF fills
                          THEN Filled([symbol |-> symbol, qty |-> qty, closes |-> closes,
                                       status |-> "open", late |-> FALSE], FALSE)
                          ELSE [symbol |-> symbol, qty |-> qty, closes |-> closes,
                                status |-> "open", late |-> FALSE]]
  BY DEF Place
<1> DEFINE entry == [symbol |-> symbol, qty |-> qty, closes |-> closes,
                     status |-> "open", late |-> FALSE]
           done == [symbol |-> symbol, qty |-> qty, closes |-> closes,
                    status |-> "complete", late |-> FALSE]
           new == IF fills THEN done ELSE entry
<1>2. entry \in OrderRec /\ done \in OrderRec
  BY DEF OrderRec, Status
<1>3. Filled(entry, FALSE) = done
  BY <1>2, FilledOrder
<1>4. orders' = [k \in DOMAIN orders \cup {serial'} |-> IF k # serial' THEN orders[k] ELSE new]
  BY <1>1, <1>3
<1>5. new \in OrderRec
  BY <1>2
<1>6. serial' = serial + 1 /\ serial \in Nat
  BY DEF Place, OrdersInv
<1>7. DOMAIN orders \cup {serial'} = 1..serial'
  BY <1>6 DEF OrdersInv
<1>8. orders' \in [1..serial' -> OrderRec]
  <2> HIDE DEF new
  <2> QED BY <1>4, <1>5, <1>6, <1>7 DEF OrdersInv
<1>9. brokerFile'.orders = orders'
  BY DEF Place, BrokerState
<1> QED
  BY <1>6, <1>8, <1>9 DEF OrdersInv

\* A step that leaves the journal and its file alone.
LEMMA JournalAlone ==
    ASSUME Inductive, UNCHANGED <<journal, tradesFile, behind>>, OrdersInv', OpInv', serial' >= serial
    PROVE  Inductive'
<1>1. trades' = trades /\ symMap' = symMap /\ tradesFile' = tradesFile
  BY DEF journal
<1>2. serial \in Nat /\ serial' \in Nat
  BY DEF Inductive, OrdersInv
<1>3. ASSUME NEW ts, Known(ts)
      PROVE  \A t \in DOMAIN ts : \A i \in DOMAIN ts[t].legs : ts[t].legs[i].order \in 1..serial'
  BY <1>2, <1>3 DEF Known
<1>4. Known(trades)' /\ Known(tradesFile.trades)'
  BY <1>1, <1>3 DEF Known, Inductive, JournalInv
<1>5. JournalInv'
  BY <1>1, <1>4 DEF Inductive, JournalInv
<1> QED
  BY <1>1, <1>5 DEF Inductive

\* The trades of the journal after a close, an open or a start.
LEMMA SavedJournal ==
    ASSUME Inductive, SaveJournal, Known(trades'), UNCHANGED serial,
           MapExact(symMap', trades'), Older(tradesFile.trades, trades')
    PROVE  JournalInv'
<1>1. CASE UNCHANGED tradesFile /\ behind' = TRUE
  BY <1>1 DEF Inductive, JournalInv, Known
<1>2. CASE /\ tradesFile' = [trades |-> JournalRecord(trades'), symMap |-> symMap']
           /\ behind' = FALSE
  <2>1. OrdersInv
    BY DEF Inductive
  <2>2. Known(JournalRecord(trades')) /\ SameTrades(JournalRecord(trades'), trades')
    BY <2>1, RecordKeeps
  <2>3. MapExact(symMap', JournalRecord(trades'))
    BY <2>2, ExactForSame
  <2>4. tradesFile'.trades = JournalRecord(trades') /\ tradesFile'.symMap = symMap'
    BY <1>2
  <2>5. Older(JournalRecord(trades'), trades')
    BY <2>2 DEF SameTrades, Older
  <2> QED BY <1>2, <2>2, <2>3, <2>4, <2>5 DEF JournalInv, Known
<1> QED
  BY <1>1, <1>2 DEF SaveJournal

\* A leg placed for a new trade keeps the invariant.
LEMMA PlaceLegKeeps == Inductive /\ PlaceLeg => Inductive'
<1> SUFFICES ASSUME Inductive, PlaceLeg PROVE Inductive'
  OBVIOUS
<1>1. /\ op.kind = "open" /\ op.next <= Len(op.plan)
      /\ op.plan \in Seq(Leg) /\ op.placed \in Seq(1..serial)
      /\ op.next \in Nat /\ Len(op.placed) = op.next - 1
      /\ Duplicates(op.plan) = {}
  BY DEF PlaceLeg, Inductive, OpInv
<1>2. op.next \in 1..Len(op.plan)
  <2>1. Len(op.placed) \in Nat /\ Len(op.plan) \in Nat
    BY <1>1
  <2> QED BY <1>1, <2>1
<1>3. op.plan[op.next] \in Leg
  BY <1>1, <1>2
<1>4. OrdersInv' /\ serial' = serial + 1
  <2>1. op.plan[op.next].symbol \in Symbols /\ op.plan[op.next].qty \in Int \ {0}
    BY <1>3 DEF Leg
  <2>2. Place(op.plan[op.next].symbol, op.plan[op.next].qty, 0) /\ OrdersInv /\ 0 \in Nat
    BY DEF PlaceLeg, Inductive
  <2> QED BY <2>1, <2>2, PlaceKeeps
<1>5. serial \in Nat
  BY DEF Inductive, OrdersInv
<1>6. UNCHANGED <<journal, tradesFile, behind>>
  BY DEF PlaceLeg
<1>7. /\ op'.kind = op.kind /\ op'.plan = op.plan
      /\ op'.next = op.next + 1 /\ op'.placed = Append(op.placed, serial')
  BY DEF PlaceLeg
<1>8. Append(op.placed, serial') \in Seq(1..serial') /\ Len(Append(op.placed, serial')) = op.next
  <2>1. 1..serial \subseteq 1..serial' /\ serial' \in 1..serial'
    BY <1>4, <1>5
  <2>2. op.placed \in Seq(1..serial')
    <3>1. op.placed \in [1..Len(op.placed) -> 1..serial] /\ Len(op.placed) \in Nat
      BY <1>1, LenProperties
    <3>2. op.placed \in [1..Len(op.placed) -> 1..serial']
      BY <2>1, <3>1
    <3> QED BY <3>1, <3>2, FunctionIsSeq
  <2> QED BY <1>1, <2>1, <2>2
<1>9. Duplicates(op.plan)' = {}
  BY <1>1, <1>6, <1>7 DEF Duplicates, OpenTrades, TradeIds, journal
<1>10. OpInv'
  BY <1>1, <1>2, <1>7, <1>8, <1>9 DEF OpInv
<1> QED
  BY <1>4, <1>5, <1>6, <1>10, JournalAlone

\* A leg placed to close a trade keeps the invariant.
LEMMA CloseLegKeeps == Inductive /\ CloseLeg => Inductive'
<1> SUFFICES ASSUME Inductive, CloseLeg PROVE Inductive'
  OBVIOUS
<1> DEFINE leg == trades[op.trade].legs[op.next]
<1>1. /\ op.kind = "close" /\ op.trade \in OpenTrades /\ op.next \in Nat \ {0}
      /\ op.next <= Len(trades[op.trade].legs)
  BY DEF CloseLeg, Inductive, OpInv
<1>2. leg \in LegRec
  <2>1. trades \in Seq(Trade) /\ op.trade \in DOMAIN trades
    BY <1>1 DEF Inductive, JournalInv, Known, OpenTrades, TradeIds
  <2>2. trades[op.trade].legs \in Seq(LegRec)
    <3>1. trades[op.trade] \in Trade
      BY <2>1
    <3> QED BY <3>1 DEF Trade
  <2>3. op.next \in 1..Len(trades[op.trade].legs)
    BY <1>1, <2>2
  <2> QED BY <2>2, <2>3
<1>3. OrdersInv /\ serial \in Nat
  BY DEF Inductive, OrdersInv
<1>4. OrdersInv' /\ serial' >= serial
  <2>1. CASE LegStatus(op.trade, op.next) = "complete"
    <3>1. Place(leg.symbol, ClosingQty(leg.qty), leg.order)
      BY <2>1 DEF CloseLeg
    <3>2. leg.symbol \in Symbols /\ ClosingQty(leg.qty) \in Int \ {0} /\ leg.order \in Nat
      BY <1>2 DEF LegRec, ClosingQty
    <3> HIDE DEF leg
    <3>3. OrdersInv' /\ serial' = serial + 1
      BY <1>3, <3>1, <3>2, PlaceKeeps
    <3> QED BY <1>3, <3>3
  <2>2. CASE LegStatus(op.trade, op.next) # "complete"
    <3>1. UNCHANGED <<broker, brokerFile, serial>>
      BY <2>2 DEF CloseLeg
    <3> QED BY <1>3, <3>1 DEF OrdersInv, broker
  <2> QED BY <2>1, <2>2
<1>5. UNCHANGED <<journal, tradesFile, behind>> /\ op' = [op EXCEPT !.next = @ + 1]
  BY DEF CloseLeg
<1>6. OpInv'
  <2>1. op'.kind = op.kind /\ op'.trade = op.trade /\ op'.next = op.next + 1
    BY <1>5
  <2> QED BY <1>1, <1>5, <2>1 DEF OpInv, OpenTrades, TradeIds, journal
<1> QED
  BY <1>4, <1>5, <1>6, JournalAlone

\* The steps that change neither the journal nor what has been ordered.
LEMMA StatusStepKeeps ==
    ASSUME Inductive, UNCHANGED <<journal, tradesFile, behind, serial>>,
           orders' \in [1..serial -> OrderRec], brokerFile'.orders \in [1..serial -> OrderRec],
           op' = op \/ op'.kind \notin {"open", "close"}
    PROVE  Inductive'
<1>1. serial' = serial /\ serial \in Nat
  BY DEF Inductive, OrdersInv
<1>2. OrdersInv'
  BY <1>1 DEF OrdersInv
<1>3. OpInv'
  BY <1>1 DEF Inductive, OpInv, OpenTrades, TradeIds, Duplicates, journal
<1> QED
  BY <1>1, <1>2, <1>3, JournalAlone

\* A tick that fills orders keeps the invariant.
LEMMA TickFillsKeeps ==
    ASSUME Inductive, NEW ks \in SUBSET DOMAIN orders, TickFills(ks)
    PROVE  Inductive'
<1>1. orders \in [1..serial -> OrderRec] /\ brokerFile.orders \in [1..serial -> OrderRec]
  BY DEF Inductive, OrdersInv
<1>2. ASSUME NEW k \in 1..serial
      PROVE  Filled(orders[k], IsLate(k)) \in OrderRec
  <2>1. IsLate(k) \in BOOLEAN
    BY DEF IsLate
  <2>2. orders[k] \in OrderRec
    BY <1>1, <1>2
  <2> HIDE DEF IsLate
  <2>3. Filled(orders[k], IsLate(k)) =
           [symbol |-> orders[k].symbol, qty |-> orders[k].qty, closes |-> orders[k].closes,
            status |-> "complete", late |-> IsLate(k)]
    BY <2>1, <2>2, FilledOrder
  <2> QED BY <2>1, <2>2, <2>3 DEF OrderRec, Status
<1>3. orders' = [k \in DOMAIN orders |->
                   IF k \in ks THEN Filled(orders[k], IsLate(k)) ELSE orders[k]]
  BY DEF TickFills
<1>4. orders' \in [1..serial -> OrderRec]
  BY <1>1, <1>2, <1>3
<1>5. UNCHANGED <<journal, tradesFile, behind, serial, brokerFile, op>>
  BY DEF TickFills, files
<1> QED
  BY <1>1, <1>4, <1>5, StatusStepKeeps

\* The cancellations of a kill keep the invariant.
LEMMA KillCancelsKeeps == Inductive /\ KillCancels => Inductive'
<1> SUFFICES ASSUME Inductive, KillCancels PROVE Inductive'
  OBVIOUS
<1>1. orders \in [1..serial -> OrderRec] /\ brokerFile.orders \in [1..serial -> OrderRec]
  BY DEF Inductive, OrdersInv
<1>2. ASSUME NEW k \in 1..serial
      PROVE  [orders[k] EXCEPT !.status = "cancelled"] \in OrderRec
  BY <1>1 DEF OrderRec, Status
<1>3. orders' = [k \in DOMAIN orders |->
          IF Complete(k) THEN orders[k] ELSE [orders[k] EXCEPT !.status = "cancelled"]]
  BY DEF KillCancels
<1>4. orders' \in [1..serial -> OrderRec]
  BY <1>1, <1>2, <1>3
<1>5. brokerFile' = brokerFile \/ brokerFile'.orders = orders'
  BY DEF KillCancels, BrokerState
<1>6. UNCHANGED <<journal, tradesFile, behind, serial>> /\ op'.kind = "kill"
  BY DEF KillCancels, Idle
<1> QED
  BY <1>1, <1>4, <1>5, <1>6, StatusStepKeeps

\* The start of open_trade keeps the invariant.
LEMMA BeginOpenKeeps ==
    ASSUME Inductive, NEW plan \in Plans, BeginOpen(plan)
    PROVE  Inductive'
<1>1. UNCHANGED <<broker, files, journal, serial>> /\ Duplicates(plan) = {}
  BY DEF BeginOpen
<1>2. op'.kind = "open" /\ op'.plan = plan /\ op'.next = 1 /\ op'.placed = <<>>
  BY DEF BeginOpen, Idle
<1>3. OrdersInv' /\ serial' >= serial /\ UNCHANGED <<journal, tradesFile, behind>>
  BY <1>1 DEF Inductive, OrdersInv, broker, files
<1>4. OpInv'
  <2>1. plan \in Seq(Leg)
    BY PlansAssumption
  <2>2. Duplicates(plan)' = {}
    BY <1>1 DEF Duplicates, OpenTrades, TradeIds, journal
  <2>3. Len(plan) \in Nat
    BY <2>1
  <2> QED BY <1>2, <2>1, <2>2, <2>3 DEF OpInv
<1> QED
  BY <1>3, <1>4, JournalAlone

\* The start of close_trade keeps the invariant.
LEMMA BeginCloseKeeps ==
    ASSUME Inductive, NEW t \in TradeIds, BeginClose(t)
    PROVE  Inductive'
<1>1. UNCHANGED <<broker, files, journal, serial>> /\ t \in OpenTrades
  BY DEF BeginClose
<1>2. op'.kind = "close" /\ op'.trade = t /\ op'.next = 1
  BY DEF BeginClose, Idle
<1>3. OrdersInv' /\ serial' >= serial /\ UNCHANGED <<journal, tradesFile, behind>>
  BY <1>1 DEF Inductive, OrdersInv, broker, files
<1>4. OpInv'
  BY <1>1, <1>2 DEF OpInv, OpenTrades, TradeIds, journal
<1> QED
  BY <1>3, <1>4, JournalAlone

\* A trade is entered with the orders just placed, under symbols no open trade
\* maps: an option's by the dedupe, a future's because only free ones are mapped.
LEMMA EnteredExact ==
    ASSUME trades \in Seq(Trade), MapExact(symMap, trades),
           NEW D \in SUBSET Nat, op.plan \in Seq(Leg), op.placed \in Seq(D),
           op.next \in Nat, Len(op.placed) = op.next - 1, op.next <= Len(op.plan) + 1,
           Duplicates(op.plan) = {}, EndOpen
    PROVE  /\ trades' \in Seq(Trade) /\ DOMAIN trades' = (DOMAIN trades) \cup {Len(trades) + 1}
           /\ \A t \in DOMAIN trades : trades'[t] = trades[t]
           /\ \A i \in DOMAIN trades'[Len(trades) + 1].legs :
                 trades'[Len(trades) + 1].legs[i].order \in D
           /\ MapExact(symMap', trades')
<1> DEFINE leg(i) == [order |-> op.placed[i], symbol |-> op.plan[i].symbol,
                      qty |-> op.plan[i].qty, seen |-> "open"]
           legs == [i \in DOMAIN op.plan |-> leg(i)]
           id == Len(trades) + 1
           new == [legs |-> legs, closed |-> FALSE, copied |-> FALSE]
<1>1. op.next <= Len(op.plan) + 1 /\ op.next > Len(op.plan)
  BY DEF EndOpen
<1>2. DOMAIN op.plan = 1..Len(op.plan) /\ Len(op.plan) \in Nat
  BY LenProperties
<1>3. DOMAIN op.placed = 1..Len(op.plan)
  BY <1>1, <1>2
<1>5. ASSUME NEW i \in DOMAIN op.plan
      PROVE  leg(i) \in LegRec /\ op.placed[i] \in D
  <2>1. op.plan[i] \in Leg
    BY <1>1, <1>5
  <2>2. op.placed[i] \in D
    <3>1. op.placed \in [1..Len(op.placed) -> D]
      BY LenProperties
    <3> QED BY <1>3, <1>5, <3>1
  <2> QED BY <2>1, <2>2 DEF Leg, LegRec, Status
<1>6. new \in Trade
  <2>1. legs \in Seq(LegRec)
    <3> HIDE DEF leg
    <3>1. legs \in [1..Len(op.plan) -> LegRec]
      BY <1>2, <1>5
    <3> QED BY <1>2, <3>1, FunctionIsSeq
  <2> HIDE DEF legs
  <2> QED BY <2>1 DEF Trade
<1>7. /\ trades' = Append(trades, new)
      /\ symMap' = [s \in DOMAIN symMap \cup {legs[i].symbol : i \in DOMAIN legs} |->
                       IF s \in DOMAIN symMap THEN symMap[s] ELSE id]
      /\ SaveJournal
  BY DEF EndOpen
<1>8. Len(trades) \in Nat /\ DOMAIN trades = 1..Len(trades)
  BY LenProperties
<1>9. /\ trades' \in Seq(Trade) /\ DOMAIN trades' = 1..id
      /\ \A t \in DOMAIN trades : trades'[t] = trades[t]
      /\ trades'[id] = new
  <2> HIDE DEF new
  <2> QED BY <1>6, <1>7, <1>8
<1>10. \A i \in DOMAIN trades'[id].legs : trades'[id].legs[i].order \in D
  <2>1. trades'[id].legs = legs
    BY <1>9
  <2> QED BY <1>5, <2>1
<1>12. \A s : \A t \in DOMAIN trades : HasSymbol(trades'[t], s) <=> HasSymbol(trades[t], s)
  BY <1>9
<1>13. \A s : HasSymbol(new, s) <=> \E i \in DOMAIN legs : legs[i].symbol = s
  BY DEF HasSymbol
<1>14. ASSUME NEW t \in DOMAIN trades, ~trades[t].closed, NEW s \in Options,
              HasSymbol(trades[t], s)
       PROVE  ~HasSymbol(new, s)
  <2>1. SUFFICES ASSUME NEW i \in DOMAIN op.plan, op.plan[i].symbol = s PROVE FALSE
    BY <1>13
  <2>2. t \in OpenTrades
    BY <1>14 DEF OpenTrades, TradeIds
  <2>3. PICK j \in DOMAIN trades[t].legs : trades[t].legs[j].symbol = s
    BY <1>14 DEF HasSymbol
  <2>4. s \in Duplicates(op.plan)
    BY <1>14, <2>1, <2>2, <2>3 DEF Duplicates
  <2> QED BY <1>1, <2>4
<1>15. MapExact(symMap', trades')
  <2> HIDE DEF legs, new
  <2>0. MapExact(symMap, trades)
    OBVIOUS
  <2>1. ASSUME NEW s \in DOMAIN symMap'
        PROVE  /\ symMap'[s] \in DOMAIN trades' /\ ~trades'[symMap'[s]].closed
               /\ HasSymbol(trades'[symMap'[s]], s)
    <3>1. CASE s \in DOMAIN symMap
      <4>1. symMap'[s] = symMap[s]
        BY <1>7, <3>1
      <4>2. symMap[s] \in DOMAIN trades /\ ~trades[symMap[s]].closed /\ HasSymbol(trades[symMap[s]], s)
        BY <2>0, <3>1 DEF MapExact
      <4> QED BY <1>8, <1>9, <1>12, <4>1, <4>2
    <3>2. CASE s \notin DOMAIN symMap
      <4>1. symMap'[s] = id /\ \E i \in DOMAIN legs : legs[i].symbol = s
        BY <1>7, <2>1, <3>2
      <4>2. HasSymbol(new, s) /\ ~new.closed
        BY <1>13, <4>1 DEF new
      <4> QED BY <1>8, <1>9, <4>1, <4>2
    <3> QED BY <3>1, <3>2
  <2>2. ASSUME NEW t \in DOMAIN trades', ~trades'[t].closed, NEW s \in Options,
               HasSymbol(trades'[t], s)
        PROVE  s \in DOMAIN symMap' /\ symMap'[s] = t
    <3>1. CASE t \in DOMAIN trades
      <4>1. s \in DOMAIN symMap /\ symMap[s] = t
        BY <1>9, <1>12, <2>0, <2>2, <3>1 DEF MapExact
      <4> QED BY <1>7, <4>1
    <3>2. CASE t = id
      <4>1. HasSymbol(new, s)
        BY <1>9, <2>2, <3>2
      <4>2. s \notin DOMAIN symMap
        <5>1. SUFFICES ASSUME s \in DOMAIN symMap PROVE FALSE
          OBVIOUS
        <5>2. symMap[s] \in DOMAIN trades /\ ~trades[symMap[s]].closed /\ HasSymbol(trades[symMap[s]], s)
          BY <2>0, <5>1 DEF MapExact
        <5> QED BY <1>14, <2>2, <4>1, <5>2
      <4>3. \E i \in DOMAIN legs : legs[i].symbol = s
        BY <1>13, <4>1
      <4> QED BY <1>7, <3>2, <4>2, <4>3
    <3> QED BY <1>8, <1>9, <2>2, <3>1, <3>2
  <2> QED BY <2>1, <2>2 DEF MapExact
<1>16. DOMAIN trades' = (DOMAIN trades) \cup {id}
  BY <1>8, <1>9
<1> QED
  BY <1>9, <1>10, <1>15, <1>16

\* The end of open_trade, which enters the trade and saves, keeps the invariant.
LEMMA EndOpenKeeps == Inductive /\ EndOpen => Inductive'
<1> SUFFICES ASSUME Inductive, EndOpen PROVE Inductive'
  OBVIOUS
<1>1. /\ trades \in Seq(Trade) /\ MapExact(symMap, trades)
      /\ op.plan \in Seq(Leg) /\ op.placed \in Seq(1..serial)
      /\ op.next \in Nat /\ Len(op.placed) = op.next - 1 /\ op.next <= Len(op.plan) + 1
      /\ Duplicates(op.plan) = {} /\ serial \in Nat
  BY DEF EndOpen, Inductive, OpInv, JournalInv, Known, OrdersInv
<1>2. 1..serial \in SUBSET Nat
  BY <1>1
<1> DEFINE id == Len(trades) + 1
<1>3. /\ trades' \in Seq(Trade) /\ DOMAIN trades' = (DOMAIN trades) \cup {id}
      /\ \A t \in DOMAIN trades : trades'[t] = trades[t]
      /\ \A i \in DOMAIN trades'[id].legs : trades'[id].legs[i].order \in 1..serial
      /\ MapExact(symMap', trades')
  BY <1>1, <1>2, EnteredExact
<1>4. UNCHANGED <<serial, orders, brokerFile>> /\ op' = Idle /\ SaveJournal
  BY DEF EndOpen, broker
<1>5. Known(trades')
  <2> HIDE DEF id
  <2> QED BY <1>3 DEF Inductive, JournalInv, Known
<1>6. Older(tradesFile.trades, trades')
  <2>1. Older(tradesFile.trades, trades)
    BY DEF Inductive, JournalInv
  <2> HIDE DEF id
  <2> QED BY <1>3, <2>1 DEF Older
<1>7. JournalInv'
  BY <1>3, <1>4, <1>5, <1>6, SavedJournal
<1>8. OrdersInv' /\ OpInv'
  BY <1>4 DEF Inductive, OrdersInv, OpInv, Idle
<1> QED
  BY <1>3, <1>7, <1>8 DEF Inductive

\* Closing a trade frees the symbols that lead to it.
LEMMA ClosedExact ==
    ASSUME trades \in Seq(Trade), MapExact(symMap, trades), op.trade \in DOMAIN trades, EndClose
    PROVE  /\ trades' \in Seq(Trade) /\ DOMAIN trades' = DOMAIN trades
           /\ \A t \in DOMAIN trades : /\ trades'[t].legs = trades[t].legs
                                      /\ trades'[t].copied = trades[t].copied
           /\ \A t \in DOMAIN trades : trades[t].closed => trades'[t].closed
           /\ MapExact(symMap', trades')
<1> DEFINE c == op.trade
           shut == [legs |-> trades[c].legs, closed |-> TRUE, copied |-> trades[c].copied]
<1>1. c \in DOMAIN trades /\ trades \in Seq(Trade)
  OBVIOUS
<1>2. trades[c] \in Trade
  BY <1>1
<1>3. [trades[c] EXCEPT !.closed = TRUE] = shut /\ shut \in Trade
  <2>1. \A v : \A x \in Trade :
           [x EXCEPT !.closed = v] = [legs |-> x.legs, closed |-> v, copied |-> x.copied]
    BY TradeFields
  <2>2. shut \in Trade
    BY <1>2 DEF Trade
  <2> QED BY <1>2, <2>1, <2>2
<1>4. /\ trades' = [trades EXCEPT ![c] = shut]
      /\ symMap' = Unmapped(c)
  BY <1>3 DEF EndClose
<1>5. /\ trades' \in Seq(Trade) /\ DOMAIN trades' = DOMAIN trades /\ trades'[c] = shut
      /\ \A t \in DOMAIN trades : t # c => trades'[t] = trades[t]
      /\ \A t \in DOMAIN trades : /\ trades'[t].legs = trades[t].legs
                                 /\ trades'[t].copied = trades[t].copied
  <2>1. trades' \in Seq(Trade)
    <3> HIDE DEF shut
    <3> QED BY <1>1, <1>3, <1>4
  <2>2. /\ DOMAIN trades' = DOMAIN trades /\ trades'[c] = shut
        /\ \A t \in DOMAIN trades : t # c => trades'[t] = trades[t]
    <3> HIDE DEF shut
    <3> QED BY <1>1, <1>4
  <2>3. shut.legs = trades[c].legs /\ shut.copied = trades[c].copied
    OBVIOUS
  <2> HIDE DEF shut
  <2> QED BY <2>1, <2>2, <2>3
<1>8. \A s : \A t \in DOMAIN trades : HasSymbol(trades'[t], s) <=> HasSymbol(trades[t], s)
  BY <1>5 DEF HasSymbol
<1>9. MapExact(symMap', trades')
  <2>1. /\ \A s : s \in DOMAIN symMap' <=> s \in DOMAIN symMap /\ symMap[s] # c
        /\ \A s \in DOMAIN symMap' : symMap'[s] = symMap[s]
    BY <1>4 DEF Unmapped
  <2>2. trades'[c].closed
    BY <1>5
  <2>3. MapExact(symMap, trades)
    OBVIOUS
  <2> QED BY <1>5, <1>8, <2>1, <2>2, <2>3 DEF MapExact
<1>10. \A t \in DOMAIN trades : trades[t].closed => trades'[t].closed
  BY <1>5
<1> QED
  BY <1>5, <1>9, <1>10

\* The end of close_trade, which books the result and saves, keeps the invariant.
LEMMA EndCloseKeeps == Inductive /\ EndClose => Inductive'
<1> SUFFICES ASSUME Inductive, EndClose PROVE Inductive'
  OBVIOUS
<1>1. trades \in Seq(Trade) /\ MapExact(symMap, trades) /\ op.trade \in DOMAIN trades
  BY DEF EndClose, Inductive, OpInv, OpenTrades, TradeIds, JournalInv, Known
<1>2. /\ trades' \in Seq(Trade) /\ DOMAIN trades' = DOMAIN trades
      /\ \A t \in DOMAIN trades : /\ trades'[t].legs = trades[t].legs
                                 /\ trades'[t].copied = trades[t].copied
      /\ \A t \in DOMAIN trades : trades[t].closed => trades'[t].closed
      /\ MapExact(symMap', trades')
  BY <1>1, ClosedExact
<1>3. UNCHANGED <<serial, orders, brokerFile>> /\ op' = Idle /\ SaveJournal
  BY DEF EndClose, broker
<1>4. Known(trades')
  BY <1>2 DEF Known, Inductive, JournalInv
<1>5. Older(tradesFile.trades, trades')
  <2>1. Older(tradesFile.trades, trades)
    BY DEF Inductive, JournalInv
  <2> QED BY ONLY <1>2, <2>1 DEF Older
<1>6. JournalInv'
  BY <1>2, <1>3, <1>4, <1>5, SavedJournal
<1>7. OrdersInv' /\ OpInv'
  BY <1>3 DEF Inductive, OrdersInv, OpInv, Idle
<1> QED
  BY <1>2, <1>6, <1>7 DEF Inductive

\* The journal comes back from its file with its orders as copies.
LEMMA LoadedIsSame ==
    ASSUME tradesFile.trades \in Seq(Trade), Start
    PROVE  /\ trades' \in Seq(Trade)
           /\ SameTrades(trades', tradesFile.trades) /\ SameTrades(tradesFile.trades, trades')
           /\ \A t \in DOMAIN trades' : trades'[t].copied
<1> DEFINE file == tradesFile.trades
           copy(t) == [legs |-> file[t].legs, closed |-> file[t].closed, copied |-> TRUE]
<1>2. file \in Seq(Trade) /\ DOMAIN file = 1..Len(file) /\ Len(file) \in Nat
  BY LenProperties
<1>3. ASSUME NEW t \in DOMAIN file
      PROVE  [file[t] EXCEPT !.copied = TRUE] = copy(t) /\ copy(t) \in Trade
  <2>1. \A v : \A x \in Trade :
           [x EXCEPT !.copied = v] = [legs |-> x.legs, closed |-> x.closed, copied |-> v]
    BY TradeFields
  <2>2. file[t] \in Trade
    BY <1>2, <1>3
  <2>3. copy(t) \in Trade
    BY <2>2 DEF Trade
  <2> QED BY <2>1, <2>2, <2>3
<1>4. trades' = [t \in DOMAIN file |-> [file[t] EXCEPT !.copied = TRUE]]
  BY DEF Start, Loaded
<1>5. trades' = [t \in DOMAIN file |-> copy(t)]
  <2> HIDE DEF copy
  <2> QED BY <1>3, <1>4
<1>6. trades' \in Seq(Trade)
  <2> HIDE DEF copy
  <2>1. trades' \in [1..Len(file) -> Trade]
    BY <1>2, <1>3, <1>5
  <2> QED BY <1>2, <2>1, FunctionIsSeq
<1>7. DOMAIN trades' = DOMAIN file
  BY <1>5
<1>8. \A t \in DOMAIN file : /\ trades'[t].legs = file[t].legs
                             /\ trades'[t].closed = file[t].closed /\ trades'[t].copied
  BY <1>5
<1> QED
  BY <1>6, <1>7, <1>8 DEF SameTrades

\* A start takes the journal over from its file, whatever version that is.
LEMMA StartKeeps ==
    ASSUME Inductive, Start
    PROVE  Inductive' /\ Older(trades', trades) /\ (~behind => SameTrades(trades', trades))
<1> DEFINE file == tradesFile.trades
<1>1. /\ Known(file) /\ MapExact(tradesFile.symMap, file) /\ Older(file, trades)
      /\ ~behind => SameTrades(file, trades)
  BY DEF Inductive, JournalInv
<1>2. trades' \in Seq(Trade) /\ SameTrades(trades', file) /\ SameTrades(file, trades')
  BY <1>1, LoadedIsSame DEF Known
<1>3. /\ symMap' = tradesFile.symMap /\ behind' = FALSE
      /\ UNCHANGED <<tradesFile, serial, orders, brokerFile>> /\ op'.kind = "startup"
  BY DEF Start, Idle, broker
<1> HIDE DEF file
<1>4. ~behind => SameTrades(trades', trades)
  BY <1>1, <1>2 DEF SameTrades
<1>5. Older(trades', trades) /\ Older(file, trades')
  BY <1>1, <1>2 DEF SameTrades, Older
<1>6. MapExact(symMap', trades')
  BY <1>1, <1>2, <1>3, ExactForSame
<1>7. JournalInv'
  <2>1. Known(trades)' /\ Known(file)'
    BY <1>1, <1>2, <1>3 DEF Known, SameTrades, file
  <2> QED BY <1>1, <1>2, <1>3, <1>5, <2>1 DEF JournalInv, file
<1>8. OrdersInv' /\ OpInv'
  BY <1>3 DEF Inductive, OrdersInv, OpInv
<1> QED
  BY <1>4, <1>5, <1>6, <1>7, <1>8 DEF Inductive

\* Every step keeps the invariant.
LEMMA NextInductive == Inductive /\ [Next]_vars => Inductive'
<1> SUFFICES ASSUME Inductive, [Next]_vars PROVE Inductive'
  OBVIOUS
<1>0. orders \in [1..serial -> OrderRec] /\ brokerFile.orders \in [1..serial -> OrderRec]
  BY DEF Inductive, OrdersInv
<1>1. ASSUME NEW plan \in Plans, BeginOpen(plan) PROVE Inductive'
  BY <1>1, BeginOpenKeeps
<1>2. CASE PlaceLeg
  BY <1>2, PlaceLegKeeps
<1>3. CASE EndOpen
  BY <1>3, EndOpenKeeps
<1>4. ASSUME NEW t \in TradeIds, BeginClose(t) PROVE Inductive'
  BY <1>4, BeginCloseKeeps
<1>5. CASE CloseLeg
  BY <1>5, CloseLegKeeps
<1>6. CASE EndClose
  BY <1>6, EndCloseKeeps
<1>7. ASSUME NEW ks \in SUBSET DOMAIN orders, TickFills(ks) PROVE Inductive'
  BY <1>7, TickFillsKeeps
<1>8. CASE TickSaves
  BY <1>0, <1>8, StatusStepKeeps DEF TickSaves, BrokerState, broker, journal
<1>9. CASE KillCancels
  BY <1>9, KillCancelsKeeps
<1>10. CASE KillCloses
  BY <1>0, <1>10, StatusStepKeeps DEF KillCloses, Idle, files
<1>11. CASE Shutdown
  BY <1>0, <1>11, StatusStepKeeps DEF Shutdown, BrokerState, broker
<1>12. CASE Crash
  BY <1>0, <1>12, StatusStepKeeps DEF Crash, Idle, files
<1>13. CASE Start
  BY <1>13, StartKeeps
<1>14. CASE CheckDrift
  <2>1. op'.kind = "recover" \/ op' = Idle
    BY <1>14 DEF CheckDrift, Idle
  <2> QED BY <1>0, <1>14, <2>1, StatusStepKeeps DEF CheckDrift, Idle, files, broker
<1>15. CASE Recover
  <2>1. brokerFile'.orders = orders' /\ orders' = orders
    BY <1>15 DEF Recover, BrokerState
  <2> QED BY <1>0, <1>15, <2>1, StatusStepKeeps DEF Recover, Idle
<1>16. CASE UNCHANGED vars
  BY <1>0, <1>16, StatusStepKeeps DEF vars, broker, files
<1> QED
  BY <1>1, <1>2, <1>3, <1>4, <1>5, <1>6, <1>7, <1>8, <1>9, <1>10, <1>11, <1>12, <1>13,
     <1>14, <1>15, <1>16 DEF Next

\* Every state satisfies the invariant.
LEMMA AlwaysInductive == Spec => []Inductive
  BY InitInductive, NextInductive, PTL DEF Spec

------------------------------------------------------------------------------
(* The broker's book, in memory and in its file. *)

\* What an order holds of s.
DoneQty(o, s) == IF o.status = "complete" /\ o.symbol = s THEN o.qty ELSE 0

DoneBy(os, n, s) == [k \in 1..n |-> DoneQty(os[k], s)]

\* The positions p are what the n orders of os have filled.
FromFills(p, os, n) == \A s \in Symbols : p[s] = SumFunctionOnSet(DoneBy(os, n, s), 1..n)

SameOrder(a, b) == a.symbol = b.symbol /\ a.qty = b.qty /\ a.closes = b.closes

BookTypes ==
    /\ serial \in 0..MaxOrders /\ restarts \in 0..MaxRestarts
    /\ pos \in [Symbols -> Int] /\ brokerFile.pos \in [Symbols -> Int]
    /\ op.kind \in {"idle", "open", "close", "kill", "startup", "recover"} /\ op.next \in Nat
    /\ op.kind \notin {"open", "close"} => op.next = 1
    /\ {up, paused, dirty, torn, overridden, killed, brokerFile.overridden} \subseteq BOOLEAN
    /\ ~up => op = Idle /\ ~dirty

\* The file has every order, and its fills up to the tick under way.
SavedInv ==
    /\ ~dirty => brokerFile.orders = orders
    /\ \A k \in 1..serial : SameOrder(brokerFile.orders[k], orders[k])
    /\ \A k \in 1..serial : brokerFile.orders[k].status = "complete" => orders[k] = brokerFile.orders[k]

\* Positions nobody has set come from fills.
SumsInv ==
    /\ ~overridden => FromFills(pos, orders, serial)
    /\ ~brokerFile.overridden => FromFills(brokerFile.pos, brokerFile.orders, serial)

BookInv == BookTypes /\ SavedInv /\ SumsInv

\* What is held is a number of contracts.
LEMMA DoneInt ==
    ASSUME NEW n \in Nat, NEW os \in [1..n -> OrderRec], NEW s
    PROVE  \A k \in 1..n : DoneQty(os[k], s) \in Int /\ DoneBy(os, n, s)[k] = DoneQty(os[k], s)
<1>1. \A k \in 1..n : os[k].qty \in Int
  BY DEF OrderRec
<1> QED
  BY <1>1 DEF DoneQty, DoneBy

\* One order more, and what it holds.
LEMMA FillsAdd ==
    ASSUME NEW n \in Nat, NEW os \in [1..n -> OrderRec], NEW more \in [1..(n + 1) -> OrderRec],
           \A k \in 1..n : more[k] = os[k],
           NEW p \in [Symbols -> Int], FromFills(p, os, n),
           NEW q, \A s \in Symbols : q[s] = p[s] + DoneQty(more[n + 1], s)
    PROVE  FromFills(q, more, n + 1)
<1> SUFFICES ASSUME NEW s \in Symbols
             PROVE  q[s] = SumFunctionOnSet(DoneBy(more, n + 1, s), 1..(n + 1))
  BY DEF FromFills
<1> DEFINE f == DoneBy(more, n + 1, s)
           g == DoneBy(os, n, s)
<1>1. /\ \A k \in 1..(n + 1) : f[k] \in Int /\ f[k] = DoneQty(more[k], s)
      /\ \A k \in 1..n : g[k] = DoneQty(os[k], s)
  <2>1. n + 1 \in Nat
    OBVIOUS
  <2>2. \A k \in 1..(n + 1) : DoneQty(more[k], s) \in Int /\ f[k] = DoneQty(more[k], s)
    BY <2>1, DoneInt
  <2>3. \A k \in 1..n : g[k] = DoneQty(os[k], s)
    BY DoneInt
  <2> QED BY <2>2, <2>3
<1>2. \A k \in 1..n : g[k] = f[k]
  BY <1>1
<1> HIDE DEF f, g
<1>3. IsFiniteSet(1..n) /\ n + 1 \notin 1..n /\ 1..(n + 1) = (1..n) \cup {n + 1}
  <2>1. IsFiniteSet(1..n)
    BY FS_Interval
  <2> QED BY <2>1
<1>4. SumFunctionOnSet(f, (1..n) \cup {n + 1}) = f[n + 1] + SumFunctionOnSet(f, 1..n)
  <2> DEFINE S == 1..n
             x == n + 1
  <2>1. IsFiniteSet(S) /\ x \notin S /\ \A y \in S \cup {x} : f[y] \in Int
    BY <1>1, <1>3
  <2> HIDE DEF S, x
  <2>2. SumFunctionOnSet(f, S \cup {x}) = f[x] + SumFunctionOnSet(f, S)
    BY <2>1, SumAdd
  <2> QED BY <2>2 DEF S, x
<1>5. SumFunctionOnSet(f, 1..n) = SumFunctionOnSet(g, 1..n)
  BY <1>2, <1>3, SumEqual
<1>6. p[s] = SumFunctionOnSet(g, 1..n)
  BY DEF FromFills, g
<1>7. f[n + 1] = DoneQty(more[n + 1], s) /\ f[n + 1] \in Int /\ p[s] \in Int
  BY <1>1
<1> QED
  <2>1. q[s] = f[n + 1] + p[s]
    BY <1>7
  <2>2. SumFunctionOnSet(f, 1..(n + 1)) = f[n + 1] + p[s]
    BY <1>3, <1>4, <1>5, <1>6
  <2> QED BY <2>1, <2>2 DEF f

\* Orders that hold the same.
LEMMA FillsSame ==
    ASSUME NEW n \in Nat, NEW os, NEW other, NEW p, FromFills(p, os, n),
           \A k \in 1..n : \A s \in Symbols : DoneQty(other[k], s) = DoneQty(os[k], s)
    PROVE  FromFills(p, other, n)
<1> SUFFICES ASSUME NEW s \in Symbols
             PROVE  p[s] = SumFunctionOnSet(DoneBy(other, n, s), 1..n)
  BY DEF FromFills
<1>1. SumFunctionOnSet(DoneBy(os, n, s), 1..n) = SumFunctionOnSet(DoneBy(other, n, s), 1..n)
  <2>1. \A k \in 1..n : DoneBy(os, n, s)[k] = DoneBy(other, n, s)[k]
    BY DEF DoneBy
  <2>2. IsFiniteSet(1..n)
    BY FS_Interval
  <2> QED BY <2>1, <2>2, SumEqual
<1> QED
  BY <1>1 DEF FromFills

\* Some orders fill: what they hold of s is added.
Fill(os, more, n, ks) ==
    /\ \A k \in ks : os[k].status # "complete" /\ more[k].status = "complete" /\ SameOrder(more[k], os[k])
    /\ \A k \in (1..n) \ ks : more[k] = os[k]

QtyIn(os, ks, s, q, T) ==
    T = {j \in ks : os[j].symbol = s} /\ q = [k \in T |-> os[k].qty]

\* Orders filled in one go add their quantities to what was filled before.
LEMMA FillsMore ==
    ASSUME NEW n \in Nat, NEW os \in [1..n -> OrderRec], NEW more \in [1..n -> OrderRec],
           NEW ks \in SUBSET (1..n), Fill(os, more, n, ks),
           NEW p, FromFills(p, os, n), NEW s \in Symbols, NEW T, NEW q, QtyIn(os, ks, s, q, T)
    PROVE  SumFunctionOnSet(DoneBy(more, n, s), 1..n) = p[s] + SumFunctionOnSet(q, T)
<1> DEFINE S == 1..n
           f == DoneBy(os, n, s)
           g == [k \in 1..n |-> IF k \in T THEN os[k].qty ELSE 0]
           h == DoneBy(more, n, s)
<1>0. /\ T \subseteq ks /\ (\A k \in ks : k \in T <=> os[k].symbol = s)
      /\ \A k \in T : q[k] = os[k].qty
  BY DEF QtyIn
<1>00. /\ \A k \in ks : os[k].status # "complete" /\ more[k].status = "complete" /\ SameOrder(more[k], os[k])
       /\ \A k \in (1..n) \ ks : more[k] = os[k]
  BY DEF Fill
<1>1. /\ \A k \in S : f[k] \in Int /\ f[k] = DoneQty(os[k], s)
      /\ \A k \in S : h[k] = DoneQty(more[k], s)
  BY DoneInt
<1>2. \A k \in S : os[k].qty \in Int
  BY DEF OrderRec
<1>3. \A k \in S : g[k] \in Int /\ h[k] = f[k] + g[k]
  <2> SUFFICES ASSUME NEW k \in S PROVE g[k] \in Int /\ h[k] = f[k] + g[k]
    OBVIOUS
  <2>1. g[k] = IF k \in T THEN os[k].qty ELSE 0
    OBVIOUS
  <2>2. g[k] \in Int
    BY <1>2, <2>1
  <2>3. h[k] = DoneQty(more[k], s) /\ f[k] = DoneQty(os[k], s) /\ f[k] \in Int
    BY <1>1
  <2> HIDE DEF f, g, h
  <2>4. CASE k \in T
    <3>1. DoneQty(more[k], s) = os[k].qty /\ DoneQty(os[k], s) = 0
      BY <1>0, <1>00, <2>4 DEF DoneQty, SameOrder
    <3> QED BY <1>2, <2>1, <2>2, <2>3, <2>4, <3>1
  <2>5. CASE k \notin T /\ k \in ks
    <3>1. DoneQty(more[k], s) = 0 /\ DoneQty(os[k], s) = 0
      BY <1>0, <1>00, <2>5 DEF DoneQty, SameOrder
    <3> QED BY <2>1, <2>2, <2>3, <2>5, <3>1
  <2>6. CASE k \notin ks
    <3>1. DoneQty(more[k], s) = DoneQty(os[k], s) /\ k \notin T
      BY <1>0, <1>00, <2>6
    <3> QED BY <2>1, <2>2, <2>3, <3>1
  <2> QED BY <2>2, <2>4, <2>5, <2>6
<1>4. \A k \in S \ T : g[k] = 0
  OBVIOUS
<1>5. \A k \in T : g[k] = q[k] /\ q[k] \in Int
  BY <1>0, <1>2
<1>6. IsFiniteSet(S) /\ T \subseteq S
  <2>1. IsFiniteSet(1..n)
    BY FS_Interval
  <2> QED BY <1>0, <2>1
<1>7. IsFiniteSet(T)
  BY <1>6, FS_Subset
<1>8. p[s] = SumFunctionOnSet(f, S)
  BY DEF FromFills
<1> HIDE DEF f, g, h, S
<1>9. SumFunctionOnSet(h, S) = SumFunctionOnSet(f, S) + SumFunctionOnSet(g, S)
  BY <1>1, <1>3, <1>6, SumBoth
<1>10. SumFunctionOnSet(g, S) = SumFunctionOnSet(g, T)
  BY <1>3, <1>4, <1>6, SumOver
<1>11. SumFunctionOnSet(g, T) = SumFunctionOnSet(q, T) /\ SumFunctionOnSet(q, T) \in Int
  BY <1>5, <1>7, SumEqual, SumInt
<1>12. SumFunctionOnSet(h, S) = p[s] + SumFunctionOnSet(q, T) /\ SumFunctionOnSet(q, T) \in Int
  BY <1>8, <1>9, <1>10, <1>11
<1> QED
  BY <1>12 DEF h, S

------------------------------------------------------------------------------
(* What each step does to the book. *)

\* The order that is placed, what it fills, and that all is saved.
LEMMA PlaceGives ==
    ASSUME OrdersInv, NEW symbol \in Symbols, NEW qty \in Int \ {0}, NEW closes \in Nat,
           Place(symbol, qty, closes)
    PROVE  /\ serial' = serial + 1 /\ serial < MaxOrders /\ overridden' = overridden
           /\ \A k \in 1..serial : orders'[k] = orders[k]
           /\ orders'[serial + 1].symbol = symbol /\ orders'[serial + 1].qty = qty
           /\ orders'[serial + 1].closes = closes
           /\ pos' = IF orders'[serial + 1].status = "complete" THEN [pos EXCEPT ![symbol] = @ + qty] ELSE pos
           /\ brokerFile' = [orders |-> orders', pos |-> pos', overridden |-> overridden']
<1> DEFINE entry == [symbol |-> symbol, qty |-> qty, closes |-> closes,
                     status |-> "open", late |-> FALSE]
           done == [symbol |-> symbol, qty |-> qty, closes |-> closes,
                    status |-> "complete", late |-> FALSE]
<1>1. PICK fills \in BOOLEAN :
        /\ orders' = [k \in DOMAIN orders \cup {serial'} |->
                        IF k # serial' THEN orders[k]
                        ELSE IF fills THEN Filled(entry, FALSE) ELSE entry]
        /\ pos' = IF fills THEN [pos EXCEPT ![symbol] = @ + qty] ELSE pos
  BY DEF Place
<1> DEFINE new == IF fills THEN done ELSE entry
<1>2. Filled(entry, FALSE) = done
  <2>1. entry \in OrderRec
    BY DEF OrderRec, Status
  <2> HIDE DEF entry, done
  <2>2. Filled(entry, FALSE) = [symbol |-> entry.symbol, qty |-> entry.qty, closes |-> entry.closes,
                           status |-> "complete", late |-> FALSE]
    BY <2>1, FilledOrder
  <2> QED BY <2>2 DEF entry, done
<1>3. orders' = [k \in DOMAIN orders \cup {serial'} |-> IF k # serial' THEN orders[k] ELSE new]
  BY <1>1, <1>2
<1>4. serial' = serial + 1 /\ serial \in Nat /\ serial < MaxOrders /\ DOMAIN orders = 1..serial
      /\ overridden' = overridden
  BY DEF Place, OrdersInv
<1>5. /\ new.symbol = symbol /\ new.qty = qty /\ new.closes = closes
      /\ new.status = "complete" <=> fills
  OBVIOUS
<1>6. (\A k \in 1..serial : orders'[k] = orders[k]) /\ orders'[serial + 1] = new
  <2> HIDE DEF new
  <2> QED BY <1>3, <1>4
<1>7. brokerFile' = [orders |-> orders', pos |-> pos', overridden |-> overridden']
  BY DEF Place, BrokerState
<1> HIDE DEF new
<1> QED
  BY <1>1, <1>4, <1>5, <1>6, <1>7

\* A leg of a plan, or one that is closed.
LEMMA PlaceBook ==
    ASSUME Inductive, BookInv, Inductive', NEW symbol \in Symbols, NEW qty \in Int \ {0}, NEW closes \in Nat,
           Place(symbol, qty, closes), ~dirty, UNCHANGED <<up, paused, dirty, restarts, torn>>, killed' \in BOOLEAN,
           op'.kind = op.kind, op.kind \in {"open", "close"}, op'.next = op.next + 1, up
    PROVE  BookInv'
<1>1. /\ serial' = serial + 1 /\ serial < MaxOrders /\ overridden' = overridden
      /\ \A k \in 1..serial : orders'[k] = orders[k]
      /\ orders'[serial + 1].symbol = symbol /\ orders'[serial + 1].qty = qty
      /\ orders'[serial + 1].closes = closes
      /\ pos' = IF orders'[serial + 1].status = "complete" THEN [pos EXCEPT ![symbol] = @ + qty] ELSE pos
      /\ brokerFile' = [orders |-> orders', pos |-> pos', overridden |-> overridden']
  BY PlaceGives DEF Inductive
<1>2. /\ serial \in Nat /\ serial' \in Nat /\ pos \in [Symbols -> Int] /\ MaxOrders \in Nat
      /\ orders \in [1..serial -> OrderRec] /\ orders' \in [1..serial' -> OrderRec]
  BY PlansAssumption DEF Inductive, OrdersInv, BookInv, BookTypes
<1>3. pos' \in [Symbols -> Int] /\ \A s \in Symbols : pos'[s] = pos[s] + DoneQty(orders'[serial + 1], s)
  BY <1>1, <1>2 DEF DoneQty
<1>4. /\ brokerFile'.orders = orders' /\ brokerFile'.pos = pos' /\ brokerFile'.overridden = overridden'
  BY <1>1
<1>5. BookTypes'
  <2>1. serial' \in 0..MaxOrders
    BY <1>1, <1>2
  <2>2. op'.next \in Nat /\ op'.kind \in {"open", "close"}
    BY DEF BookInv, BookTypes
  <2>3. restarts' \in 0..MaxRestarts /\ {up', paused', dirty', torn', overridden', killed'} \subseteq BOOLEAN /\ up'
    BY <1>1 DEF BookInv, BookTypes
  <2>4. op'.kind \in {"idle", "open", "close", "kill", "startup", "recover"}
    BY <2>2
  <2> QED BY <1>3, <1>4, <2>1, <2>2, <2>3, <2>4 DEF BookTypes
<1>6. SavedInv'
  BY <1>4 DEF SavedInv, SameOrder
<1>7. SumsInv'
  <2>1. ~overridden => FromFills(pos, orders, serial)
    BY DEF BookInv, SumsInv
  <2>2. ASSUME FromFills(pos, orders, serial) PROVE FromFills(pos', orders', serial + 1)
    <3> DEFINE p == pos  os == orders  q == pos'  more == orders'  n == serial
    <3>1. /\ n \in Nat /\ os \in [1..n -> OrderRec] /\ more \in [1..(n + 1) -> OrderRec]
          /\ \A k \in 1..n : more[k] = os[k]
      BY <1>1, <1>2
    <3>2. /\ p \in [Symbols -> Int] /\ FromFills(p, os, n)
          /\ \A s \in Symbols : q[s] = p[s] + DoneQty(more[n + 1], s)
      BY <1>2, <1>3, <2>2
    <3> HIDE DEF p, os, q, more, n
    <3>3. FromFills(q, more, n + 1)
      BY <3>1, <3>2, FillsAdd
    <3> QED BY <3>3 DEF p, os, q, more, n
  <2> QED BY <1>1, <1>4, <2>1, <2>2 DEF SumsInv
<1> QED
  BY <1>5, <1>6, <1>7 DEF BookInv

\* Steps that leave orders, positions and the file.
LEMMA OtherBook ==
    ASSUME BookInv, BookTypes', UNCHANGED <<broker, brokerFile, serial, overridden>>, dirty' = dirty
    PROVE  BookInv'
<1>1. UNCHANGED <<orders, pos, brokerFile, serial, overridden, dirty>>
  BY DEF broker
<1> QED
  BY <1>1 DEF BookInv, SavedInv, SumsInv

\* Steps that save the broker as it is, or as it will be.
LEMMA SaveBook ==
    ASSUME BookInv, BookTypes', UNCHANGED <<orders, serial>>, brokerFile' = BrokerState',
           overridden' \/ UNCHANGED <<pos, overridden>>
    PROVE  BookInv'
<1>1. brokerFile'.orders = orders' /\ brokerFile'.pos = pos' /\ brokerFile'.overridden = overridden'
  BY DEF BrokerState
<1>2. overridden' \/ (~overridden' => FromFills(pos', orders', serial'))
  BY DEF BookInv, SumsInv
<1>3. SumsInv'
  BY <1>1, <1>2 DEF SumsInv
<1>4. SavedInv'
  BY <1>1 DEF SavedInv, SameOrder
<1> QED
  BY <1>3, <1>4 DEF BookInv

\* A tick fills exactly the orders it chose, and the book follows.
LEMMA TickBook ==
    ASSUME Inductive, BookInv, Inductive', NEW ks \in SUBSET DOMAIN orders, TickFills(ks)
    PROVE  /\ BookInv'
           /\ \A k \in ks : /\ orders[k].status = "open" /\ orders'[k].status = "complete"
                            /\ SameOrder(orders'[k], orders[k]) /\ orders'[k].late = IsLate(k)
           /\ \A k \in (1..serial) \ ks : orders'[k] = orders[k]
<1>1. /\ orders \in [1..serial -> OrderRec] /\ orders' \in [1..serial -> OrderRec] /\ serial \in Nat
      /\ UNCHANGED <<serial, brokerFile, op, up, paused, restarts, torn, overridden, killed>> /\ dirty' = TRUE /\ ~dirty /\ up
  BY DEF Inductive, OrdersInv, TickFills, files, history, Ready
<1>2. /\ \A k \in ks : orders[k].status = "open"
      /\ orders' = [k \in DOMAIN orders |-> IF k \in ks THEN Filled(orders[k], IsLate(k)) ELSE orders[k]]
      /\ pos' = [s \in Symbols |-> pos[s] + QtyOf({k \in ks : orders[k].symbol = s})]
  BY DEF TickFills
<1>3. ASSUME NEW k \in ks
      PROVE  /\ orders'[k].status = "complete" /\ SameOrder(orders'[k], orders[k])
             /\ orders'[k].late = IsLate(k)
  <2>1. IsLate(k) \in BOOLEAN
    BY DEF IsLate
  <2>2. orders[k] \in OrderRec
    BY <1>1, <1>3
  <2> HIDE DEF IsLate
  <2>3. Filled(orders[k], IsLate(k)) =
           [symbol |-> orders[k].symbol, qty |-> orders[k].qty, closes |-> orders[k].closes,
            status |-> "complete", late |-> IsLate(k)]
    BY <2>1, <2>2, FilledOrder
  <2>4. orders'[k] = Filled(orders[k], IsLate(k))
    BY <1>1, <1>2, <1>3
  <2> QED BY <2>3, <2>4 DEF SameOrder
<1>4. \A k \in (1..serial) \ ks : orders'[k] = orders[k]
  BY <1>1, <1>2
<1>5. ks \in SUBSET (1..serial) /\ pos \in [Symbols -> Int]
  BY <1>1 DEF BookInv, BookTypes
<1>6. BookTypes' /\ SumsInv'
  <2>1. \A s \in Symbols : QtyOf({k \in ks : orders[k].symbol = s}) \in Int
    <3> SUFFICES ASSUME NEW s \in Symbols PROVE QtyOf({k \in ks : orders[k].symbol = s}) \in Int
      OBVIOUS
    <3> DEFINE T == {k \in ks : orders[k].symbol = s}
               q == [k \in T |-> orders[k].qty]
    <3>1. IsFiniteSet(1..serial)
      BY <1>1, FS_Interval
    <3>2. IsFiniteSet(T)
      BY <1>5, <3>1, FS_Subset
    <3>3. \A k \in T : q[k] \in Int
      BY <1>1, <1>5 DEF OrderRec
    <3> HIDE DEF q, T
    <3>4. SumFunctionOnSet(q, T) \in Int
      BY <3>2, <3>3, SumInt
    <3> QED BY <3>4 DEF QtyOf, q, T
  <2>2. pos' \in [Symbols -> Int]
    BY <1>2, <1>5, <2>1
  <2>3. BookTypes'
    BY <1>1, <2>2 DEF BookInv, BookTypes
  <2>4. ASSUME ~overridden PROVE FromFills(pos', orders', serial)
    <3> SUFFICES ASSUME NEW s \in Symbols
                 PROVE  pos'[s] = SumFunctionOnSet(DoneBy(orders', serial, s), 1..serial)
      BY DEF FromFills
    <3>1. FromFills(pos, orders, serial)
      BY <2>4 DEF BookInv, SumsInv
    <3>2. \A k \in ks : orders[k].status # "complete" /\ orders'[k].status = "complete" /\ SameOrder(orders'[k], orders[k])
      BY <1>2, <1>3
    <3>3. SumFunctionOnSet(DoneBy(orders', serial, s), 1..serial)
            = pos[s] + SumFunctionOnSet([k \in {j \in ks : orders[j].symbol = s} |-> orders[k].qty],
                                        {j \in ks : orders[j].symbol = s})
      <4> DEFINE p == pos  os == orders  more == orders'  n == serial
      <4>1. /\ n \in Nat /\ os \in [1..n -> OrderRec] /\ more \in [1..n -> OrderRec]
            /\ ks \in SUBSET (1..n) /\ FromFills(p, os, n)
            /\ Fill(os, more, n, ks)
        BY <1>1, <1>4, <1>5, <3>1, <3>2 DEF Fill
      <4> DEFINE T == {j \in ks : os[j].symbol = s}
                 q == [k \in T |-> os[k].qty]
      <4>2. QtyIn(os, ks, s, q, T)
        BY DEF QtyIn
      <4> HIDE DEF p, os, more, n, T, q
      <4>3. SumFunctionOnSet(DoneBy(more, n, s), 1..n) = p[s] + SumFunctionOnSet(q, T)
        BY ONLY <4>1, <4>2, s \in Symbols, FillsMore
      <4> QED BY <4>3 DEF p, os, more, n, T, q
    <3>4. pos'[s] = pos[s] + QtyOf({k \in ks : orders[k].symbol = s})
      BY <1>2
    <3> QED BY <3>3, <3>4 DEF QtyOf
  <2> QED BY <1>1, <2>3, <2>4 DEF SumsInv, BookInv
<1>7. SavedInv'
  <2>1. ASSUME NEW k \in 1..serial
        PROVE  /\ SameOrder(brokerFile.orders[k], orders'[k])
               /\ brokerFile.orders[k].status = "complete" => orders'[k] = brokerFile.orders[k]
    <3>1. /\ SameOrder(brokerFile.orders[k], orders[k])
          /\ brokerFile.orders[k].status = "complete" => orders[k] = brokerFile.orders[k]
      BY <1>1 DEF BookInv, SavedInv
    <3>2. CASE k \in ks
      BY <1>2, <1>3, <3>1, <3>2 DEF SameOrder
    <3>3. CASE k \notin ks
      BY <1>4, <3>1, <3>3
    <3> QED BY <3>2, <3>3
  <2> QED BY <1>1, <2>1 DEF SavedInv
<1> QED
  BY <1>2, <1>3, <1>4, <1>6, <1>7 DEF BookInv

\* A kill cancels orders but completes none, and the book follows.
LEMMA CancelBook ==
    ASSUME Inductive, BookInv, Inductive', KillCancels
    PROVE  /\ BookInv'
           /\ \A k \in 1..serial : IF orders[k].status = "complete" THEN orders'[k] = orders[k]
                                   ELSE /\ orders'[k].status # "complete" /\ SameOrder(orders'[k], orders[k])
                                        /\ orders'[k].late = orders[k].late
           /\ \A k \in 1..serial : brokerFile.orders[k].status = "complete" => brokerFile'.orders[k].status = "complete"
<1>1. /\ orders \in [1..serial -> OrderRec] /\ orders' \in [1..serial -> OrderRec] /\ serial \in Nat
      /\ UNCHANGED <<serial, up, paused, pos, dirty, restarts, torn, overridden, killed>>
      /\ op'.kind = "kill" /\ op'.next = 1 /\ ~dirty /\ up /\ brokerFile.orders = orders
  BY DEF Inductive, OrdersInv, KillCancels, history, Ready, Idle, BookInv, SavedInv
<1>2. ASSUME NEW k \in 1..serial
      PROVE  IF orders[k].status = "complete" THEN orders'[k] = orders[k]
             ELSE /\ orders'[k].status # "complete" /\ SameOrder(orders'[k], orders[k])
                  /\ orders'[k].late = orders[k].late
  <2>1. orders'[k] = IF Complete(k) THEN orders[k] ELSE [orders[k] EXCEPT !.status = "cancelled"]
    BY <1>1, <1>2 DEF KillCancels
  <2>2. Complete(k) <=> orders[k].status = "complete"
    BY <1>1, <1>2 DEF Complete, CompleteIn
  <2>3. orders[k] \in OrderRec
    BY <1>1, <1>2
  <2> QED BY <2>1, <2>2, <2>3 DEF OrderRec, SameOrder
<1>3. brokerFile'.orders = orders' /\ brokerFile'.pos \in {brokerFile.pos, pos}
      /\ \/ brokerFile'.pos = brokerFile.pos /\ brokerFile'.overridden = brokerFile.overridden
         \/ brokerFile'.pos = pos /\ brokerFile'.overridden = overridden
  <2>1. CASE \A k \in DOMAIN orders : Complete(k)
    <3>1. brokerFile' = brokerFile
      BY <2>1 DEF KillCancels
    <3>2. orders' = [k \in DOMAIN orders |-> orders[k]]
      BY <2>1 DEF KillCancels
    <3>3. orders' = orders
      BY <1>1, <3>2
    <3> QED BY <1>1, <3>1, <3>3
  <2>2. CASE ~\A k \in DOMAIN orders : Complete(k)
    <3>1. brokerFile' = [BrokerState EXCEPT !.orders = orders']
      BY <2>2 DEF KillCancels
    <3>2. brokerFile'.orders = orders' /\ brokerFile'.pos = pos /\ brokerFile'.overridden = overridden
      BY <3>1 DEF BrokerState
    <3> QED BY <3>2
  <2> QED BY <2>1, <2>2
<1>4. BookTypes'
  BY <1>1, <1>3 DEF BookInv, BookTypes
<1>5. SavedInv'
  BY <1>3 DEF SavedInv, SameOrder
<1>6. SumsInv'
  <2>1. \A k \in 1..serial : \A s \in Symbols : DoneQty(orders'[k], s) = DoneQty(orders[k], s)
    BY <1>2 DEF DoneQty, SameOrder
  <2>2. ASSUME NEW p, FromFills(p, orders, serial) PROVE FromFills(p, orders', serial)
    BY <1>1, <2>1, <2>2, FillsSame
  <2>3. ~overridden => FromFills(pos, orders', serial)
    BY <2>2 DEF BookInv, SumsInv
  <2>4. ~brokerFile.overridden => FromFills(brokerFile.pos, orders', serial)
    BY <1>1, <2>2 DEF BookInv, SumsInv
  <2> QED BY <1>1, <1>3, <2>3, <2>4 DEF SumsInv
<1>7. \A k \in 1..serial : brokerFile.orders[k].status = "complete" => brokerFile'.orders[k].status = "complete"
  BY <1>1, <1>2, <1>3
<1> QED
  BY <1>2, <1>4, <1>5, <1>6, <1>7 DEF BookInv

\* A crash goes back to the file.
LEMMA CrashBook == ASSUME Inductive, BookInv, Crash PROVE BookInv'
<1>1. /\ UNCHANGED <<paused, brokerFile, serial, killed>> /\ up' = FALSE /\ dirty' = FALSE /\ op' = Idle
      /\ orders' = brokerFile.orders /\ pos' = brokerFile.pos /\ overridden' = brokerFile.overridden
      /\ restarts < MaxRestarts /\ restarts' = restarts + 1
  BY DEF Crash, files
<1>2. /\ serial \in 0..MaxOrders /\ restarts \in 0..MaxRestarts /\ brokerFile.pos \in [Symbols -> Int]
      /\ paused \in BOOLEAN /\ killed \in BOOLEAN /\ torn \in BOOLEAN /\ brokerFile.overridden \in BOOLEAN
  BY DEF BookInv, BookTypes
<1>3. torn' \in BOOLEAN
  <2>1. torn' = (torn \/ op.next > 1 \/ AheadOfBroker)
    BY DEF Crash
  <2> QED BY ONLY <2>1, Zenon
<1>4. restarts' \in 0..MaxRestarts
  BY <1>1, <1>2, PlansAssumption
<1>5. BookTypes'
  BY <1>1, <1>2, <1>3, <1>4 DEF BookTypes, Idle
<1>6. SavedInv' /\ SumsInv'
  BY <1>1 DEF BookInv, SavedInv, SumsInv, SameOrder
<1> QED
  BY <1>5, <1>6 DEF BookInv

\* The leg that is closed next.
LEMMA ClosedLeg ==
    ASSUME Inductive, CloseLeg
    PROVE  /\ op.trade \in DOMAIN trades /\ ~trades[op.trade].closed
           /\ op.next \in DOMAIN trades[op.trade].legs
           /\ trades[op.trade].legs[op.next] \in LegRec
<1>1. /\ op.kind = "close" /\ op.trade \in OpenTrades /\ op.next \in Nat \ {0}
      /\ op.next <= Len(trades[op.trade].legs)
  BY DEF CloseLeg, Inductive, OpInv
<1>2. trades \in Seq(Trade) /\ op.trade \in DOMAIN trades /\ ~trades[op.trade].closed
  BY <1>1 DEF Inductive, JournalInv, Known, OpenTrades, TradeIds
<1>3. trades[op.trade].legs \in Seq(LegRec)
  <2>1. trades[op.trade] \in Trade
    BY <1>2
  <2> QED BY <2>1 DEF Trade
<1>4. op.next \in 1..Len(trades[op.trade].legs)
  BY <1>1, <1>3
<1> QED BY <1>2, <1>3, <1>4

\* The legs of a journal are as many as a number.
LEMMA LegsFinite ==
    ASSUME NEW ts \in Seq(Trade)
    PROVE  /\ IsFiniteSet(LegsIn(ts))
           /\ \A p \in LegsIn(ts) : /\ p = <<p[1], p[2]>> /\ p[1] \in DOMAIN ts
                                    /\ p[2] \in DOMAIN ts[p[1]].legs
                                    /\ ts[p[1]].legs[p[2]] \in LegRec
<1> DEFINE some(t) == {<<t, i>> : i \in DOMAIN ts[t].legs}
           all == {some(t) : t \in DOMAIN ts}
<1>1. ASSUME NEW t \in DOMAIN ts
      PROVE  IsFiniteSet(some(t)) /\ ts[t].legs \in Seq(LegRec)
  <2>1. ts[t].legs \in Seq(LegRec)
    <3>1. ts[t] \in Trade
      OBVIOUS
    <3> QED BY <3>1 DEF Trade
  <2>2. DOMAIN ts[t].legs = 1..Len(ts[t].legs) /\ Len(ts[t].legs) \in Nat
    BY <2>1
  <2> DEFINE D == DOMAIN ts[t].legs
             f == [i \in D |-> <<t, i>>]
  <2>3. IsFiniteSet(D)
    <3>1. IsFiniteSet(1..Len(ts[t].legs))
      BY <2>2, FS_Interval
    <3> QED BY <2>2, <3>1
  <2>4. f \in Surjection(D, some(t))
    BY DEF Surjection
  <2>5. IsFiniteSet(some(t))
    <3> HIDE DEF f, D, some
    <3> QED BY <2>3, <2>4, FS_Surjection
  <2> QED BY <2>1, <2>5
<1>2. DOMAIN ts = 1..Len(ts) /\ Len(ts) \in Nat
  OBVIOUS
<1>3. IsFiniteSet(DOMAIN ts)
  <2>1. IsFiniteSet(1..Len(ts))
    BY <1>2, FS_Interval
  <2> QED BY <1>2, <2>1
<1>4. IsFiniteSet(all)
  <2> DEFINE D == DOMAIN ts
             f == [t \in D |-> some(t)]
  <2>1. f \in Surjection(D, all)
    <3> HIDE DEF some
    <3> QED BY DEF Surjection
  <2> HIDE DEF f, D, all
  <2>2. IsFiniteSet(D)
    BY <1>3 DEF D
  <2> QED BY <2>1, <2>2, FS_Surjection
<1>5. \A x \in all : IsFiniteSet(x)
  <2> HIDE DEF some
  <2> QED BY <1>1
<1>6. IsFiniteSet(UNION all)
  <2> HIDE DEF all
  <2> QED BY <1>4, <1>5, FS_UNION
<1>7. LegsIn(ts) = UNION all
  BY DEF LegsIn
<1>8. ASSUME NEW p \in LegsIn(ts)
      PROVE  /\ p = <<p[1], p[2]>> /\ p[1] \in DOMAIN ts /\ p[2] \in DOMAIN ts[p[1]].legs
             /\ ts[p[1]].legs[p[2]] \in LegRec
  <2>1. PICK t \in DOMAIN ts : p \in some(t)
    BY DEF LegsIn
  <2>2. PICK i \in DOMAIN ts[t].legs : p = <<t, i>>
    BY <2>1
  <2>3. p[1] = t /\ p[2] = i
    BY <2>2
  <2>4. ts[t].legs \in Seq(LegRec)
    BY <1>1
  <2>5. ts[t].legs[i] \in LegRec
    BY <2>4
  <2> QED BY <2>2, <2>3, <2>5
<1> QED
  BY <1>6, <1>7, <1>8

\* What the journal holds of s is a number.
LEMMA JournalledInt == ASSUME Inductive PROVE \A s \in Symbols : Journalled(s) \in Int
<1> SUFFICES ASSUME NEW s \in Symbols PROVE Journalled(s) \in Int
  OBVIOUS
<1> DEFINE ts == tradesFile.trades
           legs == {p \in LegsIn(ts) : /\ ~ts[p[1]].closed
                                       /\ ts[p[1]].legs[p[2]].symbol = s
                                       /\ ts[p[1]].legs[p[2]].seen = "complete"}
           f == [p \in legs |-> ts[p[1]].legs[p[2]].qty]
<1>1. ts \in Seq(Trade)
  BY DEF Inductive, JournalInv, Known
<1>2. IsFiniteSet(legs)
  <2> DEFINE all == LegsIn(ts)
  <2>1. IsFiniteSet(all)
    BY <1>1, LegsFinite
  <2>2. legs \subseteq all
    OBVIOUS
  <2> HIDE DEF all, legs
  <2> QED BY <2>1, <2>2, FS_Subset
<1>3. \A p \in legs : f[p] \in Int
  <2> SUFFICES ASSUME NEW p \in legs PROVE f[p] \in Int
    OBVIOUS
  <2>1. ts[p[1]].legs[p[2]] \in LegRec
    BY <1>1, LegsFinite
  <2> QED BY <2>1 DEF LegRec
<1>4. Journalled(s) = SumFunctionOnSet(f, legs)
  BY DEF Journalled, SumLegs
<1> HIDE DEF f, legs
<1> QED
  BY <1>2, <1>3, <1>4, SumInt

\* Every step keeps the book.
LEMMA NextBook == ASSUME Inductive, Inductive', BookInv, [Next]_vars PROVE BookInv'
<1>0. /\ serial \in 0..MaxOrders /\ restarts \in 0..MaxRestarts
      /\ pos \in [Symbols -> Int] /\ brokerFile.pos \in [Symbols -> Int]
      /\ op.kind \in {"idle", "open", "close", "kill", "startup", "recover"} /\ op.next \in Nat
      /\ op.kind \notin {"open", "close"} => op.next = 1
      /\ {up, paused, dirty, torn, overridden, killed, brokerFile.overridden} \subseteq BOOLEAN
      /\ ~up => op = Idle /\ ~dirty
  BY DEF BookInv, BookTypes
<1>1. ASSUME NEW plan \in Plans, BeginOpen(plan) PROVE BookInv'
  <2>1. /\ UNCHANGED <<up, paused, broker, brokerFile, dirty, serial, restarts, torn, overridden, killed>>
        /\ up /\ op'.kind = "open" /\ op'.next = 1
    BY <1>1 DEF BeginOpen, files, history, Idle
  <2>2. BookTypes'
    BY <1>0, <2>1 DEF BookTypes, broker
  <2> QED BY <2>1, <2>2, OtherBook
<1>2. CASE PlaceLeg
  <2>1. /\ op.kind = "open" /\ op.next \in DOMAIN op.plan /\ op.plan \in Seq(Leg)
        /\ ~dirty /\ up /\ Place(op.plan[op.next].symbol, op.plan[op.next].qty, 0)
        /\ UNCHANGED <<up, paused, dirty, restarts, torn>> /\ killed' = FALSE
        /\ op'.kind = op.kind /\ op'.next = op.next + 1
    <3>1. op.next \in Nat /\ Len(op.placed) = op.next - 1 /\ op.plan \in Seq(Leg) /\ Len(op.placed) \in Nat
          /\ op.next <= Len(op.plan)
      BY <1>2 DEF PlaceLeg, Inductive, OpInv
    <3>2. op.next \in DOMAIN op.plan
      BY <3>1
    <3> QED BY <1>2, <3>1, <3>2 DEF PlaceLeg, Ready
  <2>2. op.plan[op.next].symbol \in Symbols /\ op.plan[op.next].qty \in Int \ {0} /\ 0 \in Nat
    <3>1. op.plan[op.next] \in Leg
      BY <2>1
    <3> QED BY <3>1 DEF Leg
  <2> DEFINE symbol == op.plan[op.next].symbol
             qty == op.plan[op.next].qty
  <2>3. symbol \in Symbols /\ qty \in Int \ {0} /\ Place(symbol, qty, 0)
    BY <2>1, <2>2
  <2>4. op.kind \in {"open", "close"} /\ killed' \in BOOLEAN
    BY <2>1
  <2> HIDE DEF symbol, qty
  <2> QED BY <2>1, <2>2, <2>3, <2>4, PlaceBook
<1>3. CASE EndOpen
  <2>1. /\ UNCHANGED <<up, paused, broker, brokerFile, dirty, serial, restarts, torn, overridden, killed>>
        /\ up /\ op' = Idle
    BY <1>3 DEF EndOpen, history
  <2>2. BookTypes'
    BY <1>0, <2>1 DEF BookTypes, broker, Idle
  <2> QED BY <2>1, <2>2, OtherBook
<1>4. ASSUME NEW t \in TradeIds, BeginClose(t) PROVE BookInv'
  <2>1. /\ UNCHANGED <<up, paused, broker, brokerFile, dirty, serial, restarts, torn, overridden, killed>>
        /\ up /\ op'.kind = "close" /\ op'.next = 1
    BY <1>4 DEF BeginClose, files, history, Idle
  <2>2. BookTypes'
    BY <1>0, <2>1 DEF BookTypes, broker
  <2> QED BY <2>1, <2>2, OtherBook
<1>5. CASE CloseLeg
  <2>1. /\ UNCHANGED <<up, paused, dirty, restarts, torn, killed>>
        /\ op.kind = "close" /\ op'.kind = op.kind /\ op'.next = op.next + 1
    BY <1>5 DEF CloseLeg
  <2>2. CASE LegStatus(op.trade, op.next) = "complete"
    <3> DEFINE leg == trades[op.trade].legs[op.next]
    <3>1. Place(leg.symbol, ClosingQty(leg.qty), leg.order) /\ up /\ ~dirty
      BY <1>5, <2>2 DEF CloseLeg, Ready
    <3>2. leg \in LegRec
      BY <1>5, ClosedLeg
    <3>3. leg.symbol \in Symbols /\ ClosingQty(leg.qty) \in Int \ {0} /\ leg.order \in Nat
      BY <3>2 DEF LegRec, ClosingQty
    <3> DEFINE symbol == leg.symbol  qty == ClosingQty(leg.qty)  closes == leg.order
    <3>4. symbol \in Symbols /\ qty \in Int \ {0} /\ closes \in Nat /\ Place(symbol, qty, closes)
      BY <3>1, <3>3
    <3>5. op.kind \in {"open", "close"} /\ killed' \in BOOLEAN
      BY <1>0, <2>1
    <3> HIDE DEF symbol, qty, closes
    <3> QED BY <2>1, <3>1, <3>4, <3>5, PlaceBook
  <2>3. CASE LegStatus(op.trade, op.next) # "complete"
    <3>1. up /\ UNCHANGED <<broker, brokerFile, serial, overridden>>
      BY <1>5, <2>3 DEF CloseLeg
    <3>2. BookTypes'
      BY <1>0, <2>1, <3>1 DEF BookTypes, broker
    <3> QED BY <2>1, <3>1, <3>2, OtherBook
  <2> QED BY <2>2, <2>3
<1>6. CASE EndClose
  <2>1. /\ UNCHANGED <<up, paused, broker, brokerFile, dirty, serial, restarts, torn, overridden, killed>>
        /\ up /\ op' = Idle
    BY <1>6 DEF EndClose, history
  <2>2. BookTypes'
    BY <1>0, <2>1 DEF BookTypes, broker, Idle
  <2> QED BY <2>1, <2>2, OtherBook
<1>7. ASSUME NEW ks \in SUBSET DOMAIN orders, TickFills(ks) PROVE BookInv'
  BY <1>7, TickBook
<1>8. CASE TickSaves
  <2>1. /\ UNCHANGED <<up, paused, orders, pos, op, serial, restarts, torn, overridden, killed>>
        /\ up /\ dirty' = FALSE /\ brokerFile' = BrokerState
    BY <1>8 DEF TickSaves, broker, history
  <2>2. brokerFile' = BrokerState' /\ brokerFile'.pos = pos /\ brokerFile'.overridden = overridden
    BY <2>1 DEF BrokerState
  <2>3. BookTypes'
    BY <1>0, <2>1, <2>2 DEF BookTypes
  <2> QED BY <2>1, <2>2, <2>3, SaveBook
<1>9. CASE KillCancels
  BY <1>9, CancelBook
<1>10. CASE KillCloses
  <2>1. /\ UNCHANGED <<up, orders, brokerFile, dirty, serial, restarts, torn>>
        /\ up /\ ~dirty /\ overridden' = TRUE /\ killed' = TRUE /\ paused' = TRUE /\ op' = Idle /\ pos' = Nothing
    BY <1>10 DEF KillCloses, files, Ready
  <2>2. pos' \in [Symbols -> Int]
    BY <2>1 DEF Nothing
  <2>3. BookTypes'
    BY <1>0, <2>1, <2>2 DEF BookTypes, Idle
  <2>4. SavedInv' /\ SumsInv'
    BY <2>1 DEF BookInv, SavedInv, SumsInv
  <2> QED BY <2>3, <2>4 DEF BookInv
<1>11. CASE Shutdown
  <2>1. /\ UNCHANGED <<paused, orders, pos, dirty, op, serial, torn, overridden, killed>>
        /\ up' = FALSE /\ op = Idle /\ ~dirty /\ brokerFile' = BrokerState
        /\ restarts < MaxRestarts /\ restarts' = restarts + 1
    BY <1>11 DEF Shutdown, broker, history, Ready
  <2>2. brokerFile' = BrokerState' /\ brokerFile'.pos = pos /\ brokerFile'.overridden = overridden
    BY <2>1 DEF BrokerState
  <2>3. restarts' \in 0..MaxRestarts
    BY <1>0, <2>1, PlansAssumption
  <2>4. BookTypes'
    BY <1>0, <2>1, <2>2, <2>3 DEF BookTypes
  <2> QED BY <2>1, <2>2, <2>4, SaveBook
<1>12. CASE Crash
  BY <1>12, CrashBook
<1>13. CASE Start
  <2>1. /\ UNCHANGED <<broker, brokerFile, dirty, serial, restarts, overridden, killed>>
        /\ torn' = (torn \/ behind) /\ behind \in BOOLEAN
        /\ up' = TRUE /\ paused' = FALSE /\ op'.kind = "startup" /\ op'.next = 1
    BY <1>13 DEF Start, Idle, Inductive, JournalInv
  <2>2. BookTypes'
    <3>1. /\ pos' = pos /\ brokerFile' = brokerFile /\ dirty' = dirty
          /\ serial' = serial /\ restarts' = restarts
          /\ torn' = (torn \/ behind) /\ behind \in BOOLEAN
          /\ overridden' = overridden /\ killed' = killed /\ up' = TRUE /\ paused' = FALSE
          /\ op'.kind = "startup" /\ op'.next = 1
      BY <2>1 DEF broker
    <3>2. BookTypes
      BY DEF BookInv
    <3>3. {up', paused', dirty', torn', overridden', killed', brokerFile'.overridden} \subseteq BOOLEAN
      <4>1. {dirty, torn, overridden, killed, brokerFile.overridden} \subseteq BOOLEAN
        BY ONLY <3>2 DEF BookTypes
      <4>2. {dirty', torn', overridden', killed', brokerFile'.overridden} \subseteq BOOLEAN
        <5>1. torn' \in BOOLEAN
          BY ONLY <3>1
        <5>2. {dirty', overridden', killed', brokerFile'.overridden} \subseteq BOOLEAN
          BY ONLY <3>1, <4>1, Zenon
        <5> QED BY ONLY <5>1, <5>2
      <4>3. up' \in BOOLEAN /\ paused' \in BOOLEAN
        BY ONLY <3>1, Zenon
      <4> QED BY ONLY <4>2, <4>3
    <3>4. /\ serial' \in 0..MaxOrders /\ restarts' \in 0..MaxRestarts
          /\ pos' \in [Symbols -> Int] /\ brokerFile'.pos \in [Symbols -> Int]
      BY ONLY <3>1, <3>2 DEF BookTypes
    <3> QED BY ONLY <3>1, <3>3, <3>4 DEF BookTypes
  <2> QED BY <2>1, <2>2, OtherBook
<1>14. CASE CheckDrift
  <2>1. /\ UNCHANGED <<up, paused, broker, brokerFile, dirty, serial, restarts, torn, overridden, killed>>
        /\ up /\ op'.kind \in {"recover", "idle"} /\ op'.next = 1
    <3>1. op' = [Idle EXCEPT !.kind = "recover"] \/ op' = Idle
      BY <1>14 DEF CheckDrift
    <3>2. op'.kind \in {"recover", "idle"} /\ op'.next = 1
      BY <3>1 DEF Idle
    <3> QED BY <1>14, <3>2 DEF CheckDrift, files, history
  <2>2. BookTypes'
    <3>1. /\ up' = up /\ paused' = paused /\ pos' = pos /\ brokerFile' = brokerFile /\ dirty' = dirty
          /\ serial' = serial /\ restarts' = restarts /\ torn' = torn
          /\ overridden' = overridden /\ killed' = killed /\ up
          /\ op'.kind \in {"recover", "idle"} /\ op'.next = 1
      BY <2>1 DEF broker
    <3>2. BookTypes
      BY DEF BookInv
    <3> QED BY ONLY <3>1, <3>2 DEF BookTypes
  <2> QED BY <2>1, <2>2, OtherBook
<1>15. CASE Recover
  <2>1. /\ UNCHANGED <<up, paused, orders, dirty, serial, restarts, torn, killed>>
        /\ up /\ op' = Idle /\ overridden' = TRUE /\ brokerFile' = BrokerState'
        /\ pos' = [s \in Symbols |-> Journalled(s)]
    BY <1>15 DEF Recover
  <2>2. \A s \in Symbols : Journalled(s) \in Int
    BY JournalledInt
  <2>3. pos' \in [Symbols -> Int] /\ brokerFile'.pos = pos' /\ brokerFile'.overridden = overridden'
    BY <2>1, <2>2 DEF BrokerState
  <2>4. BookTypes'
    BY <1>0, <2>1, <2>3 DEF BookTypes, Idle
  <2> QED BY <2>1, <2>4, SaveBook
<1>16. CASE UNCHANGED vars
  <2>1. /\ UNCHANGED <<up, paused, broker, brokerFile, dirty, op, serial, restarts, torn, overridden, killed>>
    BY <1>16 DEF vars, files, history
  <2>2. BookTypes'
    <3>1. /\ up' = up /\ paused' = paused /\ pos' = pos /\ brokerFile' = brokerFile /\ dirty' = dirty
          /\ op' = op /\ serial' = serial /\ restarts' = restarts /\ torn' = torn
          /\ overridden' = overridden /\ killed' = killed
      BY <2>1 DEF broker
    <3>2. BookTypes
      BY DEF BookInv
    <3> QED BY ONLY <3>1, <3>2 DEF BookTypes
  <2> QED BY <2>1, <2>2, OtherBook
<1> QED
  BY <1>1, <1>2, <1>3, <1>4, <1>5, <1>6, <1>7, <1>8, <1>9, <1>10, <1>11, <1>12, <1>13,
     <1>14, <1>15, <1>16 DEF Next

------------------------------------------------------------------------------
(* Orders, and the legs they belong to. *)

\* A leg is what its order was, and its order opens something.
MatchInv(ts, os) ==
    \A t \in DOMAIN ts : \A i \in DOMAIN ts[t].legs :
        LET l == ts[t].legs[i]
        IN  l.symbol = os[l.order].symbol /\ l.qty = os[l.order].qty /\ os[l.order].closes = 0

\* No two legs share an order.
OwnInv(ts) ==
    \A t, u \in DOMAIN ts : \A i \in DOMAIN ts[t].legs : \A j \in DOMAIN ts[u].legs :
        ts[t].legs[i].order = ts[u].legs[j].order => t = u /\ i = j

\* A closing order undoes the order it closes.
CloseInv(os, n) ==
    \A k \in 1..n : os[k].closes # 0 =>
        /\ os[k].closes \in 1..n /\ os[os[k].closes].closes = 0
        /\ os[k].symbol = os[os[k].closes].symbol /\ os[k].qty + os[os[k].closes].qty = 0

\* The orders of a plan under way are the plan's legs, and nobody else's.
PlacedInv(o, ts, os) ==
    o.kind = "open" =>
        /\ \A i \in DOMAIN o.placed :
             /\ os[o.placed[i]].symbol = o.plan[i].symbol
             /\ os[o.placed[i]].qty = o.plan[i].qty /\ os[o.placed[i]].closes = 0
        /\ \A i, j \in DOMAIN o.placed : o.placed[i] = o.placed[j] => i = j
        /\ \A i \in DOMAIN o.placed : \A t \in DOMAIN ts : \A j \in DOMAIN ts[t].legs :
             ts[t].legs[j].order # o.placed[i]

LinkInv ==
    /\ MatchInv(trades, orders) /\ OwnInv(trades)
    /\ CloseInv(orders, serial) /\ PlacedInv(op, trades, orders)

\* The legs are known, and so are the orders placed for a plan.
LEMMA KnownOrders ==
    ASSUME Inductive
    PROVE  /\ serial \in Nat
           /\ \A t \in DOMAIN trades : \A i \in DOMAIN trades[t].legs : trades[t].legs[i].order \in 1..serial
           /\ op.kind = "open" => \A i \in DOMAIN op.placed : op.placed[i] \in 1..serial
  BY DEF Inductive, OrdersInv, JournalInv, Known, OpInv

\* The steps that place nothing and enter nothing.
LEMMA LinkSame ==
    ASSUME Inductive, LinkInv, SameTrades(trades', trades), UNCHANGED serial,
           \A k \in 1..serial : SameOrder(orders'[k], orders[k]),
           op' = op \/ op'.kind # "open" \/ op'.placed = <<>>
    PROVE  LinkInv'
<1>1. /\ serial \in Nat
      /\ \A t \in DOMAIN trades : \A i \in DOMAIN trades[t].legs : trades[t].legs[i].order \in 1..serial
  BY DEF Inductive, OrdersInv, JournalInv, Known
<1>2. MatchInv(trades', orders')
  BY <1>1 DEF MatchInv, SameTrades, SameOrder, LinkInv
<1>3. OwnInv(trades')
  BY DEF OwnInv, SameTrades, LinkInv
<1>4. CloseInv(orders', serial')
  BY DEF CloseInv, SameOrder, LinkInv
<1>5. PlacedInv(op', trades', orders')
  <2>1. CASE op'.kind # "open"
    BY <2>1 DEF PlacedInv
  <2>2. CASE op'.placed = <<>>
    BY <2>2 DEF PlacedInv
  <2>3. CASE op' = op /\ op.kind = "open"
    <3>1. \A i \in DOMAIN op.placed : op.placed[i] \in 1..serial
      BY <2>3, KnownOrders
    <3> QED BY <2>3, <3>1 DEF PlacedInv, SameTrades, SameOrder, LinkInv
  <2> QED BY <2>1, <2>2, <2>3
<1> QED
  BY <1>2, <1>3, <1>4, <1>5 DEF LinkInv

\* A leg placed links its order to the trade being opened and touches no other order.
LEMMA PlaceLegLinks ==
    ASSUME Inductive, LinkInv, PlaceLeg
    PROVE  /\ LinkInv' /\ serial' = serial + 1 /\ orders'[serial + 1].closes = 0
           /\ \A k \in 1..serial : orders'[k] = orders[k]
           /\ UNCHANGED <<trades, tradesFile, torn>> /\ brokerFile'.orders = orders'
           /\ op.kind = "open" /\ op'.kind = "open"
           /\ DOMAIN op'.placed = DOMAIN op.placed \cup {op.next}
           /\ \A i \in DOMAIN op.placed : op'.placed[i] = op.placed[i]
           /\ op'.placed[op.next] = serial + 1
<1>1. /\ op.kind = "open" /\ op.next \in DOMAIN op.plan /\ op.plan \in Seq(Leg)
      /\ op.placed \in Seq(1..serial) /\ Len(op.placed) = op.next - 1 /\ op.next \in Nat
      /\ Place(op.plan[op.next].symbol, op.plan[op.next].qty, 0)
  <2>1. op.next \in Nat /\ Len(op.placed) = op.next - 1 /\ op.plan \in Seq(Leg)
        /\ op.placed \in Seq(1..serial) /\ op.next <= Len(op.plan) /\ op.kind = "open"
    BY DEF PlaceLeg, Inductive, OpInv
  <2>2. op.next \in DOMAIN op.plan
    <3>1. Len(op.placed) \in Nat
      BY <2>1
    <3> QED BY <2>1, <3>1
  <2> QED BY <2>1, <2>2 DEF PlaceLeg
<1>2. /\ serial' = serial + 1 /\ serial \in Nat
      /\ \A k \in 1..serial : orders'[k] = orders[k]
      /\ orders'[serial + 1].symbol = op.plan[op.next].symbol
      /\ orders'[serial + 1].qty = op.plan[op.next].qty
      /\ orders'[serial + 1].closes = 0
      /\ brokerFile'.orders = orders'
  <2>1. op.plan[op.next].symbol \in Symbols /\ op.plan[op.next].qty \in Int \ {0} /\ 0 \in Nat
    <3>1. op.plan[op.next] \in Leg
      BY <1>1
    <3> QED BY <3>1 DEF Leg
  <2> DEFINE symbol == op.plan[op.next].symbol
             qty == op.plan[op.next].qty
  <2>2. symbol \in Symbols /\ qty \in Int \ {0} /\ Place(symbol, qty, 0) /\ OrdersInv /\ serial \in Nat
    BY <1>1, <2>1 DEF Inductive, OrdersInv
  <2> HIDE DEF symbol, qty
  <2>3. /\ serial' = serial + 1 /\ \A k \in 1..serial : orders'[k] = orders[k]
        /\ orders'[serial + 1].symbol = symbol /\ orders'[serial + 1].qty = qty
        /\ orders'[serial + 1].closes = 0
        /\ brokerFile' = [orders |-> orders', pos |-> pos', overridden |-> overridden']
    BY <2>1, <2>2, PlaceGives
  <2> QED BY <2>2, <2>3 DEF symbol, qty
<1>3. /\ UNCHANGED <<trades, tradesFile, torn>>
      /\ op'.kind = "open" /\ op'.plan = op.plan /\ op'.placed = Append(op.placed, serial')
  BY <1>1 DEF PlaceLeg, journal
<1>4. /\ DOMAIN op'.placed = DOMAIN op.placed \cup {op.next}
      /\ \A i \in DOMAIN op.placed : op'.placed[i] = op.placed[i] /\ op.placed[i] \in 1..serial
      /\ op'.placed[op.next] = serial + 1
  <2> DEFINE S == 1..serial'
             old == op.placed
             x == serial'
             n == op.next
  <2>1. \A i \in DOMAIN old : old[i] \in 1..serial
    BY <1>1, KnownOrders
  <2>2. Len(old) \in Nat /\ DOMAIN old = 1..Len(old) /\ Len(old) = n - 1 /\ n \in Nat
    BY <1>1, LenProperties
  <2>3. old \in [1..Len(old) -> S] /\ x \in S
    <3>1. old \in [1..Len(old) -> 1..serial]
      BY <1>1, LenProperties
    <3> QED BY <1>2, <3>1
  <2>4. op'.placed = Append(old, x)
    BY <1>3
  <2> HIDE DEF S, old, x, n
  <2>5. old \in Seq(S)
    BY <2>2, <2>3, FunctionIsSeq
  <2>6. /\ DOMAIN Append(old, x) = 1..(Len(old) + 1)
        /\ \A i \in 1..Len(old) : Append(old, x)[i] = old[i]
        /\ Append(old, x)[Len(old) + 1] = x
    BY <2>2, <2>3, <2>5
  <2>7. Len(old) + 1 = n /\ 1..n = (1..Len(old)) \cup {n}
    BY <2>2
  <2>8. DOMAIN op'.placed = DOMAIN old \cup {n} /\ op'.placed[n] = x /\ \A i \in DOMAIN old : op'.placed[i] = old[i]
    BY <2>2, <2>4, <2>6, <2>7
  <2> QED BY <1>2, <2>1, <2>8 DEF old, x, n
<1>5. /\ MatchInv(trades, orders) /\ OwnInv(trades) /\ CloseInv(orders, serial)
      /\ PlacedInv(op, trades, orders)
  BY DEF LinkInv
<1>6. \A t \in DOMAIN trades : \A i \in DOMAIN trades[t].legs : trades[t].legs[i].order \in 1..serial
  BY KnownOrders
<1>7. MatchInv(trades', orders') /\ OwnInv(trades')
  BY <1>2, <1>3, <1>5, <1>6 DEF MatchInv
<1>8. CloseInv(orders', serial')
  BY <1>2, <1>5 DEF CloseInv
<1>9. PlacedInv(op', trades', orders')
  <2>1. ASSUME NEW i \in DOMAIN op'.placed
        PROVE  /\ orders'[op'.placed[i]].symbol = op'.plan[i].symbol
               /\ orders'[op'.placed[i]].qty = op'.plan[i].qty /\ orders'[op'.placed[i]].closes = 0
               /\ \A j \in DOMAIN op'.placed : op'.placed[i] = op'.placed[j] => i = j
               /\ \A t \in DOMAIN trades : \A j \in DOMAIN trades[t].legs :
                    trades[t].legs[j].order # op'.placed[i]
    <3>1. CASE i \in DOMAIN op.placed
      <4>1. op'.placed[i] = op.placed[i] /\ op.placed[i] \in 1..serial
        BY <1>4, <3>1
      <4>2. orders'[op.placed[i]] = orders[op.placed[i]]
        BY <1>2, <4>1
      <4>3. /\ orders[op.placed[i]].symbol = op.plan[i].symbol
            /\ orders[op.placed[i]].qty = op.plan[i].qty /\ orders[op.placed[i]].closes = 0
            /\ \A j \in DOMAIN op.placed : op.placed[i] = op.placed[j] => i = j
            /\ \A t \in DOMAIN trades : \A j \in DOMAIN trades[t].legs :
                 trades[t].legs[j].order # op.placed[i]
        BY <1>1, <1>5, <3>1 DEF PlacedInv
      <4>4. ASSUME NEW j \in DOMAIN op'.placed, op'.placed[i] = op'.placed[j] PROVE i = j
        <5>1. CASE j \in DOMAIN op.placed
          BY <1>4, <4>1, <4>3, <4>4, <5>1
        <5>2. CASE j = op.next
          BY <1>2, <1>4, <4>1, <4>4, <5>2
        <5> QED BY <1>4, <4>4, <5>1, <5>2
      <4> QED BY <1>3, <4>1, <4>2, <4>3, <4>4
    <3>2. CASE i = op.next
      BY <1>2, <1>3, <1>4, <1>6, <3>2
    <3> QED BY <1>4, <2>1, <3>1, <3>2
  <2> QED BY <1>3, <2>1 DEF PlacedInv
<1> QED
  BY <1>1, <1>2, <1>3, <1>4, <1>7, <1>8, <1>9 DEF LinkInv

\* A leg that is closed gets a closing order of its own.
LEMMA CloseLegLinks ==
    ASSUME Inductive, LinkInv, CloseLeg, LegStatus(op.trade, op.next) = "complete"
    PROVE  /\ LinkInv' /\ serial' = serial + 1
           /\ \A k \in 1..serial : orders'[k] = orders[k]
           /\ orders'[serial + 1].closes = trades[op.trade].legs[op.next].order
           /\ brokerFile'.orders = orders'
<1> DEFINE leg == trades[op.trade].legs[op.next]
<1>1. leg \in LegRec /\ op.trade \in DOMAIN trades /\ op.next \in DOMAIN trades[op.trade].legs
  BY ClosedLeg
<1>2. leg.order \in 1..serial /\ serial \in Nat
  BY <1>1, KnownOrders
<1>3. leg.symbol = orders[leg.order].symbol /\ leg.qty = orders[leg.order].qty /\ orders[leg.order].closes = 0
  BY <1>1 DEF LinkInv, MatchInv
<1>4. /\ serial' = serial + 1 /\ \A k \in 1..serial : orders'[k] = orders[k]
      /\ orders'[serial + 1].symbol = leg.symbol /\ orders'[serial + 1].qty + leg.qty = 0
      /\ orders'[serial + 1].closes = leg.order
      /\ brokerFile'.orders = orders'
  <2>1. Place(leg.symbol, ClosingQty(leg.qty), leg.order)
    BY DEF CloseLeg
  <2>2. leg.symbol \in Symbols /\ ClosingQty(leg.qty) \in Int \ {0} /\ leg.order \in Nat
        /\ ClosingQty(leg.qty) + leg.qty = 0
    BY <1>1 DEF LegRec, ClosingQty
  <2> DEFINE symbol == leg.symbol  qty == ClosingQty(leg.qty)  closes == leg.order
  <2>3. symbol \in Symbols /\ qty \in Int \ {0} /\ closes \in Nat /\ Place(symbol, qty, closes) /\ OrdersInv
        /\ qty + leg.qty = 0
    BY <2>1, <2>2 DEF Inductive
  <2> HIDE DEF symbol, qty, closes
  <2>4. /\ serial' = serial + 1 /\ \A k \in 1..serial : orders'[k] = orders[k]
        /\ orders'[serial + 1].symbol = symbol /\ orders'[serial + 1].qty = qty
        /\ orders'[serial + 1].closes = closes
        /\ brokerFile' = [orders |-> orders', pos |-> pos', overridden |-> overridden']
    BY <2>3, PlaceGives
  <2> HIDE DEF leg
  <2> QED BY <2>3, <2>4 DEF symbol, closes
<1>5. UNCHANGED trades /\ op'.kind = "close"
  BY DEF CloseLeg, journal
<1>6. /\ MatchInv(trades, orders) /\ OwnInv(trades) /\ CloseInv(orders, serial)
  BY DEF LinkInv
<1>7. \A t \in DOMAIN trades : \A i \in DOMAIN trades[t].legs : trades[t].legs[i].order \in 1..serial
  BY KnownOrders
<1> HIDE DEF leg
<1>8. MatchInv(trades', orders') /\ OwnInv(trades')
  BY <1>4, <1>5, <1>6, <1>7 DEF MatchInv
<1>9. CloseInv(orders', serial')
  <2> SUFFICES ASSUME NEW k \in 1..(serial + 1), orders'[k].closes # 0
               PROVE  /\ orders'[k].closes \in 1..(serial + 1) /\ orders'[orders'[k].closes].closes = 0
                      /\ orders'[k].symbol = orders'[orders'[k].closes].symbol
                      /\ orders'[k].qty + orders'[orders'[k].closes].qty = 0
    BY <1>4 DEF CloseInv
  <2>1. CASE k \in 1..serial
    BY <1>2, <1>4, <1>6, <2>1 DEF CloseInv
  <2>2. CASE k = serial + 1
    <3>1. orders'[leg.order] = orders[leg.order]
      BY <1>2, <1>4
    <3> QED BY <1>2, <1>3, <1>4, <2>2, <3>1
  <2> QED BY <1>2, <2>1, <2>2
<1>10. PlacedInv(op', trades', orders')
  BY <1>5 DEF PlacedInv
<1> QED
  BY <1>4, <1>8, <1>9, <1>10 DEF LinkInv, leg

\* The trade that is entered has the orders that were placed.
LEMMA EndOpenLinks ==
    ASSUME Inductive, LinkInv, EndOpen
    PROVE  /\ LinkInv' /\ UNCHANGED <<orders, brokerFile, serial, torn>> /\ op.kind = "open" /\ op' = Idle
           /\ DOMAIN trades' = DOMAIN trades \cup {Len(trades) + 1} /\ Len(trades) + 1 \notin DOMAIN trades
           /\ \A t \in DOMAIN trades : trades'[t] = trades[t]
           /\ ~trades'[Len(trades) + 1].closed /\ ~trades'[Len(trades) + 1].copied
           /\ DOMAIN trades'[Len(trades) + 1].legs = DOMAIN op.placed
           /\ \A i \in DOMAIN op.placed : trades'[Len(trades) + 1].legs[i].order = op.placed[i]
<1> DEFINE leg(i) == [order |-> op.placed[i], symbol |-> op.plan[i].symbol,
                      qty |-> op.plan[i].qty, seen |-> "open"]
           legs == [i \in DOMAIN op.plan |-> leg(i)]
           id == Len(trades) + 1
           new == [legs |-> legs, closed |-> FALSE, copied |-> FALSE]
<1>1. /\ op.kind = "open" /\ op.plan \in Seq(Leg) /\ op.placed \in Seq(1..serial)
      /\ op.next \in Nat /\ Len(op.placed) = op.next - 1
      /\ op.next <= Len(op.plan) + 1 /\ op.next > Len(op.plan)
  BY DEF EndOpen, Inductive, OpInv
<1>2. DOMAIN op.plan = 1..Len(op.plan) /\ Len(op.plan) \in Nat /\ DOMAIN op.placed = DOMAIN op.plan
  BY <1>1
<1>3. UNCHANGED <<orders, brokerFile, serial, torn>> /\ op' = Idle /\ trades' = Append(trades, new)
  BY DEF EndOpen, broker, history
<1>4. trades \in Seq(Trade) /\ Len(trades) \in Nat /\ DOMAIN trades = 1..Len(trades)
  BY DEF Inductive, JournalInv, Known
<1>5. /\ DOMAIN trades' = DOMAIN trades \cup {id} /\ id \notin DOMAIN trades
      /\ \A t \in DOMAIN trades : trades'[t] = trades[t]
      /\ trades'[id] = new
  <2> HIDE DEF new
  <2> QED BY <1>3, <1>4
<1>6. /\ new.legs = legs /\ ~new.closed /\ ~new.copied
      /\ DOMAIN legs = DOMAIN op.placed
      /\ \A i \in DOMAIN op.placed : legs[i].order = op.placed[i] /\ legs[i].symbol = op.plan[i].symbol
                                     /\ legs[i].qty = op.plan[i].qty
  BY <1>2
<1> HIDE DEF new, legs
<1>7. /\ MatchInv(trades, orders) /\ OwnInv(trades) /\ CloseInv(orders, serial)
      /\ PlacedInv(op, trades, orders)
  BY DEF LinkInv
<1>8. MatchInv(trades', orders')
  <2> SUFFICES ASSUME NEW t \in DOMAIN trades', NEW i \in DOMAIN trades'[t].legs
               PROVE  LET l == trades'[t].legs[i]
                      IN  l.symbol = orders[l.order].symbol /\ l.qty = orders[l.order].qty
                          /\ orders[l.order].closes = 0
    BY <1>3 DEF MatchInv
  <2>1. CASE t \in DOMAIN trades
    BY <1>5, <1>7, <2>1 DEF MatchInv
  <2>2. CASE t = id
    BY <1>1, <1>5, <1>6, <1>7, <2>2 DEF PlacedInv
  <2> QED BY <1>5, <2>1, <2>2
<1>9. OwnInv(trades')
  <2> SUFFICES ASSUME NEW t \in DOMAIN trades', NEW u \in DOMAIN trades',
                      NEW i \in DOMAIN trades'[t].legs, NEW j \in DOMAIN trades'[u].legs,
                      trades'[t].legs[i].order = trades'[u].legs[j].order
               PROVE  t = u /\ i = j
    BY DEF OwnInv
  <2>1. CASE t \in DOMAIN trades /\ u \in DOMAIN trades
    BY <1>5, <1>7, <2>1 DEF OwnInv
  <2>2. CASE t = id /\ u = id
    BY <1>1, <1>5, <1>6, <1>7, <2>2 DEF PlacedInv
  <2>3. CASE t = id /\ u \in DOMAIN trades
    BY <1>1, <1>5, <1>6, <1>7, <2>3 DEF PlacedInv
  <2>4. CASE t \in DOMAIN trades /\ u = id
    BY <1>1, <1>5, <1>6, <1>7, <2>4 DEF PlacedInv
  <2> QED BY <1>5, <2>1, <2>2, <2>3, <2>4
<1>10. PlacedInv(op', trades', orders')
  BY <1>3 DEF PlacedInv, Idle
<1> QED
  BY <1>1, <1>3, <1>5, <1>6, <1>7, <1>8, <1>9, <1>10 DEF LinkInv

------------------------------------------------------------------------------
(* As long as no crash has torn the files, every order is accounted for. *)

LegIs(ts, t, i, k) == t \in DOMAIN ts /\ i \in DOMAIN ts[t].legs /\ ts[t].legs[i].order = k

\* What the file says of leg i of trade t.
FileLeg(t, i) == tradesFile.trades[t].legs[i]

\* close_trade has come past leg i of trade t.
Passed(t, i) == trades[t].closed \/ (op.kind = "close" /\ op.trade = t /\ i < op.next)

NoClosing(k) == \A l \in 1..serial : orders[l].closes # k

\* An opening order is a leg, or will be when its plan is done.
EnteredInv ==
    \A k \in 1..serial : orders[k].closes = 0 =>
        \/ \E t, i : LegIs(trades, t, i, k)
        \/ op.kind = "open" /\ \E i \in DOMAIN op.placed : op.placed[i] = k

\* A leg has a closing order only once it is passed, and then one, and it was
\* filled when it got it.
ClosingInv ==
    /\ \A k \in 1..serial : orders[k].closes # 0 =>
          /\ \E t, i : LegIs(trades, t, i, orders[k].closes) /\ Passed(t, i)
          /\ brokerFile.orders[orders[k].closes].status = "complete"
    /\ \A k, l \in 1..serial : orders[k].closes # 0 /\ orders[k].closes = orders[l].closes => k = l

\* A leg is passed over when it fills too late, or the copy does not know.
PassedInv ==
    \A t, i, k : LegIs(trades, t, i, k) /\ Passed(t, i) =>
        \/ orders[k].status # "complete" \/ ~NoClosing(k) \/ orders[k].late
        \/ trades[t].copied /\ trades[t].legs[i].seen # "complete"

\* What the journal's file calls complete is.
FileInv ==
    \A t, i, k : LegIs(tradesFile.trades, t, i, k) /\ FileLeg(t, i).seen = "complete" =>
        orders[k].status = "complete"

\* A copy knows what the file says.
CopyInv ==
    \A t, i, k : LegIs(trades, t, i, k) /\ trades[t].copied =>
        LegIs(tradesFile.trades, t, i, k) /\ FileLeg(t, i).seen = trades[t].legs[i].seen

WholeInv == CopyInv /\ (~torn => EnteredInv /\ ClosingInv /\ PassedInv /\ FileInv)

\* A step that moves the orders, if at all, without filling any.
Quiet ==
    /\ UNCHANGED <<trades, tradesFile, serial, torn>>
    /\ \A k \in 1..serial : /\ SameOrder(orders'[k], orders[k]) /\ orders'[k].late = orders[k].late
                            /\ orders'[k].status = "complete" <=> orders[k].status = "complete"
                            /\ brokerFile.orders[k].status = "complete" => brokerFile'.orders[k].status = "complete"
    /\ op' = op \/ (op.kind \notin {"open", "close"} /\ op'.placed = <<>> /\ op'.next = 1)

\* The legs of a trade are numbered from 1, and their orders are known.
LEMMA LegNumbers ==
    ASSUME Inductive, NEW t, NEW i, NEW k, LegIs(trades, t, i, k)
    PROVE  i \in Nat /\ i >= 1 /\ k \in 1..serial /\ t \in DOMAIN trades
<1>1. t \in DOMAIN trades /\ i \in DOMAIN trades[t].legs /\ trades[t].legs[i].order = k
  BY DEF LegIs
<1>2. trades[t].legs \in Seq(LegRec)
  <2>1. trades[t] \in Trade
    BY <1>1 DEF Inductive, JournalInv, Known
  <2> QED BY <2>1 DEF Trade
<1>3. i \in 1..Len(trades[t].legs) /\ Len(trades[t].legs) \in Nat
  BY <1>1, <1>2
<1>4. k \in 1..serial
  BY <1>1, KnownOrders
<1> QED BY <1>1, <1>3, <1>4

\* The orders of the file's legs are known.
LEMMA FileNumbers ==
    ASSUME Inductive, NEW t, NEW i, NEW k, LegIs(tradesFile.trades, t, i, k)
    PROVE  k \in 1..serial
  BY DEF LegIs, Inductive, JournalInv, Known

\* A step that touches no trade and completes no order keeps the trades whole.
LEMMA QuietWhole ==
    ASSUME Inductive, LinkInv, WholeInv, Quiet
    PROVE  WholeInv'
<1>1. /\ trades' = trades /\ tradesFile' = tradesFile /\ serial' = serial /\ torn' = torn
      /\ \A k \in 1..serial : /\ SameOrder(orders'[k], orders[k]) /\ orders'[k].late = orders[k].late
                              /\ orders'[k].status = "complete" <=> orders[k].status = "complete"
                              /\ brokerFile.orders[k].status = "complete" => brokerFile'.orders[k].status = "complete"
      /\ op' = op \/ (op.kind \notin {"open", "close"} /\ op'.placed = <<>> /\ op'.next = 1)
  BY DEF Quiet
<1>2. \A k \in 1..serial : orders'[k].closes = orders[k].closes
  BY <1>1 DEF SameOrder
<1>3. \A k : NoClosing(k)' <=> NoClosing(k)
  BY <1>1, <1>2 DEF NoClosing
<1>4. \A t, i, k : LegIs(trades, t, i, k) => (Passed(t, i)' <=> Passed(t, i))
  <2> SUFFICES ASSUME NEW t, NEW i, NEW k, LegIs(trades, t, i, k) PROVE Passed(t, i)' <=> Passed(t, i)
    OBVIOUS
  <2>1. i \in Nat /\ i >= 1
    BY LegNumbers
  <2> QED BY <1>1, <2>1 DEF Passed
<1>5. CopyInv'
  BY <1>1 DEF WholeInv, CopyInv, FileLeg
<1>6. ASSUME ~torn PROVE (EnteredInv /\ ClosingInv /\ PassedInv /\ FileInv)'
  <2>0. EnteredInv /\ ClosingInv /\ PassedInv /\ FileInv
    BY <1>6 DEF WholeInv
  <2>1. EnteredInv'
    BY <1>1, <1>2, <2>0 DEF EnteredInv
  <2>2. ClosingInv'
    <3>1. CloseInv(orders, serial)
      BY DEF LinkInv
    <3>2. ASSUME NEW k \in 1..serial, orders'[k].closes # 0
          PROVE  /\ \E t, i : LegIs(trades', t, i, orders'[k].closes) /\ Passed(t, i)'
                 /\ brokerFile'.orders[orders'[k].closes].status = "complete"
      <4>1. orders[k].closes # 0 /\ orders[k].closes \in 1..serial /\ orders'[k].closes = orders[k].closes
        BY <1>2, <3>1, <3>2 DEF CloseInv
      <4>2. PICK t, i : LegIs(trades, t, i, orders[k].closes) /\ Passed(t, i)
        BY <2>0, <4>1 DEF ClosingInv
      <4>3. brokerFile.orders[orders[k].closes].status = "complete"
        BY <2>0, <4>1 DEF ClosingInv
      <4> QED BY <1>1, <1>4, <4>1, <4>2, <4>3
    <3>3. \A k, l \in 1..serial : orders'[k].closes # 0 /\ orders'[k].closes = orders'[l].closes => k = l
      BY <1>2, <2>0 DEF ClosingInv
    <3> QED BY <1>1, <3>2, <3>3 DEF ClosingInv
  <2>3. PassedInv'
    <3> SUFFICES ASSUME NEW t, NEW i, NEW k, LegIs(trades, t, i, k), Passed(t, i)'
                 PROVE  \/ orders'[k].status # "complete" \/ ~NoClosing(k)' \/ orders'[k].late
                        \/ trades[t].copied /\ trades[t].legs[i].seen # "complete"
      BY <1>1 DEF PassedInv
    <3>1. Passed(t, i) /\ k \in 1..serial
      BY <1>4, LegNumbers
    <3>2. \/ orders[k].status # "complete" \/ ~NoClosing(k) \/ orders[k].late
          \/ trades[t].copied /\ trades[t].legs[i].seen # "complete"
      BY <2>0, <3>1 DEF PassedInv
    <3> QED BY <1>1, <1>3, <3>1, <3>2
  <2>4. FileInv'
    <3> SUFFICES ASSUME NEW t, NEW i, NEW k, LegIs(tradesFile.trades, t, i, k), FileLeg(t, i).seen = "complete"
                 PROVE  orders'[k].status = "complete"
      BY <1>1 DEF FileInv, FileLeg
    <3>1. k \in 1..serial /\ orders[k].status = "complete"
      BY <2>0, FileNumbers DEF FileInv
    <3> QED BY <1>1, <3>1
  <2> QED BY <2>1, <2>2, <2>3, <2>4
<1> QED
  BY <1>1, <1>5, <1>6 DEF WholeInv

\* A leg that fills after it is passed is late.
LEMMA TickWhole ==
    ASSUME Inductive, BookInv, LinkInv, WholeInv, Inductive', NEW ks \in SUBSET DOMAIN orders, TickFills(ks)
    PROVE  WholeInv'
<1>1. /\ trades' = trades /\ tradesFile' = tradesFile /\ serial' = serial /\ torn' = torn
      /\ brokerFile' = brokerFile /\ op' = op
  BY DEF TickFills, files, journal, history
<1>2. /\ \A k \in ks : /\ orders[k].status = "open" /\ orders'[k].status = "complete"
                       /\ SameOrder(orders'[k], orders[k]) /\ orders'[k].late = IsLate(k)
      /\ \A k \in (1..serial) \ ks : orders'[k] = orders[k]
  BY TickBook
<1>3. \A k \in 1..serial : /\ orders'[k].closes = orders[k].closes
                           /\ orders[k].status = "complete" => orders'[k] = orders[k]
  BY <1>2 DEF SameOrder
<1>4. \A k : NoClosing(k)' <=> NoClosing(k)
  BY <1>1, <1>3 DEF NoClosing
<1>5. \A t, i : Passed(t, i)' <=> Passed(t, i)
  BY <1>1 DEF Passed
<1>6. CopyInv'
  BY <1>1 DEF WholeInv, CopyInv, FileLeg
<1>7. ASSUME ~torn PROVE (EnteredInv /\ ClosingInv /\ PassedInv /\ FileInv)'
  <2>0. EnteredInv /\ ClosingInv /\ PassedInv /\ FileInv
    BY <1>7 DEF WholeInv
  <2>1. EnteredInv'
    BY <1>1, <1>3, <2>0 DEF EnteredInv
  <2>2. ClosingInv'
    BY <1>1, <1>3, <1>5, <2>0 DEF ClosingInv
  <2>3. PassedInv'
    <3> SUFFICES ASSUME NEW t, NEW i, NEW k, LegIs(trades, t, i, k), Passed(t, i)'
                 PROVE  \/ orders'[k].status # "complete" \/ ~NoClosing(k)' \/ orders'[k].late
                        \/ trades[t].copied /\ trades[t].legs[i].seen # "complete"
      BY <1>1 DEF PassedInv
    <3>1. Passed(t, i) /\ k \in 1..serial /\ t \in DOMAIN trades
      BY <1>5, LegNumbers
    <3>2. \/ orders[k].status # "complete" \/ ~NoClosing(k) \/ orders[k].late
          \/ trades[t].copied /\ trades[t].legs[i].seen # "complete"
      BY <2>0, <3>1 DEF PassedInv
    <3>3. CASE k \in ks
      <4>1. IsLate(k)
        <5>1. k \in LegsOf(t)
          BY DEF LegIs, LegsOf
        <5> QED BY <3>1, <5>1 DEF IsLate, Passed, TradeIds, OpenTrades
      <4> QED BY <1>2, <3>3, <4>1
    <3>4. CASE k \notin ks
      BY <1>2, <1>4, <3>1, <3>2, <3>4
    <3> QED BY <3>3, <3>4
  <2>4. FileInv'
    <3> SUFFICES ASSUME NEW t, NEW i, NEW k, LegIs(tradesFile.trades, t, i, k), FileLeg(t, i).seen = "complete"
                 PROVE  orders'[k].status = "complete"
      BY <1>1 DEF FileInv, FileLeg
    <3>1. k \in 1..serial /\ orders[k].status = "complete"
      BY <2>0, FileNumbers DEF FileInv
    <3> QED BY <1>3, <3>1
  <2> QED BY <2>1, <2>2, <2>3, <2>4
<1> QED
  BY <1>1, <1>6, <1>7 DEF WholeInv

\* A crash that tears nothing loses no order, and no fill a leg was closed for.
LEMMA CrashWhole ==
    ASSUME Inductive, BookInv, LinkInv, WholeInv, Crash
    PROVE  WholeInv'
<1>1. /\ trades' = trades /\ tradesFile' = tradesFile /\ serial' = serial
      /\ brokerFile' = brokerFile /\ op' = Idle /\ orders' = brokerFile.orders
      /\ torn' = (torn \/ op.next > 1 \/ AheadOfBroker)
  BY DEF Crash, files, journal
<1>2. CopyInv'
  BY <1>1 DEF WholeInv, CopyInv, FileLeg
<1>3. ASSUME ~torn' PROVE (EnteredInv /\ ClosingInv /\ PassedInv /\ FileInv)'
  <2>0. ~torn /\ ~(op.next > 1) /\ ~AheadOfBroker
    BY ONLY <1>1, <1>3, Zenon
  <2>1. EnteredInv /\ ClosingInv /\ PassedInv /\ FileInv
    BY <2>0 DEF WholeInv
  <2>2. \A k \in 1..serial : /\ orders'[k].closes = orders[k].closes
                             /\ orders'[k].status = "complete" => orders'[k] = orders[k]
    BY <1>1 DEF BookInv, SavedInv, SameOrder
  <2>3. \A k : NoClosing(k)' <=> NoClosing(k)
    BY <1>1, <2>2 DEF NoClosing
  <2>4. \A t, i, k : LegIs(trades, t, i, k) => (Passed(t, i)' <=> Passed(t, i))
    <3> SUFFICES ASSUME NEW t, NEW i, NEW k, LegIs(trades, t, i, k) PROVE Passed(t, i)' <=> Passed(t, i)
      OBVIOUS
    <3>1. i \in Nat /\ i >= 1 /\ op.next \in Nat
      BY LegNumbers DEF BookInv, BookTypes
    <3> QED BY <1>1, <2>0, <3>1 DEF Passed, Idle
  <2>5. EnteredInv'
    <3> SUFFICES ASSUME NEW k \in 1..serial, orders[k].closes = 0
                 PROVE  \E t, i : LegIs(trades, t, i, k)
      BY <1>1, <2>2 DEF EnteredInv
    <3>1. ~(op.kind = "open" /\ \E i \in DOMAIN op.placed : op.placed[i] = k)
      <4> SUFFICES ASSUME op.kind = "open" PROVE DOMAIN op.placed = {}
        OBVIOUS
      <4>1. op.placed \in Seq(1..serial) /\ Len(op.placed) = op.next - 1 /\ op.next \in Nat
        BY DEF Inductive, OpInv
      <4>2. Len(op.placed) \in Nat /\ DOMAIN op.placed = 1..Len(op.placed)
        BY <4>1, LenProperties
      <4> QED BY <2>0, <4>1, <4>2
    <3> QED BY <2>1, <3>1 DEF EnteredInv
  <2>6. ClosingInv'
    <3>1. ASSUME NEW k \in 1..serial, orders'[k].closes # 0
          PROVE  /\ \E t, i : LegIs(trades', t, i, orders'[k].closes) /\ Passed(t, i)'
                 /\ brokerFile'.orders[orders'[k].closes].status = "complete"
      BY <1>1, <2>1, <2>2, <2>4, <3>1 DEF ClosingInv
    <3>2. \A k, l \in 1..serial : orders'[k].closes # 0 /\ orders'[k].closes = orders'[l].closes => k = l
      BY <2>1, <2>2 DEF ClosingInv
    <3> QED BY <1>1, <3>1, <3>2 DEF ClosingInv
  <2>7. PassedInv'
    <3> SUFFICES ASSUME NEW t, NEW i, NEW k, LegIs(trades, t, i, k), Passed(t, i)'
                 PROVE  \/ orders'[k].status # "complete" \/ ~NoClosing(k)' \/ orders'[k].late
                        \/ trades[t].copied /\ trades[t].legs[i].seen # "complete"
      BY <1>1 DEF PassedInv
    <3>1. Passed(t, i) /\ k \in 1..serial
      BY <2>4, LegNumbers
    <3>2. \/ orders[k].status # "complete" \/ ~NoClosing(k) \/ orders[k].late
          \/ trades[t].copied /\ trades[t].legs[i].seen # "complete"
      BY <2>1, <3>1 DEF PassedInv
    <3> QED BY <2>2, <2>3, <3>1, <3>2
  <2>8. FileInv'
    <3> SUFFICES ASSUME NEW t, NEW i, NEW k, LegIs(tradesFile.trades, t, i, k), FileLeg(t, i).seen = "complete"
                 PROVE  orders'[k].status = "complete"
      BY <1>1 DEF FileInv, FileLeg
    <3>1. CompleteIn(brokerFile.orders, k)
      BY <2>0 DEF AheadOfBroker, FileLeg, LegIs
    <3> QED BY <1>1, <3>1 DEF CompleteIn
  <2> QED BY <2>5, <2>6, <2>7, <2>8
<1> QED
  BY <1>2, <1>3 DEF WholeInv

\* A start that finds what the memory was makes every trade a copy of it.
LEMMA StartsWhole ==
    ASSUME Inductive, BookInv, LinkInv, WholeInv, Start, ~torn, ~behind
    PROVE  (EnteredInv /\ ClosingInv /\ PassedInv /\ FileInv)'
<1> DEFINE file == tradesFile.trades
<1>0. ~torn /\ ~behind
  OBVIOUS
<1>1. /\ trades' = [t \in DOMAIN file |-> [file[t] EXCEPT !.copied = TRUE]]
      /\ UNCHANGED <<orders, brokerFile, tradesFile, serial>> /\ op'.kind = "startup" /\ op = Idle
  BY DEF Start, Loaded, Idle, broker, BookInv, BookTypes
<1>2. Known(file) /\ SameTrades(file, trades)
  BY <1>0 DEF Inductive, JournalInv
<1>3. ASSUME NEW t \in DOMAIN trades
      PROVE  /\ t \in DOMAIN trades' /\ trades'[t].legs = file[t].legs
             /\ trades'[t].closed = trades[t].closed /\ trades'[t].copied
             /\ \A i, k : LegIs(trades', t, i, k) <=> LegIs(trades, t, i, k)
  <2>1. t \in DOMAIN file /\ file[t] \in Trade
    BY <1>2, <1>3 DEF SameTrades, Known
  <2>2. trades'[t] = [file[t] EXCEPT !.copied = TRUE]
    BY <1>1, <2>1
  <2>3. trades'[t].legs = file[t].legs /\ trades'[t].closed = file[t].closed /\ trades'[t].copied
    BY <2>1, <2>2 DEF Trade
  <2>4. /\ DOMAIN file[t].legs = DOMAIN trades[t].legs /\ file[t].closed = trades[t].closed
        /\ \A i \in DOMAIN trades[t].legs : file[t].legs[i].order = trades[t].legs[i].order
    BY <1>2, <1>3 DEF SameTrades
  <2>5. t \in DOMAIN trades'
    BY <1>1, <2>1
  <2> HIDE DEF file
  <2>6. \A i, k : LegIs(trades', t, i, k) <=> LegIs(trades, t, i, k)
    BY <1>3, <2>3, <2>4, <2>5 DEF LegIs
  <2> QED BY <2>3, <2>4, <2>5, <2>6
<1>4. DOMAIN trades' = DOMAIN trades
  BY <1>1, <1>2 DEF SameTrades
<1>5. \A t, i, k : LegIs(trades', t, i, k) <=> LegIs(trades, t, i, k)
  BY <1>3, <1>4 DEF LegIs
<1>6. \A t, i, k : LegIs(trades, t, i, k) => (Passed(t, i)' <=> Passed(t, i)) /\ t \in DOMAIN trades
  <2> SUFFICES ASSUME NEW t, NEW i, NEW k, LegIs(trades, t, i, k)
               PROVE  (Passed(t, i)' <=> Passed(t, i)) /\ t \in DOMAIN trades
    OBVIOUS
  <2>1. t \in DOMAIN trades
    BY LegNumbers
  <2> QED BY <1>1, <1>3, <2>1 DEF Passed, Idle
<1>7. \A k : NoClosing(k)' <=> NoClosing(k)
  BY <1>1 DEF NoClosing
<1>8. EnteredInv /\ ClosingInv /\ PassedInv /\ FileInv
  BY <1>0 DEF WholeInv
<1>9. EnteredInv'
  BY <1>1, <1>5, <1>8 DEF EnteredInv, Idle
<1>10. ClosingInv'
  BY <1>1, <1>5, <1>6, <1>8 DEF ClosingInv
<1>11. PassedInv'
  <2> SUFFICES ASSUME NEW t, NEW i, NEW k, LegIs(trades, t, i, k), Passed(t, i)'
               PROVE  \/ orders[k].status # "complete" \/ ~NoClosing(k) \/ orders[k].late
                      \/ trades'[t].copied /\ trades'[t].legs[i].seen # "complete"
    BY <1>1, <1>5, <1>7 DEF PassedInv
  <2>1. Passed(t, i) /\ t \in DOMAIN trades
    BY <1>6
  <2>2. \/ orders[k].status # "complete" \/ ~NoClosing(k) \/ orders[k].late
        \/ trades[t].copied /\ trades[t].legs[i].seen # "complete"
    BY <1>8, <2>1 DEF PassedInv
  <2>3. trades[t].copied => FileLeg(t, i).seen = trades[t].legs[i].seen
    BY DEF WholeInv, CopyInv
  <2> QED BY <1>3, <2>1, <2>2, <2>3 DEF FileLeg
<1>12. FileInv'
  BY <1>1, <1>5, <1>8 DEF FileInv, FileLeg
<1> QED
  BY <1>9, <1>10, <1>11, <1>12

\* After a start every trade is what its file says.
LEMMA StartWhole ==
    ASSUME Inductive, BookInv, LinkInv, WholeInv, Start
    PROVE  WholeInv'
<1> DEFINE file == tradesFile.trades
<1>1. /\ trades' = [t \in DOMAIN file |-> [file[t] EXCEPT !.copied = TRUE]]
      /\ UNCHANGED <<orders, brokerFile, tradesFile, serial>> /\ op'.kind = "startup" /\ op = Idle
      /\ torn' = (torn \/ behind)
  BY DEF Start, Loaded, Idle, broker, BookInv, BookTypes
<1>2. Known(file) /\ SameTrades(trades', file) /\ DOMAIN trades' = DOMAIN file
  <2>1. Known(file)
    BY DEF Inductive, JournalInv
  <2> QED BY <2>1, LoadedIsSame DEF Known, SameTrades
<1>3. CopyInv'
  <2>1. ASSUME NEW t \in DOMAIN file PROVE trades'[t].legs = file[t].legs
    <3>1. trades'[t] = [file[t] EXCEPT !.copied = TRUE] /\ file[t] \in Trade
      BY <1>1, <1>2, <2>1 DEF Known
    <3> QED BY <3>1 DEF Trade
  <2> HIDE DEF file
  <2>2. \A t, i, k : LegIs(trades', t, i, k) =>
           LegIs(file, t, i, k) /\ trades'[t].legs[i].seen = file[t].legs[i].seen
    BY <1>2, <2>1 DEF LegIs
  <2> QED BY <1>1, <2>2 DEF CopyInv, FileLeg, file
<1>4. ASSUME ~torn' PROVE (EnteredInv /\ ClosingInv /\ PassedInv /\ FileInv)'
  <2>1. ~torn /\ ~behind
    BY ONLY <1>1, <1>4, Zenon
  <2> QED BY <2>1, StartsWhole
<1> QED
  BY <1>3, <1>4 DEF WholeInv

\* A leg placed for a new trade keeps the trades whole.
LEMMA PlaceLegWhole ==
    ASSUME Inductive, BookInv, LinkInv, WholeInv, PlaceLeg
    PROVE  WholeInv'
<1>1. /\ serial' = serial + 1 /\ orders'[serial + 1].closes = 0
      /\ \A k \in 1..serial : orders'[k] = orders[k]
      /\ trades' = trades /\ tradesFile' = tradesFile /\ torn' = torn /\ brokerFile'.orders = orders'
      /\ op.kind = "open" /\ op'.kind = "open"
      /\ DOMAIN op'.placed = DOMAIN op.placed \cup {op.next}
      /\ \A i \in DOMAIN op.placed : op'.placed[i] = op.placed[i]
      /\ op'.placed[op.next] = serial + 1
  BY PlaceLegLinks
<1>2. serial \in Nat
  BY KnownOrders
<1>3. \A k \in 1..serial : NoClosing(k)' <=> NoClosing(k)
  <2> SUFFICES ASSUME NEW k \in 1..serial PROVE NoClosing(k)' <=> NoClosing(k)
    OBVIOUS
  <2>1. orders'[serial + 1].closes # k
    BY <1>1
  <2> QED BY <1>1, <1>2, <2>1 DEF NoClosing
<1>4. \A t, i : Passed(t, i)' <=> Passed(t, i)
  BY <1>1 DEF Passed
<1>5. CopyInv'
  BY <1>1 DEF WholeInv, CopyInv, FileLeg
<1>6. ASSUME ~torn PROVE (EnteredInv /\ ClosingInv /\ PassedInv /\ FileInv)'
  <2>0. EnteredInv /\ ClosingInv /\ PassedInv /\ FileInv
    BY <1>6 DEF WholeInv
  <2>1. EnteredInv'
    <3> SUFFICES ASSUME NEW k \in 1..(serial + 1), orders'[k].closes = 0
                 PROVE  \/ \E t, i : LegIs(trades, t, i, k)
                        \/ \E i \in DOMAIN op'.placed : op'.placed[i] = k
      BY <1>1 DEF EnteredInv
    <3>1. CASE k \in 1..serial
      BY <1>1, <2>0, <3>1 DEF EnteredInv
    <3>2. CASE k = serial + 1
      BY <1>1, <3>2
    <3> QED BY <1>2, <3>1, <3>2
  <2>2. ClosingInv'
    <3>1. ASSUME NEW k \in 1..(serial + 1), orders'[k].closes # 0
          PROVE  /\ k \in 1..serial /\ orders'[k].closes = orders[k].closes
                 /\ \E t, i : LegIs(trades, t, i, orders[k].closes) /\ Passed(t, i)
                 /\ orders'[orders[k].closes].status = "complete"
      <4>1. k \in 1..serial /\ orders'[k] = orders[k]
        BY <1>1, <1>2, <3>1
      <4>2. orders[k].closes # 0 /\ orders[k].closes \in 1..serial
        BY <3>1, <4>1 DEF LinkInv, CloseInv
      <4>3. /\ \E t, i : LegIs(trades, t, i, orders[k].closes) /\ Passed(t, i)
            /\ brokerFile.orders[orders[k].closes].status = "complete"
        BY <2>0, <4>1, <4>2 DEF ClosingInv
      <4>4. orders[orders[k].closes].status = "complete"
        BY <4>2, <4>3 DEF BookInv, SavedInv
      <4> QED BY <1>1, <4>1, <4>2, <4>3, <4>4
    <3>2. ASSUME NEW k \in 1..(serial + 1), NEW l \in 1..(serial + 1),
                 orders'[k].closes # 0, orders'[k].closes = orders'[l].closes
          PROVE  k = l
      BY <2>0, <3>1, <3>2 DEF ClosingInv
    <3> QED BY <1>1, <1>4, <3>1, <3>2 DEF ClosingInv
  <2>3. PassedInv'
    <3> SUFFICES ASSUME NEW t, NEW i, NEW k, LegIs(trades, t, i, k), Passed(t, i)'
                 PROVE  \/ orders'[k].status # "complete" \/ ~NoClosing(k)' \/ orders'[k].late
                        \/ trades[t].copied /\ trades[t].legs[i].seen # "complete"
      BY <1>1 DEF PassedInv
    <3>1. Passed(t, i) /\ k \in 1..serial
      BY <1>4, LegNumbers
    <3>2. \/ orders[k].status # "complete" \/ ~NoClosing(k) \/ orders[k].late
          \/ trades[t].copied /\ trades[t].legs[i].seen # "complete"
      BY <2>0, <3>1 DEF PassedInv
    <3> QED BY <1>1, <1>3, <3>1, <3>2
  <2>4. FileInv'
    <3> SUFFICES ASSUME NEW t, NEW i, NEW k, LegIs(tradesFile.trades, t, i, k), FileLeg(t, i).seen = "complete"
                 PROVE  orders'[k].status = "complete"
      BY <1>1 DEF FileInv, FileLeg
    <3>1. k \in 1..serial /\ orders[k].status = "complete"
      BY <2>0, FileNumbers DEF FileInv
    <3> QED BY <1>1, <3>1
  <2> QED BY <2>1, <2>2, <2>3, <2>4
<1> QED
  BY <1>1, <1>5, <1>6 DEF WholeInv

\* The leg that is closed, or passed over, is the next to be passed.
LEMMA PassedNext ==
    ASSUME Inductive, CloseLeg
    PROVE  /\ \A t, i, k : LegIs(trades, t, i, k) =>
                (Passed(t, i)' <=> Passed(t, i) \/ (t = op.trade /\ i = op.next))
           /\ ~Passed(op.trade, op.next)
           /\ LegIs(trades, op.trade, op.next, trades[op.trade].legs[op.next].order)
<1>1. /\ op.kind = "close" /\ op'.kind = "close" /\ op'.trade = op.trade /\ op'.next = op.next + 1
      /\ trades' = trades
  BY DEF CloseLeg, journal
<1>2. op.trade \in DOMAIN trades /\ ~trades[op.trade].closed /\ op.next \in DOMAIN trades[op.trade].legs
  BY ClosedLeg
<1>3. LegIs(trades, op.trade, op.next, trades[op.trade].legs[op.next].order)
  BY <1>2 DEF LegIs
<1>4. op.next \in Nat
  BY <1>3, LegNumbers
<1>5. ASSUME NEW t, NEW i, NEW k, LegIs(trades, t, i, k)
      PROVE  Passed(t, i)' <=> Passed(t, i) \/ (t = op.trade /\ i = op.next)
  <2>1. i \in Nat
    BY <1>5, LegNumbers
  <2> QED BY <1>1, <1>4, <2>1 DEF Passed
<1>6. ~Passed(op.trade, op.next)
  BY <1>2, <1>4 DEF Passed
<1> QED
  BY <1>3, <1>5, <1>6

\* A leg placed to close a trade keeps the trades whole.
LEMMA CloseLegWhole ==
    ASSUME Inductive, BookInv, LinkInv, WholeInv, CloseLeg
    PROVE  WholeInv'
<1> DEFINE leg == trades[op.trade].legs[op.next]
<1>1. /\ trades' = trades /\ tradesFile' = tradesFile /\ torn' = torn
      /\ op.kind = "close" /\ op'.kind = "close"
  BY DEF CloseLeg, journal
<1>2. /\ \A t, i, k : LegIs(trades, t, i, k) =>
           (Passed(t, i)' <=> Passed(t, i) \/ (t = op.trade /\ i = op.next))
      /\ ~Passed(op.trade, op.next) /\ LegIs(trades, op.trade, op.next, leg.order)
  BY PassedNext
<1>3. leg.order \in 1..serial /\ serial \in Nat
  BY <1>2, LegNumbers, KnownOrders
<1>4. CopyInv'
  BY <1>1 DEF WholeInv, CopyInv, FileLeg
<1>5. CASE LegStatus(op.trade, op.next) # "complete"
  <2>1. UNCHANGED <<orders, brokerFile, serial>>
    BY <1>5 DEF CloseLeg, broker
  <2>2. \A k : NoClosing(k)' <=> NoClosing(k)
    BY <2>1 DEF NoClosing
  <2>3. IF trades[op.trade].copied THEN leg.seen # "complete" ELSE orders[leg.order].status # "complete"
    BY <1>5 DEF LegStatus
  <2> HIDE DEF leg
  <2>4. ASSUME ~torn PROVE (EnteredInv /\ ClosingInv /\ PassedInv /\ FileInv)'
    <3>0. EnteredInv /\ ClosingInv /\ PassedInv /\ FileInv
      BY <2>4 DEF WholeInv
    <3>1. EnteredInv'
      BY <1>1, <2>1, <3>0 DEF EnteredInv
    <3>2. ClosingInv'
      BY <1>1, <1>2, <2>1, <3>0 DEF ClosingInv
    <3>3. PassedInv'
      <4> SUFFICES ASSUME NEW t, NEW i, NEW k, LegIs(trades, t, i, k), Passed(t, i)'
                   PROVE  \/ orders[k].status # "complete" \/ ~NoClosing(k) \/ orders[k].late
                          \/ trades[t].copied /\ trades[t].legs[i].seen # "complete"
        BY <1>1, <2>1, <2>2 DEF PassedInv
      <4>1. CASE Passed(t, i)
        BY <3>0, <4>1 DEF PassedInv
      <4>2. CASE t = op.trade /\ i = op.next
        BY <2>3, <4>2 DEF LegIs, leg
      <4> QED BY <1>2, <4>1, <4>2
    <3>4. FileInv'
      BY <1>1, <2>1, <3>0 DEF FileInv, FileLeg
    <3> QED BY <3>1, <3>2, <3>3, <3>4
  <2> QED BY <1>1, <1>4, <2>4 DEF WholeInv
<1>6. CASE LegStatus(op.trade, op.next) = "complete"
  <2>1. /\ serial' = serial + 1 /\ \A k \in 1..serial : orders'[k] = orders[k]
        /\ orders'[serial + 1].closes = leg.order /\ brokerFile'.orders = orders'
    BY <1>6, CloseLegLinks
  <2>2. IF trades[op.trade].copied THEN leg.seen = "complete" ELSE orders[leg.order].status = "complete"
    BY <1>6 DEF LegStatus
  <2>3. trades[op.trade].copied =>
           LegIs(tradesFile.trades, op.trade, op.next, leg.order) /\ FileLeg(op.trade, op.next).seen = leg.seen
    BY <1>2 DEF WholeInv, CopyInv
  <2>4. \A k : NoClosing(k)' => NoClosing(k)
    BY <1>3, <2>1 DEF NoClosing
  <2>5. \A t, i : LegIs(trades, t, i, leg.order) => t = op.trade /\ i = op.next
    BY <1>2 DEF LegIs, LinkInv, OwnInv
  <2> HIDE DEF leg
  <2>6. ASSUME ~torn PROVE (EnteredInv /\ ClosingInv /\ PassedInv /\ FileInv)'
    <3>0. EnteredInv /\ ClosingInv /\ PassedInv /\ FileInv
      BY <2>6 DEF WholeInv
    <3>1. EnteredInv'
      <4> SUFFICES ASSUME NEW k \in 1..(serial + 1), orders'[k].closes = 0
                   PROVE  \E t, i : LegIs(trades, t, i, k)
        BY <1>1, <2>1 DEF EnteredInv
      <4>1. k \in 1..serial /\ orders'[k] = orders[k]
        BY <1>3, <2>1
      <4> QED BY <1>1, <3>0, <4>1 DEF EnteredInv
    <3>2. orders[leg.order].status = "complete"
      BY <1>2, <2>2, <2>3, <3>0 DEF FileInv
    <3>3. ASSUME NEW k \in 1..serial, orders[k].closes # 0
          PROVE  /\ orders[k].closes # leg.order
                 /\ \E t, i : LegIs(trades, t, i, orders[k].closes) /\ Passed(t, i)
                 /\ orders'[orders[k].closes].status = "complete"
      <4>1. orders[k].closes \in 1..serial
        BY <3>3 DEF LinkInv, CloseInv
      <4>2. PICK t, i : LegIs(trades, t, i, orders[k].closes) /\ Passed(t, i)
        BY <3>0, <3>3 DEF ClosingInv
      <4>3. brokerFile.orders[orders[k].closes].status = "complete"
        BY <3>0, <3>3 DEF ClosingInv
      <4>4. orders[orders[k].closes].status = "complete"
        BY <4>1, <4>3 DEF BookInv, SavedInv
      <4> QED BY <1>2, <2>1, <2>5, <4>1, <4>2, <4>4
    <3>4. ClosingInv'
      <4>1. ASSUME NEW k \in 1..(serial + 1), orders'[k].closes # 0
            PROVE  /\ \E t, i : LegIs(trades, t, i, orders'[k].closes) /\ Passed(t, i)'
                   /\ orders'[orders'[k].closes].status = "complete"
        <5>1. CASE k \in 1..serial
          BY <1>2, <2>1, <3>3, <4>1, <5>1
        <5>2. CASE k = serial + 1
          BY <1>2, <1>3, <2>1, <3>2, <5>2
        <5> QED BY <1>3, <5>1, <5>2
      <4>2. ASSUME NEW k \in 1..(serial + 1), NEW l \in 1..(serial + 1),
                   orders'[k].closes # 0, orders'[k].closes = orders'[l].closes
            PROVE  k = l
        <5>1. CASE k \in 1..serial /\ l \in 1..serial
          BY <2>1, <3>0, <4>2, <5>1 DEF ClosingInv
        <5>2. CASE k \in 1..serial /\ l = serial + 1
          BY <2>1, <3>3, <4>2, <5>2
        <5>3. CASE k = serial + 1 /\ l \in 1..serial
          BY <2>1, <3>3, <4>2, <5>3
        <5> QED BY <1>3, <5>1, <5>2, <5>3
      <4> QED BY <1>1, <2>1, <4>1, <4>2 DEF ClosingInv
    <3>5. PassedInv'
      <4> SUFFICES ASSUME NEW t, NEW i, NEW k, LegIs(trades, t, i, k), Passed(t, i)'
                   PROVE  \/ orders'[k].status # "complete" \/ ~NoClosing(k)' \/ orders'[k].late
                          \/ trades[t].copied /\ trades[t].legs[i].seen # "complete"
        BY <1>1 DEF PassedInv
      <4>0. k \in 1..serial /\ orders'[k] = orders[k]
        BY <2>1, LegNumbers
      <4>1. CASE Passed(t, i)
        BY <2>4, <3>0, <4>0, <4>1 DEF PassedInv
      <4>2. CASE t = op.trade /\ i = op.next
        <5>1. k = leg.order
          BY <4>2 DEF LegIs, leg
        <5>2. serial + 1 \in 1..serial'
          BY <1>3, <2>1
        <5> QED BY <2>1, <5>1, <5>2 DEF NoClosing
      <4> QED BY <1>2, <4>1, <4>2
    <3>6. FileInv'
      <4> SUFFICES ASSUME NEW t, NEW i, NEW k, LegIs(tradesFile.trades, t, i, k), FileLeg(t, i).seen = "complete"
                   PROVE  orders'[k].status = "complete"
        BY <1>1 DEF FileInv, FileLeg
      <4>1. k \in 1..serial /\ orders[k].status = "complete"
        BY <3>0, FileNumbers DEF FileInv
      <4> QED BY <2>1, <4>1
    <3> QED BY <3>1, <3>4, <3>5, <3>6
  <2> QED BY <1>1, <1>4, <2>6 DEF WholeInv
<1> QED BY <1>5, <1>6

\* What the journal's file says of a leg it has just been written with.
LEMMA RecordSeen ==
    ASSUME NEW ts \in Seq(Trade), NEW t, NEW i, NEW k, LegIs(ts, t, i, k)
    PROVE  JournalRecord(ts)[t].legs[i].seen =
              IF ts[t].copied THEN ts[t].legs[i].seen ELSE orders[k].status
<1>1. t \in DOMAIN ts /\ i \in DOMAIN ts[t].legs /\ ts[t].legs[i].order = k /\ ts[t] \in Trade
  BY DEF LegIs
<1>2. ts[t].legs[i] \in LegRec
  <2>1. ts[t].legs \in Seq(LegRec)
    BY <1>1 DEF Trade
  <2> QED BY <1>1, <2>1
<1> DEFINE legs == [j \in DOMAIN ts[t].legs |->
                     [ts[t].legs[j] EXCEPT !.seen =
                        IF ts[t].copied THEN @ ELSE orders[ts[t].legs[j].order].status]]
<1>3. JournalRecord(ts)[t] = [ts[t] EXCEPT !.legs = legs]
  BY <1>1 DEF JournalRecord
<1>4. legs[i].seen = IF ts[t].copied THEN ts[t].legs[i].seen ELSE orders[k].status
  BY <1>1, <1>2 DEF LegRec
<1> HIDE DEF legs
<1>5. JournalRecord(ts)[t].legs = legs
  BY <1>1, <1>3 DEF Trade
<1> QED BY <1>4, <1>5

\* The journal that is written after a trade is entered or closed.
LEMMA SavedWhole ==
    ASSUME Inductive, Inductive', WholeInv, SaveJournal, UNCHANGED orders,
           \A t, i, k : LegIs(trades', t, i, k) /\ trades'[t].copied =>
               /\ LegIs(trades, t, i, k) /\ trades[t].copied
               /\ trades'[t].legs[i].seen = trades[t].legs[i].seen
    PROVE  CopyInv' /\ (~torn => FileInv')
<1>1. CASE UNCHANGED tradesFile
  <2>1. CopyInv'
    <3> SUFFICES ASSUME NEW t, NEW i, NEW k, LegIs(trades', t, i, k), trades'[t].copied
                 PROVE  LegIs(tradesFile.trades, t, i, k) /\ FileLeg(t, i).seen = trades'[t].legs[i].seen
      BY <1>1 DEF CopyInv, FileLeg
    <3>1. LegIs(trades, t, i, k) /\ trades[t].copied /\ trades'[t].legs[i].seen = trades[t].legs[i].seen
      OBVIOUS
    <3> QED BY <3>1 DEF WholeInv, CopyInv
  <2>2. ~torn => FileInv'
    BY <1>1 DEF WholeInv, FileInv, FileLeg
  <2> QED BY <2>1, <2>2
<1>2. CASE tradesFile' = [trades |-> JournalRecord(trades'), symMap |-> symMap']
  <2>1. tradesFile'.trades = JournalRecord(trades')
    BY <1>2
  <2>2. trades' \in Seq(Trade)
    BY DEF Inductive, JournalInv, Known
  <2>3. SameTrades(tradesFile'.trades, trades')
    <3>1. \A t \in DOMAIN trades' : \A i \in DOMAIN trades'[t].legs : trades'[t].legs[i].order \in 1..serial'
      BY DEF Inductive, JournalInv, Known
    <3>2. UNCHANGED orders /\ orders' \in [1..serial' -> OrderRec]
      BY DEF Inductive, OrdersInv
    <3>3. \A t \in DOMAIN trades' : ~trades'[t].copied =>
            \A i \in DOMAIN trades'[t].legs : orders[trades'[t].legs[i].order] \in OrderRec
      BY <3>1, <3>2
    <3>4. SameTrades(JournalRecord(trades'), trades')
      BY <2>2, <3>3, RecordIsSame
    <3> QED BY <2>1, <3>4
  <2>4. \A t, i, k : LegIs(tradesFile'.trades, t, i, k) <=> LegIs(trades', t, i, k)
    BY <2>3 DEF SameTrades, LegIs
  <2>5. ASSUME NEW t, NEW i, NEW k, LegIs(trades', t, i, k)
        PROVE  FileLeg(t, i)'.seen = IF trades'[t].copied THEN trades'[t].legs[i].seen ELSE orders[k].status
    <3> DEFINE ts == trades'
    <3> HIDE DEF ts
    <3>1. JournalRecord(ts)[t].legs[i].seen = IF ts[t].copied THEN ts[t].legs[i].seen ELSE orders[k].status
      BY <2>2, <2>5, RecordSeen DEF ts
    <3> QED BY <2>1, <3>1 DEF ts, FileLeg
  <2>6. CopyInv'
    BY <2>4, <2>5 DEF CopyInv
  <2>7. ASSUME ~torn PROVE FileInv'
    <3> SUFFICES ASSUME NEW t, NEW i, NEW k, LegIs(trades', t, i, k), FileLeg(t, i)'.seen = "complete"
                 PROVE  orders[k].status = "complete"
      BY <2>4 DEF FileInv
    <3>1. CASE ~trades'[t].copied
      BY <2>5, <3>1
    <3>2. CASE trades'[t].copied
      <4>1. LegIs(trades, t, i, k) /\ trades[t].copied /\ trades[t].legs[i].seen = "complete"
        BY <2>5, <3>2
      <4>2. LegIs(tradesFile.trades, t, i, k) /\ FileLeg(t, i).seen = "complete"
        BY <4>1 DEF WholeInv, CopyInv
      <4> QED BY <2>7, <4>1, <4>2 DEF WholeInv, FileInv
    <3> QED BY <3>1, <3>2
  <2> QED BY <2>6, <2>7
<1> QED
  BY <1>1, <1>2 DEF SaveJournal

\* The end of open_trade keeps the trades whole.
LEMMA EndOpenWhole ==
    ASSUME Inductive, Inductive', LinkInv, WholeInv, EndOpen
    PROVE  WholeInv'
<1> DEFINE id == Len(trades) + 1
<1>1. /\ UNCHANGED <<orders, brokerFile, serial, torn>> /\ op.kind = "open" /\ op' = Idle
      /\ DOMAIN trades' = DOMAIN trades \cup {id} /\ id \notin DOMAIN trades
      /\ \A t \in DOMAIN trades : trades'[t] = trades[t]
      /\ ~trades'[id].closed /\ ~trades'[id].copied
      /\ DOMAIN trades'[id].legs = DOMAIN op.placed
      /\ \A i \in DOMAIN op.placed : trades'[id].legs[i].order = op.placed[i]
  BY EndOpenLinks
<1> HIDE DEF id
<1>2. /\ \A t, i, k : LegIs(trades, t, i, k) => LegIs(trades', t, i, k) /\ trades'[t] = trades[t]
      /\ \A t, i, k : LegIs(trades', t, i, k) /\ t # id => LegIs(trades, t, i, k) /\ trades'[t] = trades[t]
      /\ \A i \in DOMAIN op.placed : LegIs(trades', id, i, op.placed[i])
  BY <1>1 DEF LegIs
<1>3. \A t, i : Passed(t, i)' <=> trades'[t].closed
  BY <1>1 DEF Passed, Idle
<1>4. \A t, i : Passed(t, i) <=> trades[t].closed
  BY <1>1 DEF Passed
<1>5. \A k : NoClosing(k)' <=> NoClosing(k)
  BY <1>1 DEF NoClosing
<1>6. CopyInv' /\ (~torn => FileInv')
  <2>1. SaveJournal
    BY DEF EndOpen
  <2> QED BY <1>1, <1>2, <2>1, SavedWhole
<1>7. ASSUME ~torn PROVE (EnteredInv /\ ClosingInv /\ PassedInv)'
  <2>0. EnteredInv /\ ClosingInv /\ PassedInv /\ FileInv
    BY <1>7 DEF WholeInv
  <2>1. EnteredInv'
    BY <1>1, <1>2, <2>0 DEF EnteredInv
  <2>2. ClosingInv'
    BY <1>1, <1>2, <1>3, <1>4, <2>0 DEF ClosingInv
  <2>3. PassedInv'
    <3> SUFFICES ASSUME NEW t, NEW i, NEW k, LegIs(trades', t, i, k), Passed(t, i)'
                 PROVE  \/ orders[k].status # "complete" \/ ~NoClosing(k) \/ orders[k].late
                        \/ trades'[t].copied /\ trades'[t].legs[i].seen # "complete"
      BY <1>1, <1>5 DEF PassedInv
    <3>1. t # id /\ trades'[t].closed
      BY <1>1, <1>3
    <3>2. LegIs(trades, t, i, k) /\ trades'[t] = trades[t] /\ Passed(t, i)
      BY <1>2, <1>4, <3>1
    <3> QED BY <2>0, <3>2 DEF PassedInv
  <2> QED BY <2>1, <2>2, <2>3
<1> QED
  BY <1>1, <1>6, <1>7 DEF WholeInv

\* The end of close_trade keeps the trades whole.
LEMMA EndCloseWhole ==
    ASSUME Inductive, Inductive', WholeInv, EndClose
    PROVE  WholeInv'
<1> DEFINE c == op.trade
<1>1. /\ UNCHANGED <<orders, brokerFile, serial, torn>> /\ op.kind = "close" /\ op' = Idle
      /\ op.next > Len(trades[c].legs) /\ SaveJournal
      /\ trades' = [trades EXCEPT ![c].closed = TRUE]
  BY DEF EndClose, broker, history
<1>2. c \in DOMAIN trades /\ trades \in Seq(Trade) /\ op.next \in Nat
  BY <1>1 DEF Inductive, OpInv, OpenTrades, TradeIds, JournalInv, Known
<1>3. /\ DOMAIN trades' = DOMAIN trades
      /\ \A t \in DOMAIN trades : /\ trades'[t].legs = trades[t].legs /\ trades'[t].copied = trades[t].copied
                                  /\ trades'[t].closed <=> trades[t].closed \/ t = c
  BY <1>1, <1>2 DEF Trade
<1>4. \A t, i, k : LegIs(trades', t, i, k) <=> LegIs(trades, t, i, k)
  BY <1>3 DEF LegIs
<1>5. ASSUME NEW t, NEW i, NEW k, LegIs(trades, t, i, k)
      PROVE  t \in DOMAIN trades /\ (Passed(t, i)' <=> Passed(t, i))
  <2>1. t \in DOMAIN trades /\ i \in DOMAIN trades[t].legs /\ i \in Nat
    BY <1>5, LegNumbers DEF LegIs
  <2>2. trades[t].legs \in Seq(LegRec)
    <3>1. trades[t] \in Trade
      BY <1>2, <2>1
    <3> QED BY <3>1 DEF Trade
  <2>3. t = c => i < op.next
    <3>1. i \in 1..Len(trades[t].legs) /\ Len(trades[t].legs) \in Nat
      BY <2>1, <2>2
    <3> QED BY <1>1, <1>2, <3>1
  <2>4. Passed(t, i)' <=> trades'[t].closed
    BY <1>1 DEF Passed, Idle
  <2>5. Passed(t, i) <=> trades[t].closed \/ t = c
    BY <1>1, <2>3 DEF Passed
  <2> QED BY <1>3, <2>1, <2>4, <2>5
<1>6. \A k : NoClosing(k)' <=> NoClosing(k)
  BY <1>1 DEF NoClosing
<1> HIDE DEF c
<1>7. CopyInv' /\ (~torn => FileInv')
  BY <1>1, <1>3, <1>4, <1>5, SavedWhole
<1>8. ASSUME ~torn PROVE (EnteredInv /\ ClosingInv /\ PassedInv)'
  <2>0. EnteredInv /\ ClosingInv /\ PassedInv /\ FileInv
    BY <1>8 DEF WholeInv
  <2>1. EnteredInv'
    BY <1>1, <1>4, <2>0 DEF EnteredInv
  <2>2. ClosingInv'
    BY <1>1, <1>4, <1>5, <2>0 DEF ClosingInv
  <2>3. PassedInv'
    <3> SUFFICES ASSUME NEW t, NEW i, NEW k, LegIs(trades, t, i, k), Passed(t, i)'
                 PROVE  \/ orders[k].status # "complete" \/ ~NoClosing(k) \/ orders[k].late
                        \/ trades'[t].copied /\ trades'[t].legs[i].seen # "complete"
      BY <1>1, <1>4, <1>6 DEF PassedInv
    <3>1. Passed(t, i) /\ t \in DOMAIN trades
      BY <1>5
    <3> QED BY <1>3, <2>0, <3>1 DEF PassedInv
  <2> QED BY <2>1, <2>2, <2>3
<1> QED
  BY <1>1, <1>7, <1>8 DEF WholeInv

------------------------------------------------------------------------------
(* Together. *)

Firm == Inductive /\ BookInv /\ LinkInv /\ WholeInv

\* The journal's file, which may be an earlier one, names orders as its trades do.
FileLinks == MatchInv(tradesFile.trades, orders) /\ OwnInv(tradesFile.trades)

Strong == Firm /\ FileLinks

\* The initial state satisfies the strong invariant.
LEMMA StrongInit == Init => Strong
<1> SUFFICES ASSUME Init PROVE Strong
  OBVIOUS
<1>1. /\ serial = 0 /\ restarts = 0 /\ orders = EmptyMap /\ pos = Nothing /\ op = Idle
      /\ brokerFile = [orders |-> EmptyMap, pos |-> Nothing, overridden |-> FALSE]
      /\ up = FALSE /\ paused = FALSE /\ dirty = FALSE /\ torn = FALSE /\ overridden = FALSE /\ killed = FALSE
      /\ trades = <<>> /\ tradesFile.trades = <<>>
  BY DEF Init
<1>2. BookTypes
  <2>1. serial \in 0..MaxOrders /\ restarts \in 0..MaxRestarts
    BY <1>1, PlansAssumption
  <2>2. pos \in [Symbols -> Int] /\ brokerFile.pos \in [Symbols -> Int]
    <3>1. Nothing \in [Symbols -> Int]
      BY DEF Nothing
    <3> QED BY <1>1, <3>1
  <2>3. brokerFile.overridden = FALSE
    BY <1>1
  <2>4. {up, paused, dirty, torn, overridden, killed, brokerFile.overridden} \subseteq BOOLEAN
    <3> DEFINE b == brokerFile.overridden
    <3>1. b = FALSE /\ up = FALSE /\ paused = FALSE /\ dirty = FALSE /\ torn = FALSE
          /\ overridden = FALSE /\ killed = FALSE
      BY <1>1, <2>3
    <3> HIDE DEF b
    <3>2. {up, paused, dirty, torn, overridden, killed, b} \subseteq BOOLEAN
      BY ONLY <3>1, Zenon
    <3> QED BY <3>2 DEF b
  <2>5. op.kind = "idle" /\ op.next = 1
    BY <1>1 DEF Idle
  <2> QED BY <1>1, <2>1, <2>2, <2>4, <2>5 DEF BookTypes
<1>3. SavedInv
  BY <1>1 DEF SavedInv
<1>4. ASSUME NEW s \in Symbols PROVE Nothing[s] = SumFunctionOnSet(DoneBy(orders, serial, s), 1..serial)
  <2> DEFINE f == DoneBy(orders, serial, s)
  <2>1. 1..serial = {}
    BY <1>1
  <2> HIDE DEF f
  <2>2. SumFunctionOnSet(f, {}) = 0
    BY SumEmpty
  <2> QED BY <2>1, <2>2 DEF f, Nothing
<1>5. SumsInv
  BY <1>1, <1>4 DEF SumsInv, FromFills
<1>6. LinkInv
  BY <1>1 DEF LinkInv, MatchInv, OwnInv, CloseInv, PlacedInv, Idle
<1>7. WholeInv
  BY <1>1 DEF WholeInv, CopyInv, EnteredInv, ClosingInv, PassedInv, FileInv, LegIs
<1>8. FileLinks
  BY <1>1 DEF FileLinks, MatchInv, OwnInv
<1> QED
  BY <1>2, <1>3, <1>5, <1>6, <1>7, <1>8, InitInductive DEF Strong, Firm, BookInv

\* A step that touches no trade and completes no order keeps the invariant of the journal in memory.
LEMMA QuietStrong ==
    ASSUME Firm, Inductive', BookInv', Quiet
    PROVE  Firm'
<1>1. Inductive /\ LinkInv /\ WholeInv
  BY DEF Firm
<1>2. trades' = trades /\ UNCHANGED serial /\ \A k \in 1..serial : SameOrder(orders'[k], orders[k])
  BY DEF Quiet
<1>3. op' = op \/ op'.kind # "open" \/ op'.placed = <<>>
  BY DEF Quiet
<1>4. SameTrades(trades', trades)
  BY <1>2 DEF SameTrades
<1>5. LinkInv'
  BY <1>1, <1>2, <1>3, <1>4, LinkSame
<1>6. WholeInv'
  BY <1>1, QuietWhole
<1> QED BY <1>5, <1>6 DEF Firm

\* Every step keeps it, a start because the file's trades are linked as well.
LEMMA FirmNext == ASSUME Strong, [Next]_vars PROVE Firm'
<1>00. Firm /\ FileLinks
  BY DEF Strong
<1>0. Inductive /\ BookInv /\ LinkInv /\ WholeInv /\ Inductive' /\ serial \in Nat
  BY <1>00, NextInductive DEF Firm, Inductive, OrdersInv
<1>01. BookInv'
  BY <1>0, NextBook
<1>02. /\ \A k \in 1..serial : /\ SameOrder(brokerFile.orders[k], orders[k])
                               /\ brokerFile.orders[k].status = "complete" => orders[k] = brokerFile.orders[k]
       /\ \A k \in 1..serial : SameOrder(orders[k], orders[k])
  BY <1>0 DEF BookInv, SavedInv, SameOrder
<1>1. ASSUME NEW plan \in Plans, BeginOpen(plan) PROVE Firm'
  <2>1. Quiet
    BY <1>1, <1>02 DEF BeginOpen, Quiet, broker, files, journal, history, Idle
  <2> QED BY <1>0, <1>01, <2>1, <1>00, QuietStrong
<1>2. CASE PlaceLeg
  BY <1>0, <1>01, <1>2, PlaceLegLinks, PlaceLegWhole DEF Firm
<1>3. CASE EndOpen
  BY <1>0, <1>01, <1>3, EndOpenLinks, EndOpenWhole DEF Firm
<1>4. ASSUME NEW t \in TradeIds, BeginClose(t) PROVE Firm'
  <2>1. Quiet
    BY <1>4, <1>02 DEF BeginClose, Quiet, broker, files, journal, history, Idle
  <2> QED BY <1>0, <1>01, <2>1, <1>00, QuietStrong
<1>5. CASE CloseLeg
  <2>1. LinkInv'
    <3>1. CASE LegStatus(op.trade, op.next) = "complete"
      BY <1>0, <1>5, <3>1, CloseLegLinks
    <3>2. CASE LegStatus(op.trade, op.next) # "complete"
      <4>1. UNCHANGED <<orders, serial, trades>> /\ op'.kind # "open"
        BY <1>5, <3>2 DEF CloseLeg, broker, journal
      <4>2. SameTrades(trades', trades)
        BY <4>1 DEF SameTrades
      <4> QED BY <1>0, <1>02, <4>1, <4>2, LinkSame
    <3> QED BY <3>1, <3>2
  <2> QED BY <1>0, <1>01, <1>5, <2>1, CloseLegWhole DEF Firm
<1>6. CASE EndClose
  <2>1. UNCHANGED <<orders, serial>> /\ op' = Idle /\ trades' = [trades EXCEPT ![op.trade].closed = TRUE]
        /\ op.trade \in DOMAIN trades /\ trades \in Seq(Trade)
    BY <1>0, <1>6 DEF EndClose, broker, Inductive, OpInv, OpenTrades, TradeIds, JournalInv, Known
  <2>2. op'.kind # "open"
    BY <2>1 DEF Idle
  <2>3. WholeInv'
    BY <1>0, <1>6, EndCloseWhole
  <2>4. LinkInv'
    <3>1. /\ DOMAIN trades' = DOMAIN trades
          /\ \A t \in DOMAIN trades : trades'[t].legs = trades[t].legs
      BY <2>1 DEF Trade
    <3>2. MatchInv(trades', orders') /\ OwnInv(trades') /\ CloseInv(orders', serial')
      BY <1>0, <2>1, <3>1 DEF LinkInv, MatchInv, OwnInv
    <3>3. PlacedInv(op', trades', orders')
      BY <2>2 DEF PlacedInv
    <3> QED BY <3>2, <3>3 DEF LinkInv
  <2> QED BY <1>0, <1>01, <2>3, <2>4 DEF Firm
<1>7. ASSUME NEW ks \in SUBSET DOMAIN orders, TickFills(ks) PROVE Firm'
  <2>1. UNCHANGED <<trades, serial, op>>
    BY <1>7 DEF TickFills, journal
  <2>2. \A k \in 1..serial : SameOrder(orders'[k], orders[k])
    <3>1. /\ \A k \in ks : SameOrder(orders'[k], orders[k])
          /\ \A k \in (1..serial) \ ks : orders'[k] = orders[k]
      BY <1>0, <1>7, TickBook
    <3> QED BY <3>1 DEF SameOrder
  <2>3. SameTrades(trades', trades)
    BY <2>1 DEF SameTrades
  <2>4. LinkInv'
    BY <1>0, <2>1, <2>2, <2>3, LinkSame
  <2>5. WholeInv'
    BY <1>0, <1>7, TickWhole
  <2> QED BY <1>0, <1>01, <2>4, <2>5 DEF Firm
<1>8. CASE TickSaves
  <2>1. /\ UNCHANGED <<trades, tradesFile, serial, torn, orders, op>> /\ brokerFile'.orders = orders
    BY <1>8 DEF TickSaves, BrokerState, broker, journal, history
  <2>2. Quiet
    BY <1>02, <2>1 DEF Quiet
  <2> QED BY <1>0, <1>01, <2>2, <1>00, QuietStrong
<1>9. CASE KillCancels
  <2>1. /\ UNCHANGED <<trades, tradesFile, serial, torn>> /\ op = Idle
        /\ op'.next = 1 /\ op'.placed = <<>>
    BY <1>9 DEF KillCancels, journal, history, Idle
  <2>2. /\ \A k \in 1..serial : IF orders[k].status = "complete" THEN orders'[k] = orders[k]
                                ELSE /\ orders'[k].status # "complete" /\ SameOrder(orders'[k], orders[k])
                                     /\ orders'[k].late = orders[k].late
        /\ \A k \in 1..serial : brokerFile.orders[k].status = "complete" => brokerFile'.orders[k].status = "complete"
    BY <1>0, <1>9, CancelBook
  <2>3. Quiet
    BY <1>02, <2>1, <2>2 DEF Quiet, Idle
  <2> QED BY <1>0, <1>01, <2>3, <1>00, QuietStrong
<1>10. CASE KillCloses
  <2>1. Quiet
    BY <1>10, <1>02 DEF KillCloses, Quiet, files, journal, Idle
  <2> QED BY <1>0, <1>01, <2>1, <1>00, QuietStrong
<1>11. CASE Shutdown
  <2>1. /\ UNCHANGED <<trades, tradesFile, serial, torn, orders, op>> /\ brokerFile'.orders = orders
    BY <1>11 DEF Shutdown, BrokerState, broker, journal, history
  <2>2. Quiet
    BY <1>02, <2>1 DEF Quiet
  <2> QED BY <1>0, <1>01, <2>2, <1>00, QuietStrong
<1>12. CASE Crash
  <2>1. UNCHANGED <<trades, serial>> /\ orders' = brokerFile.orders /\ op' = Idle
    BY <1>12 DEF Crash, journal
  <2>2. SameTrades(trades', trades) /\ op'.placed = <<>>
    BY <2>1 DEF SameTrades, Idle
  <2>3. \A k \in 1..serial : SameOrder(orders'[k], orders[k])
    BY <1>02, <2>1
  <2>4. LinkInv'
    BY <1>0, <2>1, <2>2, <2>3, LinkSame
  <2>5. WholeInv'
    BY <1>0, <1>12, CrashWhole
  <2> QED BY <1>0, <1>01, <2>4, <2>5 DEF Firm
<1>13. CASE Start
  <2>1. UNCHANGED <<orders, serial>> /\ op'.kind # "open"
    BY <1>13 DEF Start, broker, Idle
  <2>2. SameTrades(trades', tradesFile.trades)
    <3>1. tradesFile.trades \in Seq(Trade)
      BY <1>0 DEF Inductive, JournalInv, Known
    <3> QED BY <1>13, <3>1, LoadedIsSame
  <2>3. LinkInv'
    <3>1. MatchInv(trades', orders') /\ OwnInv(trades')
      BY <1>00, <2>1, <2>2 DEF FileLinks, MatchInv, OwnInv, SameTrades
    <3>2. CloseInv(orders', serial')
      BY <1>0, <2>1 DEF LinkInv
    <3>3. PlacedInv(op', trades', orders')
      BY <2>1 DEF PlacedInv
    <3> QED BY <3>1, <3>2, <3>3 DEF LinkInv
  <2>4. WholeInv'
    BY <1>0, <1>13, StartWhole
  <2> QED BY <1>0, <1>01, <2>3, <2>4 DEF Firm
<1>14. CASE CheckDrift
  <2>1. op'.placed = <<>> /\ op'.next = 1 /\ op.kind = "startup"
    BY <1>14 DEF CheckDrift, Idle
  <2>2. Quiet
    BY <1>14, <1>02, <2>1 DEF CheckDrift, Quiet, broker, files, journal, history
  <2> QED BY <1>0, <1>01, <2>2, <1>00, QuietStrong
<1>15. CASE Recover
  <2>1. /\ UNCHANGED <<trades, tradesFile, serial, torn, orders>> /\ brokerFile'.orders = orders
        /\ op.kind = "recover" /\ op' = Idle
    BY <1>15 DEF Recover, BrokerState, journal
  <2>2. Quiet
    BY <1>02, <2>1 DEF Quiet, Idle
  <2> QED BY <1>0, <1>01, <2>2, <1>00, QuietStrong
<1>16. CASE UNCHANGED vars
  <2>1. Quiet
    BY <1>16, <1>02 DEF vars, Quiet, broker, files, journal, history
  <2> QED BY <1>0, <1>01, <2>1, <1>00, QuietStrong
<1> QED
  BY <1>1, <1>2, <1>3, <1>4, <1>5, <1>6, <1>7, <1>8, <1>9, <1>10, <1>11, <1>12, <1>13,
     <1>14, <1>15, <1>16 DEF Next

\* What is written is what is in memory, and no order changes what it is for.
LEMMA FileLinksNext == ASSUME Strong, [Next]_vars PROVE FileLinks'
<1>1. Inductive /\ BookInv /\ LinkInv /\ Inductive' /\ LinkInv' /\ FileLinks /\ serial \in Nat
  BY FirmNext, NextInductive DEF Strong, Firm, Inductive, OrdersInv
<1>2. \A t \in DOMAIN tradesFile.trades : \A i \in DOMAIN tradesFile.trades[t].legs :
        tradesFile.trades[t].legs[i].order \in 1..serial
  BY <1>1 DEF Inductive, JournalInv, Known
<1>3. ASSUME UNCHANGED tradesFile, \A k \in 1..serial : SameOrder(orders'[k], orders[k])
      PROVE  FileLinks'
  BY <1>1, <1>2, <1>3 DEF FileLinks, MatchInv, OwnInv, SameOrder
<1>4. ASSUME UNCHANGED tradesFile, UNCHANGED orders PROVE FileLinks'
  BY <1>1, <1>4 DEF FileLinks
<1>5. ASSUME SaveJournal, UNCHANGED orders PROVE FileLinks'
  <2>1. CASE UNCHANGED tradesFile
    BY <1>4, <1>5, <2>1
  <2>2. CASE tradesFile' = [trades |-> JournalRecord(trades'), symMap |-> symMap'] /\ behind' = FALSE
    <3>1. SameTrades(tradesFile'.trades, trades')
      BY <1>1, <2>2 DEF Inductive, JournalInv
    <3> QED BY <1>1, <3>1 DEF FileLinks, LinkInv, MatchInv, OwnInv, SameTrades
  <2> QED BY <1>5, <2>1, <2>2 DEF SaveJournal
<1>6. CASE PlaceLeg
  <2>1. UNCHANGED tradesFile /\ \A k \in 1..serial : orders'[k] = orders[k]
    BY <1>1, <1>6, PlaceLegLinks
  <2> QED BY <1>3, <2>1 DEF SameOrder
<1>7. CASE CloseLeg
  <2>1. UNCHANGED tradesFile
    BY <1>7 DEF CloseLeg
  <2>2. CASE LegStatus(op.trade, op.next) = "complete"
    <3>1. \A k \in 1..serial : orders'[k] = orders[k]
      BY <1>1, <1>7, <2>2, CloseLegLinks
    <3> QED BY <1>3, <2>1, <3>1 DEF SameOrder
  <2>3. CASE LegStatus(op.trade, op.next) # "complete"
    <3>1. UNCHANGED orders
      BY <1>7, <2>3 DEF CloseLeg, broker
    <3> QED BY <1>4, <2>1, <3>1
  <2> QED BY <2>2, <2>3
<1>8. ASSUME NEW ks \in SUBSET DOMAIN orders, TickFills(ks) PROVE FileLinks'
  <2>1. UNCHANGED tradesFile
    BY <1>8 DEF TickFills, files
  <2>2. /\ \A k \in ks : SameOrder(orders'[k], orders[k])
        /\ \A k \in (1..serial) \ ks : orders'[k] = orders[k]
    BY <1>1, <1>8, TickBook
  <2>3. \A k \in 1..serial : SameOrder(orders'[k], orders[k])
    BY <2>2 DEF SameOrder
  <2> QED BY <1>3, <2>1, <2>3
<1>9. CASE KillCancels
  <2>1. UNCHANGED tradesFile
    BY <1>9 DEF KillCancels
  <2>2. \A k \in 1..serial : IF orders[k].status = "complete" THEN orders'[k] = orders[k]
                              ELSE /\ orders'[k].status # "complete" /\ SameOrder(orders'[k], orders[k])
                                   /\ orders'[k].late = orders[k].late
    BY <1>1, <1>9, CancelBook
  <2>3. \A k \in 1..serial : SameOrder(orders'[k], orders[k])
    BY <2>2 DEF SameOrder
  <2> QED BY <1>3, <2>1, <2>3
<1>10. CASE Crash
  <2>1. UNCHANGED tradesFile /\ orders' = brokerFile.orders
    BY <1>10 DEF Crash, files
  <2>2. \A k \in 1..serial : SameOrder(orders'[k], orders[k])
    BY <1>1, <2>1 DEF BookInv, SavedInv
  <2> QED BY <1>3, <2>1, <2>2
<1>11. CASE EndOpen
  BY <1>5, <1>11 DEF EndOpen, broker
<1>12. CASE EndClose
  BY <1>5, <1>12 DEF EndClose, broker
<1>13. CASE Start
  BY <1>4, <1>13 DEF Start, broker
<1>14. CASE KillCloses \/ CheckDrift \/ Recover \/ TickSaves \/ Shutdown \/ UNCHANGED vars
  BY <1>4, <1>14 DEF KillCloses, CheckDrift, Recover, TickSaves, Shutdown, vars, files, broker
<1>15. ASSUME NEW plan \in Plans, BeginOpen(plan) PROVE FileLinks'
  BY <1>4, <1>15 DEF BeginOpen, files, broker
<1>16. ASSUME NEW t \in TradeIds, BeginClose(t) PROVE FileLinks'
  BY <1>4, <1>16 DEF BeginClose, files, broker
<1> QED
  BY <1>6, <1>7, <1>8, <1>9, <1>10, <1>11, <1>12, <1>13, <1>14, <1>15, <1>16 DEF Next

\* Every step keeps the strong invariant.
LEMMA StrongNext == Strong /\ [Next]_vars => Strong'
  BY FirmNext, FileLinksNext DEF Strong

\* Every state satisfies the strong invariant.
LEMMA AlwaysStrong == Spec => []Strong
  BY StrongInit, StrongNext, PTL DEF Spec

\* What an entry and its closing order hold together is what its leg holds.
LEMMA LegNet ==
    ASSUME Strong, op = Idle, ~torn, NEW s \in Symbols,
           NEW t, NEW i, NEW e, LegIs(trades, t, i, e),
           NEW net, IF \E k \in 1..serial : orders[k].closes = e
                    THEN \E k \in 1..serial : orders[k].closes = e
                                              /\ net = DoneQty(orders[e], s) + DoneQty(orders[k], s)
                    ELSE net = DoneQty(orders[e], s)
    PROVE  net = IF trades[t].legs[i].symbol = s /\ (Held(t, i) \/ Leftover(t, i))
                 THEN trades[t].legs[i].qty ELSE 0
<1> DEFINE leg == trades[t].legs[i]
<1>1. /\ t \in DOMAIN trades /\ i \in DOMAIN trades[t].legs /\ leg.order = e
      /\ e \in 1..serial /\ e # 0
  BY LegNumbers DEF LegIs, Strong, Firm
<1>2. orders \in [1..serial -> OrderRec] /\ serial \in Nat
  BY DEF Strong, Firm, Inductive, OrdersInv
<1>3. leg.symbol = orders[e].symbol /\ leg.qty = orders[e].qty /\ orders[e].closes = 0 /\ orders[e].qty \in Int
  BY <1>1, <1>2 DEF Strong, Firm, LinkInv, MatchInv, OrderRec
<1>4. ClosingInv /\ PassedInv /\ CloseInv(orders, serial) /\ OwnInv(trades)
  BY DEF Strong, Firm, WholeInv, LinkInv
<1>5. ASSUME NEW k \in 1..serial, orders[k].closes = e
      PROVE  /\ orders[e].status = "complete" /\ trades[t].closed
             /\ orders[k].symbol = orders[e].symbol /\ orders[k].qty + orders[e].qty = 0
             /\ orders[k].qty \in Int
             /\ \A l \in 1..serial : orders[l].closes = e => l = k
  <2>1. brokerFile.orders[e].status = "complete"
    BY <1>1, <1>4, <1>5 DEF ClosingInv
  <2>2. orders[e].status = "complete"
    BY <1>1, <2>1 DEF Strong, Firm, BookInv, SavedInv
  <2>3. PICK u, j : LegIs(trades, u, j, e) /\ Passed(u, j)
    BY <1>1, <1>4, <1>5 DEF ClosingInv
  <2>4. trades[t].closed
    BY <1>1, <1>4, <2>3 DEF LegIs, OwnInv, Passed, Idle
  <2>5. \A l \in 1..serial : orders[l].closes = e => l = k
    BY <1>1, <1>4, <1>5 DEF ClosingInv
  <2>6. orders[k].symbol = orders[e].symbol /\ orders[k].qty + orders[e].qty = 0
    BY <1>1, <1>4, <1>5 DEF CloseInv
  <2>7. orders[k].qty \in Int
    BY <1>2 DEF OrderRec
  <2> QED BY <2>2, <2>4, <2>5, <2>6, <2>7
<1>6. \A k \in 1..serial : Complete(k) <=> orders[k].status = "complete"
  BY <1>2 DEF Complete, CompleteIn
<1>7. DOMAIN orders = 1..serial
  BY <1>2
<1>8. /\ Held(t, i) <=> ~trades[t].closed /\ orders[e].status = "complete"
      /\ Leftover(t, i) <=>
           /\ trades[t].closed /\ orders[e].status = "complete"
           /\ \A k \in 1..serial : orders[k].closes = e => orders[k].status # "complete"
           /\ \/ orders[e].late
              \/ trades[t].copied /\ leg.seen # "complete"
              \/ \E k \in 1..serial : orders[k].closes = e
  BY <1>1, <1>6, <1>7 DEF Held, Leftover
<1> HIDE DEF leg
<1>9. CASE \E k \in 1..serial : orders[k].closes = e
  <2>1. PICK k \in 1..serial : orders[k].closes = e /\ net = DoneQty(orders[e], s) + DoneQty(orders[k], s)
    BY <1>9
  <2>2. /\ orders[e].status = "complete" /\ trades[t].closed
        /\ orders[k].symbol = orders[e].symbol /\ orders[k].qty + orders[e].qty = 0
        /\ orders[k].qty \in Int
        /\ \A l \in 1..serial : orders[l].closes = e => l = k
    BY <1>5, <2>1
  <2>3. ~Held(t, i) /\ (Leftover(t, i) <=> orders[k].status # "complete")
    BY <1>8, <2>1, <2>2
  <2>4. CASE leg.symbol # s
    BY <1>3, <2>1, <2>2, <2>4 DEF DoneQty, leg
  <2>5. CASE leg.symbol = s /\ orders[k].status = "complete"
    <3>1. net = 0
      BY <1>3, <2>1, <2>2, <2>5 DEF DoneQty
    <3> QED BY <2>3, <2>5, <3>1
  <2>6. CASE leg.symbol = s /\ orders[k].status # "complete"
    <3>1. net = leg.qty
      BY <1>3, <2>1, <2>2, <2>6 DEF DoneQty
    <3> QED BY <2>3, <2>6, <3>1 DEF leg
  <2> QED BY <2>4, <2>5, <2>6
<1>10. CASE ~\E k \in 1..serial : orders[k].closes = e
  <2>1. net = DoneQty(orders[e], s) /\ NoClosing(e)
    BY <1>10 DEF NoClosing
  <2>2. CASE leg.symbol # s
    BY <1>3, <2>1, <2>2 DEF DoneQty, leg
  <2>3. CASE leg.symbol = s /\ orders[e].status # "complete"
    <3>1. net = 0
      BY <1>3, <2>1, <2>3 DEF DoneQty
    <3> QED BY <1>8, <2>3, <3>1
  <2>4. CASE leg.symbol = s /\ orders[e].status = "complete"
    <3>1. net = leg.qty
      BY <1>3, <2>1, <2>4 DEF DoneQty
    <3>2. Held(t, i) \/ Leftover(t, i)
      <4> SUFFICES ASSUME trades[t].closed PROVE Leftover(t, i)
        BY <1>8, <2>4
      <4>1. Passed(t, i)
        BY DEF Passed
      <4>2. orders[e].late \/ (trades[t].copied /\ leg.seen # "complete")
        BY <1>4, <2>1, <2>4, <4>1 DEF PassedInv, leg
      <4> QED BY <1>8, <1>10, <2>4, <4>2
    <3> QED BY <2>4, <3>1, <3>2 DEF leg
  <2> QED BY <2>2, <2>3, <2>4
<1> QED BY <1>9, <1>10

\* A leg of a trade is one of the legs.
LEMMA LegIsIn ==
    ASSUME NEW ts, NEW t \in DOMAIN ts, NEW i \in DOMAIN ts[t].legs
    PROVE  <<t, i>> \in LegsIn(ts)
<1>1. <<t, i>> \in {<<t, j>> : j \in DOMAIN ts[t].legs}
  OBVIOUS
<1> QED
  BY <1>1 DEF LegsIn

\* Every fill is a leg's or a closing order's, so the sums agree.
LEMMA Reconciled ==
    ASSUME Strong, op = Idle, ~torn, ~overridden, NEW s \in Symbols
    PROVE  pos[s] = SumLegs(trades, {p \in LegsIn(trades) :
                        /\ trades[p[1]].legs[p[2]].symbol = s
                        /\ Held(p[1], p[2]) \/ Leftover(p[1], p[2])})
<1> DEFINE N == 1..serial
           Q == {p \in LegsIn(trades) : /\ trades[p[1]].legs[p[2]].symbol = s
                                        /\ Held(p[1], p[2]) \/ Leftover(p[1], p[2])}
           q == [p \in Q |-> trades[p[1]].legs[p[2]].qty]
           d == DoneBy(orders, serial, s)
           C == {k \in N : orders[k].closes # 0}
           h == [k \in C |-> orders[k].closes]
           D == {h[k] : k \in C}
           f1 == [k \in N |-> IF orders[k].closes = 0 THEN d[k] ELSE 0]
           f2 == [k \in N |-> IF orders[k].closes # 0 THEN d[k] ELSE 0]
           closing(e) == CHOOSE k \in C : h[k] = e
           g == [e \in N |-> IF e \in D THEN f2[closing(e)] ELSE 0]
           n == [e \in N |-> f1[e] + g[e]]
           o == [p \in Q |-> trades[p[1]].legs[p[2]].order]
           O == {o[p] : p \in Q}
<1>1. orders \in [1..serial -> OrderRec] /\ serial \in Nat
  BY DEF Strong, Firm, Inductive, OrdersInv
<1>2. IsFiniteSet(N)
  <2>1. IsFiniteSet(1..serial)
    BY <1>1, FS_Interval
  <2> QED BY <2>1
<1>3. \A k \in N : d[k] \in Int /\ d[k] = DoneQty(orders[k], s)
  BY <1>1, DoneInt
<1>4. pos[s] = SumFunctionOnSet(d, N)
  BY DEF Strong, Firm, BookInv, SumsInv, FromFills
<1>5. EnteredInv /\ ClosingInv /\ CloseInv(orders, serial) /\ OwnInv(trades)
  BY DEF Strong, Firm, WholeInv, LinkInv
<1>6. \A k, l \in C : h[k] = h[l] => k = l
  BY <1>5 DEF ClosingInv
<1>7. D \subseteq N /\ C \subseteq N /\ \A e \in D : orders[e].closes = 0
  BY <1>5 DEF CloseInv
<1>8. \A k \in N : f1[k] \in Int /\ f2[k] \in Int /\ d[k] = f1[k] + f2[k]
  <2> HIDE DEF d
  <2> QED BY <1>3
<1>9. \A k \in N \ C : f2[k] = 0
  OBVIOUS
<1>10. \A e \in D : closing(e) \in C /\ h[closing(e)] = e
  OBVIOUS
<1>11. \A k \in C : h[k] \in D /\ closing(h[k]) = k
  BY <1>6, <1>10
<1>12. /\ \A e \in N : g[e] = IF e \in D THEN f2[closing(e)] ELSE 0
       /\ \A e \in N : n[e] = f1[e] + g[e]
  OBVIOUS
<1>13. \A k \in C : f2[k] \in Int /\ g[h[k]] = f2[k]
  <2> HIDE DEF f2, g, h, D, C, closing
  <2> QED BY <1>7, <1>8, <1>11, <1>12
<1>14. (\A e \in N : g[e] \in Int) /\ \A e \in N \ D : g[e] = 0
  <2> HIDE DEF N, d, f1, f2, g, n, h, D, C, closing
  <2>1. \A e \in D : closing(e) \in N
    BY <1>7, <1>10
  <2>2. \A e \in N : g[e] = IF e \in D THEN f2[closing(e)] ELSE 0
    BY <1>12
  <2>3. ASSUME NEW e \in N PROVE g[e] \in Int /\ (e \notin D => g[e] = 0)
    <3>1. CASE e \in D
      BY <1>8, <2>1, <2>2, <3>1
    <3>2. CASE e \notin D
      BY <2>2, <3>2
    <3> QED BY <3>1, <3>2
  <2> QED BY <2>3
<1>15. \A p \in LegsIn(trades) : LegIs(trades, p[1], p[2], trades[p[1]].legs[p[2]].order) /\ p = <<p[1], p[2]>>
  <2>1. trades \in Seq(Trade)
    BY DEF Strong, Firm, Inductive, JournalInv, Known
  <2> QED BY <2>1, LegsFinite DEF LegIs
<1>16. ASSUME NEW p \in LegsIn(trades), NEW e, e = trades[p[1]].legs[p[2]].order
       PROVE  e \in N /\ n[e] = IF p \in Q THEN trades[p[1]].legs[p[2]].qty ELSE 0
  <2> DEFINE t == p[1]
             i == p[2]
  <2>1. LegIs(trades, t, i, e) /\ e \in N
    BY <1>15, <1>16, LegNumbers DEF Strong, Firm
  <2>2. orders[e].closes = 0
    BY <1>16, <2>1 DEF LegIs, Strong, Firm, LinkInv, MatchInv
  <2>3. f1[e] = DoneQty(orders[e], s)
    BY <1>3, <2>1, <2>2
  <2>4. IF \E k \in 1..serial : orders[k].closes = e
        THEN \E k \in 1..serial : orders[k].closes = e /\ n[e] = DoneQty(orders[e], s) + DoneQty(orders[k], s)
        ELSE n[e] = DoneQty(orders[e], s)
    <3>1. CASE \E k \in 1..serial : orders[k].closes = e
      <4>1. PICK k \in 1..serial : orders[k].closes = e
        BY <3>1
      <4>2. e # 0
        BY <1>1, <2>1
      <4>3. k \in C /\ h[k] = e
        BY <4>1, <4>2
      <4>4. e \in D /\ closing(e) = k
        <5> HIDE DEF D, closing, C, h
        <5> QED BY <1>11, <4>3
      <4>5. f2[k] = DoneQty(orders[k], s)
        BY <1>3, <4>1, <4>2
      <4>6. g[e] = f2[k]
        <5> HIDE DEF D, closing, C, h, g, f2
        <5> QED BY <1>12, <2>1, <4>4
      <4>7. n[e] = DoneQty(orders[e], s) + DoneQty(orders[k], s)
        <5> HIDE DEF n, f1, g, f2
        <5> QED BY <1>12, <2>1, <2>3, <4>5, <4>6
      <4> QED BY <3>1, <4>1, <4>7
    <3>2. CASE ~\E k \in 1..serial : orders[k].closes = e
      <4>1. e \notin D
        BY <3>2
      <4>2. g[e] = 0 /\ f1[e] \in Int
        BY <1>8, <2>1, <4>1
      <4>3. n[e] = DoneQty(orders[e], s)
        <5> HIDE DEF n, f1, g
        <5> QED BY <1>12, <2>1, <2>3, <4>2
      <4> QED BY <3>2, <4>3
    <3> QED BY <3>1, <3>2
  <2>5. p \in Q <=> trades[t].legs[i].symbol = s /\ (Held(t, i) \/ Leftover(t, i))
    BY <1>16
  <2> DEFINE net == n[e]
  <2> HIDE DEF n, t, i, Q, net
  <2>6. net = IF trades[t].legs[i].symbol = s /\ (Held(t, i) \/ Leftover(t, i))
              THEN trades[t].legs[i].qty ELSE 0
    BY <2>1, <2>4, LegNet DEF net
  <2> QED BY <2>1, <2>5, <2>6 DEF net, t, i
<1>17. \A p \in Q : q[p] \in Int /\ o[p] \in N /\ n[o[p]] = q[p]
  <2> SUFFICES ASSUME NEW p \in Q PROVE q[p] \in Int /\ o[p] \in N /\ n[o[p]] = q[p]
    OBVIOUS
  <2>1. p \in LegsIn(trades) /\ o[p] = trades[p[1]].legs[p[2]].order /\ q[p] = trades[p[1]].legs[p[2]].qty
    OBVIOUS
  <2>2. q[p] \in Int
    <3>1. trades \in Seq(Trade)
      BY DEF Strong, Firm, Inductive, JournalInv, Known
    <3>2. trades[p[1]].legs[p[2]] \in LegRec
      BY <2>1, <3>1, LegsFinite
    <3> QED BY <2>1, <3>2 DEF LegRec
  <2> HIDE DEF n, o, q, N, Q
  <2> QED BY <1>16, <2>1, <2>2
<1>18. \A p, r \in Q : o[p] = o[r] => p = r
  <2> SUFFICES ASSUME NEW p \in Q, NEW r \in Q, o[p] = o[r] PROVE p = r
    OBVIOUS
  <2>1. /\ p \in LegsIn(trades) /\ r \in LegsIn(trades)
        /\ trades[p[1]].legs[p[2]].order = trades[r[1]].legs[r[2]].order
    OBVIOUS
  <2>2. /\ LegIs(trades, p[1], p[2], trades[p[1]].legs[p[2]].order) /\ p = <<p[1], p[2]>>
        /\ LegIs(trades, r[1], r[2], trades[r[1]].legs[r[2]].order) /\ r = <<r[1], r[2]>>
    BY <1>15, <2>1
  <2> DEFINE t == p[1]  i == p[2]  u == r[1]  j == r[2]
  <2>3. /\ t \in DOMAIN trades /\ i \in DOMAIN trades[t].legs
        /\ u \in DOMAIN trades /\ j \in DOMAIN trades[u].legs
        /\ trades[t].legs[i].order = trades[u].legs[j].order
    BY <2>1, <2>2 DEF LegIs
  <2> HIDE DEF t, i, u, j, Q, o, n, f1, f2, g, d, q
  <2>4. t = u /\ i = j
    BY <1>5, <2>3 DEF OwnInv
  <2> QED BY <2>2, <2>4 DEF t, i, u, j
<1>19. \A e \in N \ O : n[e] = 0
  <2> SUFFICES ASSUME NEW e \in N \ O PROVE n[e] = 0
    OBVIOUS
  <2>1. CASE orders[e].closes = 0
    <3>1. PICK t, i : LegIs(trades, t, i, e)
      BY <1>5, <2>1 DEF EnteredInv, Idle
    <3> DEFINE p == <<t, i>>
    <3>2. p \in LegsIn(trades) /\ e = trades[p[1]].legs[p[2]].order
      <4>1. t \in DOMAIN trades /\ i \in DOMAIN trades[t].legs /\ trades[t].legs[i].order = e
        BY <3>1 DEF LegIs
      <4>2. p[1] = t /\ p[2] = i
        OBVIOUS
      <4>3. p \in LegsIn(trades)
        BY <4>1, LegIsIn
      <4> QED BY ONLY <4>1, <4>2, <4>3
    <3>3. p \notin Q
      <4> SUFFICES ASSUME p \in Q PROVE e \in O
        OBVIOUS
      <4>1. o[p] = e
        BY <3>2
      <4> QED BY <4>1
    <3> HIDE DEF p, n, Q
    <3> QED BY <1>16, <3>2, <3>3
  <2>2. CASE orders[e].closes # 0
    <3>1. f1[e] = 0 /\ g[e] = 0
      <4>1. e \notin D
        BY <1>7, <2>2
      <4> QED BY <1>14, <2>2, <4>1
    <3>2. n[e] = f1[e] + g[e]
      BY <1>12
    <3> HIDE DEF N, Q, q, d, C, h, D, f1, f2, closing, g, n, o, O
    <3> QED BY ONLY <3>1, <3>2
  <2> QED BY <2>1, <2>2
<1>20. O \subseteq N
  BY <1>17
<1>21. IsFiniteSet(C) /\ IsFiniteSet(Q)
  <2>1. IsFiniteSet(C)
    <3> HIDE DEF C, N
    <3> QED BY <1>2, <1>7, FS_Subset
  <2>2. IsFiniteSet(Q)
    <3> DEFINE all == LegsIn(trades)
    <3>1. IsFiniteSet(all)
      <4>1. trades \in Seq(Trade)
        BY DEF Strong, Firm, Inductive, JournalInv, Known
      <4> QED BY <4>1, LegsFinite
    <3>2. Q \subseteq all
      OBVIOUS
    <3> HIDE DEF all, Q
    <3> QED BY <3>1, <3>2, FS_Subset
  <2> QED BY <2>1, <2>2
<1>22. \A e \in N : n[e] \in Int /\ f1[e] \in Int /\ g[e] \in Int
  <2> HIDE DEF n, f1, g
  <2> QED BY <1>8, <1>12, <1>14
<1>23. SumLegs(trades, Q) = SumFunctionOnSet(q, Q)
  BY DEF SumLegs
<1>24. D = {h[k] : k \in C} /\ O = {o[p] : p \in Q}
  OBVIOUS
<1> HIDE DEF N, q, d, C, h, D, f1, f2, closing, g, n, o, O, Q
<1>25. SumFunctionOnSet(d, N) = SumFunctionOnSet(f1, N) + SumFunctionOnSet(f2, N)
  BY <1>2, <1>8, SumBoth
<1>26. SumFunctionOnSet(f2, N) = SumFunctionOnSet(f2, C)
  BY <1>2, <1>7, <1>8, <1>9, SumOver
<1>27. SumFunctionOnSet(g, D) = SumFunctionOnSet(f2, C)
  <2>1. SumFunctionOnSet(g, {h[k] : k \in C}) = SumFunctionOnSet(f2, C)
    BY <1>6, <1>13, <1>21, SumMoved
  <2> QED BY <1>24, <2>1
<1>28. SumFunctionOnSet(g, N) = SumFunctionOnSet(g, D)
  BY <1>2, <1>7, <1>14, SumOver
<1>29. SumFunctionOnSet(n, N) = SumFunctionOnSet(f1, N) + SumFunctionOnSet(g, N)
  BY <1>2, <1>12, <1>22, SumBoth
<1>30. SumFunctionOnSet(n, N) = SumFunctionOnSet(n, O)
  BY <1>2, <1>19, <1>20, <1>22, SumOver
<1>31. SumFunctionOnSet(n, O) = SumFunctionOnSet(q, Q)
  <2>1. SumFunctionOnSet(n, {o[p] : p \in Q}) = SumFunctionOnSet(q, Q)
    BY <1>17, <1>18, <1>21, SumMoved
  <2> QED BY <1>24, <2>1
<1>32. pos[s] = SumLegs(trades, Q)
  BY <1>4, <1>23, <1>25, <1>26, <1>27, <1>28, <1>29, <1>30, <1>31
<1> QED
  BY <1>32 DEF Q

------------------------------------------------------------------------------
(* Results. *)

\* As long as every position comes from fills and no crash has torn the files (one
\* between two legs, or before a failed write of the journal was made good), the
\* quantity held of a symbol is what the open trades hold of it, plus the
\* leftovers of closed trades: the journal explains the broker's book.
THEOREM BookAlwaysReconciles == Spec => []BookReconciles
<1>1. Strong => BookReconciles
  BY Reconciled DEF BookReconciles
<1> QED
  BY <1>1, AlwaysStrong, PTL

\* Orders, trades and files stay well formed: a leg names an order the broker
\* knows, under its symbol, and a closing order names the order it closes.
THEOREM TypeCorrect == Spec => []TypeOK
<1>1. Strong => TypeOK
  <2> SUFFICES ASSUME Strong PROVE TypeOK
    OBVIOUS
  <2>1. /\ orders \in [1..serial -> OrderRec] /\ serial \in 0..MaxOrders /\ MaxOrders \in Nat
        /\ pos \in [Symbols -> Int] /\ restarts \in 0..MaxRestarts
        /\ op.kind \in {"idle", "open", "close", "kill", "startup", "recover"}
        /\ {up, paused, dirty, torn, overridden, killed} \subseteq BOOLEAN
        /\ behind \in BOOLEAN
    BY PlansAssumption DEF Strong, Firm, Inductive, OrdersInv, JournalInv, BookInv, BookTypes
  <2>2. DOMAIN orders = 1..serial /\ DOMAIN orders \subseteq 1..MaxOrders
    BY <2>1
  <2>3. ASSUME NEW k \in DOMAIN orders
        PROVE  /\ orders[k].symbol \in Symbols /\ orders[k].qty \in Int \ {0}
               /\ orders[k].status \in Status
               /\ orders[k].closes = 0 \/ orders[k].closes \in DOMAIN orders
    <3>1. orders[k] \in OrderRec
      BY <2>1, <2>3
    <3>2. orders[k].closes = 0 \/ orders[k].closes \in 1..serial
      BY <2>2, <2>3 DEF Strong, Firm, LinkInv, CloseInv
    <3> QED BY <2>2, <3>1, <3>2 DEF OrderRec
  <2>4. \A t \in TradeIds : \A i \in DOMAIN trades[t].legs :
          /\ trades[t].legs[i].order \in DOMAIN orders
          /\ trades[t].legs[i].symbol = orders[trades[t].legs[i].order].symbol
    BY <2>2, KnownOrders DEF Strong, Firm, LinkInv, MatchInv, TradeIds
  <2>5. DOMAIN symMap \subseteq Symbols
    <3> SUFFICES ASSUME NEW s \in DOMAIN symMap PROVE s \in Symbols
      OBVIOUS
    <3>1. symMap[s] \in DOMAIN trades /\ HasSymbol(trades[symMap[s]], s)
      BY DEF Strong, Firm, Inductive, MapExact
    <3>2. PICK i \in DOMAIN trades[symMap[s]].legs : trades[symMap[s]].legs[i].symbol = s
      BY <3>1 DEF HasSymbol
    <3>3. trades[symMap[s]].legs \in Seq(LegRec)
      <4>1. trades[symMap[s]] \in Trade
        BY <3>1 DEF Strong, Firm, Inductive, JournalInv, Known
      <4> QED BY <4>1 DEF Trade
    <3>4. trades[symMap[s]].legs[i] \in LegRec
      BY <3>2, <3>3
    <3> QED BY <3>2, <3>4 DEF LegRec
  <2> QED BY <2>1, <2>2, <2>3, <2>4, <2>5 DEF TypeOK
<1> QED
  BY <1>1, AlwaysStrong, PTL

\* Whatever plans are opened, closed, killed or restarted, a mapped symbol leads
\* to an open trade that has it, and an open trade's options lead to it.
THEOREM MapStaysExact == Spec => []SymbolMapExact
<1>1. Inductive => SymbolMapExact
  BY DEF Inductive, MapExact, SymbolMapExact, HasSymbol, OpenTrades, TradeIds
<1> QED
  BY <1>1, AlwaysInductive, PTL

\* No step, no crash and no restart loses a trade, reopens a closed one or
\* changes the orders it is made of, except a restart after a write of the
\* journal that failed, which goes back to an earlier journal.
THEOREM JournalKept == Spec => JournalSurvives
<1>1. ASSUME Inductive, Start
      PROVE  IF ~up /\ behind THEN TradesOlder ELSE TradesKept
  <2>1. ~up /\ behind \in BOOLEAN
    BY <1>1 DEF Start, Inductive, JournalInv
  <2>2. Older(trades', trades) /\ (~behind => SameTrades(trades', trades))
    BY <1>1, StartKeeps
  <2>3. TradesOlder
    BY <2>2 DEF Older, TradesOlder, TradeIds, LegsOf
  <2>4. ~behind => TradesKept
    BY <2>2 DEF SameTrades, TradesKept, TradeIds, LegsOf
  <2> QED BY <2>1, <2>3, <2>4
<1>2. ASSUME UNCHANGED trades PROVE TradesOlder /\ TradesKept
  BY <1>2 DEF TradesOlder, TradesKept, TradeIds, LegsOf
<1>3. ASSUME Inductive, EndOpen \/ EndClose PROVE up /\ TradesKept
  <2>1. trades \in Seq(Trade) /\ up
    BY <1>3 DEF Inductive, JournalInv, Known, EndOpen, EndClose
  <2>2. CASE EndOpen
    <3>1. PICK new : trades' = Append(trades, new)
      BY <2>2 DEF EndOpen
    <3>2. DOMAIN trades \subseteq DOMAIN trades' /\ \A t \in DOMAIN trades : trades'[t] = trades[t]
      BY <2>1, <3>1
    <3> QED BY <2>1, <3>2 DEF TradesKept, TradeIds, LegsOf
  <2>3. CASE EndClose
    <3>1. /\ DOMAIN trades' = DOMAIN trades
          /\ \A t \in DOMAIN trades : trades'[t].legs = trades[t].legs
          /\ \A t \in DOMAIN trades : trades[t].closed => trades'[t].closed
      BY <2>1, <2>3 DEF EndClose, Trade
    <3> QED BY <2>1, <3>1 DEF TradesKept, TradeIds, LegsOf
  <2> QED BY <1>3, <2>2, <2>3
<1>4. Inductive /\ [Next]_vars => IF ~up /\ behind THEN TradesOlder ELSE TradesKept
  <2> SUFFICES ASSUME Inductive, [Next]_vars
               PROVE  IF ~up /\ behind THEN TradesOlder ELSE TradesKept
    OBVIOUS
  <2>1. ~(EndOpen \/ EndClose \/ Start) => UNCHANGED trades
    BY DEF Next, BeginOpen, PlaceLeg, BeginClose, CloseLeg, TickFills, TickSaves, KillCancels,
           KillCloses, Shutdown, Crash, CheckDrift, Recover, journal, vars
  <2> QED BY <1>1, <1>2, <1>3, <2>1
<1> QED
  BY <1>4, AlwaysInductive, PTL DEF Spec, JournalSurvives

------------------------------------------------------------------------------
(* The broker the order manager works with implements the ledger: what the  *)
(* journal asks of it is an order entered, filled or cancelled, positions    *)
(* flattened, or positions set from the journal.                             *)

\* The ledger sums as this module does.
LEMMA LedgerTotal ==
    ASSUME NEW b, NEW ks
    PROVE  L!Total(b, ks) = SumFunctionOnSet([k \in ks |-> b.orders[k].qty], ks)
<1>1. ASSUME NEW f, NEW S PROVE L!SumFunctionOnSet(f, S) = SumFunctionOnSet(f, S)
  BY DEF L!SumFunctionOnSet, SumFunctionOnSet, L!FoldFunctionOnSet, FoldFunctionOnSet,
         L!MapThenFoldSet, MapThenFoldSet
<1> QED
  BY <1>1 DEF L!Total

\* One order adds up to its quantity, and none to nothing.
LEMMA LedgerOne ==
    ASSUME NEW b, NEW k, NEW s, b.orders[k].qty \in Int
    PROVE  L!Total(b, {j \in {k} : b.orders[j].symbol = s})
              = IF b.orders[k].symbol = s THEN b.orders[k].qty ELSE 0
<1> DEFINE T == {j \in {k} : b.orders[j].symbol = s}
           f == [j \in T |-> b.orders[j].qty]
<1>1. L!Total(b, T) = SumFunctionOnSet(f, T)
  BY LedgerTotal
<1>2. CASE b.orders[k].symbol # s
  <2>1. T = {}
    BY <1>2
  <2>2. SumFunctionOnSet(f, {}) = 0
    BY SumEmpty
  <2> QED BY <1>1, <1>2, <2>1, <2>2
<1>3. CASE b.orders[k].symbol = s
  <2>1. T = {k} /\ T \ {k} = {}
    BY <1>3
  <2>2. IsFiniteSet(T) /\ k \in T /\ f[k] = b.orders[k].qty /\ \A j \in T : f[j] \in Int
    BY <2>1, FS_Singleton
  <2> HIDE DEF T, f
  <2>3. SumFunctionOnSet(f, T) = f[k] + SumFunctionOnSet(f, T \ {k})
    BY <2>2, SumTakes
  <2>4. SumFunctionOnSet(f, T \ {k}) = 0
    BY <2>1, SumEmpty
  <2> QED BY <1>1, <1>3, <2>2, <2>3, <2>4 DEF T
<1> QED
  BY <1>2, <1>3

\* What the ledger shows of an order.
LotOf(o) == [symbol |-> o.symbol, qty |-> o.qty, status |-> o.status]

\* What is seen of it.
LEMMA LotFields ==
    /\ \A o : LotOf(o).symbol = o.symbol /\ LotOf(o).qty = o.qty /\ LotOf(o).status = o.status
    /\ \A o : o.symbol \in Symbols /\ o.qty \in Int \ {0} /\ o.status \in Status => LotOf(o) \in L!Entry
    /\ \A o, x : [LotOf(o) EXCEPT !.status = x] = [symbol |-> o.symbol, qty |-> o.qty, status |-> x]
<1>1. \A o : LotOf(o).symbol = o.symbol /\ LotOf(o).qty = o.qty /\ LotOf(o).status = o.status
  BY DEF LotOf
<1>2. ASSUME NEW o, o.symbol \in Symbols, o.qty \in Int \ {0}, o.status \in Status PROVE LotOf(o) \in L!Entry
  BY <1>2 DEF LotOf, L!Entry, Status
<1>3. \A o, x : [LotOf(o) EXCEPT !.status = x] = [symbol |-> o.symbol, qty |-> o.qty, status |-> x]
  BY DEF LotOf
<1> QED
  BY <1>1, <1>2, <1>3

\* The book and the file, shown.
LEMMA ShownBook ==
    ASSUME Strong
    PROVE  /\ DOMAIN InMemory.orders = 1..serial /\ DOMAIN OnFile.orders = 1..serial
           /\ serial \in Nat /\ orders \in [1..serial -> OrderRec]
           /\ \A k \in 1..serial : /\ InMemory.orders[k] = LotOf(orders[k])
                                   /\ OnFile.orders[k] = LotOf(brokerFile.orders[k])
           /\ InMemory.pos = pos /\ OnFile.pos = brokerFile.pos /\ pos \in [Symbols -> Int]
<1>1. /\ DOMAIN orders = 1..serial /\ DOMAIN brokerFile.orders = 1..serial
      /\ serial \in Nat /\ orders \in [1..serial -> OrderRec] /\ pos \in [Symbols -> Int]
  BY DEF Strong, Firm, Inductive, OrdersInv, BookInv, BookTypes
<1> QED
  BY <1>1 DEF InMemory, OnFile, Lots, LotOf

\* A save makes the file the book.
LEMMA SavedLedger ==
    ASSUME \/ brokerFile' = [orders |-> orders', pos |-> pos', overridden |-> overridden']
           \/ brokerFile' = BrokerState'
    PROVE  OnFile' = InMemory'
  BY DEF OnFile, InMemory, Lots, BrokerState

\* What keeps orders and positions keeps what is shown of them.
LEMMA StillLedger ==
    /\ UNCHANGED <<orders, pos>> => UNCHANGED InMemory
    /\ UNCHANGED brokerFile => UNCHANGED OnFile
  BY DEF OnFile, InMemory, Lots

\* Orders that fill or are cancelled are marked in the ledger.
LEMMA MarkedLedger ==
    ASSUME Strong, Strong', serial' = serial, NEW ks \in SUBSET (1..serial), NEW status,
           \A k \in ks : /\ orders'[k].symbol = orders[k].symbol /\ orders'[k].qty = orders[k].qty
                         /\ orders'[k].status = status,
           \A k \in (1..serial) \ ks : orders'[k] = orders[k]
    PROVE  InMemory'.orders = L!Marked(InMemory, ks, status)
<1>1. /\ InMemory' = [orders |-> Lots(orders'), pos |-> pos']
      /\ DOMAIN orders' = 1..serial /\ DOMAIN InMemory.orders = 1..serial
      /\ \A k \in 1..serial : InMemory.orders[k] = LotOf(orders[k])
  <2>1. DOMAIN orders' = 1..serial
    BY DEF Strong, Firm, Inductive, OrdersInv
  <2> QED BY <2>1, ShownBook DEF InMemory
<1>2. InMemory'.orders = [k \in 1..serial |-> LotOf(orders'[k])]
  BY <1>1 DEF Lots, LotOf
<1>3. L!Marked(InMemory, ks, status)
        = [k \in 1..serial |-> IF k \in ks THEN [InMemory.orders[k] EXCEPT !.status = status] ELSE InMemory.orders[k]]
  BY <1>1 DEF L!Marked
<1>4. ASSUME NEW k \in 1..serial
      PROVE  LotOf(orders'[k]) = IF k \in ks THEN [InMemory.orders[k] EXCEPT !.status = status] ELSE InMemory.orders[k]
  <2>1. InMemory.orders[k] = LotOf(orders[k])
    BY <1>1
  <2>2. CASE k \in ks
    BY <2>1, <2>2 DEF LotOf
  <2>3. CASE k \notin ks
    BY <2>1, <2>3
  <2> QED BY <2>2, <2>3
<1> QED
  BY <1>2, <1>3, <1>4

\* An order is entered, under a number never used, and may fill at once.
LEMMA PlaceLedger ==
    ASSUME Strong, Strong', NEW symbol \in Symbols, NEW qty \in Int \ {0}, NEW closes \in Nat,
           Place(symbol, qty, closes)
    PROVE  L!Work
<1> DEFINE n == serial + 1
           o == orders'[n]
<1>1. OrdersInv
  BY DEF Strong, Firm, Inductive
<1>2. /\ serial' = n /\ \A k \in 1..serial : orders'[k] = orders[k]
      /\ o.symbol = symbol /\ o.qty = qty
      /\ pos' = IF o.status = "complete" THEN [pos EXCEPT ![symbol] = @ + qty] ELSE pos
      /\ brokerFile' = [orders |-> orders', pos |-> pos', overridden |-> overridden']
  BY <1>1, PlaceGives
<1>3. OnFile' = InMemory'
  BY <1>2, SavedLedger
<1>4. /\ DOMAIN orders' = 1..n /\ o.status \in {"open", "complete"} /\ serial \in Nat
      /\ 1..n = (1..serial) \cup {n} /\ n \notin 1..serial
  <2>1. orders' \in [1..n -> OrderRec] /\ serial \in Nat
    BY <1>1, <1>2 DEF Strong, Firm, Inductive, OrdersInv
  <2>2. o.status \in {"open", "complete"}
    <3>1. DOMAIN orders = 1..serial /\ serial' = n /\ serial \in Nat
      BY <1>1, <1>2 DEF OrdersInv
    <3>2. PICK fills \in BOOLEAN :
            orders' = [k \in DOMAIN orders \cup {serial'} |->
                        IF k # serial' THEN orders[k]
                        ELSE IF fills
                             THEN Filled([symbol |-> symbol, qty |-> qty, closes |-> closes,
                                          status |-> "open", late |-> FALSE], FALSE)
                             ELSE [symbol |-> symbol, qty |-> qty, closes |-> closes,
                                   status |-> "open", late |-> FALSE]]
      BY DEF Place
    <3> QED BY <3>1, <3>2 DEF Filled
  <2> QED BY <2>1, <2>2
<1>5. /\ InMemory' = [orders |-> [k \in 1..n |-> LotOf(orders'[k])], pos |-> pos']
      /\ InMemory = [orders |-> [k \in 1..serial |-> LotOf(orders[k])], pos |-> pos]
      /\ pos \in [Symbols -> Int]
  <2>1. DOMAIN orders = 1..serial /\ pos \in [Symbols -> Int]
    BY <1>1 DEF OrdersInv, Strong, Firm, BookInv, BookTypes
  <2> QED BY <1>4, <2>1 DEF InMemory, Lots, LotOf
<1> DEFINE entry == [InMemory'.orders[n] EXCEPT !.status = "open"]
           entered == L!With(InMemory, n, entry)
<1>6. /\ InMemory'.orders[n] = LotOf(o) /\ LotOf(o) \in L!Entry
      /\ entry = [symbol |-> symbol, qty |-> qty, status |-> "open"]
  <2>1. InMemory'.orders[n] = LotOf(o)
    BY <1>4, <1>5
  <2>2. LotOf(o) \in L!Entry
    <3>1. o.symbol \in Symbols /\ o.qty \in Int \ {0} /\ o.status \in Status
      BY <1>2, <1>4 DEF Status
    <3> HIDE DEF o
    <3> QED BY <3>1, LotFields
  <2>3. entry = [LotOf(o) EXCEPT !.status = "open"]
    BY <2>1
  <2> HIDE DEF o, entry
  <2>4. entry = [symbol |-> o.symbol, qty |-> o.qty, status |-> "open"]
    BY <2>3, LotFields
  <2> QED BY <1>2, <2>1, <2>2, <2>4
<1> HIDE DEF n, o, entry
<1>7. /\ entered.orders = [k \in 1..n |-> IF k = n THEN entry ELSE LotOf(orders[k])]
      /\ entered.pos = pos
      /\ entered = [orders |-> entered.orders, pos |-> pos]
  BY <1>4, <1>5 DEF L!With
<1>8. ASSUME o.status = "open" PROVE InMemory' = entered
  <2>1. LotOf(o) = entry
    BY <1>2, <1>6, <1>8 DEF LotOf
  <2>2. \A k \in 1..n : LotOf(orders'[k]) = IF k = n THEN entry ELSE LotOf(orders[k])
    BY <1>2, <1>4, <2>1 DEF o
  <2> HIDE DEF entered
  <2>3. [k \in 1..n |-> LotOf(orders'[k])] = entered.orders
    BY <1>7, <2>2
  <2> QED BY <1>2, <1>5, <1>7, <1>8, <2>3
<1>9. ASSUME o.status = "complete" PROVE InMemory' = L!Filled(entered, {n})
  <2> DEFINE filled == L!Filled(entered, {n})
  <2>1. entered.orders[n] = entry /\ DOMAIN entered.orders = 1..n
    BY <1>4, <1>7
  <2>2. filled = [orders |-> L!Marked(entered, {n}, "complete"),
                  pos |-> [s \in Symbols |-> entered.pos[s] + L!Total(entered, {k \in {n} : entered.orders[k].symbol = s})]]
    BY DEF L!Filled
  <2> HIDE DEF entered, filled
  <2>3. L!Marked(entered, {n}, "complete")
          = [k \in 1..n |-> IF k \in {n} THEN [entered.orders[k] EXCEPT !.status = "complete"] ELSE entered.orders[k]]
    BY <2>1 DEF L!Marked
  <2>4. \A k \in 1..n : LotOf(orders'[k])
          = IF k \in {n} THEN [entered.orders[k] EXCEPT !.status = "complete"] ELSE entered.orders[k]
    <3> SUFFICES ASSUME NEW k \in 1..n
                 PROVE LotOf(orders'[k]) = IF k \in {n} THEN [entered.orders[k] EXCEPT !.status = "complete"]
                                           ELSE entered.orders[k]
      OBVIOUS
    <3>1. CASE k = n
      <4>1. [entry EXCEPT !.status = "complete"] = [symbol |-> symbol, qty |-> qty, status |-> "complete"]
        BY <1>6
      <4>2. LotOf(o) = [symbol |-> symbol, qty |-> qty, status |-> "complete"]
        BY <1>2, <1>9 DEF LotOf
      <4> QED BY <2>1, <3>1, <4>1, <4>2 DEF o
    <3>2. CASE k # n
      BY <1>2, <1>4, <1>7, <3>2
    <3> QED BY <3>1, <3>2
  <2>5. [k \in 1..n |-> LotOf(orders'[k])] = L!Marked(entered, {n}, "complete")
    BY <2>3, <2>4
  <2>6. ASSUME NEW s \in Symbols
        PROVE  pos'[s] = entered.pos[s] + L!Total(entered, {k \in {n} : entered.orders[k].symbol = s})
    <3>1. entered.orders[n].qty = qty /\ entered.orders[n].symbol = symbol /\ qty \in Int
      BY <1>6, <2>1
    <3>2. L!Total(entered, {k \in {n} : entered.orders[k].symbol = s}) = IF symbol = s THEN qty ELSE 0
      BY <3>1, LedgerOne
    <3> QED BY <1>2, <1>5, <1>7, <1>9, <3>2
  <2>7. pos' \in [Symbols -> Int]
    BY DEF Strong, Firm, BookInv, BookTypes
  <2>8. pos' = [s \in Symbols |-> entered.pos[s] + L!Total(entered, {k \in {n} : entered.orders[k].symbol = s})]
    BY <2>6, <2>7
  <2>9. InMemory' = filled
    BY <1>5, <2>2, <2>5, <2>8
  <2> QED BY <2>9 DEF filled
<1>10. InMemory' = entered \/ InMemory' = L!Filled(entered, {n})
  BY <1>4, <1>8, <1>9 DEF o
<1>11. n \in DOMAIN InMemory'.orders /\ n \notin DOMAIN InMemory.orders
  BY <1>4, <1>5
<1>12. L!Enter(n)
  BY <1>6, <1>10, <1>11 DEF L!Enter, entry
<1> QED
  BY <1>3, <1>11, <1>12 DEF L!Work

\* A tick's fills move the positions by the orders that fill.
LEMMA TickLedger ==
    ASSUME Strong, Strong', NEW ks \in SUBSET DOMAIN orders, TickFills(ks)
    PROVE  L!Work
<1>1. /\ Inductive /\ BookInv /\ Inductive'
  BY DEF Strong, Firm
<1>2. /\ \A k \in ks : /\ orders[k].status = "open" /\ orders'[k].status = "complete"
                       /\ SameOrder(orders'[k], orders[k])
      /\ \A k \in (1..serial) \ ks : orders'[k] = orders[k]
  BY <1>1, TickBook
<1>3. /\ serial' = serial /\ brokerFile' = brokerFile
      /\ pos' = [s \in Symbols |-> pos[s] + QtyOf({k \in ks : orders[k].symbol = s})]
  BY DEF TickFills, files
<1>4. /\ DOMAIN InMemory.orders = 1..serial /\ DOMAIN orders = 1..serial /\ ks \in SUBSET (1..serial)
      /\ \A k \in 1..serial : InMemory.orders[k] = LotOf(orders[k])
      /\ InMemory.pos = pos
      /\ InMemory' = [orders |-> InMemory'.orders, pos |-> pos']
  <2>1. DOMAIN orders = 1..serial
    BY <1>1 DEF Inductive, OrdersInv
  <2> QED BY <2>1, ShownBook DEF InMemory
<1>5. InMemory'.orders = L!Marked(InMemory, ks, "complete")
  <2>1. \A k \in ks : /\ orders'[k].symbol = orders[k].symbol /\ orders'[k].qty = orders[k].qty
                      /\ orders'[k].status = "complete"
    BY <1>2 DEF SameOrder
  <2> QED BY <1>2, <1>3, <1>4, <2>1, MarkedLedger
<1>6. ASSUME NEW s \in Symbols
      PROVE  QtyOf({k \in ks : orders[k].symbol = s}) = L!Total(InMemory, {k \in ks : InMemory.orders[k].symbol = s})
  <2> DEFINE T == {k \in ks : orders[k].symbol = s}
  <2>1. \A k \in ks : InMemory.orders[k].symbol = orders[k].symbol /\ InMemory.orders[k].qty = orders[k].qty
    BY <1>4, LotFields
  <2>2. T = {k \in ks : InMemory.orders[k].symbol = s} /\ \A k \in T : InMemory.orders[k].qty = orders[k].qty
    BY <2>1
  <2> HIDE DEF T
  <2>3. [k \in T |-> InMemory.orders[k].qty] = [k \in T |-> orders[k].qty]
    BY <2>2
  <2>4. L!Total(InMemory, T) = SumFunctionOnSet([k \in T |-> InMemory.orders[k].qty], T)
    BY LedgerTotal
  <2>5. QtyOf(T) = L!Total(InMemory, T)
    BY <2>3, <2>4 DEF QtyOf
  <2> QED BY <2>2, <2>5 DEF T
<1>7. pos' = [s \in Symbols |-> InMemory.pos[s] + L!Total(InMemory, {k \in ks : InMemory.orders[k].symbol = s})]
  BY <1>3, <1>4, <1>6
<1>8. InMemory' = L!Filled(InMemory, ks)
  BY <1>4, <1>5, <1>7 DEF L!Filled
<1>9. ks \in SUBSET L!Open(InMemory)
  <2>1. \A k \in ks : k \in DOMAIN InMemory.orders /\ InMemory.orders[k].status = "open"
    BY <1>2, <1>4, LotFields
  <2> QED BY <2>1 DEF L!Open
<1> QED
  BY <1>3, <1>8, <1>9, StillLedger DEF L!Fill, L!Work

\* The kill switch cancels what is not complete.
LEMMA KillCancelsLedger ==
    ASSUME Strong, Strong', KillCancels
    PROVE  L!Work
<1> DEFINE ks == {k \in 1..serial : ~Complete(k)}
<1>1. /\ DOMAIN orders = 1..serial /\ serial' = serial /\ pos' = pos
      /\ orders \in [1..serial -> OrderRec] /\ ks \in SUBSET (1..serial)
      /\ orders' = [k \in DOMAIN orders |->
                      IF Complete(k) THEN orders[k] ELSE [orders[k] EXCEPT !.status = "cancelled"]]
      /\ brokerFile' = IF \A k \in DOMAIN orders : Complete(k)
                       THEN brokerFile ELSE [BrokerState EXCEPT !.orders = orders']
  BY DEF KillCancels, Strong, Firm, Inductive, OrdersInv
<1>2. /\ \A k \in ks : /\ orders'[k].symbol = orders[k].symbol /\ orders'[k].qty = orders[k].qty
                       /\ orders'[k].status = "cancelled"
      /\ \A k \in (1..serial) \ ks : orders'[k] = orders[k]
  <2>1. ASSUME NEW k \in ks
        PROVE  /\ orders'[k].symbol = orders[k].symbol /\ orders'[k].qty = orders[k].qty
               /\ orders'[k].status = "cancelled"
    <3>1. orders[k] \in OrderRec /\ orders'[k] = [orders[k] EXCEPT !.status = "cancelled"]
      BY <1>1
    <3> QED BY <3>1 DEF OrderRec
  <2>2. ASSUME NEW k \in (1..serial) \ ks PROVE orders'[k] = orders[k]
    BY <1>1
  <2> QED BY <2>1, <2>2
<1>3. \A k \in ks : k \in DOMAIN InMemory.orders /\ InMemory.orders[k].status # "complete"
  <2>1. \A k \in ks : k \in 1..serial /\ orders[k].status # "complete"
    BY <1>1 DEF Complete, CompleteIn
  <2>2. \A k \in 1..serial : k \in DOMAIN InMemory.orders /\ InMemory.orders[k] = LotOf(orders[k])
    BY ShownBook
  <2> QED BY <2>1, <2>2, LotFields
<1>4. CASE \A k \in DOMAIN orders : Complete(k)
  <2>1. orders' = orders
    BY <1>1, <1>4
  <2> QED BY <1>1, <1>4, <2>1, StillLedger DEF L!Work
<1>5. CASE ~(\A k \in DOMAIN orders : Complete(k))
  <2>1. brokerFile' = [orders |-> orders', pos |-> pos', overridden |-> overridden']
    <3>1. brokerFile' = [BrokerState EXCEPT !.orders = orders'] /\ overridden' = overridden
      BY <1>1, <1>5 DEF KillCancels, history
    <3> QED BY <1>1, <3>1 DEF BrokerState
  <2>2. OnFile' = InMemory'
    BY <2>1, SavedLedger
  <2> HIDE DEF ks
  <2>3. InMemory'.orders = L!Marked(InMemory, ks, "cancelled")
    BY <1>1, <1>2, MarkedLedger
  <2>4. InMemory' = L!Cancelled(InMemory, ks)
    BY <1>1, <2>3 DEF InMemory, L!Cancelled
  <2>5. ks \in SUBSET L!Pending(InMemory)
    BY <1>3 DEF L!Pending
  <2> QED BY <2>2, <2>4, <2>5 DEF L!Cancel, L!Work
<1> QED
  BY <1>4, <1>5

\* And flattens what is held.
LEMMA KillClosesLedger ==
    ASSUME Strong, KillCloses
    PROVE  L!Work
<1>1. pos' = Nothing /\ orders' = orders /\ brokerFile' = brokerFile
  BY DEF KillCloses, files
<1>2. InMemory' = [orders |-> InMemory.orders, pos |-> Nothing]
  BY <1>1 DEF InMemory, Lots
<1>3. L!Flattened(InMemory, Symbols) = [orders |-> InMemory.orders, pos |-> Nothing]
  BY DEF L!Flattened, Nothing
<1>4. L!Flatten
  BY <1>2, <1>3 DEF L!Flatten
<1> QED
  BY <1>1, <1>4, StillLedger DEF L!Work

\* A crash goes back to the file: what the file had is what the next start finds.
LEMMA CrashLedger == ASSUME Strong, Crash PROVE L!Restart
<1>1. orders' = brokerFile.orders /\ pos' = brokerFile.pos /\ brokerFile' = brokerFile
  BY DEF Crash, files
<1>2. InMemory' = OnFile /\ OnFile' = OnFile
  BY <1>1 DEF InMemory, OnFile, Lots
<1>3. OnFile = L!Cancelled(OnFile, {})
  <2>1. OnFile.orders = [k \in DOMAIN OnFile.orders |-> OnFile.orders[k]]
    BY DEF OnFile, Lots
  <2>2. L!Marked(OnFile, {}, "cancelled") = [k \in DOMAIN OnFile.orders |-> OnFile.orders[k]]
    BY DEF L!Marked
  <2>3. OnFile = [orders |-> OnFile.orders, pos |-> OnFile.pos]
    BY DEF OnFile
  <2> QED BY <2>1, <2>2, <2>3 DEF L!Cancelled
<1> QED
  BY <1>2, <1>3 DEF L!Restart

\* The repair sets the positions from the journal and saves.
LEMMA RecoverLedger == ASSUME Strong, Recover PROVE L!Restate
<1>1. /\ orders' = orders /\ pos' = [s \in Symbols |-> Journalled(s)] /\ brokerFile' = BrokerState'
  BY DEF Recover
<1>2. OnFile' = InMemory'
  BY <1>1, SavedLedger
<1>3. \A s \in Symbols : Journalled(s) \in Int
  BY JournalledInt DEF Strong, Firm
<1>4. InMemory'.pos = pos' /\ InMemory' = [orders |-> InMemory.orders, pos |-> InMemory'.pos]
  BY <1>1 DEF InMemory, Lots
<1>5. pos' \in [Symbols -> Int]
  BY <1>1, <1>3
<1> QED
  BY <1>2, <1>4, <1>5 DEF L!Restate

\* Every step of the order manager is one of the ledger's, or shows nothing.
LEMMA LedgerStep == Strong /\ Strong' /\ [Next]_vars => [L!Next]_<<InMemory, OnFile>>
<1> SUFFICES ASSUME Strong, Strong', [Next]_vars PROVE L!Next \/ UNCHANGED <<InMemory, OnFile>>
  OBVIOUS
<1>1. ASSUME UNCHANGED <<orders, pos, brokerFile>> PROVE UNCHANGED <<InMemory, OnFile>>
  BY <1>1, StillLedger
<1>2. CASE UNCHANGED vars
  BY <1>1, <1>2 DEF vars, broker, files
<1>3. ASSUME NEW plan \in Plans, BeginOpen(plan) PROVE UNCHANGED <<InMemory, OnFile>>
  BY <1>1, <1>3 DEF BeginOpen, broker, files
<1>4. ASSUME PlaceLeg PROVE L!Next
  <2> DEFINE leg == op.plan[op.next]
  <2>1. leg.symbol \in Symbols /\ leg.qty \in Int \ {0}
    <3>1. /\ op.kind = "open" /\ op.next <= Len(op.plan) /\ op.plan \in Seq(Leg)
          /\ op.placed \in Seq(1..serial) /\ op.next \in Nat /\ Len(op.placed) = op.next - 1
      BY <1>4 DEF PlaceLeg, Strong, Firm, Inductive, OpInv
    <3>2. op.next \in 1..Len(op.plan)
      <4>1. Len(op.placed) \in Nat /\ Len(op.plan) \in Nat
        BY <3>1
      <4> QED BY <3>1, <4>1
    <3>3. leg \in Leg
      BY <3>1, <3>2
    <3> QED BY <3>3 DEF Leg
  <2>2. Place(leg.symbol, leg.qty, 0)
    BY <1>4 DEF PlaceLeg
  <2> HIDE DEF leg
  <2> QED BY <2>1, <2>2, PlaceLedger DEF L!Next
<1>5. ASSUME EndOpen PROVE UNCHANGED <<InMemory, OnFile>>
  BY <1>1, <1>5 DEF EndOpen, broker
<1>6. ASSUME NEW t \in TradeIds, BeginClose(t) PROVE UNCHANGED <<InMemory, OnFile>>
  BY <1>1, <1>6 DEF BeginClose, broker, files
<1>7. ASSUME CloseLeg PROVE L!Next \/ UNCHANGED <<InMemory, OnFile>>
  <2> DEFINE leg == trades[op.trade].legs[op.next]
  <2>1. leg \in LegRec
    BY <1>7, ClosedLeg DEF Strong, Firm
  <2>2. Place(leg.symbol, ClosingQty(leg.qty), leg.order) \/ UNCHANGED <<broker, brokerFile>>
    BY <1>7 DEF CloseLeg
  <2> HIDE DEF leg
  <2>3. leg.symbol \in Symbols /\ leg.order \in Nat /\ ClosingQty(leg.qty) \in Int \ {0}
    BY <2>1 DEF LegRec, ClosingQty
  <2>4. CASE Place(leg.symbol, ClosingQty(leg.qty), leg.order)
    BY <2>3, <2>4, PlaceLedger DEF L!Next
  <2>5. CASE UNCHANGED <<broker, brokerFile>>
    BY <1>1, <2>5 DEF broker
  <2> QED BY <2>2, <2>4, <2>5
<1>8. ASSUME EndClose PROVE UNCHANGED <<InMemory, OnFile>>
  BY <1>1, <1>8 DEF EndClose, broker
<1>9. ASSUME TickSaves \/ Shutdown PROVE L!Next
  <2>1. brokerFile' = BrokerState /\ UNCHANGED <<orders, pos, overridden>>
    BY <1>9 DEF TickSaves, Shutdown, broker, history
  <2>2. brokerFile' = BrokerState'
    BY <2>1 DEF BrokerState
  <2> QED BY <2>1, <2>2, SavedLedger, StillLedger DEF L!Work, L!Next
<1>10. ASSUME Start \/ CheckDrift PROVE UNCHANGED <<InMemory, OnFile>>
  BY <1>1, <1>10 DEF Start, CheckDrift, broker, files
<1>11. CASE Next
  BY <1>3, <1>4, <1>5, <1>6, <1>7, <1>8, <1>9, <1>10, <1>11, TickLedger, KillCancelsLedger,
     KillClosesLedger, CrashLedger, RecoverLedger DEF Next, L!Next
<1> QED
  BY <1>2, <1>11

\* The broker under the order manager implements the ledger that the paper broker
\* implements: for every set of plans, whatever the journal does to it, positions
\* move by whole orders, once each, or are flattened or set and saved, and a
\* restart goes on from a book that was once saved.
THEOREM KeepsTheLedger == Spec => BrokerIsLedger
<1>1. Init => L!Init
  <2> SUFFICES ASSUME Init PROVE L!Init
    OBVIOUS
  <2>1. /\ InMemory = [orders |-> Lots(EmptyMap), pos |-> Nothing]
        /\ OnFile = [orders |-> Lots(EmptyMap), pos |-> Nothing]
    BY DEF Init, InMemory, OnFile
  <2>2. Lots(EmptyMap) = [k \in {} |-> 0]
    BY DEF Lots, EmptyMap
  <2> QED BY <2>1, <2>2 DEF L!Init, L!NoBook, L!Nothing, Nothing
<1> QED
  BY <1>1, AlwaysStrong, LedgerStep, PTL DEF Spec, L!Spec, BrokerIsLedger

------------------------------------------------------------------------------
(* The bot with the repair scripts.  A script takes orders or trades away   *)
(* from the files, so that the broker no longer knows every order there is  *)
(* and the files no longer say what is in memory.  What is left is that     *)
(* every journal there is, in memory, on disk or in a script's hands, has   *)
(* an exact map of its own trades, and that a bot that is up still has the  *)
(* orders of its own trades.                                                *)

Numbered(os) == os \in [DOMAIN os -> OrderRec] /\ DOMAIN os \subseteq Nat

IsBook(b) ==
    /\ b = [orders |-> b.orders, pos |-> b.pos, overridden |-> b.overridden]
    /\ Numbered(b.orders)

IsJournal(j) == j.trades \in Seq(Trade) /\ MapExact(j.symMap, j.trades)

MemoryInv ==
    /\ serial \in Nat /\ Numbered(orders)
    /\ trades \in Seq(Trade) /\ MapExact(symMap, trades)

\* Trades made since the start consist of orders the broker has.
OwnOrders ==
    \A t \in DOMAIN trades : ~trades[t].copied =>
        \A i \in DOMAIN trades[t].legs : trades[t].legs[i].order \in DOMAIN orders

OpBeside ==
    /\ op.kind = "open" =>
         /\ op.plan \in Seq(Leg) /\ op.placed \in Seq(DOMAIN orders)
         /\ op.next \in Nat /\ Len(op.placed) = op.next - 1
         /\ op.next <= Len(op.plan) + 1
         /\ Duplicates(op.plan) = {}
    /\ op.kind = "close" => op.trade \in OpenTrades /\ op.next \in Nat \ {0}

BotInv == MemoryInv /\ IsBook(brokerFile) /\ IsJournal(tradesFile) /\ (up => OwnOrders /\ OpBeside)

\* Alone, a script still has what is in the files until it writes them.
AloneInv ==
    /\ alone => ~up
    /\ alone /\ script.kind \in {"rebuild", "ghosts", "fresh"} => tradesFile = script.journal
    /\ alone /\ script.kind \in {"stop", "reset"} => tradesFile = NoJournal
    /\ AloneTakes

IsScript(s) ==
    /\ s = [kind |-> s.kind, book |-> s.book, journal |-> s.journal]
    /\ IsBook(s.book) /\ IsJournal(s.journal)

ScriptsInv == BotInv /\ IsScript(script) /\ AloneInv

------------------------------------------------------------------------------
\* An empty book and an empty journal.
LEMMA NothingIsFine == IsBook(NoBook) /\ IsJournal(NoJournal)
<1>1. NoBook.orders = EmptyMap /\ NoJournal.trades = <<>> /\ NoJournal.symMap = EmptyMap
  BY DEF NoBook, NoJournal
<1>2. DOMAIN EmptyMap = {} /\ EmptyMap \in [{} -> OrderRec]
  BY DEF EmptyMap
<1>3. Numbered(EmptyMap)
  BY <1>2 DEF Numbered
<1>4. IsBook(NoBook)
  BY <1>1, <1>3 DEF IsBook, NoBook
<1>5. MapExact(EmptyMap, <<>>) /\ <<>> \in Seq(Trade)
  BY <1>2 DEF MapExact
<1> QED
  BY <1>1, <1>4, <1>5 DEF IsJournal

\* No script has nothing in its hands.
LEMMA NoScriptIsScript == IsScript(NoScript)
  BY NothingIsFine DEF NoScript, IsScript

\* A sequence over a set is one over a larger set.
LEMMA SeqOfMore ==
    ASSUME NEW S, NEW T, S \subseteq T, NEW s \in Seq(S)
    PROVE  s \in Seq(T)
<1>1. s \in [1..Len(s) -> S] /\ Len(s) \in Nat
  BY LenProperties
<1>2. s \in [1..Len(s) -> T]
  BY <1>1
<1> QED
  BY <1>1, <1>2, FunctionIsSeq

\* A step that leaves the journal and its file alone and loses no order.
LEMMA BesideKeeps ==
    ASSUME BotInv, UNCHANGED <<journal, tradesFile>>, serial' \in Nat,
           Numbered(orders'), IsBook(brokerFile'),
           up' => up /\ DOMAIN orders \subseteq DOMAIN orders' /\ OpBeside'
    PROVE  BotInv'
<1>1. trades' = trades /\ symMap' = symMap /\ tradesFile' = tradesFile
  BY DEF journal
<1>2. up' => OwnOrders'
  BY <1>1 DEF BotInv, OwnOrders
<1> QED
  BY <1>1, <1>2 DEF BotInv, MemoryInv

\* The operation under way goes on when no order is lost.
LEMMA OpGoesOn ==
    ASSUME OpBeside, UNCHANGED journal, DOMAIN orders \subseteq DOMAIN orders',
           op' = op \/ op'.kind \notin {"open", "close"}
    PROVE  OpBeside'
<1>1. UNCHANGED <<OpenTrades, TradeIds, trades>>
  BY DEF OpenTrades, TradeIds, journal
<1>2. CASE op'.kind \notin {"open", "close"}
  BY <1>2 DEF OpBeside
<1>3. CASE op' = op
  <2>1. \A p : Duplicates(p)' = Duplicates(p)
    BY <1>1 DEF Duplicates
  <2>2. op.kind = "open" => op.placed \in Seq(DOMAIN orders')
    BY SeqOfMore DEF OpBeside
  <2>3. op.kind = "open" => Duplicates(op.plan)' = {}
    BY <1>1, <1>3 DEF Duplicates, OpBeside
  <2> QED BY <1>1, <1>3, <2>2, <2>3 DEF OpBeside
<1> QED BY <1>2, <1>3

\* What the broker has in memory is a book.
LEMMA MemoryIsBook == ASSUME Numbered(orders) PROVE IsBook(BrokerState)
  BY DEF BrokerState, IsBook

\* An order more, with a number of its own.
LEMMA PlaceNumbers ==
    ASSUME serial \in Nat, Numbered(orders), NEW symbol \in Symbols, NEW qty \in Int \ {0},
           NEW closes \in Nat, Place(symbol, qty, closes)
    PROVE  /\ serial' \in Nat /\ Numbered(orders') /\ IsBook(brokerFile')
           /\ DOMAIN orders' = (DOMAIN orders) \cup {serial'}
<1>1. PICK fills \in BOOLEAN :
        orders' = [k \in DOMAIN orders \cup {serial'} |->
                     IF k # serial' THEN orders[k]
                     ELSE IF fills
                          THEN Filled([symbol |-> symbol, qty |-> qty, closes |-> closes,
                                       status |-> "open", late |-> FALSE], FALSE)
                          ELSE [symbol |-> symbol, qty |-> qty, closes |-> closes,
                                status |-> "open", late |-> FALSE]]
  BY DEF Place
<1> DEFINE entry == [symbol |-> symbol, qty |-> qty, closes |-> closes,
                     status |-> "open", late |-> FALSE]
           done == [symbol |-> symbol, qty |-> qty, closes |-> closes,
                    status |-> "complete", late |-> FALSE]
           new == IF fills THEN done ELSE entry
<1>2. entry \in OrderRec /\ done \in OrderRec
  BY DEF OrderRec, Status
<1>3. Filled(entry, FALSE) = done
  BY <1>2, FilledOrder
<1>4. orders' = [k \in DOMAIN orders \cup {serial'} |-> IF k # serial' THEN orders[k] ELSE new]
  BY <1>1, <1>3
<1>5. new \in OrderRec
  BY <1>2
<1>6. serial' \in Nat
  BY DEF Place
<1>7. orders \in [DOMAIN orders -> OrderRec] /\ DOMAIN orders \subseteq Nat
  BY DEF Numbered
<1> HIDE DEF new
<1>8. DOMAIN orders' = (DOMAIN orders) \cup {serial'}
  BY <1>4
<1>9. \A k \in DOMAIN orders' : orders'[k] \in OrderRec
  BY <1>4, <1>5, <1>7
<1>10. orders' = [k \in DOMAIN orders' |-> orders'[k]]
  BY <1>4
<1>11. Numbered(orders')
  BY <1>6, <1>7, <1>8, <1>9, <1>10 DEF Numbered
<1>12. brokerFile' = [orders |-> orders', pos |-> pos', overridden |-> overridden']
  BY DEF Place, BrokerState
<1>13. IsBook(brokerFile')
  BY <1>11, <1>12 DEF IsBook
<1> QED
  BY <1>6, <1>8, <1>11, <1>13

\* A journal saved with orders the broker has.
LEMMA SavedIsJournal ==
    ASSUME SaveJournal, IsJournal(tradesFile), trades' \in Seq(Trade), MapExact(symMap', trades'),
           Numbered(orders), UNCHANGED orders, OwnOrders'
    PROVE  IsJournal(tradesFile')
<1>1. \A t \in DOMAIN trades' : ~trades'[t].copied =>
         \A i \in DOMAIN trades'[t].legs : orders[trades'[t].legs[i].order] \in OrderRec
  BY DEF OwnOrders, Numbered
<1>2. JournalRecord(trades') \in Seq(Trade) /\ SameTrades(JournalRecord(trades'), trades')
  BY <1>1, RecordIsSame
<1>3. MapExact(symMap', JournalRecord(trades'))
  BY <1>2, ExactForSame
<1>4. CASE tradesFile' = [trades |-> JournalRecord(trades'), symMap |-> symMap']
  <2>1. tradesFile'.trades = JournalRecord(trades') /\ tradesFile'.symMap = symMap'
    BY <1>4
  <2> QED BY <1>2, <1>3, <2>1 DEF IsJournal
<1>5. CASE UNCHANGED tradesFile
  BY <1>5 DEF IsJournal
<1> QED
  BY <1>4, <1>5 DEF SaveJournal

------------------------------------------------------------------------------
(* The steps of the bot. *)

\* A leg placed for a new trade.
LEMMA PlaceLegBeside == ASSUME BotInv, PlaceLeg PROVE BotInv'
<1>1. /\ up /\ op.kind = "open" /\ op.next <= Len(op.plan)
      /\ op.plan \in Seq(Leg) /\ op.placed \in Seq(DOMAIN orders)
      /\ op.next \in Nat /\ Len(op.placed) = op.next - 1
      /\ Duplicates(op.plan) = {}
  BY DEF PlaceLeg, Ready, BotInv, OpBeside
<1>2. op.next \in 1..Len(op.plan)
  <2>1. Len(op.placed) \in Nat /\ Len(op.plan) \in Nat
    BY <1>1, LenProperties
  <2> QED BY <1>1, <2>1
<1>3. op.plan[op.next].symbol \in Symbols /\ op.plan[op.next].qty \in Int \ {0}
  <2>1. op.plan[op.next] \in Leg
    BY <1>1, <1>2, ElementOfSeq
  <2> QED BY <2>1 DEF Leg
<1>4. /\ serial' \in Nat /\ Numbered(orders') /\ IsBook(brokerFile')
      /\ DOMAIN orders' = (DOMAIN orders) \cup {serial'}
  <2>1. Place(op.plan[op.next].symbol, op.plan[op.next].qty, 0) /\ 0 \in Nat
    BY DEF PlaceLeg
  <2>2. serial \in Nat /\ Numbered(orders)
    BY DEF BotInv, MemoryInv
  <2> QED BY <1>3, <2>1, <2>2, PlaceNumbers
<1>5. UNCHANGED <<up, journal, tradesFile>> /\ op' = [op EXCEPT !.next = @ + 1, !.placed = Append(@, serial')]
  BY DEF PlaceLeg
<1>6. /\ op'.kind = op.kind /\ op'.plan = op.plan
      /\ op'.next = op.next + 1 /\ op'.placed = Append(op.placed, serial')
  BY DEF PlaceLeg
<1>7. Append(op.placed, serial') \in Seq(DOMAIN orders') /\ Len(Append(op.placed, serial')) = op.next
  <2>1. op.placed \in Seq(DOMAIN orders') /\ serial' \in DOMAIN orders'
    BY <1>1, <1>4, SeqOfMore
  <2> QED BY <1>1, <2>1, AppendProperties
<1>8. Duplicates(op.plan)' = {}
  BY <1>1, <1>5, <1>6 DEF Duplicates, OpenTrades, TradeIds, journal
<1>9. OpBeside'
  BY <1>1, <1>2, <1>6, <1>7, <1>8 DEF OpBeside
<1> QED
  BY <1>1, <1>4, <1>5, <1>9, BesideKeeps

\* A leg closed or passed over.
LEMMA CloseLegBeside == ASSUME BotInv, CloseLeg PROVE BotInv'
<1> DEFINE leg == trades[op.trade].legs[op.next]
<1>1. /\ up /\ op.kind = "close" /\ op.trade \in OpenTrades /\ op.next \in Nat \ {0}
      /\ op.next <= Len(trades[op.trade].legs)
  BY DEF CloseLeg, Ready, BotInv, OpBeside
<1>2. leg \in LegRec
  <2>1. trades \in Seq(Trade) /\ op.trade \in DOMAIN trades
    BY <1>1 DEF BotInv, MemoryInv, OpenTrades, TradeIds
  <2>2. trades[op.trade].legs \in Seq(LegRec)
    <3>1. trades[op.trade] \in Trade
      BY <2>1
    <3> QED BY <3>1 DEF Trade
  <2>3. op.next \in 1..Len(trades[op.trade].legs)
    BY <1>1, <2>2
  <2> QED BY <2>2, <2>3
<1>3. serial \in Nat /\ Numbered(orders) /\ IsBook(brokerFile)
  BY DEF BotInv, MemoryInv
<1>4. serial' \in Nat /\ Numbered(orders') /\ IsBook(brokerFile') /\ DOMAIN orders \subseteq DOMAIN orders'
  <2>1. CASE LegStatus(op.trade, op.next) = "complete"
    <3>1. Place(leg.symbol, ClosingQty(leg.qty), leg.order)
      BY <2>1 DEF CloseLeg
    <3>2. leg.symbol \in Symbols /\ ClosingQty(leg.qty) \in Int \ {0} /\ leg.order \in Nat
      BY <1>2 DEF LegRec, ClosingQty
    <3> HIDE DEF leg
    <3> QED BY <1>3, <3>1, <3>2, PlaceNumbers
  <2>2. CASE LegStatus(op.trade, op.next) # "complete"
    <3>1. UNCHANGED <<orders, brokerFile, serial>>
      BY <2>2 DEF CloseLeg, broker
    <3> QED BY <1>3, <3>1
  <2> QED BY <2>1, <2>2
<1>5. UNCHANGED <<up, journal, tradesFile>> /\ op' = [op EXCEPT !.next = @ + 1]
  BY DEF CloseLeg
<1>6. OpBeside'
  <2>1. op'.kind = op.kind /\ op'.trade = op.trade /\ op'.next = op.next + 1
    BY <1>5
  <2> QED BY <1>1, <1>5, <2>1 DEF OpBeside, OpenTrades, TradeIds, journal
<1> QED
  BY <1>1, <1>4, <1>5, <1>6, BesideKeeps

\* A trade is entered.
LEMMA EndOpenBeside == ASSUME BotInv, EndOpen PROVE BotInv'
<1> DEFINE id == Len(trades) + 1
<1>1. /\ trades \in Seq(Trade) /\ MapExact(symMap, trades)
      /\ op.plan \in Seq(Leg) /\ op.placed \in Seq(DOMAIN orders)
      /\ op.next \in Nat /\ Len(op.placed) = op.next - 1 /\ op.next <= Len(op.plan) + 1
      /\ Duplicates(op.plan) = {} /\ DOMAIN orders \in SUBSET Nat /\ OwnOrders
      /\ Numbered(orders)
  BY DEF EndOpen, BotInv, OpBeside, MemoryInv, Numbered
<1>2. /\ trades' \in Seq(Trade) /\ DOMAIN trades' = (DOMAIN trades) \cup {id}
      /\ \A t \in DOMAIN trades : trades'[t] = trades[t]
      /\ \A i \in DOMAIN trades'[id].legs : trades'[id].legs[i].order \in DOMAIN orders
      /\ MapExact(symMap', trades')
  BY <1>1, EnteredExact
<1>3. UNCHANGED <<up, serial, orders, brokerFile>> /\ op' = Idle /\ SaveJournal
  BY DEF EndOpen, broker
<1> HIDE DEF id
<1>4. OwnOrders'
  <2>1. ASSUME NEW t \in DOMAIN trades', ~trades'[t].copied, NEW i \in DOMAIN trades'[t].legs
        PROVE  trades'[t].legs[i].order \in DOMAIN orders
    <3>1. CASE t \in DOMAIN trades
      <4>1. trades'[t] = trades[t]
        BY <1>2, <3>1
      <4> QED BY <1>1, <2>1, <3>1, <4>1 DEF OwnOrders
    <3>2. CASE t = id
      BY <1>2, <2>1, <3>2
    <3> QED BY <1>2, <2>1, <3>1, <3>2
  <2> QED BY <1>3, <2>1 DEF OwnOrders
<1>5. IsJournal(tradesFile')
  <2>1. IsJournal(tradesFile)
    BY DEF BotInv
  <2> QED BY <1>1, <1>2, <1>3, <1>4, <2>1, SavedIsJournal
<1>6. OpBeside'
  BY <1>3 DEF OpBeside, Idle
<1> QED
  BY <1>2, <1>3, <1>4, <1>5, <1>6 DEF BotInv, MemoryInv

\* A trade is closed.
LEMMA EndCloseBeside == ASSUME BotInv, EndClose PROVE BotInv'
<1>1. /\ trades \in Seq(Trade) /\ MapExact(symMap, trades) /\ op.trade \in DOMAIN trades
      /\ OwnOrders /\ Numbered(orders)
  BY DEF EndClose, BotInv, OpBeside, OpenTrades, TradeIds, MemoryInv
<1>2. /\ trades' \in Seq(Trade) /\ DOMAIN trades' = DOMAIN trades
      /\ \A t \in DOMAIN trades : /\ trades'[t].legs = trades[t].legs
                                 /\ trades'[t].copied = trades[t].copied
      /\ \A t \in DOMAIN trades : trades[t].closed => trades'[t].closed
      /\ MapExact(symMap', trades')
  BY <1>1, ClosedExact
<1>3. UNCHANGED <<up, serial, orders, brokerFile>> /\ op' = Idle /\ SaveJournal
  BY DEF EndClose, broker
<1>4. OwnOrders'
  BY <1>1, <1>2, <1>3 DEF OwnOrders
<1>5. IsJournal(tradesFile')
  <2>1. IsJournal(tradesFile)
    BY DEF BotInv
  <2> QED BY <1>1, <1>2, <1>3, <1>4, <2>1, SavedIsJournal
<1>6. OpBeside'
  BY <1>3 DEF OpBeside, Idle
<1> QED
  BY <1>2, <1>3, <1>4, <1>5, <1>6 DEF BotInv, MemoryInv

\* A start takes the journal it finds.
LEMMA StartBeside == ASSUME BotInv, Start PROVE BotInv'
<1>1. IsJournal(tradesFile) /\ MemoryInv /\ IsBook(brokerFile)
  BY DEF BotInv
<1>2. /\ trades' \in Seq(Trade) /\ SameTrades(trades', tradesFile.trades)
      /\ \A t \in DOMAIN trades' : trades'[t].copied
  BY <1>1, LoadedIsSame DEF IsJournal
<1>3. /\ symMap' = tradesFile.symMap /\ op'.kind = "startup"
      /\ UNCHANGED <<tradesFile, serial, orders, brokerFile>>
  BY DEF Start, Idle, broker, files
<1>4. MapExact(symMap', trades')
  BY <1>1, <1>2, <1>3, ExactForSame DEF IsJournal
<1>5. OwnOrders' /\ OpBeside'
  BY <1>2, <1>3 DEF OwnOrders, OpBeside
<1> QED
  BY <1>1, <1>2, <1>3, <1>4, <1>5 DEF BotInv, MemoryInv

\* The other steps of a bot that stays up: they lose no order.
LEMMA UpKeeps ==
    ASSUME BotInv, up, UNCHANGED <<journal, tradesFile, serial>>,
           Numbered(orders'), DOMAIN orders' = DOMAIN orders, IsBook(brokerFile'),
           op' = op \/ op'.kind \notin {"open", "close"}
    PROVE  BotInv'
<1>1. OpBeside /\ serial \in Nat
  BY DEF BotInv, MemoryInv
<1>2. OpBeside'
  BY <1>1, OpGoesOn
<1> QED
  BY <1>1, <1>2, BesideKeeps

\* The fills of a tick.
LEMMA FillsBeside == ASSUME BotInv, NEW ks \in SUBSET DOMAIN orders, TickFills(ks) PROVE BotInv'
<1>1. orders \in [DOMAIN orders -> OrderRec] /\ DOMAIN orders \subseteq Nat
  BY DEF BotInv, MemoryInv, Numbered
<1>2. ASSUME NEW k \in DOMAIN orders PROVE Filled(orders[k], IsLate(k)) \in OrderRec
  <2>1. IsLate(k) \in BOOLEAN
    BY DEF IsLate
  <2>2. orders[k] \in OrderRec
    BY <1>1, <1>2
  <2> HIDE DEF IsLate
  <2>3. Filled(orders[k], IsLate(k)) =
           [symbol |-> orders[k].symbol, qty |-> orders[k].qty, closes |-> orders[k].closes,
            status |-> "complete", late |-> IsLate(k)]
    BY <2>1, <2>2, FilledOrder
  <2> QED BY <2>1, <2>2, <2>3 DEF OrderRec, Status
<1>3. orders' = [k \in DOMAIN orders |->
                   IF k \in ks THEN Filled(orders[k], IsLate(k)) ELSE orders[k]]
  BY DEF TickFills
<1>4. orders' \in [DOMAIN orders -> OrderRec]
  BY <1>1, <1>2, <1>3
<1>5. Numbered(orders') /\ DOMAIN orders' = DOMAIN orders
  BY <1>1, <1>4 DEF Numbered
<1>6. up /\ UNCHANGED <<journal, tradesFile, serial, brokerFile, op>> /\ IsBook(brokerFile)
  BY DEF TickFills, Ready, files, BotInv
<1> QED
  BY <1>5, <1>6, UpKeeps

\* The cancellations of a kill.
LEMMA CancelsBeside == ASSUME BotInv, KillCancels PROVE BotInv'
<1>1. orders \in [DOMAIN orders -> OrderRec] /\ DOMAIN orders \subseteq Nat
  BY DEF BotInv, MemoryInv, Numbered
<1>2. ASSUME NEW k \in DOMAIN orders
      PROVE  [orders[k] EXCEPT !.status = "cancelled"] \in OrderRec
  BY <1>1 DEF OrderRec, Status
<1>3. orders' = [k \in DOMAIN orders |->
          IF Complete(k) THEN orders[k] ELSE [orders[k] EXCEPT !.status = "cancelled"]]
  BY DEF KillCancels
<1>4. orders' \in [DOMAIN orders -> OrderRec]
  BY <1>1, <1>2, <1>3
<1>5. Numbered(orders') /\ DOMAIN orders' = DOMAIN orders
  BY <1>1, <1>4 DEF Numbered
<1>6. brokerFile' = brokerFile \/ brokerFile' = [orders |-> orders', pos |-> pos, overridden |-> overridden]
  BY DEF KillCancels, BrokerState
<1>7. IsBook(brokerFile')
  BY <1>5, <1>6 DEF BotInv, IsBook
<1>8. up /\ UNCHANGED <<journal, tradesFile, serial>> /\ op'.kind = "kill"
  BY DEF KillCancels, Ready, Idle
<1> QED
  BY <1>5, <1>7, <1>8, UpKeeps

\* Every step of the bot keeps its invariant, whatever the files were.
LEMMA NextBeside == ASSUME BotInv, Next PROVE BotInv'
<1>0. /\ Numbered(orders) /\ IsBook(brokerFile) /\ serial \in Nat /\ IsBook(BrokerState)
      /\ up => OpBeside
  BY MemoryIsBook DEF BotInv, MemoryInv
<1>1. ASSUME NEW plan \in Plans, BeginOpen(plan) PROVE BotInv'
  <2>1. UNCHANGED <<up, broker, files, journal, serial>> /\ up /\ Duplicates(plan) = {}
    BY <1>1 DEF BeginOpen
  <2>2. op'.kind = "open" /\ op'.plan = plan /\ op'.next = 1 /\ op'.placed = <<>>
    BY <1>1 DEF BeginOpen, Idle
  <2>3. plan \in Seq(Leg) /\ Len(plan) \in Nat
    BY PlansAssumption, LenProperties
  <2>4. Duplicates(plan)' = {}
    BY <2>1 DEF Duplicates, OpenTrades, TradeIds, journal
  <2>5. OpBeside'
    BY <2>2, <2>3, <2>4 DEF OpBeside
  <2> QED BY <1>0, <2>1, <2>5, BesideKeeps DEF broker, files
<1>2. ASSUME NEW t \in TradeIds, BeginClose(t) PROVE BotInv'
  <2>1. UNCHANGED <<up, broker, files, journal, serial>> /\ up /\ t \in OpenTrades
    BY <1>2 DEF BeginClose
  <2>2. op'.kind = "close" /\ op'.trade = t /\ op'.next = 1
    BY <1>2 DEF BeginClose, Idle
  <2>3. OpBeside'
    BY <2>1, <2>2 DEF OpBeside, OpenTrades, TradeIds, journal
  <2> QED BY <1>0, <2>1, <2>3, BesideKeeps DEF broker, files
<1>3. CASE PlaceLeg
  BY <1>3, PlaceLegBeside
<1>4. CASE EndOpen
  BY <1>4, EndOpenBeside
<1>5. CASE CloseLeg
  BY <1>5, CloseLegBeside
<1>6. CASE EndClose
  BY <1>6, EndCloseBeside
<1>7. ASSUME NEW ks \in SUBSET DOMAIN orders, TickFills(ks) PROVE BotInv'
  BY <1>7, FillsBeside
<1>8. CASE TickSaves
  <2>1. up /\ UNCHANGED <<orders, journal, tradesFile, serial, op>> /\ brokerFile' = BrokerState
    BY <1>8 DEF TickSaves, broker
  <2> QED BY <1>0, <2>1, UpKeeps
<1>9. CASE KillCancels
  BY <1>9, CancelsBeside
<1>10. CASE KillCloses
  <2>1. up /\ UNCHANGED <<orders, brokerFile, journal, tradesFile, serial>> /\ op'.kind = "idle"
    BY <1>10 DEF KillCloses, Ready, files, Idle
  <2> QED BY <1>0, <2>1, UpKeeps
<1>11. CASE Shutdown
  <2>1. ~up' /\ UNCHANGED <<orders, journal, tradesFile, serial>> /\ brokerFile' = BrokerState
    BY <1>11 DEF Shutdown, broker
  <2> QED BY <1>0, <2>1, BesideKeeps
<1>12. CASE Crash
  <2>1. ~up' /\ orders' = brokerFile.orders /\ UNCHANGED <<brokerFile, journal, tradesFile, serial>>
    BY <1>12 DEF Crash, files
  <2> QED BY <1>0, <2>1, BesideKeeps DEF IsBook
<1>13. CASE Start
  BY <1>13, StartBeside
<1>14. CASE CheckDrift
  <2>1. up /\ UNCHANGED <<orders, brokerFile, journal, tradesFile, serial>> /\ op'.kind \notin {"open", "close"}
    BY <1>14 DEF CheckDrift, files, broker, Idle
  <2> QED BY <1>0, <2>1, UpKeeps
<1>15. CASE Recover
  <2>1. up /\ UNCHANGED <<orders, journal, tradesFile, serial>> /\ op'.kind = "idle"
    BY <1>15 DEF Recover, Idle
  <2>2. brokerFile' = [orders |-> orders', pos |-> pos', overridden |-> overridden']
    BY <1>15 DEF Recover, BrokerState
  <2>3. IsBook(brokerFile')
    BY <1>0, <2>1, <2>2 DEF IsBook
  <2> QED BY <1>0, <2>1, <2>3, UpKeeps
<1> QED
  BY <1>1, <1>2, <1>3, <1>4, <1>5, <1>6, <1>7, <1>8, <1>9, <1>10, <1>11, <1>12, <1>13, <1>14, <1>15
  DEF Next

------------------------------------------------------------------------------
(* The steps of the scripts. *)

\* While the bot is down the only step it has is its start.
LEMMA DownStarts == ASSUME ~up, Next PROVE Start /\ up'
  BY DEF Next, BeginOpen, PlaceLeg, EndOpen, BeginClose, CloseLeg, EndClose, TickFills, TickSaves,
         KillCancels, KillCloses, Shutdown, Crash, Start, CheckDrift, Recover, Ready

\* A book a script writes, to the file and the memory of a bot that is down.
LEMMA WrittenBeside ==
    ASSUME BotInv, NEW b, IsBook(b), WriteBook(b), UNCHANGED <<up, serial, journal, op>>,
           IsJournal(tradesFile')
    PROVE  BotInv'
<1>1. brokerFile' = b /\ IsBook(brokerFile')
  BY DEF WriteBook
<1>2. MemoryInv'
  <2>1. CASE up
    BY <2>1 DEF WriteBook, BotInv, MemoryInv, journal, broker
  <2>2. CASE ~up
    BY <2>2 DEF WriteBook, BotInv, MemoryInv, journal, IsBook
  <2> QED BY <2>1, <2>2
<1>3. up' => OwnOrders' /\ OpBeside'
  <2>1. SUFFICES ASSUME up PROVE OwnOrders' /\ OpBeside'
    OBVIOUS
  <2>2. UNCHANGED <<orders, journal, op>> /\ OwnOrders /\ OpBeside
    BY <2>1 DEF WriteBook, broker, BotInv
  <2>3. OpBeside'
    BY <2>2, OpGoesOn
  <2>4. OwnOrders'
    BY <2>2 DEF OwnOrders, journal
  <2> QED BY <2>3, <2>4
<1> QED
  BY <1>1, <1>2, <1>3 DEF BotInv

\* A journal a script writes.
LEMMA JournalBeside ==
    ASSUME BotInv, UNCHANGED <<up, serial, journal, op, orders, brokerFile>>, IsJournal(tradesFile')
    PROVE  BotInv'
<1>1. MemoryInv' /\ IsBook(brokerFile')
  BY DEF BotInv, MemoryInv, journal
<1>2. up => OpBeside'
  BY OpGoesOn DEF BotInv
<1>3. up => OwnOrders'
  BY DEF BotInv, OwnOrders, journal
<1> QED
  BY <1>1, <1>2, <1>3 DEF BotInv

\* What cleanup_ghost_trades.py writes has every trade closed and no symbol left.
LEMMA CleanedIsJournal ==
    ASSUME NEW j, IsJournal(j)
    PROVE  /\ IsJournal(Cleaned(j))
           /\ \A t \in DOMAIN Cleaned(j).trades : Cleaned(j).trades[t].closed
<1> DEFINE ts == j.trades
           shut(t) == [legs |-> ts[t].legs, closed |-> TRUE, copied |-> ts[t].copied]
           cleaned == Cleaned(j)
<1>1. ts \in Seq(Trade) /\ DOMAIN ts = 1..Len(ts) /\ Len(ts) \in Nat /\ MapExact(j.symMap, ts)
  BY LenProperties DEF IsJournal
<1>2. ASSUME NEW t \in DOMAIN ts
      PROVE  [ts[t] EXCEPT !.closed = TRUE] = shut(t) /\ shut(t) \in Trade
  <2>1. ts[t] \in Trade
    BY <1>1, <1>2
  <2>2. shut(t) \in Trade
    BY <2>1 DEF Trade
  <2> QED BY <2>1, <2>2, TradeFields
<1>3. cleaned.trades = [t \in DOMAIN ts |-> shut(t)]
  <2>1. cleaned.trades = [t \in DOMAIN ts |-> [ts[t] EXCEPT !.closed = TRUE]]
    BY DEF Cleaned
  <2> HIDE DEF shut, cleaned
  <2> QED BY <1>2, <2>1
<1>4. cleaned.trades \in Seq(Trade)
  <2> HIDE DEF shut, cleaned
  <2>1. cleaned.trades \in [1..Len(ts) -> Trade]
    BY <1>1, <1>2, <1>3
  <2> QED BY <1>1, <2>1, FunctionIsSeq
<1>5. \A t \in DOMAIN cleaned.trades : cleaned.trades[t].closed
  <2> HIDE DEF cleaned
  <2> QED BY <1>3
<1>6. DOMAIN cleaned.symMap = {}
  <2>1. cleaned.symMap = [s \in {x \in DOMAIN j.symMap : ts[j.symMap[x]].closed} |-> j.symMap[s]]
    BY DEF Cleaned
  <2> HIDE DEF cleaned
  <2> QED BY <1>1, <2>1 DEF MapExact
<1> HIDE DEF cleaned
<1>7. MapExact(cleaned.symMap, cleaned.trades)
  BY <1>5, <1>6 DEF MapExact
<1>8. IsJournal(cleaned)
  BY <1>4, <1>7 DEF IsJournal
<1> QED
  BY <1>5, <1>8 DEF cleaned

\* A script begins: it reads both files.
LEMMA BeginKeeps == ASSUME ScriptsInv, NEW kind \in {"rebuild", "ghosts", "fresh"}, Begin(kind) PROVE ScriptsInv'
<1>1. /\ UNCHANGED vars /\ alone' = ~up /\ result'.kind = "none"
      /\ script' = [kind |-> kind, book |-> brokerFile, journal |-> tradesFile]
  BY DEF Begin, NoScript
<1>2. /\ UNCHANGED <<up, serial, journal, op, orders, brokerFile, tradesFile>>
      /\ IsJournal(tradesFile) /\ IsBook(brokerFile)
  BY <1>1 DEF vars, broker, files, ScriptsInv, BotInv
<1>3. BotInv'
  BY <1>2, JournalBeside DEF ScriptsInv
<1>4. AloneInv'
  BY <1>1, <1>2 DEF AloneInv, AloneTakes
<1> QED
  BY <1>1, <1>2, <1>3, <1>4 DEF ScriptsInv, IsScript

\* A book with one of its fields set is otherwise the same.
LEMMA BookFields ==
    \A o, p, v, x :
        /\ [[orders |-> o, pos |-> p, overridden |-> v] EXCEPT !.pos = x]
             = [orders |-> o, pos |-> x, overridden |-> v]
        /\ [[orders |-> o, pos |-> p, overridden |-> v] EXCEPT !.overridden = x]
             = [orders |-> o, pos |-> p, overridden |-> x]
  OBVIOUS

\* rebuild_broker_positions.py writes the positions that its journal adds up to.
LEMMA RebuildKeeps == ASSUME ScriptsInv, Rebuild PROVE ScriptsInv'
<1> DEFINE old == script.book
           book == [old EXCEPT !.pos = Derived(script.journal), !.overridden = TRUE]
           derived == Derived(script.journal)
<1>1. /\ script.kind = "rebuild" /\ WriteBook(book)
      /\ result' = [script EXCEPT !.book = book] /\ script' = NoScript
      /\ UNCHANGED <<up, serial, journal, op, tradesFile, alone>>
  BY DEF Rebuild, End
<1>2. IsBook(old) /\ BotInv /\ AloneInv /\ IsJournal(tradesFile)
  BY DEF ScriptsInv, BotInv, IsScript
<1>3. book = [orders |-> old.orders, pos |-> derived, overridden |-> TRUE]
  <2> HIDE DEF derived
  <2>1. old = [orders |-> old.orders, pos |-> old.pos, overridden |-> old.overridden]
    BY <1>2 DEF IsBook
  <2> HIDE DEF old
  <2> DEFINE moved == [old EXCEPT !.pos = derived]
  <2>4. moved = [orders |-> old.orders, pos |-> derived, overridden |-> old.overridden]
    BY <2>1, BookFields
  <2>5. book = [moved EXCEPT !.overridden = TRUE]
    BY DEF derived
  <2> HIDE DEF moved, book
  <2> QED BY <2>4, <2>5, BookFields
<1>4. IsBook(book)
  <2>1. IsBook([orders |-> old.orders, pos |-> derived, overridden |-> TRUE])
    BY <1>2 DEF IsBook
  <2> HIDE DEF book, old, derived
  <2> QED BY <1>3, <2>1
<1>5. BotInv'
  <2> HIDE DEF book, old, derived
  <2> QED BY <1>1, <1>2, <1>4, WrittenBeside
<1>6. brokerFile'.pos = derived
  <2>1. brokerFile' = book
    BY <1>1 DEF WriteBook
  <2> HIDE DEF book, old, derived
  <2> QED BY <1>3, <2>1
<1>7. ASSUME alone', NEW s \in Symbols PROVE brokerFile'.pos[s] = Journalled(s)'
  <2>1. tradesFile' = script.journal
    BY <1>1, <1>2, <1>7 DEF AloneInv
  <2>2. derived[s] = SumLegs(script.journal.trades, {p \in LegsIn(script.journal.trades) :
            /\ ~script.journal.trades[p[1]].closed
            /\ script.journal.trades[p[1]].legs[p[2]].symbol = s
            /\ script.journal.trades[p[1]].legs[p[2]].seen = "complete"})
    BY DEF Derived
  <2>3. Journalled(s)' = SumLegs(tradesFile'.trades, {p \in LegsIn(tradesFile'.trades) :
            /\ ~tradesFile'.trades[p[1]].closed
            /\ tradesFile'.trades[p[1]].legs[p[2]].symbol = s
            /\ tradesFile'.trades[p[1]].legs[p[2]].seen = "complete"})
    BY DEF Journalled
  <2> HIDE DEF derived
  <2> QED BY <1>6, <2>1, <2>2, <2>3
<1>8. result'.kind = "rebuild"
  <2>1. \A k, a, b, j : [[kind |-> k, book |-> a, journal |-> j] EXCEPT !.book = b].kind = k
    OBVIOUS
  <2>2. script = [kind |-> script.kind, book |-> script.book, journal |-> script.journal]
    BY DEF ScriptsInv, IsScript
  <2> HIDE DEF book
  <2>3. [script EXCEPT !.book = book].kind = script.kind
    BY <2>1, <2>2
  <2> QED BY <1>1, <2>3
<1>9. script'.kind = "none" /\ IsScript(script')
  BY <1>1, NoScriptIsScript DEF NoScript
<1>10. AloneInv'
  <2>1. AloneTakes'
    <3> HIDE DEF book, old, derived
    <3> QED BY <1>7, <1>8 DEF AloneTakes
  <2> HIDE DEF book, old, derived
  <2> QED BY <1>1, <1>2, <1>9, <2>1 DEF AloneInv
<1> QED
  BY <1>5, <1>9, <1>10 DEF ScriptsInv

\* cleanup_ghost_trades.py closes every trade of its journal.
LEMMA CleanKeeps == ASSUME ScriptsInv, CleanGhosts PROVE ScriptsInv'
<1> DEFINE cleaned == Cleaned(script.journal)
<1>1. /\ script.kind = "ghosts" /\ tradesFile' = cleaned
      /\ result' = [script EXCEPT !.journal = cleaned] /\ script' = NoScript
      /\ UNCHANGED <<up, serial, journal, op, orders, brokerFile, alone>>
  BY DEF CleanGhosts, End, broker
<1>2. IsJournal(script.journal) /\ BotInv /\ AloneInv
  BY DEF ScriptsInv, IsScript
<1>3. IsJournal(cleaned) /\ \A t \in DOMAIN cleaned.trades : cleaned.trades[t].closed
  BY <1>2, CleanedIsJournal
<1> HIDE DEF cleaned
<1>4. BotInv'
  BY <1>1, <1>2, <1>3, JournalBeside
<1>5. result'.kind = "ghosts"
  <2>1. \A k, b, j, i : [[kind |-> k, book |-> b, journal |-> j] EXCEPT !.journal = i].kind = k
    OBVIOUS
  <2>2. script = [kind |-> script.kind, book |-> script.book, journal |-> script.journal]
    BY DEF ScriptsInv, IsScript
  <2>3. [script EXCEPT !.journal = cleaned].kind = script.kind
    BY <2>1, <2>2
  <2> QED BY <1>1, <2>3
<1>6. script'.kind = "none" /\ IsScript(script')
  BY <1>1, NoScriptIsScript DEF NoScript
<1>7. AloneTakes'
  BY <1>1, <1>3, <1>5 DEF AloneTakes
<1>8. AloneInv'
  BY <1>1, <1>2, <1>6, <1>7 DEF AloneInv
<1> QED
  BY <1>4, <1>6, <1>8 DEF ScriptsInv

\* fresh_start.py takes the files away first.
LEMMA RemoveKeeps == ASSUME ScriptsInv, RemoveFiles PROVE ScriptsInv'
<1>1. /\ script.kind = "fresh" /\ WriteBook(NoBook) /\ tradesFile' = NoJournal
      /\ script' = [script EXCEPT !.kind = "stop"]
      /\ UNCHANGED <<up, serial, journal, op, alone>>
  BY DEF RemoveFiles
<1>2. BotInv'
  BY <1>1, NothingIsFine, WrittenBeside DEF ScriptsInv
<1>3. script' = [kind |-> "stop", book |-> script.book, journal |-> script.journal]
  BY <1>1 DEF ScriptsInv, IsScript
<1>4. IsScript(script') /\ script'.kind = "stop"
  BY <1>3 DEF ScriptsInv, IsScript
<1>5. AloneInv'
  BY <1>1, <1>4 DEF ScriptsInv, AloneInv, AloneTakes
<1> QED
  BY <1>2, <1>4, <1>5 DEF ScriptsInv

\* The process ends where it is, and its memory with it.
LEMMA StopKeeps == ASSUME ScriptsInv, StopBot PROVE ScriptsInv'
<1>1. /\ script.kind = "stop" /\ ~up' /\ orders' = brokerFile.orders
      /\ script' = [script EXCEPT !.kind = "reset"]
      /\ UNCHANGED <<brokerFile, tradesFile, serial, journal, alone>>
  BY DEF StopBot, files
<1>2. BotInv'
  <2>1. BotInv /\ IsBook(brokerFile) /\ serial \in Nat
    BY DEF ScriptsInv, BotInv, MemoryInv
  <2> QED BY <1>1, <2>1, BesideKeeps DEF IsBook
<1>3. script' = [kind |-> "reset", book |-> script.book, journal |-> script.journal]
  BY <1>1 DEF ScriptsInv, IsScript
<1>4. IsScript(script') /\ script'.kind = "reset"
  BY <1>3 DEF ScriptsInv, IsScript
<1>5. AloneInv'
  BY <1>1, <1>4 DEF ScriptsInv, AloneInv, AloneTakes
<1> QED
  BY <1>2, <1>4, <1>5 DEF ScriptsInv

\* Alone, the files are empty when fresh_start.py is through.
LEMMA ResetKeeps == ASSUME ScriptsInv, ResetBook PROVE ScriptsInv'
<1>1. /\ script.kind = "reset" /\ WriteBook(NoBook)
      /\ result' = [NoScript EXCEPT !.kind = "fresh"] /\ script' = NoScript
      /\ UNCHANGED <<up, serial, journal, op, tradesFile, alone>>
  BY DEF ResetBook, End
<1>2. BotInv'
  BY <1>1, NothingIsFine, WrittenBeside DEF ScriptsInv, BotInv
<1>3. result'.kind = "fresh" /\ brokerFile' = NoBook
  BY <1>1 DEF NoScript, WriteBook
<1>4. IsScript(script') /\ script'.kind = "none"
  BY <1>1, NoScriptIsScript DEF NoScript
<1>5. AloneInv'
  BY <1>1, <1>3, <1>4 DEF ScriptsInv, AloneInv, AloneTakes
<1> QED
  BY <1>2, <1>4, <1>5 DEF ScriptsInv

\* The bot goes on, or starts and takes what a script has left.
LEMMA BotKeeps == ASSUME ScriptsInv, Bot PROVE ScriptsInv'
<1>1. /\ Next /\ alone' = (alone /\ ~up') /\ script' = script
      /\ BotInv /\ AloneInv
  BY DEF Bot, ScriptsInv
<1>2. BotInv'
  BY <1>1, NextBeside
<1>3. ~alone'
  BY <1>1, DownStarts DEF AloneInv
<1>4. AloneInv'
  BY <1>3 DEF AloneInv, AloneTakes
<1> QED
  BY <1>1, <1>2, <1>4 DEF ScriptsInv

\* At first there is nothing.
LEMMA ScriptsInitInv == ScriptsInit => ScriptsInv
<1> SUFFICES ASSUME ScriptsInit PROVE ScriptsInv
  OBVIOUS
<1>1. /\ serial = 0 /\ orders = EmptyMap /\ trades = <<>> /\ symMap = EmptyMap /\ ~up
      /\ brokerFile = NoBook /\ tradesFile = NoJournal
  BY DEF ScriptsInit, Init, NoBook, NoJournal
<1>2. IsJournal(NoJournal) /\ IsBook(NoBook) /\ NoBook.orders = EmptyMap
      /\ NoJournal.trades = <<>> /\ NoJournal.symMap = EmptyMap
  BY NothingIsFine DEF NoBook, NoJournal
<1>3. BotInv
  BY <1>1, <1>2 DEF BotInv, MemoryInv, IsBook, IsJournal
<1>4. AloneInv /\ IsScript(script)
  BY NoScriptIsScript DEF ScriptsInit, AloneInv, AloneTakes
<1> QED
  BY <1>3, <1>4 DEF ScriptsInv

\* Every step of bot and scripts keeps the invariant.
LEMMA ScriptsStep == ASSUME ScriptsInv, [ScriptsNext]_<<vars, scriptVars>> PROVE ScriptsInv'
<1>1. CASE UNCHANGED <<vars, scriptVars>>
  <2>1. UNCHANGED <<up, serial, journal, op, orders, brokerFile, tradesFile, script, result, alone>>
    BY <1>1 DEF vars, broker, files, scriptVars
  <2>2. BotInv'
    BY <2>1, JournalBeside DEF ScriptsInv, BotInv
  <2>3. AloneInv'
    <3>1. \A s \in Symbols : Journalled(s)' = Journalled(s)
      BY <2>1 DEF Journalled
    <3> QED BY <2>1, <3>1 DEF ScriptsInv, AloneInv, AloneTakes
  <2> QED BY <2>1, <2>2, <2>3 DEF ScriptsInv
<1>2. ASSUME NEW kind \in {"rebuild", "ghosts", "fresh"}, Begin(kind) PROVE ScriptsInv'
  BY <1>2, BeginKeeps
<1>3. CASE Rebuild
  BY <1>3, RebuildKeeps
<1>4. CASE CleanGhosts
  BY <1>4, CleanKeeps
<1>5. CASE RemoveFiles
  BY <1>5, RemoveKeeps
<1>6. CASE StopBot
  BY <1>6, StopKeeps
<1>7. CASE ResetBook
  BY <1>7, ResetKeeps
<1>8. CASE Bot
  BY <1>8, BotKeeps
<1> QED
  BY <1>1, <1>2, <1>3, <1>4, <1>5, <1>6, <1>7, <1>8 DEF ScriptsNext

\* Whatever the bot is doing when a script comes, and however often scripts are
\* run: a script that is alone does what it is for, and beside one the bot still
\* finds its symbols in the right trades.
THEOREM ScriptsAlwaysKeep == ScriptsSpec => []ScriptsKeep
<1>1. ScriptsInv => ScriptsKeep
  <2>1. MapExact(symMap, trades) => SymbolMapExact
    BY DEF MapExact, SymbolMapExact, HasSymbol, OpenTrades, TradeIds
  <2> QED BY <2>1 DEF ScriptsInv, AloneInv, BotInv, MemoryInv, ScriptsKeep
<1> QED
  BY <1>1, ScriptsInitInv, ScriptsStep, PTL DEF ScriptsSpec
=============================================================================
