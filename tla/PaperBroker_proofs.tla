------------------------- MODULE PaperBroker_proofs -------------------------
(***************************************************************************)
(* What holds of the paper broker for every set of instruments, every      *)
(* price, every fill mode and any number of orders.                        *)
(***************************************************************************)
EXTENDS PaperBroker, DataTheorems, TLAPS

------------------------------------------------------------------------------
(* Prices never go below zero. *)

\* A quotient of naturals is a natural.
LEMMA DivNat ==
    ASSUME NEW a \in Nat, NEW b \in Nat \ {0}
    PROVE  a \div b \in Nat
  OBVIOUS

\* Slippage takes no more than the price it is applied to.
LEMMA SlipBound ==
    ASSUME NEW ref \in Nat
    PROVE  /\ Slip(ref) \in Nat
           /\ ref - Slip(ref) \in Nat
<1> DEFINE m == ref * SlippageBps
<1>1. SlippageBps \in Nat /\ SlippageBps <= 9999
  BY InputsAssumption
<1>2. m \in Nat /\ m <= ref * 10000
  BY <1>1
<1>3. m \div 10000 \in Nat /\ m \div 10000 <= ref
  <2> HIDE DEF m
  <2> QED BY <1>2
<1> QED
  BY <1>3 DEF Slip

\* So a slipped price is a natural on either side,
LEMMA SlippedNat ==
    ASSUME NEW o, NEW ref \in Nat
    PROVE  Slipped(o, ref) \in Nat
<1>1. Slip(ref) \in Nat /\ ref - Slip(ref) \in Nat
  BY SlipBound
<1> QED
  BY <1>1 DEF Slipped

\* so is the price a limit order fills at,
LEMMA LimitPriceNat ==
    ASSUME NEW o \in Order, NEW ref \in Nat
    PROVE  LimitPrice(o, ref) \in Nat
<1> DEFINE spread == Larger(MinSpread, (ref * SpreadBps) \div 10000)
<1>1. o.price \in Nat
  BY DEF Order
<1>2. spread \in Nat
  <2>1. ref * SpreadBps \in Nat /\ MinSpread \in Nat
    BY InputsAssumption
  <2> QED BY <2>1, DivNat DEF Larger
<1>3. Smaller(o.price, ref + spread) \in Nat
  BY <1>1, <1>2 DEF Smaller
<1>4. o.price <= ref - spread => Larger(o.price, ref - spread) \in Nat
  <2> HIDE DEF spread
  <2> QED BY <1>1, <1>2 DEF Larger
<1> HIDE DEF spread
<1> QED
  BY <1>1, <1>3, <1>4 DEF LimitPrice, spread

\* and the price _try_fill finds for any order, whatever was last quoted.
LEMMA TryFillNat ==
    ASSUME SymbolMap(ticks, Nat), NEW o \in Order
    PROVE  TryRef(o) \in Nat /\ TryFill(o) \in Nat
<1>1. o.price \in Nat
  BY DEF Order
<1>2. TryRef(o) \in Nat
  BY <1>1 DEF TryRef, LastPrice, SymbolMap
<1>3. StopPrice(o, TryRef(o)) \in Nat
  BY <1>1, <1>2 DEF StopPrice
<1>4. Slipped(o, TryRef(o)) \in Nat /\ LimitPrice(o, TryRef(o)) \in Nat
  BY <1>2, SlippedNat, LimitPriceNat
<1> QED
  BY <1>2, <1>3, <1>4 DEF TryFill

------------------------------------------------------------------------------
(* Orders stay orders. *)

\* A filled order is an order.
LEMMA CompletedOrder ==
    ASSUME NEW o \in Order, NEW p \in Nat
    PROVE  Completed(o, p) \in Order
  BY DEF Completed, Order, Statuses

\* An order with its expected price is an order.
LEMMA ExpectingOrder ==
    ASSUME SymbolMap(ticks, Nat), NEW o \in Order
    PROVE  Expecting(o) \in Order
<1>1. TryRef(o) \in Nat
  BY TryFillNat
<1> QED
  BY <1>1 DEF Expecting, Order

\* A submitted request becomes an order.
LEMMA SubmittedOrder ==
    ASSUME NEW i \in OrderInputs
    PROVE  Submitted(i) \in Order
  BY InputsAssumption DEF Submitted, Order, OrderInput, Statuses

\* The order that a kill makes is an order.
LEMMA ForcedOrder ==
    ASSUME SymbolMap(ticks, Nat), SymbolMap(positions, Position),
           NEW o \in Order, NEW bs \in BSPrices
    PROVE  Forced(o, bs) \in Order
<1>1. ForceRef(o, bs) \in Nat
  BY InputsAssumption DEF ForceRef, LastPrice, SymbolMap, Position, Order
<1>2. [o EXCEPT !.expected = ForceRef(o, bs)] \in Order
  BY <1>1 DEF Order
<1>3. Slipped(o, ForceRef(o, bs)) \in Nat
  BY <1>1, SlippedNat
<1> QED
  BY <1>2, <1>3, CompletedOrder DEF Forced

------------------------------------------------------------------------------
(* Positions stay positions. *)

\* An average of two prices is a price.
LEMMA AverageNat ==
    ASSUME NEW a \in Nat, NEW m \in Nat \ {0}, NEW p \in Nat, NEW n \in Nat \ {0}
    PROVE  (a * m + p * n) \div (m + n) \in Nat
<1>1. a * m \in Nat /\ p * n \in Nat /\ m + n \in Nat \ {0}
  OBVIOUS
<1>2. a * m + p * n \in Nat
  BY <1>1
<1> QED
  BY <1>1, <1>2, DivNat

\* A buy or a sell into a position gives a position.
LEMMA IntoPosition ==
    ASSUME NEW p \in Position, NEW o \in Order, NEW price \in Nat
    PROVE  BuyInto(p, o, price) \in Position /\ SellInto(p, o, price) \in Position
<1>1. p.qty \in Int /\ p.avg \in Nat /\ o.qty \in Nat \ {0}
  BY DEF Position, Order
<1>2. BuyInto(p, o, price) \in Position
  <2>1. CASE p.qty > 0
    <3> DEFINE avg == (p.avg * p.qty + price * o.qty) \div (p.qty + o.qty)
    <3>1. p.qty \in Nat \ {0}
      BY <1>1, <2>1
    <3>2. avg \in Nat
      BY <1>1, <3>1, AverageNat, Zenon
    <3>3. BuyInto(p, o, price) = [qty |-> p.qty + o.qty, ltp |-> price, cs |-> p.cs, avg |-> avg]
      BY <2>1 DEF BuyInto
    <3> HIDE DEF avg
    <3> QED BY <1>1, <3>2, <3>3 DEF Position
  <2>2. CASE ~(p.qty > 0)
    <3>1. BuyInto(p, o, price) =
            [qty |-> p.qty + o.qty, ltp |-> p.ltp, cs |-> p.cs,
             avg |-> IF p.qty + o.qty > 0 THEN price ELSE p.avg]
      BY <2>2 DEF BuyInto
    <3> QED BY <1>1, <3>1 DEF Position
  <2> QED BY <2>1, <2>2
<1>3. SellInto(p, o, price) \in Position
  BY <1>1 DEF SellInto, Position
<1> QED
  BY <1>2, <1>3

\* The positions after a fill map symbols to positions.
LEMMA PositionsAfterMap ==
    ASSUME SymbolMap(positions, Position), NEW o \in Order, NEW price \in Nat
    PROVE  SymbolMap(PositionsAfter(o, price), Position)
<1>1. o.symbol \in Symbols /\ NewPosition(o, price) \in Position
  BY DEF NewPosition, Position, Order
<1>2. ASSUME NEW q \in Position
      PROVE  SymbolMap(Put(positions, o.symbol, q), Position)
  BY <1>1, <1>2 DEF Put, SymbolMap
<1>3. SymbolMap(Without(positions, o.symbol), Position)
  BY DEF Without, SymbolMap
<1>4. o.symbol \in DOMAIN positions =>
        /\ BuyInto(positions[o.symbol], o, price) \in Position
        /\ SellInto(positions[o.symbol], o, price) \in Position
  BY IntoPosition DEF SymbolMap
<1> QED
  BY <1>1, <1>2, <1>3, <1>4 DEF PositionsAfter

\* What a fill leaves in the four books it may change.
LEMMA ApplyFillType ==
    ASSUME SymbolMap(positions, Position), cash \in Int, realized \in Int,
           balanced \in BOOLEAN, NEW o \in Order, NEW price \in Nat, ApplyFill(o, price)
    PROVE  /\ SymbolMap(positions', Position)
           /\ cash' \in Int /\ realized' \in Int /\ balanced' \in BOOLEAN
<1>1. CASE price > 0
  <2>1. SymbolMap(positions', Position)
    BY <1>1, PositionsAfterMap DEF ApplyFill
  <2>2. cash' \in Int
    <3>1. FillValue(o, price) \in Int
      BY DEF FillValue, Order
    <3> QED BY <1>1, <3>1 DEF ApplyFill
  <2>3. realized' \in Int
    <3>1. GainOf(o, price) \in Int
      BY InputsAssumption DEF GainOf, SymbolMap, Position, Order, Smaller, Abs
    <3> QED BY <1>1, <3>1 DEF ApplyFill
  <2>4. balanced' \in BOOLEAN
    BY <1>1 DEF ApplyFill
  <2> QED BY <2>1, <2>2, <2>3, <2>4
<1>2. CASE ~(price > 0)
  BY <1>2 DEF ApplyFill
<1> QED
  BY <1>1, <1>2

------------------------------------------------------------------------------
(* Type correctness, one step of the program at a time. *)

\* Replacing an order by an order.
LEMMA ReplaceOrder ==
    ASSUME orders \in Seq(Order), NEW k \in OrderIds, NEW o \in Order,
           orders' = [orders EXCEPT ![k] = o]
    PROVE  orders' \in Seq(Order) /\ OrderIds' = OrderIds
  BY ExceptSeq DEF OrderIds

\* Appending an order leaves a sequence of orders, with no id lost.
LEMMA AddOrder ==
    ASSUME orders \in Seq(Order), NEW o \in Order, orders' = Append(orders, o)
    PROVE  orders' \in Seq(Order) /\ OrderIds \subseteq OrderIds'
<1>1. orders' \in Seq(Order) /\ Len(orders') = Len(orders) + 1
  OBVIOUS
<1>2. OrderIds = 1..Len(orders) /\ OrderIds' = 1..Len(orders')
  BY <1>1 DEF OrderIds
<1> QED
  BY <1>1, <1>2

\* The empty book is a book.
LEMMA EmptyBookType == BookType(EmptyBook)
  BY InputsAssumption DEF BookType, EmptyBook, EmptyMap, SymbolMap

\* Saving a well-typed state leaves a well-typed file, written or not.
LEMMA SaveType ==
    ASSUME TypeOK, BookType(Snapshot)', SaveState
    PROVE  /\ disk' = NoFile \/ BookType(disk')
           /\ saveFailures' \in 0..MaxSaveFailures
<1>1. CASE disk' = Snapshot' /\ UNCHANGED saveFailures
  BY <1>1 DEF TypeOK
<1>2. CASE saveFailures < MaxSaveFailures /\ saveFailures' = saveFailures + 1 /\ UNCHANGED disk
  BY <1>2, InputsAssumption DEF TypeOK
<1> QED
  BY <1>1, <1>2 DEF SaveState

\* One order replaced, and filled at that price.
LEMMA FillOrderType ==
    ASSUME TypeOK, NEW k \in OrderIds, NEW o \in Order, NEW p \in Nat, NEW q \in Order,
           orders' = [orders EXCEPT ![k] = o], ApplyFill(q, p), UNCHANGED flattened
    PROVE  BookType(Snapshot)' /\ OrderIds' = OrderIds
<1>1. BookType(Snapshot)
  BY DEF TypeOK
<1>2. orders' \in Seq(Order) /\ OrderIds' = OrderIds
  BY <1>1, ReplaceOrder DEF BookType, Snapshot
<1>3. /\ SymbolMap(positions', Position)
      /\ cash' \in Int /\ realized' \in Int /\ balanced' \in BOOLEAN
  BY <1>1, ApplyFillType DEF BookType, Snapshot
<1> QED
  BY <1>1, <1>2, <1>3 DEF BookType, Snapshot

\* place_order, with the fill it may try at once, keeps the types.
LEMMA PlaceOrderType ==
    ASSUME TypeOK, NEW i \in OrderInputs, NEW bs \in BSPrices, PlaceOrder(i, bs)
    PROVE  TypeOK'
<1> DEFINE sub == Submitted(i)
           o == Completed(Expecting(sub), TryFill(sub))
           placed == IF o.status = "open" /\ fillMode = "market_like" THEN Forced(o, bs) ELSE o
<1>1. BookType(Snapshot) /\ SymbolMap(ticks, Nat)
  BY DEF TypeOK
<1>2. o \in Order
  BY <1>1, SubmittedOrder, TryFillNat, ExpectingOrder, CompletedOrder
<1>3. placed \in Order
  <2> HIDE DEF o
  <2> QED BY <1>1, <1>2, ForcedOrder DEF BookType, Snapshot
<1>4. placed.fill \in Nat
  BY <1>3 DEF Order
<1>5. orders' = Append(orders, placed) /\ ApplyFill(placed, placed.fill)
  BY DEF PlaceOrder
<1> HIDE DEF placed
<1>6. orders' \in Seq(Order) /\ OrderIds \subseteq OrderIds'
  BY <1>1, <1>3, <1>5, AddOrder DEF BookType, Snapshot
<1>7. /\ SymbolMap(positions', Position)
      /\ cash' \in Int /\ realized' \in Int /\ balanced' \in BOOLEAN
  BY <1>1, <1>3, <1>4, <1>5, ApplyFillType DEF BookType, Snapshot
<1>8. BookType(Snapshot)'
  BY <1>1, <1>6, <1>7 DEF BookType, Snapshot, PlaceOrder
<1>9. /\ disk' = NoFile \/ BookType(disk')
      /\ saveFailures' \in 0..MaxSaveFailures
  BY <1>8, SaveType DEF PlaceOrder
<1>10. main' \in [phase : {"run", "cancel", "close", "killed"}, todo : SUBSET OrderIds']
  BY DEF PlaceOrder, MainRun
<1>11. feed' \in [phase : {"idle", "try", "force"}, todo : SUBSET OrderIds']
  BY <1>6 DEF PlaceOrder, TypeOK
<1> QED
  BY <1>8, <1>9, <1>10, <1>11 DEF TypeOK, PlaceOrder

\* modify_order keeps the types.
LEMMA ModifyOrderType ==
    ASSUME TypeOK, NEW k \in OrderIds, NEW price \in ModifyPrices, ModifyOrder(k, price)
    PROVE  TypeOK'
<1> DEFINE o == [orders[k] EXCEPT !.price = price]
           p == TryFill(o)
<1>1. SymbolMap(ticks, Nat) /\ orders \in Seq(Order)
  BY DEF TypeOK, BookType, Snapshot
<1>2. o \in Order
  <2>1. orders[k] \in Order /\ price \in Nat
    BY <1>1, InputsAssumption DEF OrderIds
  <2> QED BY <2>1 DEF Order
<1>3. p \in Nat /\ Completed(Expecting(o), p) \in Order
  <2> HIDE DEF o
  <2> QED BY <1>1, <1>2, TryFillNat, ExpectingOrder, CompletedOrder
<1>4. /\ orders' = [orders EXCEPT ![k] = Completed(Expecting(o), p)]
      /\ ApplyFill(o, p) /\ UNCHANGED flattened /\ SaveState
      /\ UNCHANGED <<proc, fillMode, ticks, feed, main>>
  BY DEF ModifyOrder
<1> HIDE DEF o, p
<1>5. BookType(Snapshot)' /\ OrderIds' = OrderIds
  BY <1>2, <1>3, <1>4, FillOrderType
<1>6. /\ disk' = NoFile \/ BookType(disk')
      /\ saveFailures' \in 0..MaxSaveFailures
  BY <1>4, <1>5, SaveType
<1> QED
  BY <1>4, <1>5, <1>6 DEF TypeOK

\* Cancelling an order, whoever asks for it.
LEMMA CancelType ==
    ASSUME TypeOK, NEW k \in OrderIds, Cancel(k)
    PROVE  /\ BookType(Snapshot)' /\ OrderIds' = OrderIds
           /\ disk' = NoFile \/ BookType(disk')
           /\ saveFailures' \in 0..MaxSaveFailures
<1> DEFINE o == [orders[k] EXCEPT !.status = "cancelled"]
<1>1. BookType(Snapshot) /\ orders \in Seq(Order)
  BY DEF TypeOK, BookType, Snapshot
<1>2. o \in Order
  <2>1. orders[k] \in Order
    BY <1>1 DEF OrderIds
  <2> QED BY <2>1 DEF Order, Statuses
<1>3. orders' = [orders EXCEPT ![k] = o]
  BY DEF Cancel
<1> HIDE DEF o
<1>4. orders' \in Seq(Order) /\ OrderIds' = OrderIds
  BY <1>1, <1>2, <1>3, ReplaceOrder
<1>5. BookType(Snapshot)'
  BY <1>1, <1>4 DEF Cancel, BookType, Snapshot
<1> QED
  BY <1>4, <1>5, SaveType DEF Cancel

\* One order tried by a tick keeps the types.
LEMMA TickTriesOrderType == ASSUME TypeOK, TickTriesOrder PROVE TypeOK'
<1> PICK k \in feed.todo :
      /\ orders' = [orders EXCEPT ![k] = Completed(Expecting(orders[k]), TryFill(orders[k]))]
      /\ ApplyFill(orders[k], TryFill(orders[k]))
      /\ feed' = [feed EXCEPT !.todo = @ \ {k}]
  BY DEF TickTriesOrder
<1> DEFINE p == TryFill(orders[k])
<1>1. SymbolMap(ticks, Nat) /\ orders \in Seq(Order) /\ k \in OrderIds
  BY DEF TypeOK, BookType, Snapshot
<1>2. orders[k] \in Order
  BY <1>1 DEF OrderIds
<1>3. p \in Nat /\ Completed(Expecting(orders[k]), p) \in Order
  BY <1>1, <1>2, TryFillNat, ExpectingOrder, CompletedOrder
<1>4. BookType(Snapshot)' /\ OrderIds' = OrderIds
  BY <1>1, <1>2, <1>3, FillOrderType DEF TickTriesOrder
<1> QED
  BY <1>4 DEF TypeOK, TickTriesOrder

\* A symbol flattened by a tick after the kill keeps the types.
LEMMA TickForcesOrderType ==
    ASSUME TypeOK, NEW bs \in BSPrices, TickForcesOrder(bs)
    PROVE  TypeOK'
<1> PICK k \in feed.todo :
      /\ orders' = [orders EXCEPT ![k] = Forced(orders[k], bs)]
      /\ ApplyFill(Forced(orders[k], bs), Forced(orders[k], bs).fill)
      /\ feed' = [feed EXCEPT !.todo = @ \ {k}]
  BY DEF TickForcesOrder
<1> DEFINE o == Forced(orders[k], bs)
<1>1. /\ SymbolMap(ticks, Nat) /\ orders \in Seq(Order) /\ k \in OrderIds
      /\ SymbolMap(positions, Position)
  BY DEF TypeOK, BookType, Snapshot
<1>2. orders[k] \in Order
  BY <1>1 DEF OrderIds
<1>3. o \in Order
  BY <1>1, <1>2, ForcedOrder
<1>4. o.fill \in Nat
  BY <1>3 DEF Order
<1>5. BookType(Snapshot)' /\ OrderIds' = OrderIds
  BY <1>1, <1>3, <1>4, FillOrderType DEF TickForcesOrder
<1> QED
  BY <1>5 DEF TypeOK, TickForcesOrder

\* One position flattened by the kill keeps the types.
LEMMA KillClosesType ==
    ASSUME TypeOK, NEW s \in Symbols, KillCloses(s)
    PROVE  TypeOK'
<1>1. BookType(Snapshot)
  BY DEF TypeOK
<1>2. positions[s] \in Position /\ SymbolMap(positions, Position)
  BY <1>1 DEF BookType, Snapshot, SymbolMap, KillCloses
<1>3. SymbolMap(positions', Position)
  BY <1>2 DEF KillCloses, Without, SymbolMap
<1>4. realized' \in Int
  <2>1. (IF positions[s].ltp > 0 THEN positions[s].ltp ELSE positions[s].avg) \in Int
    BY <1>2 DEF Position
  <2>2. positions[s].avg \in Int /\ positions[s].qty \in Int /\ positions[s].cs \in Int
    BY <1>2 DEF Position
  <2>3. realized \in Int
    BY <1>1 DEF BookType, Snapshot
  <2> QED BY <2>1, <2>2, <2>3 DEF KillCloses
<1>5. flattened' \in [Symbols -> Int]
  BY <1>1, <1>2 DEF KillCloses, BookType, Snapshot, Position
<1>6. BookType(Snapshot)'
  BY <1>1, <1>3, <1>4, <1>5 DEF BookType, Snapshot, KillCloses
<1> QED
  BY <1>6 DEF TypeOK, KillCloses, OrderIds

\* What is loaded from a well-typed file is well typed.
LEMMA LoadedType ==
    ASSUME NEW b, BookType(b)
    PROVE  BookType(Loaded(b))
<1> DEFINE loaded == [k \in DOMAIN b.orders |-> ZombieClean(b.orders[k])]
<1>1. loaded \in Seq(Order)
  <2>1. b.orders \in Seq(Order) /\ DOMAIN b.orders = 1..Len(b.orders) /\ Len(b.orders) \in Nat
    BY DEF BookType
  <2>2. ASSUME NEW k \in DOMAIN b.orders PROVE ZombieClean(b.orders[k]) \in Order
    <3>1. b.orders[k] \in Order
      BY <2>1
    <3> QED BY <3>1 DEF ZombieClean, Order, Statuses
  <2> QED BY <2>1, <2>2
<1> QED
  BY <1>1 DEF BookType, Loaded

\* A book that takes its value from a well-typed record is well typed.
LEMMA BookBecomesType ==
    ASSUME NEW b, BookType(b), BookBecomes(b)
    PROVE  BookType(Snapshot)'
  BY DEF BookType, BookBecomes, Snapshot

\* The rest of the loop's steps: each changes at most one dictionary.
LEMMA RunnerType == ASSUME TypeOK, Runner PROVE TypeOK'
<1>1. ASSUME NEW i \in OrderInputs, NEW bs \in BSPrices, PlaceOrder(i, bs) PROVE TypeOK'
  BY <1>1, PlaceOrderType
<1>2. ASSUME NEW k \in OrderIds, CancelOrder(k) PROVE TypeOK'
  <2>1. Cancel(k) /\ UNCHANGED <<proc, fillMode, ticks, feed, main>>
    BY <1>2 DEF CancelOrder
  <2> QED BY <2>1, CancelType DEF TypeOK
<1>3. ASSUME NEW k \in OrderIds, NEW p \in ModifyPrices, ModifyOrder(k, p) PROVE TypeOK'
  BY <1>3, ModifyOrderType
<1>4. ASSUME GetPositions PROVE TypeOK'
  <2>1. SymbolMap(positions, Position) /\ SymbolMap(ticks, Nat)
    BY DEF TypeOK, BookType, Snapshot
  <2>2. SymbolMap(positions', Position)
    <3>1. ASSUME NEW s \in DOMAIN positions
          PROVE  (IF s \in DOMAIN ticks THEN [positions[s] EXCEPT !.ltp = ticks[s]]
                                        ELSE positions[s]) \in Position
      BY <2>1 DEF SymbolMap, Position
    <3> QED BY <1>4, <2>1, <3>1 DEF GetPositions, SymbolMap
  <2> QED BY <1>4, <2>2 DEF TypeOK, BookType, Snapshot, GetPositions, ghost, OrderIds
<1>5. ASSUME KillBegins PROVE TypeOK'
  BY <1>5 DEF TypeOK, KillBegins, BookType, Snapshot, book, ghost, OrderIds
<1>6. ASSUME KillCancels PROVE TypeOK'
  <2> PICK k \in main.todo :
        /\ main' = [main EXCEPT !.todo = @ \ {k}]
        /\ IF orders[k].status = "complete"
           THEN UNCHANGED <<book, ghost, disk, saveFailures>>
           ELSE Cancel(k)
    BY <1>6 DEF KillCancels
  <2>1. k \in OrderIds /\ UNCHANGED <<proc, fillMode, ticks, feed>>
    BY <1>6 DEF TypeOK, KillCancels
  <2>2. CASE orders[k].status = "complete"
    BY <2>1, <2>2 DEF TypeOK, BookType, Snapshot, book, ghost, OrderIds
  <2>3. CASE orders[k].status # "complete"
    <3>1. Cancel(k)
      BY <2>3
    <3>2. /\ BookType(Snapshot)' /\ OrderIds' = OrderIds
          /\ disk' = NoFile \/ BookType(disk')
          /\ saveFailures' \in 0..MaxSaveFailures
      BY <2>1, <3>1, CancelType
    <3> QED BY <2>1, <3>2 DEF TypeOK
  <2> QED BY <2>2, <2>3
<1>7. ASSUME KillTakesLock PROVE TypeOK'
  BY <1>7 DEF TypeOK, KillTakesLock, BookType, Snapshot, book, ghost, OrderIds
<1>8. ASSUME KillEnds PROVE TypeOK'
  BY <1>8 DEF TypeOK, KillEnds, BookType, Snapshot, book, ghost, OrderIds
<1>9. ASSUME NEW s \in Symbols, KillCloses(s) PROVE TypeOK'
  BY <1>9, KillClosesType
<1> QED
  BY <1>1, <1>2, <1>3, <1>4, <1>5, <1>6, <1>7, <1>8, <1>9 DEF Runner

\* The feed's steps.
LEMMA FeedType == ASSUME TypeOK, Feed PROVE TypeOK'
<1>1. ASSUME NEW s \in Symbols, NEW p \in TickPrices, TickArrives(s, p) PROVE TypeOK'
  <2>1. p \in Nat /\ SymbolMap(ticks, Nat) /\ SymbolMap(positions, Position)
    BY InputsAssumption DEF TypeOK, BookType, Snapshot
  <2>2. SymbolMap(ticks', Nat)
    BY <1>1, <2>1 DEF TickArrives, Put, SymbolMap
  <2>3. SymbolMap(positions', Position)
    BY <1>1, <2>1 DEF TickArrives, SymbolMap, Position
  <2>4. BookType(Snapshot)' /\ OrderIds' = OrderIds
    BY <1>1, <2>3 DEF TypeOK, BookType, Snapshot, TickArrives, ghost, OrderIds
  <2> QED BY <1>1, <2>2, <2>4 DEF TypeOK, TickArrives, OpenOrders
<1>2. ASSUME TickTriesOrder PROVE TypeOK'
  BY <1>2, TickTriesOrderType
<1>3. ASSUME TickBeginsForcing PROVE TypeOK'
  BY <1>3 DEF TypeOK, TickBeginsForcing, BookType, Snapshot, book, ghost, OrderIds, OpenOrders
<1>4. ASSUME NEW bs \in BSPrices, TickForcesOrder(bs) PROVE TypeOK'
  BY <1>4, TickForcesOrderType
<1>5. ASSUME TickEnds PROVE TypeOK'
  <2>1. BookType(Snapshot)' /\ OrderIds' = OrderIds /\ SaveState
    BY <1>5 DEF TypeOK, TickEnds, BookType, Snapshot, book, ghost, OrderIds
  <2>2. /\ disk' = NoFile \/ BookType(disk')
        /\ saveFailures' \in 0..MaxSaveFailures
    BY <2>1, SaveType
  <2> QED BY <1>5, <2>1, <2>2 DEF TypeOK, TickEnds, FeedIdle
<1> QED
  BY <1>1, <1>2, <1>3, <1>4, <1>5 DEF Feed

\* Who is at work: an idle feed and a loop outside the kill switch have nothing
\* left to do, and nobody is at work in a process that is down.
Quiet ==
    /\ feed.phase = "idle" => feed.todo = {}
    /\ main.phase # "cancel" => main.todo = {}
    /\ proc = "down" => feed.phase = "idle" /\ main.phase = "run"

\* Every step keeps Quiet: the threads hold only what their phase needs.
LEMMA QuietStep == ASSUME TypeOK, Quiet, [Next]_vars PROVE Quiet'
<1>1. ASSUME Runner PROVE Quiet'
  <2>1. ASSUME NEW i \in OrderInputs, NEW bs \in BSPrices, PlaceOrder(i, bs) PROVE Quiet'
    BY <2>1 DEF Quiet, PlaceOrder, MainRun
  <2>2. ASSUME NEW k \in OrderIds, CancelOrder(k) PROVE Quiet'
    BY <2>2 DEF Quiet, CancelOrder
  <2>3. ASSUME NEW k \in OrderIds, NEW p \in ModifyPrices, ModifyOrder(k, p) PROVE Quiet'
    BY <2>3 DEF Quiet, ModifyOrder
  <2>4. ASSUME GetPositions PROVE Quiet'
    BY <2>4 DEF Quiet, GetPositions
  <2>5. ASSUME KillBegins PROVE Quiet'
    BY <2>5 DEF Quiet, KillBegins
  <2>6. ASSUME KillCancels PROVE Quiet'
    BY <2>6 DEF TypeOK, Quiet, KillCancels
  <2>7. ASSUME KillTakesLock PROVE Quiet'
    BY <2>7 DEF TypeOK, Quiet, KillTakesLock
  <2>8. ASSUME KillEnds PROVE Quiet'
    BY <2>8 DEF TypeOK, Quiet, KillEnds
  <2>9. ASSUME NEW s \in Symbols, KillCloses(s) PROVE Quiet'
    BY <2>9 DEF Quiet, KillCloses
  <2> QED
    BY <1>1, <2>1, <2>2, <2>3, <2>4, <2>5, <2>6, <2>7, <2>8, <2>9 DEF Runner
<1>2. ASSUME Feed PROVE Quiet'
  <2>1. ASSUME NEW s \in Symbols, NEW p \in TickPrices, TickArrives(s, p) PROVE Quiet'
    BY <2>1 DEF Quiet, TickArrives
  <2>2. ASSUME TickTriesOrder PROVE Quiet'
    BY <2>2 DEF TypeOK, Quiet, TickTriesOrder
  <2>3. ASSUME TickBeginsForcing PROVE Quiet'
    BY <2>3 DEF TypeOK, Quiet, TickBeginsForcing
  <2>4. ASSUME NEW bs \in BSPrices, TickForcesOrder(bs) PROVE Quiet'
    BY <2>4 DEF TypeOK, Quiet, TickForcesOrder
  <2>5. ASSUME TickEnds PROVE Quiet'
    BY <2>5 DEF Quiet, TickEnds, FeedIdle
  <2> QED
    BY <1>2, <2>1, <2>2, <2>3, <2>4, <2>5 DEF Feed
<1>3. ASSUME Lifecycle PROVE Quiet'
  BY <1>3 DEF TypeOK, Quiet, Lifecycle, Start, Connect, Disconnect, Crash, Reset,
              MainRun, FeedIdle, MainFree, LockFree
<1>4. CASE UNCHANGED vars
  BY <1>4 DEF Quiet, vars
<1> QED
  BY <1>1, <1>2, <1>3, <1>4 DEF Next

\* Starting, stopping, crashing and resetting.
LEMMA LifecycleType == ASSUME TypeOK, Quiet, Lifecycle PROVE TypeOK'
<1>1. ASSUME Start PROVE TypeOK'
  <2>1. BookType(Snapshot)'
    <3>1. CASE disk = NoFile
      BY <1>1, <3>1 DEF TypeOK, Start, BookType, Snapshot, book, ghost
    <3>2. CASE disk # NoFile
      <4>1. BookType(disk) /\ BookBecomes(Loaded(disk))
        BY <1>1, <3>2 DEF TypeOK, Start
      <4> QED BY <4>1, LoadedType, BookBecomesType
    <3> QED BY <3>1, <3>2
  <2>2. feed'.todo = {} /\ main'.todo = {} /\ UNCHANGED <<feed, main>>
    BY <1>1 DEF Start, Quiet, TypeOK, FeedIdle, MainRun
  <2> QED BY <1>1, <2>1, <2>2 DEF TypeOK, Start
<1>2. ASSUME Connect PROVE TypeOK'
  BY <1>2 DEF TypeOK, Connect, BookType, Snapshot, book, ghost, OrderIds
<1>3. ASSUME Disconnect PROVE TypeOK'
  <2>1. BookType(Snapshot)' /\ OrderIds' = OrderIds /\ SaveState
    BY <1>3 DEF TypeOK, Disconnect, BookType, Snapshot, book, ghost, OrderIds
  <2>2. /\ disk' = NoFile \/ BookType(disk')
        /\ saveFailures' \in 0..MaxSaveFailures
    BY <2>1, SaveType
  <2> QED BY <1>3, <2>1, <2>2 DEF TypeOK, Disconnect
<1>4. ASSUME Crash PROVE TypeOK'
  <2>1. BookType(Snapshot)'
    BY <1>4, EmptyBookType, BookBecomesType DEF Crash
  <2> QED BY <1>4, <2>1 DEF TypeOK, Crash, FeedIdle, MainRun, EmptyMap, SymbolMap
<1>5. ASSUME Reset PROVE TypeOK'
  <2>1. BookType(Snapshot)'
    BY <1>5, EmptyBookType, BookBecomesType DEF Reset
  <2>2. /\ feed' \in [phase : {"idle", "try", "force"}, todo : SUBSET OrderIds']
        /\ main' \in [phase : {"run", "cancel", "close", "killed"}, todo : SUBSET OrderIds']
    <3>1. feed.todo = {} /\ main.todo = {}
      BY <1>5 DEF Reset, MainFree, LockFree, Quiet
    <3> QED BY <1>5, <3>1 DEF TypeOK, Reset
  <2> QED BY <1>5, <2>1, <2>2 DEF TypeOK, Reset, EmptyMap, SymbolMap
<1> QED
  BY <1>1, <1>2, <1>3, <1>4, <1>5 DEF Lifecycle

\* The initial state has the types and is Quiet.
LEMMA InitType == Init => TypeOK /\ Quiet
<1> SUFFICES ASSUME Init PROVE TypeOK /\ Quiet
  OBVIOUS
<1>1. BookType(EmptyBook)
  BY EmptyBookType
<1>2. BookType(Snapshot)
  BY <1>1 DEF Init, EmptyBook, BookType, Snapshot
<1> QED
  BY <1>2, InputsAssumption
  DEF Init, TypeOK, Quiet, FeedIdle, MainRun, EmptyMap, SymbolMap

\* Every state has the types and is Quiet.
LEMMA TypeInvariant == Spec => [](TypeOK /\ Quiet)
<1>1. TypeOK /\ Quiet /\ [Next]_vars => (TypeOK /\ Quiet)'
  <2> SUFFICES ASSUME TypeOK, Quiet, [Next]_vars PROVE TypeOK' /\ Quiet'
    OBVIOUS
  <2>1. TypeOK'
    <3>1. CASE UNCHANGED vars
      BY <3>1 DEF TypeOK, BookType, Snapshot, vars, OrderIds
    <3> QED
      BY <3>1, RunnerType, FeedType, LifecycleType DEF Next
  <2> QED BY <2>1, QuietStep
<1> QED
  BY InitType, <1>1, PTL DEF Spec

\* The paper broker's state keeps its type, in memory and on disk.
THEOREM TypeCorrect == Spec => []TypeOK
  BY TypeInvariant, PTL

------------------------------------------------------------------------------
(* The kill switch leaves nothing behind.  It cancels the orders it listed *)
(* one by one, so while it does, every open order is one it still has to   *)
(* visit; the lock it then takes keeps the feed out while it closes.       *)

\* The feed and the closing of positions exclude each other, and what a tick
\* still has to visit is open: only the holder of the lock could finish it.
LockHeld ==
    /\ feed.todo \subseteq OpenOrders
    /\ main.phase = "close" => feed.phase = "idle"

KillSafe ==
    /\ main.phase = "cancel" => OpenOrders \subseteq main.todo
    /\ main.phase = "close" => OpenOrders = {}
    /\ KillLeavesFlat

KillInv == LockHeld /\ KillSafe

\* Replacing an order by one that is open only if the old one was.
LEMMA OpenOrdersShrink ==
    ASSUME orders \in Seq(Order), NEW k \in OrderIds, NEW o \in Order,
           o.status = "open" => orders[k].status = "open",
           orders' = [orders EXCEPT ![k] = o]
    PROVE  /\ OpenOrders' \subseteq OpenOrders
           /\ OpenOrders \ {k} \subseteq OpenOrders'
           /\ o.status # "open" => k \notin OpenOrders'
<1>1. OrderIds' = OrderIds
  BY ReplaceOrder
<1>2. \A j \in OrderIds : orders'[j] = IF j = k THEN o ELSE orders[j]
  BY DEF OrderIds
<1> QED
  BY <1>1, <1>2 DEF OpenOrders

\* A fill leaves an order that may be open only where one was.
LEMMA FilledStatus ==
    ASSUME NEW o \in Order, NEW p \in Nat, NEW bs
    PROVE  /\ Completed(Expecting(o), p).status = "open" => o.status = "open"
           /\ Forced(o, bs).status = "open" => o.status = "open"
  BY DEF Completed, Expecting, Forced, Order

\* A visit of a tick to one of the orders it listed.
LEMMA VisitKeepsKillInv ==
    ASSUME TypeOK, KillInv, NEW k \in feed.todo, NEW o \in Order,
           o.status = "open" => orders[k].status = "open",
           orders' = [orders EXCEPT ![k] = o], feed' = [feed EXCEPT !.todo = @ \ {k}],
           feed.phase # "idle", UNCHANGED main
    PROVE  KillInv'
<1>1. orders \in Seq(Order) /\ k \in OrderIds
  BY DEF TypeOK, BookType, Snapshot
<1>2. OpenOrders' \subseteq OpenOrders /\ OpenOrders \ {k} \subseteq OpenOrders'
  BY <1>1, OpenOrdersShrink
<1>3. feed'.todo = feed.todo \ {k} /\ feed'.phase = feed.phase
  BY DEF TypeOK
<1>4. LockHeld'
  BY <1>2, <1>3 DEF KillInv, LockHeld
<1>5. main.phase # "killed" /\ main.phase # "close"
  BY DEF KillInv, LockHeld, KillSafe, KillLeavesFlat
<1>6. KillSafe'
  BY <1>2, <1>5 DEF KillInv, KillSafe, KillLeavesFlat
<1> QED
  BY <1>4, <1>6 DEF KillInv

\* The steps of the feed's thread keep the kill switch's invariant.
LEMMA FeedKill == ASSUME TypeOK, Quiet, KillInv, Feed PROVE KillInv'
<1>1. ASSUME NEW s \in Symbols, NEW p \in TickPrices, TickArrives(s, p) PROVE KillInv'
  <2>1. OpenOrders' = OpenOrders /\ DOMAIN positions' = DOMAIN positions
    BY <1>1 DEF TickArrives, OpenOrders, OrderIds
  <2>2. main.phase # "close" /\ main' = main /\ feed'.todo \subseteq OpenOrders
    BY <1>1 DEF TickArrives, LockFree
  <2> QED BY <2>1, <2>2 DEF KillInv, LockHeld, KillSafe, KillLeavesFlat
<1>2. ASSUME TickTriesOrder PROVE KillInv'
  <2> PICK k \in feed.todo :
        /\ orders' = [orders EXCEPT ![k] = Completed(Expecting(orders[k]), TryFill(orders[k]))]
        /\ feed' = [feed EXCEPT !.todo = @ \ {k}]
    BY <1>2 DEF TickTriesOrder
  <2> DEFINE o == Completed(Expecting(orders[k]), TryFill(orders[k]))
  <2>1. SymbolMap(ticks, Nat) /\ orders[k] \in Order
    BY DEF TypeOK, BookType, Snapshot, OrderIds
  <2>2. TryFill(orders[k]) \in Nat /\ o \in Order
    BY <2>1, TryFillNat, ExpectingOrder, CompletedOrder
  <2>3. o.status = "open" => orders[k].status = "open"
    BY <2>1, <2>2, FilledStatus
  <2> HIDE DEF o
  <2> QED BY <1>2, <2>2, <2>3, VisitKeepsKillInv DEF TickTriesOrder, o
<1>3. ASSUME TickBeginsForcing PROVE KillInv'
  <2>1. OpenOrders' = OpenOrders /\ UNCHANGED <<positions, main>>
    BY <1>3 DEF TickBeginsForcing, OpenOrders, OrderIds, book
  <2>2. feed'.todo \subseteq OpenOrders /\ main.phase # "close"
    BY <1>3 DEF TickBeginsForcing, TypeOK, KillInv, LockHeld
  <2> QED BY <2>1, <2>2 DEF KillInv, LockHeld, KillSafe, KillLeavesFlat
<1>4. ASSUME NEW bs \in BSPrices, TickForcesOrder(bs) PROVE KillInv'
  <2> PICK k \in feed.todo :
        /\ orders' = [orders EXCEPT ![k] = Forced(orders[k], bs)]
        /\ feed' = [feed EXCEPT !.todo = @ \ {k}]
    BY <1>4 DEF TickForcesOrder
  <2>1. /\ SymbolMap(ticks, Nat) /\ SymbolMap(positions, Position)
        /\ orders[k] \in Order
    BY DEF TypeOK, BookType, Snapshot, OrderIds
  <2>2. Forced(orders[k], bs) \in Order
    BY <2>1, ForcedOrder
  <2>3. Forced(orders[k], bs).status = "open" => orders[k].status = "open"
    BY <2>1, FilledStatus
  <2> QED BY <1>4, <2>2, <2>3, VisitKeepsKillInv DEF TickForcesOrder
<1>5. ASSUME TickEnds PROVE KillInv'
  <2>1. OpenOrders' = OpenOrders /\ UNCHANGED <<positions, main>>
    BY <1>5 DEF TickEnds, OpenOrders, OrderIds, book
  <2>2. feed' = FeedIdle
    BY <1>5 DEF TickEnds
  <2> QED BY <2>1, <2>2 DEF FeedIdle, KillInv, LockHeld, KillSafe, KillLeavesFlat
<1> QED
  BY <1>1, <1>2, <1>3, <1>4, <1>5 DEF Feed

\* Cancelling an order finishes it, whatever it was.
LEMMA CancelFinishes ==
    ASSUME TypeOK, NEW k \in OrderIds, Cancel(k)
    PROVE  /\ OpenOrders' = OpenOrders \ {k}
           /\ UNCHANGED positions
<1> DEFINE o == [orders[k] EXCEPT !.status = "cancelled"]
<1>1. orders \in Seq(Order)
  BY DEF TypeOK, BookType, Snapshot
<1>2. orders[k] \in Order
  BY <1>1 DEF OrderIds
<1>3. o \in Order /\ o.status = "cancelled"
  BY <1>2 DEF Order, Statuses
<1>4. orders' = [orders EXCEPT ![k] = o] /\ UNCHANGED positions
  BY DEF Cancel
<1> HIDE DEF o
<1>5. /\ OpenOrders' \subseteq OpenOrders
      /\ OpenOrders \ {k} \subseteq OpenOrders'
      /\ k \notin OpenOrders'
  BY <1>1, <1>3, <1>4, OpenOrdersShrink
<1> QED
  BY <1>4, <1>5

\* The steps of the runner keep the kill switch's invariant.
LEMMA RunnerKill == ASSUME TypeOK, Quiet, KillInv, Runner PROVE KillInv'
<1>1. ASSUME NEW i \in OrderInputs, NEW bs \in BSPrices, PlaceOrder(i, bs) PROVE KillInv'
  <2>1. feed'.todo = {} /\ main'.phase = "run"
    BY <1>1 DEF PlaceOrder, MainFree, LockFree, Quiet, MainRun
  <2> QED BY <2>1 DEF KillInv, LockHeld, KillSafe, KillLeavesFlat
<1>2. ASSUME NEW k \in OrderIds, CancelOrder(k) PROVE KillInv'
  <2>1. OpenOrders' \subseteq OpenOrders /\ UNCHANGED <<positions, feed, main>>
    BY <1>2, CancelFinishes DEF CancelOrder
  <2>2. feed.todo = {} /\ feed.phase = "idle"
    BY <1>2 DEF CancelOrder, MainFree, LockFree, Quiet
  <2> QED BY <2>1, <2>2 DEF KillInv, LockHeld, KillSafe, KillLeavesFlat
<1>3. ASSUME NEW k \in OrderIds, NEW p \in ModifyPrices, ModifyOrder(k, p) PROVE KillInv'
  <2>1. k \in OpenOrders
    BY <1>3 DEF ModifyOrder, OpenOrders
  <2>2. main.phase = "run"
    BY <1>3, <2>1 DEF ModifyOrder, MainFree, KillInv, KillSafe, KillLeavesFlat
  <2>3. feed.todo = {} /\ UNCHANGED <<feed, main>>
    BY <1>3 DEF ModifyOrder, MainFree, LockFree, Quiet
  <2> QED BY <2>2, <2>3 DEF KillInv, LockHeld, KillSafe, KillLeavesFlat
<1>4. ASSUME GetPositions PROVE KillInv'
  <2>1. OpenOrders' = OpenOrders /\ DOMAIN positions' = DOMAIN positions
    BY <1>4 DEF GetPositions, OpenOrders, OrderIds
  <2> QED BY <1>4, <2>1 DEF GetPositions, KillInv, LockHeld, KillSafe, KillLeavesFlat
<1>5. ASSUME KillBegins PROVE KillInv'
  <2>1. OpenOrders' = OpenOrders /\ main'.phase = "cancel"
        /\ main'.todo = {k \in OrderIds : orders[k].status # "complete"}
    BY <1>5 DEF KillBegins, OpenOrders, OrderIds, book
  <2>2. OpenOrders \subseteq main'.todo
    BY <2>1 DEF OpenOrders
  <2> QED BY <1>5, <2>1, <2>2 DEF KillBegins, KillInv, LockHeld, KillSafe, KillLeavesFlat
<1>6. ASSUME KillCancels PROVE KillInv'
  <2> PICK k \in main.todo :
        /\ main' = [main EXCEPT !.todo = @ \ {k}]
        /\ IF orders[k].status = "complete"
           THEN UNCHANGED <<book, ghost, disk, saveFailures>>
           ELSE Cancel(k)
    BY <1>6 DEF KillCancels
  <2>1. /\ k \in OrderIds /\ main.phase = "cancel" /\ feed.todo = {} /\ UNCHANGED feed
        /\ main'.phase = "cancel" /\ main'.todo = main.todo \ {k}
    BY <1>6 DEF TypeOK, KillCancels, LockFree, Quiet
  <2>2. OpenOrders' = OpenOrders \ {k}
    <3>1. CASE orders[k].status = "complete"
      BY <3>1 DEF book, OpenOrders, OrderIds
    <3>2. CASE orders[k].status # "complete"
      <4>1. Cancel(k)
        BY <3>2
      <4> QED BY <2>1, <4>1, CancelFinishes
    <3> QED BY <3>1, <3>2
  <2> QED BY <2>1, <2>2 DEF KillInv, LockHeld, KillSafe, KillLeavesFlat
<1>7. ASSUME KillTakesLock PROVE KillInv'
  <2>1. OpenOrders' = OpenOrders /\ main'.phase = "close" /\ OpenOrders = {}
    BY <1>7 DEF KillTakesLock, OpenOrders, OrderIds, book, TypeOK, KillInv, KillSafe
  <2> QED BY <1>7, <2>1 DEF KillTakesLock, LockFree, KillInv, LockHeld, KillSafe, KillLeavesFlat
<1>8. ASSUME KillEnds PROVE KillInv'
  <2>1. OpenOrders' = OpenOrders /\ main'.phase = "killed"
    BY <1>8 DEF KillEnds, OpenOrders, OrderIds, book, TypeOK
  <2>2. DOMAIN positions' = {} /\ OpenOrders = {} /\ UNCHANGED feed
    BY <1>8 DEF KillEnds, book, KillInv, KillSafe
  <2> QED BY <2>1, <2>2 DEF KillInv, LockHeld, KillSafe, KillLeavesFlat
<1>9. ASSUME NEW s \in Symbols, KillCloses(s) PROVE KillInv'
  <2>1. OpenOrders' = OpenOrders /\ main.phase = "close" /\ UNCHANGED <<feed, main>>
    BY <1>9 DEF KillCloses, OpenOrders, OrderIds
  <2> QED BY <2>1 DEF KillInv, LockHeld, KillSafe, KillLeavesFlat
<1> QED
  BY <1>1, <1>2, <1>3, <1>4, <1>5, <1>6, <1>7, <1>8, <1>9 DEF Runner

\* Stop, crash and restart keep the kill switch's invariant.
LEMMA LifecycleKill == ASSUME TypeOK, Quiet, KillInv, Lifecycle PROVE KillInv'
<1>1. ASSUME Start PROVE KillInv'
  BY <1>1 DEF Start, Quiet, KillInv, LockHeld, KillSafe, KillLeavesFlat
<1>2. ASSUME Connect PROVE KillInv'
  BY <1>2 DEF Connect, book, OpenOrders, OrderIds, KillInv, LockHeld, KillSafe, KillLeavesFlat
<1>3. ASSUME Disconnect PROVE KillInv'
  BY <1>3 DEF Disconnect, book, OpenOrders, OrderIds, KillInv, LockHeld, KillSafe, KillLeavesFlat
<1>4. ASSUME Crash PROVE KillInv'
  BY <1>4 DEF Crash, FeedIdle, MainRun, KillInv, LockHeld, KillSafe, KillLeavesFlat
<1>5. ASSUME Reset PROVE KillInv'
  <2>1. feed.todo = {} /\ main.phase \in {"run", "killed"} /\ UNCHANGED <<feed, main>>
    BY <1>5 DEF Reset, MainFree, LockFree, Quiet
  <2>2. OpenOrders' = {} /\ DOMAIN positions' = {}
    BY <1>5 DEF Reset, BookBecomes, EmptyBook, EmptyMap, OpenOrders, OrderIds
  <2> QED BY <2>1, <2>2 DEF KillInv, LockHeld, KillSafe, KillLeavesFlat
<1> QED
  BY <1>1, <1>2, <1>3, <1>4, <1>5 DEF Lifecycle

\* Every state satisfies the kill switch's invariant.
LEMMA KillInvariant == Spec => []KillInv
<1>1. Init => KillInv
  BY DEF Init, FeedIdle, MainRun, KillInv, LockHeld, KillSafe, KillLeavesFlat
<1>2. TypeOK /\ Quiet /\ KillInv /\ [Next]_vars => KillInv'
  <2> SUFFICES ASSUME TypeOK, Quiet, KillInv, [Next]_vars PROVE KillInv'
    OBVIOUS
  <2>1. CASE UNCHANGED vars
    BY <2>1 DEF vars, OpenOrders, OrderIds, KillInv, LockHeld, KillSafe, KillLeavesFlat
  <2> QED
    BY <2>1, RunnerKill, FeedKill, LifecycleKill DEF Next
<1> QED
  BY TypeInvariant, <1>1, <1>2, PTL DEF Spec

\* Once the kill switch has run, and until the runner places another order,
\* nothing is held and nothing is open: cancel_all_open_orders holds no lock
\* between two orders, yet no interleaving with the feed leaves a fill behind.
THEOREM KillFlat == Spec => []KillLeavesFlat
<1>1. KillInv => KillLeavesFlat
  BY DEF KillInv, KillSafe
<1> QED
  BY KillInvariant, <1>1, PTL

------------------------------------------------------------------------------
(* Finished orders stay as they are. *)

\* Replacing an order that is open, or by itself, touches no finished one.
LEMMA ReplaceKeepsFinished ==
    ASSUME orders \in Seq(Order), NEW k \in OrderIds, NEW o,
           orders[k].status = "open" \/ o = orders[k],
           orders' = [orders EXCEPT ![k] = o]
    PROVE  FinishedStay
  BY DEF FinishedStay, OrderIds

\* Cancelling an order that is not complete reopens no finished order.
LEMMA CancelKeepsFinished ==
    ASSUME TypeOK, NEW k \in OrderIds, Cancel(k), orders[k].status # "complete"
    PROVE  FinishedStay
<1> DEFINE o == [orders[k] EXCEPT !.status = "cancelled"]
<1>1. orders \in Seq(Order)
  BY DEF TypeOK, BookType, Snapshot
<1>2. orders[k] \in Order
  BY <1>1 DEF OrderIds
<1>3. orders[k].status = "open" \/ o = orders[k]
  BY <1>2 DEF Order, Statuses
<1>4. orders' = [orders EXCEPT ![k] = o]
  BY DEF Cancel
<1> HIDE DEF o
<1> QED
  BY <1>1, <1>3, <1>4, ReplaceKeepsFinished

\* No step changes a finished order.
LEMMA FinishedStep ==
    ASSUME TypeOK, Quiet, KillInv, Next
    PROVE  FinishedStay
<1>1. orders \in Seq(Order)
  BY DEF TypeOK, BookType, Snapshot
<1>2. orders' = orders => FinishedStay
  BY DEF FinishedStay
<1>3. ASSUME Runner PROVE FinishedStay
  <2>1. ASSUME NEW i \in OrderInputs, NEW bs \in BSPrices, PlaceOrder(i, bs)
        PROVE  FinishedStay
    <3>1. \E o : orders' = Append(orders, o)
      BY <2>1 DEF PlaceOrder
    <3> QED BY <1>1, <3>1 DEF FinishedStay, OrderIds
  <2>2. ASSUME NEW k \in OrderIds, CancelOrder(k) PROVE FinishedStay
    BY <2>2, CancelKeepsFinished DEF CancelOrder
  <2>3. ASSUME NEW k \in OrderIds, NEW p \in ModifyPrices, ModifyOrder(k, p)
        PROVE  FinishedStay
    <3>1. /\ orders[k].status = "open"
          /\ \E o : orders' = [orders EXCEPT ![k] = o]
      BY <2>3 DEF ModifyOrder
    <3> QED BY <1>1, <3>1, ReplaceKeepsFinished
  <2>4. ASSUME KillCancels PROVE FinishedStay
    <3> PICK k \in main.todo :
          IF orders[k].status = "complete"
          THEN UNCHANGED <<book, ghost, disk, saveFailures>>
          ELSE Cancel(k)
      BY <2>4 DEF KillCancels
    <3>1. k \in OrderIds
      BY DEF TypeOK
    <3>2. CASE orders[k].status = "complete"
      BY <1>2, <3>2 DEF book
    <3>3. CASE orders[k].status # "complete"
      <4>1. Cancel(k)
        BY <3>3
      <4> QED BY <3>1, <3>3, <4>1, CancelKeepsFinished
    <3> QED BY <3>2, <3>3
  <2>5. GetPositions \/ KillBegins \/ KillTakesLock \/ KillEnds
          \/ (\E s \in Symbols : KillCloses(s)) => orders' = orders
    BY DEF GetPositions, KillBegins, KillTakesLock, KillEnds, KillCloses, book
  <2> QED BY <1>2, <1>3, <2>1, <2>2, <2>3, <2>4, <2>5 DEF Runner
<1>4. ASSUME Feed PROVE FinishedStay
  <2>1. ASSUME NEW k \in feed.todo, NEW o, orders' = [orders EXCEPT ![k] = o]
        PROVE  FinishedStay
    <3>1. k \in OrderIds /\ orders[k].status = "open"
      BY DEF KillInv, LockHeld, OpenOrders
    <3> QED BY <1>1, <2>1, <3>1, ReplaceKeepsFinished
  <2>2. ASSUME TickTriesOrder PROVE FinishedStay
    <3>1. \E k \in feed.todo, o \in {Completed(Expecting(orders[j]), TryFill(orders[j])) : j \in feed.todo} :
            orders' = [orders EXCEPT ![k] = o]
      BY <2>2 DEF TickTriesOrder
    <3> QED BY <2>1, <3>1
  <2>3. ASSUME NEW bs \in BSPrices, TickForcesOrder(bs) PROVE FinishedStay
    <3>1. \E k \in feed.todo, o \in {Forced(orders[j], bs) : j \in feed.todo} :
            orders' = [orders EXCEPT ![k] = o]
      BY <2>3 DEF TickForcesOrder
    <3> QED BY <2>1, <3>1
  <2>4. (\E s \in Symbols, p \in TickPrices : TickArrives(s, p)) \/ TickBeginsForcing \/ TickEnds
          => orders' = orders
    BY DEF TickArrives, TickBeginsForcing, TickEnds, book
  <2> QED BY <1>2, <1>4, <2>2, <2>3, <2>4 DEF Feed
<1>5. ASSUME Lifecycle PROVE FinishedStay
  <2>1. ASSUME Reset PROVE FinishedStay
    <3>1. orders' = <<>>
      BY <2>1 DEF Reset, BookBecomes, EmptyBook
    <3> QED BY <1>1, <3>1 DEF FinishedStay, OrderIds
  <2>2. Start \/ Crash => proc = "down" \/ proc' = "down"
    BY DEF Start, Crash
  <2>3. Connect \/ Disconnect => orders' = orders
    BY DEF Connect, Disconnect, book
  <2> QED BY <1>2, <1>5, <2>1, <2>2, <2>3 DEF Lifecycle, FinishedStay
<1> QED
  BY <1>3, <1>4, <1>5 DEF Next

\* While a process lives, no step changes an order that is filled or cancelled.
THEOREM FinishedForever == Spec => FinishedOrdersStay
<1>1. TypeOK /\ Quiet /\ KillInv /\ [Next]_vars => [FinishedStay]_vars
  BY FinishedStep
<1> QED
  BY TypeInvariant, KillInvariant, <1>1, PTL DEF Spec, FinishedOrdersStay

------------------------------------------------------------------------------
(* Limits are respected. *)

Respected(os) == \A k \in DOMAIN os : ~BeyondLimit(os[k])

\* Nothing is ever forced outside market_like mode, and the file keeps what
\* the memory keeps.
LimitInv ==
    fillMode # "market_like" =>
        /\ Respected(orders)
        /\ disk # NoFile => Respected(disk.orders)
        /\ feed.phase = "force" => feed.todo = {}

\* A limit order the simulator fills is filled within its limit.
LEMMA LimitPriceWithin ==
    ASSUME NEW o \in Order, NEW ref \in Nat, LimitPrice(o, ref) > 0
    PROVE  IF o.side = "BUY" THEN LimitPrice(o, ref) <= o.price
                             ELSE LimitPrice(o, ref) >= o.price
<1> DEFINE spread == Larger(MinSpread, (ref * SpreadBps) \div 10000)
<1>1. o.price \in Nat /\ o.side \in {"BUY", "SELL"}
  BY DEF Order
<1>2. spread \in Nat
  <2>1. ref * SpreadBps \in Nat /\ MinSpread \in Nat
    BY InputsAssumption
  <2> QED BY <2>1, DivNat DEF Larger
<1>3. /\ LimitPrice(o, ref) =
           IF o.side = "BUY" /\ o.price >= ref + spread THEN Smaller(o.price, ref + spread)
           ELSE IF o.side = "SELL" /\ o.price <= ref - spread THEN Larger(o.price, ref - spread)
           ELSE IF Near(o, ref) THEN o.price ELSE 0
  BY DEF LimitPrice
<1> HIDE DEF spread
<1> QED
  BY <1>1, <1>2, <1>3 DEF Smaller, Larger

\* A fill that is tried respects the order's limit.
LEMMA TriedWithin ==
    ASSUME SymbolMap(ticks, Nat), NEW o \in Order, o.status = "open"
    PROVE  ~BeyondLimit(Completed(Expecting(o), TryFill(o)))
<1>1. /\ TryRef(o) \in Nat /\ TryFill(o) \in Nat
      /\ Expecting(o) \in Order
  BY TryFillNat, ExpectingOrder
<1>2. /\ Expecting(o).type = o.type /\ Expecting(o).side = o.side
      /\ Expecting(o).price = o.price /\ Expecting(o).status = "open"
  BY DEF Expecting, Order
<1>3. ASSUME o.type = "LIMIT", TryFill(o) > 0
      PROVE  IF o.side = "BUY" THEN TryFill(o) <= o.price ELSE TryFill(o) >= o.price
  <2>1. TryFill(o) = LimitPrice(o, TryRef(o))
    BY <1>3 DEF TryFill
  <2> QED BY <1>1, <1>3, <2>1, LimitPriceWithin
<1> DEFINE c == Completed(Expecting(o), TryFill(o))
<1>4. CASE TryFill(o) > 0
  <2>1. /\ c.type = o.type /\ c.side = o.side /\ c.price = o.price /\ c.fill = TryFill(o)
    BY <1>1, <1>2, <1>4 DEF Completed, Order
  <2>2. o.price \in Nat
    BY DEF Order
  <2> HIDE DEF c
  <2> QED BY <1>1, <1>3, <1>4, <2>1, <2>2 DEF BeyondLimit, c
<1>5. CASE ~(TryFill(o) > 0)
  BY <1>2, <1>5 DEF Completed, BeyondLimit
<1> QED
  BY <1>4, <1>5

\* Replacing an order by one within its limit.
LEMMA ReplaceWithin ==
    ASSUME orders \in Seq(Order), NEW k \in OrderIds, NEW o, ~BeyondLimit(o),
           Respected(orders), orders' = [orders EXCEPT ![k] = o]
    PROVE  Respected(orders')
  BY DEF Respected, OrderIds

\* What a save leaves in the file respects the limits if the memory does.
LEMMA SaveWithin ==
    ASSUME LimitInv, fillMode # "market_like", Respected(orders'), SaveState
    PROVE  disk' # NoFile => Respected(disk'.orders)
<1>1. disk' = Snapshot' \/ disk' = disk
  BY DEF SaveState
<1>2. Snapshot'.orders = orders'
  BY DEF Snapshot
<1> QED
  BY <1>1, <1>2 DEF LimitInv

\* A cancellation leaves every limit respected.
LEMMA CancelWithin ==
    ASSUME TypeOK, LimitInv, fillMode # "market_like", NEW k \in OrderIds, Cancel(k)
    PROVE  Respected(orders') /\ (disk' # NoFile => Respected(disk'.orders))
<1> DEFINE o == [orders[k] EXCEPT !.status = "cancelled"]
<1>1. orders \in Seq(Order)
  BY DEF TypeOK, BookType, Snapshot
<1>2. orders[k] \in Order
  BY <1>1 DEF OrderIds
<1>3. ~BeyondLimit(o)
  BY <1>2 DEF Order, BeyondLimit
<1>4. orders' = [orders EXCEPT ![k] = o]
  BY DEF Cancel
<1> HIDE DEF o
<1>5. Respected(orders')
  BY <1>1, <1>3, <1>4, ReplaceWithin DEF LimitInv
<1> QED
  BY <1>5, SaveWithin DEF Cancel

\* Every step keeps the limits respected, in memory and on disk, in the realistic fill
\* modes.
LEMMA LimitStep ==
    ASSUME TypeOK, Quiet, KillInv, LimitInv, Next, fillMode # "market_like"
    PROVE  /\ Respected(orders')
           /\ disk' # NoFile => Respected(disk'.orders)
           /\ feed'.phase = "force" => feed'.todo = {}
<1> DEFINE Goal == /\ Respected(orders')
                   /\ disk' # NoFile => Respected(disk'.orders)
                   /\ feed'.phase = "force" => feed'.todo = {}
<1>1. orders \in Seq(Order) /\ SymbolMap(ticks, Nat)
  BY DEF TypeOK, BookType, Snapshot
<1>2. /\ Respected(orders) /\ (disk # NoFile => Respected(disk.orders))
      /\ feed.phase = "force" => feed.todo = {}
  BY DEF LimitInv
<1>3. \A k \in OrderIds : orders[k] \in Order
  BY <1>1 DEF OrderIds
<1>4. ASSUME Runner PROVE Goal
  <2>1. ASSUME NEW i \in OrderInputs, NEW bs \in BSPrices, PlaceOrder(i, bs) PROVE Goal
    <3> DEFINE sub == Submitted(i)
               o == Completed(Expecting(sub), TryFill(sub))
    <3>1. sub \in Order /\ sub.status = "open"
      BY SubmittedOrder DEF Submitted
    <3>2. ~BeyondLimit(o)
      <4> HIDE DEF sub
      <4> QED BY <1>1, <3>1, TriedWithin
    <3>3. orders' = Append(orders, o) /\ SaveState /\ UNCHANGED feed
      BY <2>1 DEF PlaceOrder
    <3> HIDE DEF o
    <3>4. Respected(orders')
      BY <1>1, <1>2, <3>2, <3>3 DEF Respected
    <3> QED BY <1>2, <3>3, <3>4, SaveWithin
  <2>2. ASSUME NEW k \in OrderIds, CancelOrder(k) PROVE Goal
    BY <1>2, <2>2, CancelWithin DEF CancelOrder
  <2>3. ASSUME NEW k \in OrderIds, NEW p \in ModifyPrices, ModifyOrder(k, p) PROVE Goal
    <3> DEFINE o == [orders[k] EXCEPT !.price = p]
    <3>1. o \in Order /\ o.status = "open"
      <4>1. p \in Nat /\ orders[k] \in Order /\ orders[k].status = "open"
        BY <1>3, <2>3, InputsAssumption DEF ModifyOrder
      <4> QED BY <4>1 DEF Order
    <3>2. /\ orders' = [orders EXCEPT ![k] = Completed(Expecting(o), TryFill(o))]
          /\ SaveState /\ UNCHANGED feed
      BY <2>3 DEF ModifyOrder
    <3> HIDE DEF o
    <3>3. Respected(orders')
      BY <1>1, <1>2, <3>1, <3>2, TriedWithin, ReplaceWithin
    <3> QED BY <1>2, <3>2, <3>3, SaveWithin
  <2>4. ASSUME KillCancels PROVE Goal
    <3> PICK k \in main.todo :
          IF orders[k].status = "complete"
          THEN UNCHANGED <<book, ghost, disk, saveFailures>>
          ELSE Cancel(k)
      BY <2>4 DEF KillCancels
    <3>1. k \in OrderIds /\ UNCHANGED feed
      BY <2>4 DEF TypeOK, KillCancels
    <3>2. CASE orders[k].status = "complete"
      BY <1>2, <3>1, <3>2 DEF book
    <3>3. CASE orders[k].status # "complete"
      <4>1. Cancel(k)
        BY <3>3
      <4> QED BY <1>2, <3>1, <4>1, CancelWithin
    <3> QED BY <3>2, <3>3
  <2>5. GetPositions \/ KillBegins \/ KillTakesLock \/ KillEnds
          \/ (\E s \in Symbols : KillCloses(s)) => UNCHANGED <<orders, disk, feed>>
    BY DEF GetPositions, KillBegins, KillTakesLock, KillEnds, KillCloses, book
  <2> QED BY <1>2, <1>4, <2>1, <2>2, <2>3, <2>4, <2>5 DEF Runner
<1>5. ASSUME Feed PROVE Goal
  <2>1. ASSUME TickTriesOrder PROVE Goal
    <3> PICK k \in feed.todo :
          /\ orders' = [orders EXCEPT ![k] = Completed(Expecting(orders[k]), TryFill(orders[k]))]
          /\ feed' = [feed EXCEPT !.todo = @ \ {k}]
      BY <2>1 DEF TickTriesOrder
    <3>1. k \in OrderIds /\ orders[k] \in Order /\ orders[k].status = "open"
      BY <1>3 DEF KillInv, LockHeld, OpenOrders
    <3>2. Respected(orders')
      BY <1>1, <1>2, <3>1, TriedWithin, ReplaceWithin
    <3>3. UNCHANGED disk /\ feed'.phase = "try"
      BY <2>1 DEF TickTriesOrder, TypeOK
    <3> QED BY <1>2, <3>2, <3>3
  <2>2. ASSUME NEW bs \in BSPrices, TickForcesOrder(bs) PROVE Goal
    BY <1>2, <2>2 DEF TickForcesOrder
  <2>3. ASSUME TickBeginsForcing PROVE Goal
    BY <1>2, <2>3 DEF TickBeginsForcing, TypeOK, book
  <2>4. ASSUME NEW s \in Symbols, NEW p \in TickPrices, TickArrives(s, p) PROVE Goal
    BY <1>2, <2>4 DEF TickArrives
  <2>5. ASSUME TickEnds PROVE Goal
    <3>1. orders' = orders /\ SaveState /\ feed' = FeedIdle
      BY <2>5 DEF TickEnds, book
    <3> QED BY <1>2, <3>1, SaveWithin DEF FeedIdle
  <2> QED BY <1>5, <2>1, <2>2, <2>3, <2>4, <2>5 DEF Feed
<1>6. ASSUME Lifecycle PROVE Goal
  <2>1. ASSUME Start PROVE Goal
    <3>1. CASE disk = NoFile
      BY <1>2, <2>1, <3>1 DEF Start, book
    <3>2. CASE disk # NoFile
      <4>1. orders' = [k \in DOMAIN disk.orders |-> ZombieClean(disk.orders[k])]
            /\ UNCHANGED <<disk, feed>>
        BY <2>1, <3>2 DEF Start, BookBecomes, Loaded
      <4>2. ASSUME NEW k \in DOMAIN disk.orders PROVE ~BeyondLimit(orders'[k])
        <5>1. disk.orders[k] \in Order /\ ~BeyondLimit(disk.orders[k])
          BY <1>2, <3>2 DEF Respected, TypeOK, BookType
        <5> QED BY <4>1, <5>1 DEF ZombieClean, BeyondLimit, Order
      <4> QED BY <1>2, <4>1, <4>2 DEF Respected
    <3> QED BY <3>1, <3>2
  <2>2. ASSUME Connect PROVE Goal
    BY <1>2, <2>2 DEF Connect, book
  <2>3. ASSUME Disconnect PROVE Goal
    <3>1. orders' = orders /\ SaveState /\ feed' = feed
      BY <2>3 DEF Disconnect, book
    <3> QED BY <1>2, <3>1, SaveWithin
  <2>4. ASSUME Crash PROVE Goal
    BY <1>2, <2>4 DEF Crash, BookBecomes, EmptyBook, FeedIdle, Respected
  <2>5. ASSUME Reset PROVE Goal
    BY <1>2, <2>5 DEF Reset, BookBecomes, EmptyBook, Respected
  <2> QED BY <1>6, <2>1, <2>2, <2>3, <2>4, <2>5 DEF Lifecycle
<1> QED
  BY <1>4, <1>5, <1>6 DEF Next

\* In the modes that do not force fills, a limit order never fills beyond its
\* limit, nor does one come back from the state file that did.
THEOREM LimitsRespected == Spec => []LimitRespected
<1>1. Init => LimitInv
  BY DEF Init, LimitInv, EmptyBook, Respected, FeedIdle
<1>2. TypeOK /\ Quiet /\ KillInv /\ LimitInv /\ [Next]_vars => LimitInv'
  <2> SUFFICES ASSUME TypeOK, Quiet, KillInv, LimitInv, [Next]_vars PROVE LimitInv'
    OBVIOUS
  <2>1. CASE UNCHANGED vars
    BY <2>1 DEF vars, LimitInv, Respected
  <2>2. CASE Next
    <3>1. fillMode' = fillMode
      BY <2>2 DEF Next, Runner, Feed, Lifecycle, PlaceOrder, CancelOrder, ModifyOrder,
                  GetPositions, KillBegins, KillCancels, KillTakesLock, KillEnds, KillCloses,
                  TickArrives, TickTriesOrder, TickBeginsForcing, TickForcesOrder, TickEnds,
                  Start, Connect, Disconnect, Crash, Reset
    <3> QED BY <2>2, <3>1, LimitStep DEF LimitInv, Respected
  <2> QED BY <2>1, <2>2
<1>3. LimitInv => LimitRespected
  BY DEF LimitInv, LimitRespected, Respected, OrderIds
<1> QED
  BY TypeInvariant, KillInvariant, <1>1, <1>2, <1>3, PTL DEF Spec

------------------------------------------------------------------------------
(* The books follow the fills.  Sound says of a book, in memory or on disk, *)
(* what BooksFollowFills says of the memory, and what makes it inductive:   *)
(* an order that is not complete has moved nothing yet, and nothing is held *)
(* with quantity 0.                                                         *)

HeldIn(ps, s) == IF s \in DOMAIN ps THEN ps[s].qty ELSE 0

Unfilled(os) == \A k \in DOMAIN os : os[k].status # "complete" => os[k].filled = 0 /\ os[k].fill = 0

SoundBook(os, ps, c, r, flat, bal) ==
    /\ Unfilled(os)
    /\ IsFiniteSet(DOMAIN ps)
    /\ \A s \in DOMAIN ps : ps[s].qty # 0
    /\ c = StartingCapital - SumFunctionOnSet(Values(os), DOMAIN os)
    /\ \A s \in Symbols :
            HeldIn(ps, s) = SumFunctionOnSet(Quantities(os), Of(os, s)) - flat[s]
    /\ bal => c + SumFunctionOnSet(Costs(ps), DOMAIN ps) = StartingCapital + r

Sound(b) == SoundBook(b.orders, b.positions, b.cash, b.realized, b.flattened, b.balanced)

BooksInv == Sound(Snapshot) /\ (disk # NoFile => Sound(disk))

\* What a position has cost, or nothing.
CostIn(ps, s) == IF s \in DOMAIN ps THEN ps[s].qty * ps[s].avg * ps[s].cs ELSE 0

\* The signed quantity a fill of the order at this price moves.
Moves(o, price) == IF price > 0 THEN (IF o.side = "BUY" THEN o.qty ELSE -o.qty) ELSE 0

------------------------------------------------------------------------------
(* The sums when one order changes. *)

\* The sums over qs are those over os and what the order o has moved.
Moved(os, qs, o) ==
    /\ SumFunctionOnSet(Values(qs), DOMAIN qs)
          = SumFunctionOnSet(Values(os), DOMAIN os) + Signed(o) * o.fill * o.cs
    /\ \A s : SumFunctionOnSet(Quantities(qs), Of(qs, s))
          = SumFunctionOnSet(Quantities(os), Of(os, s)) + (IF s = o.symbol THEN Signed(o) ELSE 0)

\* The signed quantity of an order, by its side.
LEMMA SignedFilled ==
    ASSUME NEW o \in Order
    PROVE  Signed(o) = IF o.side = "BUY" THEN o.filled ELSE 0 - o.filled
<1>1. o.filled \in Int
  BY DEF Order
<1> QED
  BY <1>1 DEF Signed

\* The orders are finitely many, and what is summed over them are integers.
LEMMA OrdersFinite ==
    ASSUME NEW os \in Seq(Order), NEW s
    PROVE  /\ IsFiniteSet(DOMAIN os) /\ IsFiniteSet(Of(os, s)) /\ Of(os, s) \subseteq DOMAIN os
           /\ \A k \in DOMAIN os : os[k] \in Order /\ Signed(os[k]) \in Int
                /\ Signed(os[k]) * os[k].fill * os[k].cs \in Int
<1>1. DOMAIN os = 1..Len(os) /\ Len(os) \in Nat
  OBVIOUS
<1>2. IsFiniteSet(DOMAIN os)
  BY <1>1, FS_Interval
<1>3. Of(os, s) \subseteq DOMAIN os
  BY DEF Of
<1>4. IsFiniteSet(Of(os, s))
  BY <1>2, <1>3, FS_Subset
<1>5. ASSUME NEW k \in DOMAIN os
      PROVE  /\ os[k] \in Order /\ Signed(os[k]) \in Int
             /\ Signed(os[k]) * os[k].fill * os[k].cs \in Int
  <2>1. os[k] \in Order
    BY <1>1
  <2>2. Signed(os[k]) \in Int /\ os[k].fill \in Int /\ os[k].cs \in Int
    BY <2>1 DEF Order, Signed
  <2> QED BY <2>1, <2>2
<1> QED
  BY <1>2, <1>3, <1>4, <1>5

\* An order that had moved nothing is filled, or not, at its place.
LEMMA SumsReplace ==
    ASSUME NEW os \in Seq(Order), NEW k \in DOMAIN os, NEW o \in Order,
           os[k].filled = 0, o.symbol = os[k].symbol
    PROVE  Moved(os, [os EXCEPT ![k] = o], o)
<1> DEFINE qs == [os EXCEPT ![k] = o]
<1>1. qs \in Seq(Order) /\ DOMAIN qs = DOMAIN os /\ qs[k] = o
      /\ \A j \in DOMAIN os : j # k => qs[j] = os[j]
  <2>1. DOMAIN os = 1..Len(os) /\ os \in [1..Len(os) -> Order]
    OBVIOUS
  <2> QED BY <2>1, ExceptSeq
<1> HIDE DEF qs
<1>2. \A s : Of(qs, s) = Of(os, s)
  BY <1>1 DEF Of
<1>3. \A s : /\ IsFiniteSet(DOMAIN os) /\ IsFiniteSet(Of(os, s)) /\ Of(os, s) \subseteq DOMAIN os
            /\ \A j \in DOMAIN os : /\ os[j] \in Order /\ Signed(os[j]) \in Int
                  /\ Signed(os[j]) * os[j].fill * os[j].cs \in Int
                  /\ qs[j] \in Order /\ Signed(qs[j]) \in Int
                  /\ Signed(qs[j]) * qs[j].fill * qs[j].cs \in Int
  BY <1>1, OrdersFinite
<1>4. Signed(os[k]) = 0 /\ os[k].fill \in Int /\ os[k].cs \in Int
  <2>1. os[k] \in Order
    BY OrdersFinite
  <2>2. os[k].fill \in Int /\ os[k].cs \in Int
    BY <2>1 DEF Order
  <2> QED BY <2>1, <2>2, SignedFilled
<1>5. SumFunctionOnSet(Values(qs), DOMAIN qs)
        = SumFunctionOnSet(Values(os), DOMAIN os) + Signed(o) * o.fill * o.cs
  <2> DEFINE f == Values(os)
             g == Values(qs)
             T == DOMAIN os
  <2>1. \A j \in T : f[j] \in Int /\ g[j] \in Int
    BY <1>1, <1>3 DEF Values
  <2>2. \A j \in T \ {k} : g[j] = f[j]
    BY <1>1 DEF Values
  <2>3. g[k] = Signed(o) * o.fill * o.cs
    BY <1>1 DEF Values
  <2>4. f[k] = 0
    BY <1>4 DEF Values
  <2>5. IsFiniteSet(T) /\ k \in T
    BY <1>3
  <2> HIDE DEF f, g, T
  <2>6. SumFunctionOnSet(f, T) \in Int
    BY <2>1, <2>5, SumInt
  <2>7. SumFunctionOnSet(g, T) = SumFunctionOnSet(f, T) + g[k] - f[k]
    BY <2>1, <2>2, <2>5, SumChange, SMTT(60)
  <2>8. g[k] \in Int
    BY <2>1, <2>5
  <2>9. SumFunctionOnSet(g, T) = SumFunctionOnSet(f, T) + g[k]
    BY <2>4, <2>6, <2>7, <2>8
  <2> QED BY <1>1, <2>3, <2>9 DEF f, g, T
<1>6. ASSUME NEW s
      PROVE  SumFunctionOnSet(Quantities(qs), Of(qs, s))
              = SumFunctionOnSet(Quantities(os), Of(os, s)) + (IF s = o.symbol THEN Signed(o) ELSE 0)
  <2> DEFINE f == Quantities(os)
             g == Quantities(qs)
             T == Of(os, s)
  <2>1. \A j \in T : f[j] \in Int /\ g[j] \in Int
    BY <1>1, <1>3 DEF Quantities
  <2>2. \A j \in T \ {k} : g[j] = f[j]
    BY <1>1, <1>3 DEF Quantities
  <2>3. g[k] = Signed(o) /\ f[k] = 0 /\ Signed(o) \in Int
    BY <1>1, <1>3, <1>4 DEF Quantities
  <2>4. k \in T <=> s = o.symbol
    BY DEF Of
  <2>5. SumFunctionOnSet(f, T) \in Int
    <3> HIDE DEF f
    <3> QED BY <1>3, <2>1, SumInt
  <2>6. CASE s = o.symbol
    <3>1. SumFunctionOnSet(g, T) = SumFunctionOnSet(f, T) + g[k] - f[k]
      <4> HIDE DEF f, g, T
      <4>1. IsFiniteSet(T)
        BY <1>3 DEF T
      <4> QED BY <4>1, <2>1, <2>2, <2>4, <2>6, SumChange
    <3> HIDE DEF f, g, T
    <3>2. SumFunctionOnSet(g, T) = SumFunctionOnSet(f, T) + Signed(o)
      BY <2>3, <2>5, <3>1
    <3> QED BY <1>2, <2>6, <3>2 DEF f, g, T
  <2>7. CASE s # o.symbol
    <3>1. SumFunctionOnSet(g, T) = SumFunctionOnSet(f, T)
      <4> HIDE DEF f, g, T
      <4>1. IsFiniteSet(T)
        BY <1>3 DEF T
      <4> QED BY <4>1, <2>2, <2>4, <2>7, SumEqual
    <3> HIDE DEF f, g, T
    <3>2. SumFunctionOnSet(g, T) = SumFunctionOnSet(f, T) + 0
      BY <2>5, <3>1
    <3> QED BY <1>2, <2>7, <3>2 DEF f, g, T
  <2> QED BY <2>6, <2>7
<1> QED
  BY <1>5, <1>6 DEF qs, Moved

\* An order comes last, filled or not.
LEMMA SumsAppend ==
    ASSUME NEW os \in Seq(Order), NEW o \in Order
    PROVE  Moved(os, Append(os, o), o)
<1> DEFINE qs == Append(os, o)
           n == Len(os) + 1
<1>1. /\ qs \in Seq(Order) /\ DOMAIN qs = DOMAIN os \cup {n} /\ n \notin DOMAIN os /\ qs[n] = o
      /\ \A j \in DOMAIN os : qs[j] = os[j]
  <2>1. Len(os) \in Nat /\ DOMAIN os = 1..Len(os) /\ qs \in Seq(Order) /\ Len(qs) = n /\ DOMAIN qs = 1..n
    OBVIOUS
  <2>2. qs[n] = o /\ \A j \in 1..Len(os) : qs[j] = os[j]
    OBVIOUS
  <2> HIDE DEF qs
  <2>3. 1..n = (1..Len(os)) \cup {n} /\ n \notin 1..Len(os)
    BY <2>1
  <2> QED BY <2>1, <2>2, <2>3
<1> HIDE DEF qs, n
<1>2. \A s : /\ IsFiniteSet(DOMAIN os) /\ IsFiniteSet(Of(os, s)) /\ Of(os, s) \subseteq DOMAIN os
            /\ \A j \in DOMAIN qs : /\ qs[j] \in Order /\ Signed(qs[j]) \in Int
                  /\ Signed(qs[j]) * qs[j].fill * qs[j].cs \in Int
  BY <1>1, OrdersFinite
<1>3. SumFunctionOnSet(Values(qs), DOMAIN qs)
        = SumFunctionOnSet(Values(os), DOMAIN os) + Signed(o) * o.fill * o.cs
  <2> DEFINE f == Values(os)
             g == Values(qs)
  <2>1. \A j \in DOMAIN os \cup {n} : g[j] \in Int
    BY <1>1, <1>2 DEF Values
  <2>2. \A j \in DOMAIN os : g[j] = f[j]
    BY <1>1 DEF Values
  <2>3. g[n] = Signed(o) * o.fill * o.cs
    BY <1>1 DEF Values
  <2> HIDE DEF f, g
  <2>4. SumFunctionOnSet(g, DOMAIN os \cup {n}) = g[n] + SumFunctionOnSet(g, DOMAIN os)
    BY <1>1, <1>2, <2>1, SumAdd
  <2>5. SumFunctionOnSet(g, DOMAIN os) = SumFunctionOnSet(f, DOMAIN os)
    BY <1>2, <2>2, SumEqual
  <2>6. SumFunctionOnSet(g, DOMAIN os) \in Int /\ g[n] \in Int
    BY <1>2, <2>1, SumInt
  <2>7. SumFunctionOnSet(g, DOMAIN os \cup {n}) = SumFunctionOnSet(f, DOMAIN os) + g[n]
    BY <2>4, <2>5, <2>6
  <2> QED BY <1>1, <2>3, <2>7 DEF f, g
<1>4. ASSUME NEW s
      PROVE  SumFunctionOnSet(Quantities(qs), Of(qs, s))
              = SumFunctionOnSet(Quantities(os), Of(os, s)) + (IF s = o.symbol THEN Signed(o) ELSE 0)
  <2> DEFINE f == Quantities(os)
             g == Quantities(qs)
             T == Of(os, s)
  <2>1. \A j \in T \cup {n} : g[j] \in Int
    BY <1>1, <1>2 DEF Quantities
  <2>2. \A j \in T : g[j] = f[j]
    BY <1>1, <1>2 DEF Quantities
  <2>3. g[n] = Signed(o) /\ Signed(o) \in Int
    BY <1>1, <1>2 DEF Quantities
  <2>4. Of(qs, s) = IF s = o.symbol THEN T \cup {n} ELSE T
    BY <1>1 DEF Of
  <2>5. IsFiniteSet(T) /\ n \notin T
    BY <1>1, <1>2
  <2> HIDE DEF f, g, T
  <2>6. SumFunctionOnSet(g, T) = SumFunctionOnSet(f, T) /\ SumFunctionOnSet(g, T) \in Int
    BY <2>1, <2>2, <2>5, SumEqual, SumInt
  <2>7. SumFunctionOnSet(g, T \cup {n}) = g[n] + SumFunctionOnSet(g, T)
    BY <2>1, <2>5, SumAdd
  <2>8. SumFunctionOnSet(g, Of(qs, s)) = SumFunctionOnSet(f, T) + (IF s = o.symbol THEN Signed(o) ELSE 0)
    BY <2>3, <2>4, <2>6, <2>7
  <2> QED BY <2>8 DEF f, g, T
<1> QED
  BY <1>3, <1>4 DEF qs, Moved

------------------------------------------------------------------------------
(* What a fill does to the positions. *)

\* The cost of every position is an integer.
LEMMA CostsInt ==
    ASSUME NEW ps, SymbolMap(ps, Position)
    PROVE  \A t \in DOMAIN ps : Costs(ps)[t] = CostIn(ps, t) /\ Costs(ps)[t] \in Int
<1> TAKE t \in DOMAIN ps
<1>1. ps[t].qty \in Int /\ ps[t].avg \in Int /\ ps[t].cs \in Int
  BY DEF SymbolMap, Position
<1> QED
  BY <1>1 DEF Costs, CostIn

\* The cost of all when one symbol's position changes, comes or goes.
LEMMA CostChanges ==
    ASSUME NEW ps, NEW qs, SymbolMap(ps, Position), SymbolMap(qs, Position),
           IsFiniteSet(DOMAIN ps), NEW s,
           \A t : t # s => (t \in DOMAIN qs <=> t \in DOMAIN ps),
           \A t \in DOMAIN ps : t # s => qs[t] = ps[t]
    PROVE  /\ IsFiniteSet(DOMAIN qs)
           /\ SumFunctionOnSet(Costs(qs), DOMAIN qs)
                = SumFunctionOnSet(Costs(ps), DOMAIN ps) - CostIn(ps, s) + CostIn(qs, s)
<1> DEFINE rest == DOMAIN ps \ {s}
           f == Costs(ps)
           g == Costs(qs)
<1>1. /\ \A t \in DOMAIN ps : f[t] = CostIn(ps, t) /\ f[t] \in Int
      /\ \A t \in DOMAIN qs : g[t] = CostIn(qs, t) /\ g[t] \in Int
  BY CostsInt
<1>2. \A t \in rest : g[t] = f[t]
  BY DEF Costs
<1>3. IsFiniteSet(rest) /\ s \notin rest
  BY FS_RemoveElement
<1>4. /\ DOMAIN ps = IF s \in DOMAIN ps THEN rest \cup {s} ELSE rest
      /\ DOMAIN qs = IF s \in DOMAIN qs THEN rest \cup {s} ELSE rest
  OBVIOUS
<1>5. IsFiniteSet(DOMAIN qs)
  <2> HIDE DEF rest
  <2> QED BY <1>3, <1>4, FS_AddElement
<1> HIDE DEF rest, f, g
<1>6. SumFunctionOnSet(f, DOMAIN ps) = SumFunctionOnSet(f, rest) + CostIn(ps, s)
      /\ SumFunctionOnSet(f, rest) \in Int /\ CostIn(ps, s) \in Int
  <2>1. \A t \in rest : f[t] \in Int
    BY <1>1 DEF rest
  <2>2. SumFunctionOnSet(f, rest) \in Int
    BY <1>3, <2>1, SumInt
  <2>3. CASE s \in DOMAIN ps
    <3>1. \A t \in rest \cup {s} : f[t] \in Int
      BY <1>1, <1>4, <2>3
    <3>2. SumFunctionOnSet(f, rest \cup {s}) = f[s] + SumFunctionOnSet(f, rest)
      BY <1>3, <3>1, SumAdd
    <3> QED BY <1>1, <1>4, <2>2, <2>3, <3>2
  <2>4. CASE s \notin DOMAIN ps
    BY <1>4, <2>2, <2>4 DEF CostIn
  <2> QED BY <2>3, <2>4
<1>7. SumFunctionOnSet(g, DOMAIN qs) = SumFunctionOnSet(g, rest) + CostIn(qs, s)
      /\ CostIn(qs, s) \in Int
  <2>1. \A t \in rest : g[t] \in Int
    BY <1>1, <1>4
  <2>2. SumFunctionOnSet(g, rest) \in Int
    BY <1>3, <2>1, SumInt
  <2>3. CASE s \in DOMAIN qs
    <3>1. \A t \in rest \cup {s} : g[t] \in Int
      BY <1>1, <1>4, <2>3
    <3>2. SumFunctionOnSet(g, rest \cup {s}) = g[s] + SumFunctionOnSet(g, rest)
      BY <1>3, <3>1, SumAdd
    <3> QED BY <1>1, <1>4, <2>2, <2>3, <3>2
  <2>4. CASE s \notin DOMAIN qs
    BY <1>4, <2>2, <2>4 DEF CostIn
  <2> QED BY <2>3, <2>4
<1>8. SumFunctionOnSet(g, rest) = SumFunctionOnSet(f, rest)
  BY <1>2, <1>3, SumEqual
<1> QED
  BY <1>5, <1>6, <1>7, <1>8 DEF f, g

\* A fill changes the position of its symbol by what it moves, and leaves none
\* with quantity 0.
LEMMA FillMovesPosition ==
    ASSUME SymbolMap(positions, Position), NEW o \in Order, NEW price \in Nat, price > 0,
           \A s \in DOMAIN positions : positions[s].qty # 0
    PROVE  LET qs == PositionsAfter(o, price) IN
           /\ \A t : t # o.symbol => (t \in DOMAIN qs <=> t \in DOMAIN positions)
           /\ \A t \in DOMAIN positions : t # o.symbol => qs[t] = positions[t]
           /\ \A s \in DOMAIN qs : qs[s].qty # 0
           /\ HeldIn(qs, o.symbol) = HeldIn(positions, o.symbol) + Moves(o, price)
<1> DEFINE s == o.symbol
           qs == PositionsAfter(o, price)
           p == positions[s]
           q == IF o.side = "BUY" THEN BuyInto(p, o, price) ELSE SellInto(p, o, price)
<1>1. o.qty \in Nat \ {0} /\ o.side \in {"BUY", "SELL"}
  BY DEF Order
<1>2. Moves(o, price) = IF o.side = "BUY" THEN o.qty ELSE 0 - o.qty
  BY <1>1 DEF Moves
<1>3. CASE s \notin DOMAIN positions
  <2>1. qs = Put(positions, s, NewPosition(o, price))
    BY <1>3 DEF PositionsAfter
  <2>2. NewPosition(o, price).qty = Moves(o, price)
    BY <1>1 DEF NewPosition, Moves
  <2> HIDE DEF qs
  <2>3. DOMAIN qs = DOMAIN positions \cup {s} /\ qs[s] = NewPosition(o, price)
        /\ \A t \in DOMAIN positions : qs[t] = positions[t]
    BY <1>3, <2>1 DEF Put
  <2>4. NewPosition(o, price).qty # 0
    BY <1>1, <1>2, <2>2
  <2>5. HeldIn(qs, s) = HeldIn(positions, s) + Moves(o, price)
    BY <1>1, <1>2, <1>3, <2>2, <2>3 DEF HeldIn
  <2> QED BY <2>3, <2>4, <2>5 DEF qs
<1>4. CASE s \in DOMAIN positions
  <2>1. p \in Position /\ p.qty \in Int /\ p.qty # 0
    BY <1>4 DEF SymbolMap, Position
  <2>2. q.qty = p.qty + Moves(o, price)
    BY <1>1, <1>2, <2>1 DEF BuyInto, SellInto
  <2>3. qs = IF q.qty = 0 THEN Without(positions, s) ELSE Put(positions, s, q)
    BY <1>4 DEF PositionsAfter
  <2> HIDE DEF qs, q
  <2>4. CASE q.qty = 0
    <3>1. DOMAIN qs = DOMAIN positions \ {s} /\ \A t \in DOMAIN positions \ {s} : qs[t] = positions[t]
      BY <2>3, <2>4 DEF Without
    <3>2. HeldIn(qs, s) = HeldIn(positions, s) + Moves(o, price)
      BY <1>4, <2>2, <2>4, <3>1 DEF HeldIn
    <3> QED BY <3>1, <3>2 DEF qs
  <2>5. CASE q.qty # 0
    <3>1. DOMAIN qs = DOMAIN positions /\ qs[s] = q
          /\ \A t \in DOMAIN positions \ {s} : qs[t] = positions[t]
      BY <1>4, <2>3, <2>5 DEF Put
    <3>2. HeldIn(qs, s) = HeldIn(positions, s) + Moves(o, price)
      BY <1>4, <2>2, <3>1 DEF HeldIn
    <3> QED BY <2>5, <3>1, <3>2 DEF qs
  <2> QED BY <2>4, <2>5
<1> QED
  BY <1>3, <1>4

\* Exact averages and whole sums: the arithmetic of a fill, one line for each
\* branch of the code.
LEMMA ExactDivision ==
    ASSUME NEW m \in Nat, NEW d \in Nat \ {0}, m % d = 0
    PROVE  d * (m \div d) = m
<1>1. m = (d * (m \div d)) + (m % d)
  OBVIOUS
<1> QED
  BY <1>1

\* The four ways in which a fill moves cost into realised profit, as equations of
\* integers.
LEMMA Arithmetic ==
    ASSUME NEW q \in Int, NEW n \in Int, NEW a \in Int, NEW p \in Int, NEW c \in Int
    PROVE  /\ (q + n) * p * c - q * a * c - n * p * c = (a - p) * (0 - q) * c
           /\ (q + n) * a * c - q * a * c - n * p * c = (a - p) * n * c
           /\ (q - n) * a * c - q * a * c + n * p * c = (p - a) * n * c
           /\ (q - n) * p * c - q * a * c + n * p * c = (p - a) * q * c
  OBVIOUS

\* A fill that does not split the books costs what it pays, but for the gain.
LEMMA FillCost ==
    ASSUME SymbolMap(positions, Position), NEW o \in Order, NEW price \in Nat, price > 0,
           \A s \in DOMAIN positions : positions[s].qty # 0, ~SplitsBooks(o, price)
    PROVE  CostIn(PositionsAfter(o, price), o.symbol) - CostIn(positions, o.symbol)
             - Moves(o, price) * price * o.cs = GainOf(o, price)
<1> DEFINE s == o.symbol
           n == o.qty
           p == positions[s]
           qs == PositionsAfter(o, price)
<1>1. n \in Nat \ {0} /\ o.side \in {"BUY", "SELL"} /\ CsOne \in Nat \ {0} /\ o.cs = CsOne
  BY InputsAssumption DEF Order, SplitsBooks
<1>2. Moves(o, price) = IF o.side = "BUY" THEN n ELSE 0 - n
  BY <1>1 DEF Moves
<1>3. CASE s \notin DOMAIN positions
  <2>1. qs = Put(positions, s, NewPosition(o, price))
    BY <1>3 DEF PositionsAfter
  <2> HIDE DEF qs
  <2>2. s \in DOMAIN qs /\ qs[s] = NewPosition(o, price)
    BY <2>1 DEF Put
  <2>3. CostIn(qs, s) = Moves(o, price) * price * CsOne
    BY <1>1, <2>2 DEF CostIn, NewPosition, Moves
  <2>4. CostIn(positions, s) = 0 /\ GainOf(o, price) = 0
    BY <1>3 DEF CostIn, GainOf
  <2>5. Moves(o, price) * price * CsOne \in Int
    BY <1>1, <1>2
  <2> QED BY <1>1, <2>3, <2>4, <2>5 DEF qs
<1>4. CASE s \in DOMAIN positions
  <2> DEFINE q == IF o.side = "BUY" THEN BuyInto(p, o, price) ELSE SellInto(p, o, price)
  <2>1. p.qty \in Int /\ p.qty # 0 /\ p.avg \in Nat /\ p.cs = CsOne
    BY <1>1, <1>4 DEF SymbolMap, Position, SplitsBooks
  <2>2. CostIn(positions, s) = p.qty * p.avg * CsOne
    BY <1>4, <2>1 DEF CostIn
  <2>3. q.qty \in Int /\ q.avg \in Nat /\ q.cs = CsOne
    <3>1. p \in Position
      BY <1>4 DEF SymbolMap
    <3>2. BuyInto(p, o, price) \in Position /\ SellInto(p, o, price) \in Position
      BY <3>1, IntoPosition
    <3>3. BuyInto(p, o, price).cs = p.cs /\ SellInto(p, o, price).cs = p.cs
      BY DEF BuyInto, SellInto
    <3>4. q \in Position /\ q.cs = p.cs
      BY <3>2, <3>3
    <3> HIDE DEF q
    <3> QED BY <2>1, <3>4 DEF Position
  <2>4. CostIn(qs, s) = q.qty * q.avg * CsOne
    <3>1. qs = IF q.qty = 0 THEN Without(positions, s) ELSE Put(positions, s, q)
      BY <1>4 DEF PositionsAfter
    <3> HIDE DEF qs, q
    <3>2. CASE q.qty = 0
      <4>1. s \notin DOMAIN qs
        BY <3>1, <3>2 DEF Without
      <4>2. q.qty * q.avg * CsOne = 0
        BY <1>1, <2>3, <3>2
      <4> QED BY <4>1, <4>2 DEF CostIn
    <3>3. CASE q.qty # 0
      <4>1. s \in DOMAIN qs /\ qs[s] = q
        BY <3>1, <3>3 DEF Put
      <4> QED BY <2>3, <4>1 DEF CostIn
    <3> QED BY <3>2, <3>3
  <2>5. GainOf(o, price) =
          IF p.qty > 0 /\ o.side = "BUY" THEN 0
          ELSE IF p.qty > 0 THEN (price - p.avg) * Smaller(Abs(p.qty), n) * CsOne
          ELSE (p.avg - price) * Smaller(Abs(p.qty), n) * CsOne
    BY <1>4 DEF GainOf
  <2>6. CASE o.side = "BUY" /\ p.qty > 0
    <3>1. (p.avg * p.qty + price * n) % (p.qty + n) = 0
      BY <1>4, <2>6 DEF SplitsBooks
    <3>2. q.qty = p.qty + n /\ q.avg = (p.avg * p.qty + price * n) \div (p.qty + n)
      BY <2>6 DEF BuyInto
    <3>3. q.qty * q.avg * CsOne = p.qty * p.avg * CsOne + n * price * CsOne
      <4> HIDE DEF q, p, n
      <4>1. p.qty \in Nat \ {0} /\ n \in Nat \ {0} /\ p.avg \in Nat /\ price \in Nat /\ CsOne \in Nat
        BY <1>1, <2>1, <2>6
      <4> DEFINE m == p.avg * p.qty + price * n
                 d == p.qty + n
      <4>2. m \in Nat /\ d \in Nat \ {0} /\ m % d = 0
        BY <3>1, <4>1
      <4>3. q.qty = d /\ q.avg = m \div d
        BY <3>2
      <4>4. m * CsOne = p.qty * p.avg * CsOne + n * price * CsOne
        BY <4>1
      <4> HIDE DEF m, d
      <4>5. q.qty * q.avg = m
        BY <4>2, <4>3, ExactDivision
      <4> QED BY <4>4, <4>5
    <3>4. p.qty * p.avg * CsOne \in Int /\ n * price * CsOne \in Int
      BY <1>1, <2>1
    <3>5. Moves(o, price) * price * o.cs = n * price * CsOne
      BY <1>1, <1>2, <2>6
    <3>6. GainOf(o, price) = 0
      BY <2>5, <2>6
    <3> HIDE DEF q, qs, p, n, s
    <3>7. CostIn(qs, s) - CostIn(positions, s) - Moves(o, price) * price * o.cs = 0
      BY <2>2, <2>4, <3>3, <3>4, <3>5
    <3> QED BY <3>6, <3>7 DEF qs, s
  <2>7. CASE o.side = "BUY" /\ p.qty < 0
    <3>1. q.qty = p.qty + n /\ q.avg = IF p.qty + n > 0 THEN price ELSE p.avg
      BY <2>1, <2>7 DEF BuyInto
    <3>2. Smaller(Abs(p.qty), n) = IF p.qty + n > 0 THEN 0 - p.qty ELSE n
      BY <1>1, <2>1, <2>7 DEF Smaller, Abs
    <3>3. Moves(o, price) * price * o.cs = n * price * CsOne
      BY <1>1, <1>2, <2>7
    <3>4. GainOf(o, price) = (p.avg - price) * Smaller(Abs(p.qty), n) * CsOne
      BY <2>1, <2>5, <2>7
    <3> HIDE DEF q, qs, p, n, s
    <3>5. q.qty * q.avg * CsOne - p.qty * p.avg * CsOne - n * price * CsOne = GainOf(o, price)
      BY <1>1, <2>1, <3>1, <3>2, <3>4, Arithmetic
    <3> QED BY <2>2, <2>4, <3>3, <3>5 DEF qs, s
  <2>8. CASE o.side = "SELL"
    <3>1. p.qty > 0
      BY <1>4, <2>1, <2>8 DEF SplitsBooks
    <3>2. q.qty = p.qty - n /\ q.avg = IF p.qty < n THEN price ELSE p.avg
      BY <2>8, <3>1 DEF SellInto
    <3>3. Smaller(Abs(p.qty), n) = IF p.qty < n THEN p.qty ELSE n
      BY <1>1, <2>1, <3>1 DEF Smaller, Abs
    <3>4. Moves(o, price) * price * o.cs = (0 - n) * price * CsOne
      BY <1>1, <1>2, <2>8
    <3>5. GainOf(o, price) = (price - p.avg) * Smaller(Abs(p.qty), n) * CsOne
      BY <2>5, <2>8, <3>1
    <3> HIDE DEF q, qs, p, n, s
    <3>6. (0 - n) * price * CsOne = 0 - n * price * CsOne /\ n * price * CsOne \in Int
      BY <1>1
    <3>7. q.qty * q.avg * CsOne - p.qty * p.avg * CsOne + n * price * CsOne = GainOf(o, price)
      BY <1>1, <2>1, <3>2, <3>3, <3>5, Arithmetic
    <3>8. q.qty * q.avg * CsOne \in Int /\ p.qty * p.avg * CsOne \in Int
      BY <1>1, <2>1, <2>3
    <3> QED BY <2>2, <2>4, <3>4, <3>6, <3>7, <3>8 DEF qs, s
  <2> QED BY <1>1, <2>1, <2>6, <2>7, <2>8
<1> QED
  BY <1>3, <1>4

------------------------------------------------------------------------------
(* One fill, or none, keeps the books sound. *)

\* o is an order that has filled, or not, as q fills at this price.
FilledAs(o, q, price) ==
    /\ o.symbol = q.symbol /\ o.side = q.side /\ o.qty = q.qty /\ o.cs = q.cs
    /\ o.fill = price /\ o.filled = IF price > 0 THEN o.qty ELSE 0
    /\ price > 0 => o.status = "complete"

\* A filled order moves its quantity, and its cost is the quantity at the fill price.
LEMMA FilledMoves ==
    ASSUME NEW o \in Order, NEW q \in Order, NEW price \in Nat, FilledAs(o, q, price)
    PROVE  /\ Signed(o) = Moves(q, price) /\ Moves(q, price) \in Int
           /\ Signed(o) * o.fill * o.cs = Moves(q, price) * price * q.cs
<1>1. q.qty \in Int /\ o.fill = price /\ o.cs = q.cs
  BY DEF Order, FilledAs
<1>2. Signed(o) = IF q.side = "BUY" THEN o.filled ELSE 0 - o.filled
  BY SignedFilled DEF FilledAs
<1>3. o.filled = IF price > 0 THEN q.qty ELSE 0
  BY DEF FilledAs
<1>4. Moves(q, price) = IF price > 0 THEN (IF q.side = "BUY" THEN q.qty ELSE 0 - q.qty) ELSE 0
  BY <1>1 DEF Moves
<1>5. Signed(o) = Moves(q, price) /\ Moves(q, price) \in Int
  BY <1>1, <1>2, <1>3, <1>4
<1> QED
  BY <1>1, <1>5

\* A fill keeps the book sound: quantity, cost and realised profit move together with
\* the orders.
LEMMA FillSound ==
    ASSUME BookType(Snapshot), Sound(Snapshot), NEW q \in Order, NEW price \in Nat,
           NEW o \in Order, FilledAs(o, q, price), Moved(orders, orders', o), Unfilled(orders'),
           ApplyFill(q, price), flattened' = flattened
    PROVE  Sound(Snapshot)'
<1> DEFINE V == SumFunctionOnSet(Values(orders), DOMAIN orders)
           Q(s) == SumFunctionOnSet(Quantities(orders), Of(orders, s))
           C == SumFunctionOnSet(Costs(positions), DOMAIN positions)
           C1 == SumFunctionOnSet(Costs(positions'), DOMAIN positions')
           paid == Moves(q, price) * price * q.cs
<1>1. /\ orders \in Seq(Order) /\ SymbolMap(positions, Position)
      /\ cash \in Int /\ realized \in Int /\ flattened \in [Symbols -> Int] /\ balanced \in BOOLEAN
  BY DEF BookType, Snapshot
<1>2. /\ IsFiniteSet(DOMAIN positions)
      /\ \A s \in DOMAIN positions : positions[s].qty # 0
      /\ cash = StartingCapital - V
      /\ \A s \in Symbols : HeldIn(positions, s) = Q(s) - flattened[s]
      /\ balanced => cash + C = StartingCapital + realized
  <2>1. SoundBook(orders, positions, cash, realized, flattened, balanced)
    BY DEF Sound, Snapshot
  <2> QED BY <2>1 DEF SoundBook
<1>3. V \in Int /\ StartingCapital \in Int /\ \A s : Q(s) \in Int
  <2>1. V \in Int
    <3>1. IsFiniteSet(DOMAIN orders) /\ \A k \in DOMAIN orders : Values(orders)[k] \in Int
      BY <1>1, OrdersFinite DEF Values
    <3> QED BY <3>1, SumInt
  <2>2. ASSUME NEW s PROVE Q(s) \in Int
    <3>1. IsFiniteSet(Of(orders, s)) /\ \A k \in Of(orders, s) : Quantities(orders)[k] \in Int
      BY <1>1, OrdersFinite DEF Quantities
    <3> QED BY <3>1, SumInt
  <2> QED BY <2>1, <2>2, InputsAssumption
<1>4. q.symbol \in Symbols /\ q.qty \in Nat \ {0} /\ q.cs \in Nat \ {0} /\ q.side \in {"BUY", "SELL"}
  BY DEF Order
<1>5. Moves(q, price) \in Int /\ paid \in Int
  <2>1. Moves(q, price) \in Int
    BY <1>4 DEF Moves
  <2> QED BY <1>4, <2>1
<1>6. /\ SumFunctionOnSet(Values(orders'), DOMAIN orders') = V + paid
      /\ \A s : SumFunctionOnSet(Quantities(orders'), Of(orders', s))
                  = Q(s) + (IF s = q.symbol THEN Moves(q, price) ELSE 0)
  <2>1. /\ Signed(o) = Moves(q, price) /\ o.symbol = q.symbol
        /\ Signed(o) * o.fill * o.cs = paid
    BY FilledMoves DEF FilledAs
  <2> HIDE DEF paid
  <2> QED BY <2>1 DEF Moved
<1> HIDE DEF V, Q, C, paid
<1>7. CASE price > 0
  <2> DEFINE qs == PositionsAfter(q, price)
             D == SumFunctionOnSet(Costs(qs), DOMAIN qs)
  <2>1. /\ positions' = qs
        /\ cash' = IF q.side = "BUY" THEN cash - FillValue(q, price) ELSE cash + FillValue(q, price)
        /\ realized' = realized + GainOf(q, price)
        /\ balanced' = (balanced /\ ~SplitsBooks(q, price))
    BY <1>7 DEF ApplyFill
  <2>2. /\ \A t : t # q.symbol => (t \in DOMAIN qs <=> t \in DOMAIN positions)
        /\ \A t \in DOMAIN positions : t # q.symbol => qs[t] = positions[t]
        /\ \A s \in DOMAIN qs : qs[s].qty # 0
        /\ HeldIn(qs, q.symbol) = HeldIn(positions, q.symbol) + Moves(q, price)
    BY <1>1, <1>2, <1>7, FillMovesPosition
  <2>3. SymbolMap(qs, Position)
    BY <1>1, PositionsAfterMap
  <2>4. IsFiniteSet(DOMAIN qs) /\ D = C - CostIn(positions, q.symbol) + CostIn(qs, q.symbol)
    <3> HIDE DEF qs
    <3>1. SymbolMap(positions, Position) /\ IsFiniteSet(DOMAIN positions)
      BY <1>1, <1>2
    <3>2. /\ \A t : t # q.symbol => (t \in DOMAIN qs <=> t \in DOMAIN positions)
          /\ \A t \in DOMAIN positions : t # q.symbol => qs[t] = positions[t]
      BY <2>2
    <3> QED BY <2>3, <3>1, <3>2, CostChanges, SMTT(60) DEF C
  <2>5. cash' = StartingCapital - (V + paid) /\ cash' = cash - paid
    <3>1. FillValue(q, price) \in Int
          /\ (IF q.side = "BUY" THEN FillValue(q, price) ELSE 0 - FillValue(q, price)) = paid
      BY <1>4, <1>7 DEF FillValue, Moves, paid
    <3> QED BY <1>1, <1>2, <1>3, <1>5, <2>1, <3>1
  <2>6. ASSUME NEW s \in Symbols
        PROVE  HeldIn(qs, s) = (Q(s) + (IF s = q.symbol THEN Moves(q, price) ELSE 0)) - flattened[s]
    <3>1. HeldIn(positions, s) = Q(s) - flattened[s] /\ flattened[s] \in Int /\ Q(s) \in Int
      BY <1>1, <1>2, <1>3
    <3>2. s # q.symbol => HeldIn(qs, s) = HeldIn(positions, s)
      <4> HIDE DEF qs
      <4> QED BY <2>2 DEF HeldIn
    <3> HIDE DEF qs
    <3> QED BY <1>5, <2>2, <3>1, <3>2
  <2>7. balanced' => cash' + D = StartingCapital + realized'
    <3> SUFFICES ASSUME balanced, ~SplitsBooks(q, price)
                 PROVE  cash' + D = StartingCapital + realized'
      BY <1>1, <2>1
    <3> DEFINE old == CostIn(positions, q.symbol)
               new == CostIn(qs, q.symbol)
    <3>1. new - old - paid = GainOf(q, price)
      BY <1>1, <1>2, <1>7, FillCost DEF paid
    <3>2. C \in Int /\ old \in Int /\ new \in Int
      <4>1. \A ps : SymbolMap(ps, Position) => CostIn(ps, q.symbol) \in Int
        BY CostsInt DEF CostIn
      <4>2. C \in Int
        <5> DEFINE f == Costs(positions)
        <5>1. \A t \in DOMAIN positions : f[t] \in Int
          BY <1>1, CostsInt
        <5> HIDE DEF f
        <5> QED BY <1>2, <5>1, SumInt DEF C, f
      <4> HIDE DEF qs
      <4> QED BY <1>1, <2>3, <4>1, <4>2
    <3> HIDE DEF qs, D, old, new
    <3>3. D = C - old + new
      BY <2>4 DEF old, new
    <3>4. realized' = realized + (new - old - paid)
      BY <2>1, <3>1
    <3>5. cash + C = StartingCapital + realized
      BY <1>2
    <3> QED BY <1>1, <1>3, <1>5, <2>5, <3>2, <3>3, <3>4, <3>5
  <2>8. /\ IsFiniteSet(DOMAIN positions')
        /\ \A s \in DOMAIN positions' : positions'[s].qty # 0
        /\ \A s \in Symbols : HeldIn(positions', s)
              = (Q(s) + (IF s = q.symbol THEN Moves(q, price) ELSE 0)) - flattened[s]
        /\ balanced' => cash' + C1 = StartingCapital + realized'
    <3> HIDE DEF qs
    <3> QED BY <2>1, <2>2, <2>4, <2>6, <2>7
  <2>9. /\ cash' = StartingCapital - SumFunctionOnSet(Values(orders'), DOMAIN orders')
        /\ \A s \in Symbols : HeldIn(positions', s) =
              SumFunctionOnSet(Quantities(orders'), Of(orders', s)) - flattened'[s]
    <3>1. cash' = StartingCapital - SumFunctionOnSet(Values(orders'), DOMAIN orders')
      BY <1>6, <2>5, Zenon
    <3>2. ASSUME NEW s \in Symbols
          PROVE  HeldIn(positions', s) =
                   SumFunctionOnSet(Quantities(orders'), Of(orders', s)) - flattened'[s]
      <4>1. SumFunctionOnSet(Quantities(orders'), Of(orders', s))
              = Q(s) + (IF s = q.symbol THEN Moves(q, price) ELSE 0)
        BY <1>6
      <4>2. HeldIn(positions', s)
              = (Q(s) + (IF s = q.symbol THEN Moves(q, price) ELSE 0)) - flattened'[s]
        BY <2>8
      <4> QED BY <4>1, <4>2, Zenon
    <3> QED BY <3>1, <3>2
  <2>10. SoundBook(orders', positions', cash', realized', flattened', balanced')
    BY <2>8, <2>9, Zenon DEF SoundBook
  <2> QED BY <2>10 DEF Sound, Snapshot
<1>8. CASE ~(price > 0)
  <2>1. positions' = positions /\ cash' = cash /\ realized' = realized /\ balanced' = balanced
    BY <1>8 DEF ApplyFill
  <2>2. Moves(q, price) = 0 /\ price = 0
    BY <1>8 DEF Moves
  <2>3. paid = 0
    BY <1>4, <2>2 DEF paid
  <2>4. \A s \in Symbols : HeldIn(positions, s) = Q(s) - flattened[s] /\ flattened[s] \in Int /\ Q(s) \in Int
    BY <1>1, <1>2, <1>3
  <2>5. \A s \in Symbols : HeldIn(positions', s)
          = (Q(s) + (IF s = q.symbol THEN Moves(q, price) ELSE 0)) - flattened'[s]
    BY <2>1, <2>2, <2>4
  <2>6. cash' = StartingCapital - (V + paid) /\ (balanced' => cash' + C = StartingCapital + realized')
    BY <1>2, <1>3, <2>1, <2>3
  <2>7. /\ cash' = StartingCapital - SumFunctionOnSet(Values(orders'), DOMAIN orders')
        /\ \A s \in Symbols : HeldIn(positions', s) =
              SumFunctionOnSet(Quantities(orders'), Of(orders', s)) - flattened'[s]
    <3>1. cash' = StartingCapital - SumFunctionOnSet(Values(orders'), DOMAIN orders')
      BY <1>6, <2>6, Zenon
    <3>2. ASSUME NEW s \in Symbols
          PROVE  HeldIn(positions', s) =
                   SumFunctionOnSet(Quantities(orders'), Of(orders', s)) - flattened'[s]
      <4>1. SumFunctionOnSet(Quantities(orders'), Of(orders', s))
              = Q(s) + (IF s = q.symbol THEN Moves(q, price) ELSE 0)
        BY <1>6
      <4>2. HeldIn(positions', s)
              = (Q(s) + (IF s = q.symbol THEN Moves(q, price) ELSE 0)) - flattened'[s]
        BY <2>5
      <4> QED BY <4>1, <4>2, Zenon
    <3> QED BY <3>1, <3>2
  <2>8. /\ IsFiniteSet(DOMAIN positions') /\ \A s \in DOMAIN positions' : positions'[s].qty # 0
        /\ balanced' => cash' + C1 = StartingCapital + realized'
    BY <1>2, <2>1, <2>6 DEF C
  <2>9. SoundBook(orders', positions', cash', realized', flattened', balanced')
    BY <2>7, <2>8, Zenon DEF SoundBook
  <2> QED BY <2>9 DEF Sound, Snapshot
<1> QED
  BY <1>7, <1>8

\* An order of the book fills, or not, where it stands.
LEMMA VisitSound ==
    ASSUME BookType(Snapshot), Sound(Snapshot), NEW k \in OrderIds, orders[k].status # "complete",
           NEW o \in Order, NEW q \in Order, NEW price \in Nat, FilledAs(o, q, price),
           o.symbol = orders[k].symbol, orders' = [orders EXCEPT ![k] = o],
           ApplyFill(q, price), flattened' = flattened
    PROVE  Sound(Snapshot)'
<1>1. orders \in Seq(Order) /\ DOMAIN orders' = DOMAIN orders /\ k \in DOMAIN orders
      /\ orders'[k] = o /\ \A j \in DOMAIN orders : j # k => orders'[j] = orders[j]
  <2>1. orders \in Seq(Order) /\ k \in DOMAIN orders
    BY DEF BookType, Snapshot, OrderIds
  <2> QED BY <2>1
<1>2. Unfilled(orders)
  BY DEF Sound, SoundBook, Snapshot
<1>3. orders[k].filled = 0
  BY <1>1, <1>2 DEF Unfilled
<1>4. Unfilled(orders')
  BY <1>1, <1>2 DEF Unfilled, FilledAs
<1>5. Moved(orders, orders', o)
  BY <1>1, <1>3, SumsReplace
<1> QED
  BY <1>4, <1>5, FillSound

\* An order comes last, filled or not.
LEMMA PlacedSound ==
    ASSUME BookType(Snapshot), Sound(Snapshot), NEW o \in Order, FilledAs(o, o, o.fill),
           orders' = Append(orders, o), ApplyFill(o, o.fill), flattened' = flattened
    PROVE  Sound(Snapshot)'
<1>1. orders \in Seq(Order)
  BY DEF BookType, Snapshot
<1>2. DOMAIN orders' = DOMAIN orders \cup {Len(orders) + 1} /\ orders'[Len(orders) + 1] = o
      /\ \A j \in DOMAIN orders : orders'[j] = orders[j]
  <2>1. Len(orders) \in Nat /\ DOMAIN orders = 1..Len(orders)
        /\ Len(orders') = Len(orders) + 1 /\ DOMAIN orders' = 1..(Len(orders) + 1)
    BY <1>1
  <2>2. orders'[Len(orders) + 1] = o /\ \A j \in 1..Len(orders) : orders'[j] = orders[j]
    BY <1>1
  <2>3. 1..(Len(orders) + 1) = (1..Len(orders)) \cup {Len(orders) + 1}
    BY <2>1
  <2> QED BY <2>1, <2>2, <2>3
<1>3. Unfilled(orders)
  BY DEF Sound, SoundBook, Snapshot
<1>4. o.fill \in Nat
  BY DEF Order
<1>5. o.status # "complete" => o.filled = 0 /\ o.fill = 0
  BY <1>4 DEF FilledAs
<1>6. Unfilled(orders')
  BY <1>2, <1>3, <1>5 DEF Unfilled
<1>7. Moved(orders, orders', o)
  BY <1>1, SumsAppend
<1> QED
  BY <1>4, <1>6, <1>7, FillSound

\* What the two fill simulators leave of an order that had moved nothing.
LEMMA TriedAs ==
    ASSUME SymbolMap(ticks, Nat), NEW o \in Order, o.filled = 0, o.fill = 0
    PROVE  /\ TryFill(o) \in Nat /\ Completed(Expecting(o), TryFill(o)) \in Order
           /\ Completed(Expecting(o), TryFill(o)).symbol = o.symbol
           /\ Completed(Expecting(o), TryFill(o)).fill = TryFill(o)
           /\ FilledAs(Completed(Expecting(o), TryFill(o)), o, TryFill(o))
<1> DEFINE p == TryFill(o)
           e == Expecting(o)
<1>1. p \in Nat /\ e \in Order /\ Completed(e, p) \in Order
  BY TryFillNat, ExpectingOrder, CompletedOrder
<1>2. /\ e.symbol = o.symbol /\ e.side = o.side /\ e.qty = o.qty /\ e.cs = o.cs
      /\ e.filled = 0 /\ e.fill = 0
  BY DEF Expecting, Order
<1> HIDE DEF p, e
<1>3. /\ Completed(e, p).symbol = e.symbol /\ Completed(e, p).side = e.side
      /\ Completed(e, p).qty = e.qty /\ Completed(e, p).cs = e.cs
      /\ Completed(e, p).fill = p /\ Completed(e, p).filled = IF p > 0 THEN e.qty ELSE 0
      /\ p > 0 => Completed(e, p).status = "complete"
  BY <1>1, <1>2 DEF Completed, Order
<1> QED
  BY <1>1, <1>2, <1>3 DEF FilledAs, p, e

\* The order that a kill makes fills as any order does, at its own price.
LEMMA ForcedAs ==
    ASSUME SymbolMap(ticks, Nat), SymbolMap(positions, Position),
           NEW o \in Order, o.filled = 0, o.fill = 0, NEW bs \in BSPrices
    PROVE  /\ Forced(o, bs) \in Order /\ Forced(o, bs).symbol = o.symbol
           /\ FilledAs(Forced(o, bs), Forced(o, bs), Forced(o, bs).fill)
<1> DEFINE r == ForceRef(o, bs)
           e == [o EXCEPT !.expected = r]
           p == Slipped(o, r)
<1>1. Forced(o, bs) \in Order
  BY ForcedOrder
<1>2. CASE ~(r > 0)
  BY <1>1, <1>2 DEF Forced, FilledAs
<1>3. CASE r > 0
  <2>1. Forced(o, bs) = Completed(e, p)
    BY <1>3 DEF Forced
  <2>2. r \in Nat
    BY InputsAssumption DEF ForceRef, LastPrice, SymbolMap, Position, Order
  <2>3. p \in Nat
    BY <2>2, SlippedNat
  <2>4. e \in Order /\ e.symbol = o.symbol /\ e.filled = 0 /\ e.fill = 0
    BY <2>2 DEF Order
  <2> HIDE DEF e, p
  <2>5. /\ Completed(e, p).symbol = e.symbol
        /\ FilledAs(Completed(e, p), Completed(e, p), Completed(e, p).fill)
    BY <2>3, <2>4 DEF Completed, Order, FilledAs
  <2> QED BY <1>1, <2>1, <2>4, <2>5
<1> QED
  BY <1>2, <1>3

\* A save keeps the file sound: it is the memory's, or the one that was there.
LEMMA SaveSound ==
    ASSUME disk # NoFile => Sound(disk), Sound(Snapshot)', SaveState
    PROVE  BooksInv'
<1>1. CASE disk' = Snapshot'
  BY <1>1 DEF BooksInv, Sound
<1>2. CASE disk' = disk
  BY <1>2 DEF BooksInv, Sound, NoFile
<1> QED
  BY <1>1, <1>2 DEF SaveState

\* A cancelled order had moved nothing, and moves nothing.
LEMMA CancelSound ==
    ASSUME BookType(Snapshot), BooksInv, NEW k \in OrderIds, orders[k].status # "complete",
           Cancel(k)
    PROVE  BooksInv'
<1> DEFINE o == [orders[k] EXCEPT !.status = "cancelled"]
<1>1. orders[k] \in Order /\ orders[k].filled = 0 /\ orders[k].fill = 0
  BY DEF BookType, Snapshot, OrderIds, BooksInv, Sound, SoundBook, Unfilled
<1>2. o \in Order /\ o.symbol = orders[k].symbol /\ FilledAs(o, o, 0)
  BY <1>1 DEF Order, Statuses, FilledAs
<1>3. orders' = [orders EXCEPT ![k] = o] /\ flattened' = flattened /\ SaveState
  BY DEF Cancel
<1>4. ApplyFill(o, 0)
  BY DEF Cancel, ApplyFill
<1> HIDE DEF o
<1>5. Sound(Snapshot)'
  BY <1>2, <1>3, <1>4, VisitSound DEF BooksInv
<1> QED
  BY <1>3, <1>5, SaveSound DEF BooksInv

\* A refreshed last price is none of the books' business.
LEMMA QuoteSound ==
    ASSUME BookType(Snapshot), Sound(Snapshot), UNCHANGED <<orders, cash, realized, flattened, balanced>>,
           DOMAIN positions' = DOMAIN positions,
           \A s \in DOMAIN positions :
              /\ positions'[s].qty = positions[s].qty /\ positions'[s].avg = positions[s].avg
              /\ positions'[s].cs = positions[s].cs
    PROVE  Sound(Snapshot)'
<1>1. Costs(positions') = Costs(positions)
  BY DEF Costs
<1>2. \A s : HeldIn(positions', s) = HeldIn(positions, s)
  BY DEF HeldIn
<1>3. SoundBook(orders, positions, cash, realized, flattened, balanced)
  BY DEF Sound, Snapshot
<1>4. SoundBook(orders', positions', cash', realized', flattened', balanced')
  BY <1>1, <1>2, <1>3 DEF SoundBook
<1> QED
  BY <1>4 DEF Sound, Snapshot

\* What the kill switch takes away is what flattened gains.
LEMMA KillClosesSound ==
    ASSUME TypeOK, Sound(Snapshot), NEW s \in Symbols, KillCloses(s)
    PROVE  Sound(Snapshot)'
<1>1. /\ positions' = Without(positions, s) /\ s \in DOMAIN positions
      /\ flattened' = [flattened EXCEPT ![s] = @ + positions[s].qty]
      /\ UNCHANGED <<orders, cash>> /\ balanced' = FALSE
  BY DEF KillCloses
<1>2. /\ flattened \in [Symbols -> Int] /\ positions[s].qty \in Int
      /\ \A t \in Symbols : HeldIn(positions, t) \in Int
  BY <1>1 DEF TypeOK, BookType, Snapshot, SymbolMap, Position, HeldIn
<1>3. SoundBook(orders, positions, cash, realized, flattened, balanced)
  BY DEF Sound, Snapshot
<1>4. IsFiniteSet(DOMAIN positions') /\ \A t \in DOMAIN positions' : positions'[t].qty # 0
  <2>1. DOMAIN positions' = DOMAIN positions \ {s}
        /\ \A t \in DOMAIN positions' : positions'[t] = positions[t]
    BY <1>1 DEF Without
  <2> QED BY <1>3, <2>1, FS_RemoveElement DEF SoundBook
<1>5. ASSUME NEW t \in Symbols
      PROVE  HeldIn(positions', t) = SumFunctionOnSet(Quantities(orders), Of(orders, t)) - flattened'[t]
  <2> DEFINE Q == SumFunctionOnSet(Quantities(orders), Of(orders, t))
  <2>1. Q \in Int
    <3>1. IsFiniteSet(Of(orders, t)) /\ \A k \in Of(orders, t) : Quantities(orders)[k] \in Int
      BY OrdersFinite DEF Quantities, TypeOK, BookType, Snapshot
    <3> QED BY <3>1, SumInt
  <2>2. HeldIn(positions, t) = Q - flattened[t] /\ flattened[t] \in Int
    BY <1>2, <1>3 DEF SoundBook
  <2> HIDE DEF Q
  <2>3. CASE t = s
    <3>1. HeldIn(positions', t) = 0 /\ flattened'[t] = flattened[t] + positions[t].qty
          /\ HeldIn(positions, t) = positions[t].qty
      BY <1>1, <1>2, <2>3 DEF HeldIn, Without
    <3> QED BY <1>2, <2>1, <2>2, <2>3, <3>1 DEF Q
  <2>4. CASE t # s
    <3>1. HeldIn(positions', t) = HeldIn(positions, t) /\ flattened'[t] = flattened[t]
      BY <1>1, <1>2, <2>4 DEF HeldIn, Without
    <3> QED BY <2>2, <3>1 DEF Q
  <2> QED BY <2>3, <2>4
<1>6. SoundBook(orders', positions', cash', realized', flattened', balanced')
  BY <1>1, <1>3, <1>4, <1>5 DEF SoundBook
<1> QED
  BY <1>6 DEF Sound, Snapshot

\* The cleaning of a restart changes statuses only,
LEMMA LoadedSound ==
    ASSUME NEW b, BookType(b), Sound(b)
    PROVE  Sound(Loaded(b))
<1> DEFINE os == b.orders
           qs == [k \in DOMAIN os |-> ZombieClean(os[k])]
<1>1. ASSUME NEW k \in DOMAIN os
      PROVE  /\ os[k].status # "complete" <=> ZombieClean(os[k]).status # "complete"
             /\ ZombieClean(os[k]).symbol = os[k].symbol /\ ZombieClean(os[k]).side = os[k].side
             /\ ZombieClean(os[k]).filled = os[k].filled /\ ZombieClean(os[k]).fill = os[k].fill
             /\ ZombieClean(os[k]).cs = os[k].cs
  <2>1. os[k] \in Order
    BY DEF BookType
  <2> QED BY <2>1 DEF ZombieClean, Order
<1>2. DOMAIN qs = DOMAIN os /\ \A k \in DOMAIN os : qs[k] = ZombieClean(os[k])
  OBVIOUS
<1> HIDE DEF qs, os
<1>3. \A k \in DOMAIN os : Signed(qs[k]) = Signed(os[k])
  BY <1>1, <1>2 DEF Signed
<1>4. Values(qs) = Values(os) /\ Quantities(qs) = Quantities(os)
  BY <1>1, <1>2, <1>3 DEF Values, Quantities
<1>5. \A s : Of(qs, s) = Of(os, s)
  BY <1>1, <1>2 DEF Of
<1>6. Unfilled(os) => Unfilled(qs)
  BY <1>1, <1>2 DEF Unfilled
<1>7. SoundBook(os, b.positions, b.cash, b.realized, b.flattened, b.balanced)
  BY DEF Sound, os
<1>8. SoundBook(qs, b.positions, b.cash, b.realized, b.flattened, b.balanced)
  BY <1>2, <1>4, <1>5, <1>6, <1>7 DEF SoundBook
<1> QED
  BY <1>8 DEF Sound, Loaded, qs, os

\* and a book without orders or positions is sound.
LEMMA EmptySound == Sound(EmptyBook)
<1>1. DOMAIN EmptyBook.orders = {} /\ DOMAIN EmptyBook.positions = {}
      /\ EmptyBook.cash = StartingCapital /\ EmptyBook.realized = 0
      /\ \A s \in Symbols : EmptyBook.flattened[s] = 0
  BY DEF EmptyBook, EmptyMap
<1>2. \A f : SumFunctionOnSet(f, {}) = 0
  BY SumEmpty
<1>3. \A s : Of(EmptyBook.orders, s) = {} /\ HeldIn(EmptyBook.positions, s) = 0
  BY <1>1 DEF Of, HeldIn
<1>4. IsFiniteSet({}) /\ StartingCapital \in Int
  BY FS_EmptySet, InputsAssumption
<1>5. Unfilled(EmptyBook.orders)
  BY <1>1 DEF Unfilled
<1> DEFINE e == EmptyBook
<1>6. /\ SumFunctionOnSet(Values(e.orders), DOMAIN e.orders) = 0
      /\ SumFunctionOnSet(Costs(e.positions), DOMAIN e.positions) = 0
      /\ \A s : SumFunctionOnSet(Quantities(e.orders), Of(e.orders, s)) = 0
  BY <1>1, <1>2, <1>3
<1> HIDE DEF e
<1>7. /\ e.cash = StartingCapital - SumFunctionOnSet(Values(e.orders), DOMAIN e.orders)
      /\ \A s \in Symbols : HeldIn(e.positions, s)
            = SumFunctionOnSet(Quantities(e.orders), Of(e.orders, s)) - e.flattened[s]
      /\ e.cash + SumFunctionOnSet(Costs(e.positions), DOMAIN e.positions)
            = StartingCapital + e.realized
  BY <1>1, <1>3, <1>4, <1>6 DEF e
<1>8. SoundBook(e.orders, e.positions, e.cash, e.realized, e.flattened, e.balanced)
  BY <1>1, <1>4, <1>5, <1>7 DEF SoundBook, e
<1> QED
  BY <1>8 DEF Sound, e

\* The book read back from a sound file is sound.
LEMMA BecomesSound ==
    ASSUME NEW b, Sound(b), BookBecomes(b)
    PROVE  Sound(Snapshot)'
  BY DEF Sound, BookBecomes, Snapshot

------------------------------------------------------------------------------
(* Every step keeps the books sound. *)

\* place_order keeps the books following the fills.
LEMMA BooksPlace ==
    ASSUME TypeOK, BooksInv, NEW i \in OrderInputs, NEW bs \in BSPrices, PlaceOrder(i, bs)
    PROVE  BooksInv'
<1> DEFINE sub == Submitted(i)
           o == Completed(Expecting(sub), TryFill(sub))
           placed == IF o.status = "open" /\ fillMode = "market_like" THEN Forced(o, bs) ELSE o
<1>1. BookType(Snapshot) /\ SymbolMap(ticks, Nat) /\ SymbolMap(positions, Position)
  BY DEF TypeOK, BookType, Snapshot
<1>2. sub \in Order /\ sub.filled = 0 /\ sub.fill = 0
  BY SubmittedOrder DEF Submitted
<1>3. orders' = Append(orders, placed) /\ ApplyFill(placed, placed.fill)
      /\ flattened' = flattened /\ SaveState
  BY DEF PlaceOrder
<1> HIDE DEF sub
<1>4. TryFill(sub) \in Nat /\ o \in Order /\ FilledAs(o, sub, TryFill(sub)) /\ o.fill = TryFill(sub)
  BY <1>1, <1>2, TriedAs
<1>5. FilledAs(o, o, o.fill) /\ (o.status = "open" => o.filled = 0 /\ o.fill = 0)
  <2> HIDE DEF o
  <2> QED BY <1>4 DEF FilledAs
<1> HIDE DEF o
<1>6. placed \in Order /\ FilledAs(placed, placed, placed.fill)
  BY <1>1, <1>4, <1>5, ForcedAs
<1> HIDE DEF placed
<1>7. Sound(Snapshot)'
  BY <1>1, <1>3, <1>6, PlacedSound DEF BooksInv
<1> QED
  BY <1>3, <1>7, SaveSound DEF BooksInv

\* modify_order keeps the books following the fills.
LEMMA BooksModify ==
    ASSUME TypeOK, BooksInv, NEW k \in OrderIds, NEW price \in ModifyPrices, ModifyOrder(k, price)
    PROVE  BooksInv'
<1> DEFINE q == [orders[k] EXCEPT !.price = price]
           o == Completed(Expecting(q), TryFill(q))
<1>1. BookType(Snapshot) /\ SymbolMap(ticks, Nat)
  BY DEF TypeOK
<1>2. orders[k] \in Order /\ orders[k].status = "open" /\ orders[k].filled = 0 /\ orders[k].fill = 0
  BY <1>1 DEF BookType, Snapshot, OrderIds, BooksInv, Sound, SoundBook, Unfilled, ModifyOrder
<1>3. price \in Nat
  BY InputsAssumption
<1>4. q \in Order /\ q.filled = 0 /\ q.fill = 0 /\ q.symbol = orders[k].symbol
  BY <1>2, <1>3 DEF Order
<1>5. /\ orders' = [orders EXCEPT ![k] = o] /\ ApplyFill(q, TryFill(q))
      /\ flattened' = flattened /\ SaveState
  BY DEF ModifyOrder
<1> HIDE DEF q
<1>6. TryFill(q) \in Nat /\ o \in Order /\ o.symbol = q.symbol /\ FilledAs(o, q, TryFill(q))
  BY <1>1, <1>4, TriedAs
<1> HIDE DEF o
<1>7. Sound(Snapshot)'
  BY <1>1, <1>2, <1>4, <1>5, <1>6, VisitSound DEF BooksInv
<1> QED
  BY <1>5, <1>7, SaveSound DEF BooksInv

\* The steps of the runner keep the books following the fills.
LEMMA BooksRunner == ASSUME TypeOK, BooksInv, Runner PROVE BooksInv'
<1>1. BookType(Snapshot) /\ Sound(Snapshot) /\ (disk # NoFile => Sound(disk))
  BY DEF TypeOK, BooksInv
<1>2. ASSUME NEW i \in OrderInputs, NEW bs \in BSPrices, PlaceOrder(i, bs) PROVE BooksInv'
  BY <1>2, BooksPlace
<1>3. ASSUME NEW k \in OrderIds, CancelOrder(k) PROVE BooksInv'
  <2>1. orders[k].status # "complete" /\ Cancel(k)
    BY <1>3 DEF CancelOrder
  <2> QED BY <1>1, <2>1, CancelSound
<1>4. ASSUME NEW k \in OrderIds, NEW p \in ModifyPrices, ModifyOrder(k, p) PROVE BooksInv'
  BY <1>4, BooksModify
<1>5. CASE GetPositions
  <2>1. /\ UNCHANGED <<orders, cash, realized, flattened, balanced>> /\ disk' = disk
        /\ DOMAIN positions' = DOMAIN positions
        /\ \A s \in DOMAIN positions : positions'[s] =
              IF s \in DOMAIN ticks THEN [positions[s] EXCEPT !.ltp = ticks[s]] ELSE positions[s]
    BY <1>5 DEF GetPositions, ghost
  <2>2. \A s \in DOMAIN positions :
              /\ positions'[s].qty = positions[s].qty /\ positions'[s].avg = positions[s].avg
              /\ positions'[s].cs = positions[s].cs
    <3>1. \A s \in DOMAIN positions : positions[s] \in Position
      BY <1>1 DEF BookType, Snapshot, SymbolMap
    <3> QED BY <2>1, <3>1 DEF Position
  <2>3. Sound(Snapshot)'
    BY <1>1, <2>1, <2>2, QuoteSound
  <2> QED BY <1>1, <2>1, <2>3 DEF BooksInv, Sound, NoFile
<1>6. CASE KillCancels
  <2> PICK k \in main.todo :
        IF orders[k].status = "complete"
        THEN UNCHANGED <<book, ghost, disk, saveFailures>>
        ELSE Cancel(k)
    BY <1>6 DEF KillCancels
  <2>1. k \in OrderIds
    BY DEF TypeOK
  <2>2. CASE orders[k].status = "complete"
    BY <1>1, <2>2 DEF book, ghost, BooksInv, Sound, Snapshot, NoFile
  <2>3. CASE orders[k].status # "complete"
    <3>1. Cancel(k)
      BY <2>3
    <3> QED BY <1>1, <2>1, <2>3, <3>1, CancelSound
  <2> QED BY <2>2, <2>3
<1>7. CASE KillBegins \/ KillTakesLock \/ KillEnds
  <2>1. UNCHANGED <<book, ghost, disk>>
    BY <1>7 DEF KillBegins, KillTakesLock, KillEnds
  <2> QED BY <1>1, <2>1 DEF book, ghost, BooksInv, Sound, Snapshot, NoFile
<1>8. ASSUME NEW s \in Symbols, KillCloses(s) PROVE BooksInv'
  <2>1. Sound(Snapshot)' /\ disk' = disk
    BY <1>1, <1>8, KillClosesSound DEF KillCloses
  <2> QED BY <1>1, <2>1 DEF BooksInv, Sound, NoFile
<1> QED
  BY <1>2, <1>3, <1>4, <1>5, <1>6, <1>7, <1>8 DEF Runner

\* The steps of the feed's thread keep the books following the fills.
LEMMA BooksFeed == ASSUME TypeOK, KillInv, BooksInv, Feed PROVE BooksInv'
<1>1. /\ BookType(Snapshot) /\ Sound(Snapshot) /\ (disk # NoFile => Sound(disk))
      /\ SymbolMap(ticks, Nat) /\ SymbolMap(positions, Position)
  BY DEF TypeOK, BooksInv, BookType, Snapshot
<1>2. ASSUME NEW k \in feed.todo
      PROVE  k \in OrderIds /\ orders[k] \in Order /\ orders[k].status = "open"
             /\ orders[k].filled = 0 /\ orders[k].fill = 0
  <2>1. k \in OrderIds /\ orders[k].status = "open"
    BY DEF KillInv, LockHeld, OpenOrders
  <2> QED BY <1>1, <2>1 DEF BookType, Snapshot, OrderIds, Sound, SoundBook, Unfilled
<1>3. ASSUME NEW s \in Symbols, NEW p \in TickPrices, TickArrives(s, p) PROVE BooksInv'
  <2>1. /\ UNCHANGED <<orders, cash, realized, flattened, balanced>> /\ disk' = disk
        /\ positions' = IF s \in DOMAIN positions
                        THEN [positions EXCEPT ![s].ltp = p] ELSE positions
    BY <1>3 DEF TickArrives, ghost
  <2>2. DOMAIN positions' = DOMAIN positions /\ \A t \in DOMAIN positions :
              /\ positions'[t].qty = positions[t].qty /\ positions'[t].avg = positions[t].avg
              /\ positions'[t].cs = positions[t].cs
    <3>1. \A t \in DOMAIN positions : positions[t] \in Position
      BY <1>1 DEF SymbolMap
    <3> QED BY <2>1, <3>1 DEF Position
  <2>3. Sound(Snapshot)'
    BY <1>1, <2>1, <2>2, QuoteSound
  <2> QED BY <1>1, <2>1, <2>3 DEF BooksInv, Sound, NoFile
<1>4. CASE TickTriesOrder
  <2> PICK k \in feed.todo :
        /\ orders' = [orders EXCEPT ![k] = Completed(Expecting(orders[k]), TryFill(orders[k]))]
        /\ ApplyFill(orders[k], TryFill(orders[k]))
    BY <1>4 DEF TickTriesOrder
  <2> DEFINE o == Completed(Expecting(orders[k]), TryFill(orders[k]))
  <2>1. /\ k \in OrderIds /\ orders[k] \in Order /\ orders[k].status = "open"
        /\ orders[k].filled = 0 /\ orders[k].fill = 0
    BY <1>2
  <2>2. /\ TryFill(orders[k]) \in Nat /\ o \in Order /\ o.symbol = orders[k].symbol
        /\ FilledAs(o, orders[k], TryFill(orders[k]))
    BY <1>1, <2>1, TriedAs
  <2>3. orders' = [orders EXCEPT ![k] = o]
    OBVIOUS
  <2>4. flattened' = flattened /\ disk' = disk
    BY <1>4 DEF TickTriesOrder
  <2> HIDE DEF o
  <2>5. Sound(Snapshot)'
    BY <1>1, <2>1, <2>2, <2>3, <2>4, VisitSound
  <2> QED BY <1>1, <2>4, <2>5 DEF BooksInv, Sound, NoFile
<1>5. ASSUME NEW bs \in BSPrices, TickForcesOrder(bs) PROVE BooksInv'
  <2> PICK k \in feed.todo :
        /\ orders' = [orders EXCEPT ![k] = Forced(orders[k], bs)]
        /\ ApplyFill(Forced(orders[k], bs), Forced(orders[k], bs).fill)
    BY <1>5 DEF TickForcesOrder
  <2> DEFINE o == Forced(orders[k], bs)
  <2>1. /\ k \in OrderIds /\ orders[k] \in Order /\ orders[k].status = "open"
        /\ orders[k].filled = 0 /\ orders[k].fill = 0
    BY <1>2
  <2>2. o \in Order /\ o.symbol = orders[k].symbol /\ FilledAs(o, o, o.fill)
    BY <1>1, <2>1, ForcedAs
  <2>3. orders' = [orders EXCEPT ![k] = o] /\ ApplyFill(o, o.fill)
    OBVIOUS
  <2>4. flattened' = flattened /\ disk' = disk
    BY <1>5 DEF TickForcesOrder
  <2> HIDE DEF o
  <2>5. o.fill \in Nat
    BY <2>2 DEF Order
  <2>6. Sound(Snapshot)'
    BY <1>1, <2>1, <2>2, <2>3, <2>4, <2>5, VisitSound
  <2> QED BY <1>1, <2>4, <2>6 DEF BooksInv, Sound, NoFile
<1>6. CASE TickBeginsForcing
  BY <1>1, <1>6 DEF TickBeginsForcing, book, ghost, BooksInv, Sound, Snapshot, NoFile
<1>7. CASE TickEnds
  <2>1. Sound(Snapshot)' /\ SaveState
    BY <1>1, <1>7 DEF TickEnds, book, ghost, Sound, Snapshot
  <2> QED BY <1>1, <2>1, SaveSound
<1> QED
  BY <1>3, <1>4, <1>5, <1>6, <1>7 DEF Feed

\* Stop, crash and restart keep the books following the fills.
LEMMA BooksLifecycle == ASSUME TypeOK, BooksInv, Lifecycle PROVE BooksInv'
<1>1. Sound(Snapshot) /\ (disk # NoFile => Sound(disk) /\ BookType(disk))
  BY DEF TypeOK, BooksInv
<1>2. CASE Start
  <2>1. disk' = disk
    BY <1>2 DEF Start
  <2>2. Sound(Snapshot)'
    <3>1. CASE disk = NoFile
      BY <1>1, <1>2, <3>1 DEF Start, book, ghost, Sound, Snapshot
    <3>2. CASE disk # NoFile
      <4>1. BookBecomes(Loaded(disk)) /\ Sound(Loaded(disk))
        BY <1>1, <1>2, <3>2, LoadedSound DEF Start
      <4> QED BY <4>1, BecomesSound
    <3> QED BY <3>1, <3>2
  <2> QED BY <1>1, <2>1, <2>2 DEF BooksInv, Sound, NoFile
<1>3. CASE Connect
  BY <1>1, <1>3 DEF Connect, book, ghost, BooksInv, Sound, Snapshot, NoFile
<1>4. CASE Disconnect
  <2>1. Sound(Snapshot)' /\ SaveState
    BY <1>1, <1>4 DEF Disconnect, book, ghost, Sound, Snapshot
  <2> QED BY <1>1, <2>1, SaveSound
<1>5. CASE Crash
  <2>1. BookBecomes(EmptyBook) /\ disk' = disk
    BY <1>5 DEF Crash
  <2>2. Sound(Snapshot)'
    BY <2>1, EmptySound, BecomesSound
  <2> QED BY <1>1, <2>1, <2>2 DEF BooksInv, Sound, NoFile
<1>6. CASE Reset
  <2>1. BookBecomes(EmptyBook) /\ disk' = NoFile
    BY <1>6 DEF Reset
  <2>2. Sound(Snapshot)'
    BY <2>1, EmptySound, BecomesSound
  <2> QED BY <2>1, <2>2 DEF BooksInv, NoFile
<1> QED
  BY <1>2, <1>3, <1>4, <1>5, <1>6 DEF Lifecycle

\* What every book is sound by, in memory and on file, holds throughout.
LEMMA BooksInvariant == Spec => []BooksInv
<1>1. Init => BooksInv
  <2> SUFFICES ASSUME Init PROVE BooksInv
    OBVIOUS
  <2>1. Sound(Snapshot)
    BY EmptySound DEF Init, Sound, Snapshot
  <2> QED BY <2>1 DEF BooksInv, Init
<1>2. TypeOK /\ KillInv /\ BooksInv /\ [Next]_vars => BooksInv'
  <2> SUFFICES ASSUME TypeOK, KillInv, BooksInv, [Next]_vars PROVE BooksInv'
    OBVIOUS
  <2>1. CASE UNCHANGED vars
    BY <2>1 DEF vars, BooksInv, Sound, Snapshot, NoFile
  <2>2. CASE Next
    BY <2>2, BooksRunner, BooksFeed, BooksLifecycle DEF Next
  <2> QED BY <2>1, <2>2
<1> QED
  BY TypeInvariant, KillInvariant, <1>1, <1>2, PTL DEF Spec

\* Cash, positions and realized P&L are what the fills make them, whatever
\* ticks, forced fills, kill switches, lost saves, crashes and restarts came
\* before and however many orders there were.
THEOREM BooksFollow == Spec => []BooksFollowFills
<1>1. BooksInv => BooksFollowFills
  <2> SUFFICES ASSUME BooksInv PROVE BooksFollowFills
    OBVIOUS
  <2>1. SoundBook(orders, positions, cash, realized, flattened, balanced)
    BY DEF BooksInv, Sound, Snapshot
  <2> QED
    BY <2>1 DEF SoundBook, HeldIn, Held, OrderIds, BooksFollowFills, CashMatchesFills,
                PositionsMatchFills, BooksBalance
<1> QED
  BY BooksInvariant, <1>1, PTL

------------------------------------------------------------------------------
(* The broker implements the ledger.  Each step of the broker is one of the *)
(* ledger's on what Shown makes of the book, or none: it is told first what *)
(* Shown makes of an order that changes, comes, or is read back.            *)

\* The ledger sums as this module does.
LEMMA LedgerTotal ==
    ASSUME NEW b, NEW ks
    PROVE  L!Total(b, ks) = SumFunctionOnSet([k \in ks |-> b.orders[k].qty], ks)
<1>1. ASSUME NEW f, NEW S PROVE L!SumFunctionOnSet(f, S) = SumFunctionOnSet(f, S)
  BY DEF L!SumFunctionOnSet, SumFunctionOnSet, L!FoldFunctionOnSet, FoldFunctionOnSet,
         L!MapThenFoldSet, MapThenFoldSet
<1> QED
  BY <1>1 DEF L!Total

\* One order adds up to its quantity, and none to nothing.
LEMMA LedgerOne ==
    ASSUME NEW b, NEW k, NEW s, b.orders[k].qty \in Int
    PROVE  L!Total(b, {j \in {k} : b.orders[j].symbol = s})
              = IF b.orders[k].symbol = s THEN b.orders[k].qty ELSE 0
<1> DEFINE T == {j \in {k} : b.orders[j].symbol = s}
           f == [j \in T |-> b.orders[j].qty]
<1>1. L!Total(b, T) = SumFunctionOnSet(f, T)
  BY LedgerTotal
<1>2. CASE b.orders[k].symbol # s
  <2>1. T = {}
    BY <1>2
  <2>2. SumFunctionOnSet(f, {}) = 0
    BY SumEmpty
  <2> QED BY <1>1, <1>2, <2>1, <2>2
<1>3. CASE b.orders[k].symbol = s
  <2>1. T = {k} /\ T \ {k} = {}
    BY <1>3
  <2>2. IsFiniteSet(T) /\ k \in T /\ f[k] = b.orders[k].qty /\ \A j \in T : f[j] \in Int
    BY <2>1, FS_Singleton
  <2> HIDE DEF T, f
  <2>3. SumFunctionOnSet(f, T) = f[k] + SumFunctionOnSet(f, T \ {k})
    BY <2>2, SumTakes
  <2>4. SumFunctionOnSet(f, T \ {k}) = 0
    BY <2>1, SumEmpty
  <2> QED BY <1>1, <1>3, <2>2, <2>3, <2>4 DEF T
<1> QED
  BY <1>2, <1>3

\* The signed quantity of an order, whether it fills or not.
LEMMA LotIs ==
    ASSUME NEW o \in Order
    PROVE  /\ Lot(o) \in L!Entry
           /\ Lot(o).symbol = o.symbol /\ Lot(o).status = o.status
           /\ \A p \in Nat : p > 0 => Lot(o).qty = Moves(o, p)
<1>1. o.qty \in Nat \ {0} /\ o.symbol \in Symbols /\ o.status \in Statuses
  BY DEF Order
<1>2. (IF o.side = "BUY" THEN o.qty ELSE -o.qty) \in Int \ {0}
  BY <1>1
<1> QED
  BY <1>1, <1>2 DEF Lot, L!Entry, Statuses, Moves

\* An order changes where it stands: nothing is seen of it, or its status.
LEMMA ShownReplace ==
    ASSUME NEW os \in Seq(Order), NEW k \in DOMAIN os, NEW o \in Order, NEW ps,
           o.symbol = os[k].symbol, o.side = os[k].side, o.qty = os[k].qty
    PROVE  LET qs == [os EXCEPT ![k] = o] IN
           /\ o.status = os[k].status => Shown(qs, ps) = Shown(os, ps)
           /\ Shown(qs, ps).orders = L!Marked(Shown(os, ps), {k}, o.status)
<1> DEFINE qs == [os EXCEPT ![k] = o]
           b == Shown(os, ps)
<1>1. DOMAIN qs = DOMAIN os /\ qs[k] = o /\ \A j \in DOMAIN os : j # k => qs[j] = os[j]
  OBVIOUS
<1>2. /\ Lot(o) = [symbol |-> Lot(os[k]).symbol, status |-> o.status, qty |-> Lot(os[k]).qty]
      /\ Lot(os[k]).status = os[k].status
      /\ Lot(o) = [Lot(os[k]) EXCEPT !.status = o.status]
  BY DEF Lot
<1>3. DOMAIN b.orders = DOMAIN os /\ \A j \in DOMAIN os : b.orders[j] = Lot(os[j])
  BY DEF Shown
<1> HIDE DEF qs
<1>4. ASSUME o.status = os[k].status PROVE Shown(qs, ps) = Shown(os, ps)
  <2>1. Lot(o) = Lot(os[k])
    BY <1>4, <1>2 DEF Lot
  <2>2. \A j \in DOMAIN os : Lot(qs[j]) = Lot(os[j])
    BY <1>1, <2>1
  <2> QED BY <1>1, <2>2 DEF Shown
<1>5. Shown(qs, ps).orders = [j \in DOMAIN os |-> Lot(qs[j])]
  BY <1>1 DEF Shown
<1>6. L!Marked(b, {k}, o.status)
        = [j \in DOMAIN os |-> IF j \in {k} THEN [b.orders[j] EXCEPT !.status = o.status] ELSE b.orders[j]]
  BY <1>3 DEF L!Marked
<1>7. ASSUME NEW j \in DOMAIN os
      PROVE  Lot(qs[j]) = IF j \in {k} THEN [b.orders[j] EXCEPT !.status = o.status] ELSE b.orders[j]
  BY <1>1, <1>2, <1>3
<1>8. Shown(qs, ps).orders = L!Marked(b, {k}, o.status)
  <2> HIDE DEF b
  <2> QED BY <1>5, <1>6, <1>7
<1> QED
  BY <1>4, <1>8 DEF qs

\* From ps to qs a quantity of one symbol has moved.
MovesOne(ps, qs, s, n) ==
    \A t \in Symbols : HeldIn(ps, t) \in Int /\ HeldIn(qs, t) = HeldIn(ps, t) + (IF t = s THEN n ELSE 0)

\* Positions that moved by one order.
LEMMA ShownMoves ==
    ASSUME NEW os, NEW ps, NEW qs, NEW k \in DOMAIN os, NEW o \in Order, NEW price \in Nat, price > 0,
           Lot(os[k]).qty = Lot(o).qty, Lot(os[k]).symbol = o.symbol,
           MovesOne(ps, qs, o.symbol, Moves(o, price))
    PROVE  \A rs : Shown(rs, qs).pos = L!Filled(Shown(os, ps), {k}).pos
<1> DEFINE b == Shown(os, ps)
<1>1. /\ \A rs : Shown(rs, qs).pos = [t \in Symbols |-> HeldIn(qs, t)]
      /\ b.pos = [t \in Symbols |-> HeldIn(ps, t)]
      /\ b.orders[k] = Lot(os[k])
  BY DEF Shown, HeldIn
<1>2. b.orders[k].qty = Moves(o, price) /\ b.orders[k].symbol = o.symbol /\ b.orders[k].qty \in Int
  BY <1>1, LotIs DEF L!Entry
<1> HIDE DEF b
<1>3. L!Filled(b, {k}).pos
        = [t \in Symbols |-> b.pos[t] + L!Total(b, {j \in {k} : b.orders[j].symbol = t})]
  BY DEF L!Filled
<1>4. ASSUME NEW t \in Symbols
      PROVE  HeldIn(qs, t) = b.pos[t] + L!Total(b, {j \in {k} : b.orders[j].symbol = t})
  <2>1. L!Total(b, {j \in {k} : b.orders[j].symbol = t})
          = IF b.orders[k].symbol = t THEN b.orders[k].qty ELSE 0
    BY <1>2, LedgerOne
  <2> QED BY <1>1, <1>2, <2>1 DEF MovesOne
<1> QED
  BY <1>1, <1>3, <1>4 DEF b

\* What the simulators leave of an order: its terms, and a status that tells
\* whether it filled.
LEMMA TriedShape ==
    ASSUME SymbolMap(ticks, Nat), NEW o \in Order, o.filled = 0, o.fill = 0
    PROVE  LET q == Completed(Expecting(o), TryFill(o)) IN
           /\ q \in Order /\ q.symbol = o.symbol /\ q.side = o.side /\ q.qty = o.qty
           /\ q.fill = TryFill(o) /\ TryFill(o) \in Nat
           /\ q.status = IF TryFill(o) > 0 THEN "complete" ELSE o.status
           /\ q.filled = IF TryFill(o) > 0 THEN o.qty ELSE 0
<1> DEFINE p == TryFill(o)
           e == Expecting(o)
<1>1. p \in Nat /\ e \in Order /\ Completed(e, p) \in Order
  BY TryFillNat, ExpectingOrder, CompletedOrder
<1>2. /\ e.symbol = o.symbol /\ e.side = o.side /\ e.qty = o.qty /\ e.status = o.status
      /\ e.filled = 0 /\ e.fill = 0
  BY DEF Expecting, Order
<1> HIDE DEF p, e
<1>3. /\ Completed(e, p).symbol = e.symbol /\ Completed(e, p).side = e.side
      /\ Completed(e, p).qty = e.qty /\ Completed(e, p).fill = p
      /\ Completed(e, p).status = IF p > 0 THEN "complete" ELSE e.status
      /\ Completed(e, p).filled = IF p > 0 THEN e.qty ELSE 0
  BY <1>1, <1>2 DEF Completed, Order
<1> QED
  BY <1>1, <1>2, <1>3 DEF p, e

\* The same of a fill that is forced.
LEMMA ForcedShape ==
    ASSUME SymbolMap(ticks, Nat), SymbolMap(positions, Position),
           NEW o \in Order, o.filled = 0, o.fill = 0, NEW bs \in BSPrices
    PROVE  LET q == Forced(o, bs) IN
           /\ q \in Order /\ q.symbol = o.symbol /\ q.side = o.side /\ q.qty = o.qty
           /\ q.fill \in Nat
           /\ q.status = IF q.fill > 0 THEN "complete" ELSE o.status
<1> DEFINE r == ForceRef(o, bs)
           e == [o EXCEPT !.expected = r]
           p == Slipped(o, r)
<1>1. Forced(o, bs) \in Order /\ Forced(o, bs).fill \in Nat
  <2>1. Forced(o, bs) \in Order
    BY ForcedOrder
  <2> QED BY <2>1 DEF Order
<1>2. CASE ~(r > 0)
  BY <1>1, <1>2 DEF Forced
<1>3. CASE r > 0
  <2>1. Forced(o, bs) = Completed(e, p)
    BY <1>3 DEF Forced
  <2>2. r \in Nat
    BY InputsAssumption DEF ForceRef, LastPrice, SymbolMap, Position, Order
  <2>3. p \in Nat
    BY <2>2, SlippedNat
  <2>4. /\ e \in Order /\ e.symbol = o.symbol /\ e.side = o.side /\ e.qty = o.qty
        /\ e.status = o.status /\ e.fill = 0
    BY <2>2 DEF Order
  <2> HIDE DEF e, p
  <2>5. /\ Completed(e, p).symbol = e.symbol /\ Completed(e, p).side = e.side
        /\ Completed(e, p).qty = e.qty /\ Completed(e, p).fill = p
        /\ Completed(e, p).status = IF p > 0 THEN "complete" ELSE e.status
    BY <2>3, <2>4 DEF Completed, Order
  <2> QED BY <1>1, <2>1, <2>3, <2>4, <2>5
<1> QED
  BY <1>2, <1>3

\* What is held after a fill, of every symbol.
LEMMA HeldAfter ==
    ASSUME SymbolMap(positions, Position), NEW o \in Order, NEW price \in Nat, price > 0,
           \A s \in DOMAIN positions : positions[s].qty # 0, ApplyFill(o, price)
    PROVE  MovesOne(positions, positions', o.symbol, Moves(o, price))
<1>1. positions' = PositionsAfter(o, price)
  BY DEF ApplyFill
<1>2. \A t \in Symbols : HeldIn(positions, t) \in Int
  BY DEF SymbolMap, Position, HeldIn
<1>3. LET qs == PositionsAfter(o, price) IN
           /\ \A t : t # o.symbol => (t \in DOMAIN qs <=> t \in DOMAIN positions)
           /\ \A t \in DOMAIN positions : t # o.symbol => qs[t] = positions[t]
           /\ HeldIn(qs, o.symbol) = HeldIn(positions, o.symbol) + Moves(o, price)
  BY FillMovesPosition
<1>4. ASSUME NEW t \in Symbols, t # o.symbol PROVE HeldIn(positions', t) = HeldIn(positions, t)
  BY <1>1, <1>3, <1>4 DEF HeldIn
<1> QED
  BY <1>1, <1>2, <1>3, <1>4 DEF MovesOne

\* Whoever is at work, the memory of a process that is up is what it holds,
LEMMA MemoryShown ==
    /\ proc # "down" => InMemory = Shown(orders, positions)
    /\ proc' # "down" => InMemory' = Shown(orders', positions')
  BY DEF InMemory

\* and a save writes what is shown, or fails.
LEMMA SaveShown ==
    /\ SaveState /\ proc' # "down" => OnFile' = InMemory' \/ OnFile' = OnFile
    /\ disk' = disk => OnFile' = OnFile
<1>1. ASSUME disk' = disk PROVE OnFile' = OnFile
  BY <1>1 DEF OnFile, Saved
<1>2. ASSUME disk' = Snapshot', proc' # "down" PROVE OnFile' = InMemory'
  <2>1. Snapshot'.orders = orders' /\ Snapshot'.positions = positions' /\ Snapshot' # NoFile
    BY DEF Snapshot, NoFile
  <2>2. Saved' = Snapshot'
    BY <1>2, <2>1 DEF Saved
  <2>3. OnFile' = Shown(Saved'.orders, Saved'.positions)
    BY DEF OnFile
  <2> QED BY <1>2, <2>1, <2>2, <2>3, MemoryShown
<1> QED
  BY <1>1, <1>2 DEF SaveState

\* What holds between the steps, for the ledger's sake: positions are never of
\* quantity 0, orders that are open have moved nothing, and the memory of a process
\* that is down is empty.
LedgerInv ==
    /\ TypeOK /\ Quiet /\ KillInv /\ BooksInv
    /\ proc = "down" => orders = <<>> /\ positions = EmptyMap

\* What that says of the memory, of its orders one by one and of the open ones.
LEMMA LedgerFacts ==
    ASSUME LedgerInv
    PROVE  /\ orders \in Seq(Order) /\ DOMAIN orders = OrderIds
           /\ SymbolMap(positions, Position) /\ SymbolMap(ticks, Nat)
           /\ \A s \in DOMAIN positions : positions[s].qty # 0
           /\ \A k \in OrderIds : orders[k] \in Order
           /\ \A k \in OpenOrders : k \in OrderIds /\ orders[k].status = "open"
                                    /\ orders[k].filled = 0 /\ orders[k].fill = 0
           /\ feed.todo \subseteq OpenOrders
<1>1. orders \in Seq(Order) /\ SymbolMap(positions, Position) /\ SymbolMap(ticks, Nat)
  BY DEF LedgerInv, TypeOK, BookType, Snapshot
<1>2. Unfilled(orders) /\ \A s \in DOMAIN positions : positions[s].qty # 0
  BY DEF LedgerInv, BooksInv, Sound, SoundBook, Snapshot
<1>3. feed.todo \subseteq OpenOrders
  BY DEF LedgerInv, KillInv, LockHeld
<1> QED
  BY <1>1, <1>2, <1>3 DEF Unfilled, OpenOrders, OrderIds

\* An open order fills, or not, where it stands.
LEMMA VisitLedger ==
    ASSUME LedgerInv, proc # "down", proc' # "down", NEW k \in OpenOrders,
           NEW o \in Order, o.symbol = orders[k].symbol, o.side = orders[k].side, o.qty = orders[k].qty,
           NEW q \in Order, q.symbol = o.symbol, q.side = o.side, q.qty = o.qty, NEW price \in Nat,
           o.status = IF price > 0 THEN "complete" ELSE "open",
           orders' = [orders EXCEPT ![k] = o], ApplyFill(q, price)
    PROVE  L!Fill \/ UNCHANGED InMemory
<1>1. /\ orders \in Seq(Order) /\ k \in DOMAIN orders /\ orders[k] \in Order /\ orders[k].status = "open"
      /\ SymbolMap(positions, Position)
      /\ \A s \in DOMAIN positions : positions[s].qty # 0
  BY LedgerFacts
<1>2. InMemory = Shown(orders, positions) /\ InMemory' = Shown(orders', positions')
  BY MemoryShown
<1>3. CASE ~(price > 0)
  <2>1. positions' = positions
    BY <1>3 DEF ApplyFill
  <2>2. o.status = orders[k].status
    BY <1>1, <1>3
  <2>3. LET qs == [orders EXCEPT ![k] = o] IN
           /\ o.status = orders[k].status => Shown(qs, positions) = Shown(orders, positions)
           /\ Shown(qs, positions).orders = L!Marked(Shown(orders, positions), {k}, o.status)
    BY ONLY <1>1, ShownReplace, o \in Order, o.symbol = orders[k].symbol, o.side = orders[k].side, o.qty = orders[k].qty
  <2> QED BY <1>2, <2>1, <2>2, <2>3
<1>4. CASE price > 0
  <2>1. Shown(orders', positions').orders = L!Marked(Shown(orders, positions), {k}, "complete")
    <3>1. LET qs == [orders EXCEPT ![k] = o] IN
             Shown(qs, positions').orders = L!Marked(Shown(orders, positions'), {k}, o.status)
      BY ONLY <1>1, ShownReplace, o \in Order, o.symbol = orders[k].symbol, o.side = orders[k].side, o.qty = orders[k].qty
    <3>2. L!Marked(Shown(orders, positions'), {k}, "complete") = L!Marked(Shown(orders, positions), {k}, "complete")
      BY DEF L!Marked, Shown
    <3>3. o.status = "complete"
      BY <1>4
    <3> QED BY <3>1, <3>2, <3>3
  <2>2. Lot(orders[k]).qty = Lot(q).qty /\ Lot(orders[k]).symbol = q.symbol
    BY DEF Lot
  <2>3. MovesOne(positions, positions', q.symbol, Moves(q, price))
    BY <1>1, <1>4, HeldAfter
  <2>4. Shown(orders', positions').pos = L!Filled(Shown(orders, positions), {k}).pos
    <3>1. \A rs : Shown(rs, positions').pos = L!Filled(Shown(orders, positions), {k}).pos
      BY ONLY <1>1, <1>4, <2>2, <2>3, ShownMoves, q \in Order, price \in Nat
    <3> QED BY <3>1
  <2>5. InMemory' = L!Filled(InMemory, {k})
    <3>1. InMemory' = [orders |-> InMemory'.orders, pos |-> InMemory'.pos]
      BY <1>2 DEF Shown
    <3>2. L!Filled(InMemory, {k}) = [orders |-> L!Marked(InMemory, {k}, "complete"), pos |-> L!Filled(InMemory, {k}).pos]
      BY DEF L!Filled
    <3> QED BY <1>2, <2>1, <2>4, <3>1, <3>2
  <2>6. {k} \in SUBSET L!Open(InMemory)
    BY <1>1, <1>2 DEF L!Open, Shown, Lot
  <2> QED BY <2>5, <2>6 DEF L!Fill
<1> QED
  BY <1>3, <1>4

\* An order that is not complete is cancelled.
LEMMA CancelLedger ==
    ASSUME LedgerInv, proc # "down", proc' # "down", NEW k \in OrderIds, orders[k].status # "complete",
           Cancel(k)
    PROVE  L!Work
<1> DEFINE o == [orders[k] EXCEPT !.status = "cancelled"]
<1>1. orders \in Seq(Order) /\ k \in DOMAIN orders /\ orders[k] \in Order
  BY LedgerFacts
<1>2. InMemory = Shown(orders, positions) /\ InMemory' = Shown(orders', positions')
  BY MemoryShown
<1>3. /\ o \in Order /\ o.symbol = orders[k].symbol /\ o.side = orders[k].side /\ o.qty = orders[k].qty
      /\ o.status = "cancelled"
  BY <1>1 DEF Order, Statuses
<1>4. orders' = [orders EXCEPT ![k] = o] /\ positions' = positions /\ SaveState
  BY DEF Cancel
<1> HIDE DEF o
<1>5. Shown(orders', positions').orders = L!Marked(Shown(orders, positions), {k}, "cancelled")
  BY <1>1, <1>3, <1>4, ShownReplace
<1>6. Shown(orders', positions').pos = Shown(orders, positions).pos
  BY <1>4 DEF Shown
<1>7. InMemory' = L!Cancelled(InMemory, {k})
  <2>1. InMemory' = [orders |-> InMemory'.orders, pos |-> InMemory'.pos]
    BY <1>2 DEF Shown
  <2> QED BY <1>2, <1>5, <1>6, <2>1 DEF L!Cancelled
<1>8. {k} \in SUBSET L!Pending(InMemory)
  BY <1>1, <1>2 DEF L!Pending, Shown, Lot
<1>9. L!Cancel
  BY <1>7, <1>8 DEF L!Cancel
<1> QED
  BY <1>4, <1>9, SaveShown DEF L!Work

\* An order comes last.
LEMMA PlaceLedger ==
    ASSUME LedgerInv, proc # "down", proc' # "down",
           NEW o \in Order, o.status = IF o.fill > 0 THEN "complete" ELSE "open",
           orders' = Append(orders, o), ApplyFill(o, o.fill)
    PROVE  \E k \in DOMAIN InMemory'.orders : L!Enter(k)
<1> DEFINE k == Len(orders) + 1
           b == Shown(orders, positions)
           c == Shown(orders', positions')
           e == L!With(b, k, [c.orders[k] EXCEPT !.status = "open"])
<1>1. /\ orders \in Seq(Order) /\ SymbolMap(positions, Position)
      /\ \A s \in DOMAIN positions : positions[s].qty # 0
      /\ o.fill \in Nat
  BY LedgerFacts DEF Order
<1>2. InMemory = b /\ InMemory' = c
  BY MemoryShown
<1>3. DOMAIN orders' = DOMAIN orders \cup {k} /\ orders'[k] = o /\ k \notin DOMAIN orders
      /\ \A j \in DOMAIN orders : orders'[j] = orders[j]
  <2>1. Len(orders) \in Nat /\ DOMAIN orders = 1..Len(orders)
        /\ Len(orders') = Len(orders) + 1 /\ DOMAIN orders' = 1..(Len(orders) + 1)
    BY <1>1
  <2>2. orders'[Len(orders) + 1] = o /\ \A j \in 1..Len(orders) : orders'[j] = orders[j]
    BY <1>1
  <2>3. 1..(Len(orders) + 1) = (1..Len(orders)) \cup {Len(orders) + 1}
    BY <2>1
  <2> QED BY <2>1, <2>2, <2>3
<1>4. /\ DOMAIN b.orders = DOMAIN orders /\ DOMAIN c.orders = DOMAIN orders \cup {k}
      /\ c.orders[k] = Lot(o) /\ \A j \in DOMAIN orders : c.orders[j] = b.orders[j]
  BY <1>3 DEF Shown
<1>5. Lot(o) \in L!Entry /\ Lot(o).symbol = o.symbol /\ Lot(o).status = o.status
  BY LotIs
<1>6. b.pos = [t \in Symbols |-> HeldIn(positions, t)] /\ c.pos = [t \in Symbols |-> HeldIn(positions', t)]
  BY DEF Shown, HeldIn
<1>7. c = [orders |-> [j \in DOMAIN orders \cup {k} |-> c.orders[j]], pos |-> c.pos]
  BY <1>3 DEF Shown
<1> HIDE DEF b, c, k
<1>8. CASE ~(o.fill > 0)
  <2>1. positions' = positions /\ Lot(o).status = "open"
    BY <1>5, <1>8 DEF ApplyFill
  <2>2. [Lot(o) EXCEPT !.status = "open"] = Lot(o)
    BY <2>1 DEF Lot
  <2>3. e = c
    BY <1>3, <1>4, <1>6, <1>7, <2>1, <2>2 DEF L!With
  <2> QED BY <1>2, <1>3, <1>4, <1>5, <2>3 DEF L!Enter
<1>9. CASE o.fill > 0
  <2>1. MovesOne(positions, positions', o.symbol, Moves(o, o.fill))
    BY <1>1, <1>9, HeldAfter
  <2>2. Lot(o).status = "complete" /\ Lot(o).qty = Moves(o, o.fill) /\ Lot(o).qty \in Int
    BY <1>1, <1>5, <1>9, LotIs DEF L!Entry
  <2> DEFINE op == [Lot(o) EXCEPT !.status = "open"]
  <2>3. op.symbol = o.symbol /\ op.qty = Lot(o).qty /\ [op EXCEPT !.status = "complete"] = Lot(o)
    BY <2>2 DEF Lot
  <2>4. DOMAIN e.orders = DOMAIN orders \cup {k} /\ e.pos = b.pos
        /\ \A j \in DOMAIN orders \cup {k} : e.orders[j] = IF j = k THEN op ELSE b.orders[j]
    BY <1>4 DEF L!With
  <2> HIDE DEF e, op
  <2>5. ASSUME NEW t \in Symbols
        PROVE  c.pos[t] = e.pos[t] + L!Total(e, {j \in {k} : e.orders[j].symbol = t})
    <3>1. e.orders[k] = op /\ e.orders[k].qty \in Int
      BY <2>2, <2>3, <2>4
    <3>2. L!Total(e, {j \in {k} : e.orders[j].symbol = t}) = IF e.orders[k].symbol = t THEN e.orders[k].qty ELSE 0
      BY <3>1, LedgerOne
    <3> QED BY <1>6, <2>1, <2>2, <2>3, <2>4, <3>1, <3>2 DEF MovesOne
  <2>6. c.pos = [t \in Symbols |-> e.pos[t] + L!Total(e, {j \in {k} : e.orders[j].symbol = t})]
    BY <1>6, <2>5
  <2>7. L!Marked(e, {k}, "complete") = [j \in DOMAIN orders \cup {k} |-> c.orders[j]]
    <3>1. ASSUME NEW j \in DOMAIN orders \cup {k}
          PROVE  (IF j \in {k} THEN [e.orders[j] EXCEPT !.status = "complete"] ELSE e.orders[j]) = c.orders[j]
      BY <1>3, <1>4, <2>3, <2>4
    <3> QED BY <2>4, <3>1 DEF L!Marked
  <2>8. c = L!Filled(e, {k})
    BY <1>7, <2>6, <2>7 DEF L!Filled
  <2> QED BY <1>2, <1>3, <1>4, <1>5, <2>8 DEF L!Enter, e
<1> QED
  BY <1>8, <1>9

\* place_order enters one order, and saves.
LEMMA PlaceOrderLedger ==
    ASSUME LedgerInv, NEW i \in OrderInputs, NEW bs \in BSPrices, PlaceOrder(i, bs)
    PROVE  L!Work
<1> DEFINE sub == Submitted(i)
           o == Completed(Expecting(sub), TryFill(sub))
           placed == IF o.status = "open" /\ fillMode = "market_like" THEN Forced(o, bs) ELSE o
<1>1. SymbolMap(ticks, Nat) /\ SymbolMap(positions, Position)
  BY LedgerFacts
<1>2. sub \in Order /\ sub.filled = 0 /\ sub.fill = 0 /\ sub.status = "open"
  BY SubmittedOrder DEF Submitted
<1>3. /\ orders' = Append(orders, placed) /\ ApplyFill(placed, placed.fill) /\ SaveState
      /\ proc # "down" /\ proc' # "down"
  BY DEF PlaceOrder
<1> HIDE DEF sub
<1>4. /\ o \in Order /\ o.fill = TryFill(sub) /\ TryFill(sub) \in Nat
      /\ o.status = IF TryFill(sub) > 0 THEN "complete" ELSE "open"
      /\ o.filled = IF TryFill(sub) > 0 THEN sub.qty ELSE 0
  BY <1>1, <1>2, TriedShape
<1> HIDE DEF o
<1>5. placed \in Order /\ placed.status = IF placed.fill > 0 THEN "complete" ELSE "open"
  <2>1. CASE placed = o
    BY <1>4, <2>1
  <2>2. CASE placed = Forced(o, bs) /\ o.status = "open"
    <3>1. ~(TryFill(sub) > 0)
      BY <1>4, <2>2
    <3>2. o.filled = 0 /\ o.fill = 0
      BY <1>4, <3>1
    <3>3. /\ Forced(o, bs) \in Order
          /\ Forced(o, bs).status = IF Forced(o, bs).fill > 0 THEN "complete" ELSE o.status
      BY <1>1, <1>4, <3>2, ForcedShape
    <3> QED BY <2>2, <3>3
  <2> QED BY <2>1, <2>2
<1> HIDE DEF placed
<1>6. \E k \in DOMAIN InMemory'.orders : L!Enter(k)
  BY <1>3, <1>5, PlaceLedger
<1> QED
  BY <1>3, <1>6, SaveShown DEF L!Work

\* modify_order may fill the order, and saves.
LEMMA ModifyLedger ==
    ASSUME LedgerInv, NEW k \in OrderIds, NEW price \in ModifyPrices, ModifyOrder(k, price)
    PROVE  L!Work
<1> DEFINE m == [orders[k] EXCEPT !.price = price]
           o == Completed(Expecting(m), TryFill(m))
<1>1. /\ SymbolMap(ticks, Nat) /\ orders[k] \in Order /\ orders[k].status = "open" /\ k \in OpenOrders
      /\ proc # "down" /\ proc' # "down"
  BY LedgerFacts DEF ModifyOrder, OpenOrders
<1>2. orders[k].filled = 0 /\ orders[k].fill = 0 /\ price \in Nat
  BY <1>1, LedgerFacts, InputsAssumption
<1>3. /\ m \in Order /\ m.symbol = orders[k].symbol /\ m.side = orders[k].side /\ m.qty = orders[k].qty
      /\ m.status = "open" /\ m.filled = 0 /\ m.fill = 0
  BY <1>1, <1>2 DEF Order
<1>4. orders' = [orders EXCEPT ![k] = o] /\ ApplyFill(m, TryFill(m)) /\ SaveState
  BY DEF ModifyOrder
<1> HIDE DEF m
<1>5. /\ o \in Order /\ o.symbol = m.symbol /\ o.side = m.side /\ o.qty = m.qty
      /\ TryFill(m) \in Nat /\ o.status = IF TryFill(m) > 0 THEN "complete" ELSE "open"
  BY <1>1, <1>3, TriedShape
<1> DEFINE p == TryFill(m)
<1> HIDE DEF o, p
<1>6. L!Fill \/ UNCHANGED InMemory
  <2>1. o.symbol = orders[k].symbol /\ o.side = orders[k].side /\ o.qty = orders[k].qty
    BY <1>3, <1>5
  <2>2. m.symbol = o.symbol /\ m.side = o.side /\ m.qty = o.qty /\ p \in Nat
        /\ o.status = IF p > 0 THEN "complete" ELSE "open"
    BY <1>5 DEF p
  <2>3. ApplyFill(m, p)
    BY <1>4 DEF p
  <2> QED BY <1>1, <1>3, <1>4, <1>5, <2>1, <2>2, <2>3, VisitLedger
<1> QED
  BY <1>1, <1>4, <1>6, SaveShown DEF L!Work

\* A new last price moves no quantity.
LEMMA QuoteLedger ==
    ASSUME proc # "down", UNCHANGED <<proc, orders, disk>>, DOMAIN positions' = DOMAIN positions,
           \A s \in DOMAIN positions : positions'[s].qty = positions[s].qty
    PROVE  UNCHANGED <<InMemory, OnFile>>
<1>1. Shown(orders', positions') = Shown(orders, positions)
  BY DEF Shown
<1> QED
  BY <1>1, MemoryShown, SaveShown

\* Nor does a step that leaves the book and the file alone.
LEMMA StillLedger ==
    ASSUME UNCHANGED <<orders, positions, disk>>, proc # "down", proc' # "down"
    PROVE  UNCHANGED <<InMemory, OnFile>>
  BY MemoryShown, SaveShown

\* A position the kill switch closes is flattened.
LEMMA CloseLedger ==
    ASSUME proc # "down", NEW s \in Symbols, KillCloses(s)
    PROVE  L!Work
<1>1. /\ InMemory = Shown(orders, positions) /\ InMemory' = Shown(orders', positions')
      /\ OnFile' = OnFile /\ orders' = orders /\ positions' = Without(positions, s)
  BY MemoryShown, SaveShown DEF KillCloses
<1>2. Shown(orders, positions').pos = [t \in Symbols |-> IF t \in {s} THEN 0 ELSE Shown(orders, positions).pos[t]]
  BY <1>1 DEF Shown, Without
<1>3. Shown(orders, positions') = L!Flattened(Shown(orders, positions), {s})
  <2>1. Shown(orders, positions') = [orders |-> Shown(orders, positions).orders, pos |-> Shown(orders, positions').pos]
    BY DEF Shown
  <2> QED BY <1>2, <2>1 DEF L!Flattened
<1>4. L!Flatten
  BY <1>1, <1>3 DEF L!Flatten
<1> QED
  BY <1>1, <1>4 DEF L!Work

\* A step of the kill switch over one order.
LEMMA KillCancelsLedger ==
    ASSUME LedgerInv, KillCancels
    PROVE  L!Work
<1>1. proc # "down" /\ proc' = proc
  BY DEF KillCancels, LedgerInv, Quiet
<1> PICK k \in main.todo :
      IF orders[k].status = "complete" THEN UNCHANGED <<book, ghost, disk, saveFailures>> ELSE Cancel(k)
  BY DEF KillCancels
<1>2. k \in OrderIds
  BY DEF LedgerInv, TypeOK
<1>3. CASE orders[k].status = "complete"
  BY <1>1, <1>3, StillLedger DEF book, L!Work
<1>4. CASE orders[k].status # "complete"
  <2>1. Cancel(k)
    BY <1>4
  <2> QED BY <1>1, <1>2, <1>4, <2>1, CancelLedger
<1> QED
  BY <1>3, <1>4

\* The runner's steps are the ledger's.
LEMMA RunnerLedger == ASSUME LedgerInv, Runner PROVE L!Work \/ UNCHANGED <<InMemory, OnFile>>
<1>1. ASSUME NEW k \in OrderIds, CancelOrder(k) PROVE L!Work
  BY <1>1, CancelLedger DEF CancelOrder
<1>2. ASSUME GetPositions PROVE UNCHANGED <<InMemory, OnFile>>
  <2>1. DOMAIN positions' = DOMAIN positions /\ proc # "down" /\ UNCHANGED <<proc, orders, disk>>
    BY <1>2 DEF GetPositions
  <2>2. \A s \in DOMAIN positions : positions[s] \in Position
    BY LedgerFacts DEF SymbolMap
  <2>3. ASSUME NEW s \in DOMAIN positions PROVE positions'[s].qty = positions[s].qty
    BY <1>2, <2>2 DEF GetPositions, Position
  <2> QED BY <2>1, <2>3, QuoteLedger
<1>3. ASSUME KillBegins \/ KillTakesLock \/ KillEnds PROVE UNCHANGED <<InMemory, OnFile>>
  <2>1. UNCHANGED <<orders, positions, disk>> /\ proc # "down" /\ proc' # "down"
    BY <1>3 DEF KillBegins, KillTakesLock, KillEnds, book, LedgerInv, Quiet
  <2> QED BY <2>1, StillLedger
<1>4. ASSUME NEW s \in Symbols, KillCloses(s) PROVE L!Work
  <2>1. proc # "down"
    BY <1>4 DEF KillCloses, LedgerInv, Quiet
  <2> QED BY <1>4, <2>1, CloseLedger
<1> QED
  BY <1>1, <1>2, <1>3, <1>4, PlaceOrderLedger, ModifyLedger, KillCancelsLedger DEF Runner

\* The feed's steps are the ledger's: a tick fills order by order, then saves.
LEMMA FeedLedger == ASSUME LedgerInv, Feed PROVE L!Work \/ UNCHANGED <<InMemory, OnFile>>
<1>1. ASSUME NEW s \in Symbols, NEW p \in TickPrices, TickArrives(s, p)
      PROVE  UNCHANGED <<InMemory, OnFile>>
  <2>1. DOMAIN positions' = DOMAIN positions /\ proc # "down" /\ UNCHANGED <<proc, orders, disk>>
    BY <1>1 DEF TickArrives
  <2>2. \A t \in DOMAIN positions : positions[t] \in Position
    BY LedgerFacts DEF SymbolMap
  <2>3. ASSUME NEW t \in DOMAIN positions PROVE positions'[t].qty = positions[t].qty
    BY <1>1, <2>2 DEF TickArrives, Position
  <2> QED BY <2>1, <2>3, QuoteLedger
<1>2. ASSUME feed.phase # "idle" PROVE proc # "down"
  BY <1>2 DEF LedgerInv, Quiet
<1>3. ASSUME TickTriesOrder PROVE L!Work
  <2> PICK k \in feed.todo :
        /\ orders' = [orders EXCEPT ![k] = Completed(Expecting(orders[k]), TryFill(orders[k]))]
        /\ ApplyFill(orders[k], TryFill(orders[k]))
    BY <1>3 DEF TickTriesOrder
  <2> DEFINE o == Completed(Expecting(orders[k]), TryFill(orders[k]))
             q == orders[k]
             p == TryFill(orders[k])
  <2>1. /\ SymbolMap(ticks, Nat) /\ k \in OpenOrders /\ q \in Order /\ q.status = "open"
        /\ q.filled = 0 /\ q.fill = 0
    BY LedgerFacts
  <2>2. /\ o \in Order /\ o.symbol = q.symbol /\ o.side = q.side /\ o.qty = q.qty
        /\ p \in Nat /\ o.status = IF p > 0 THEN "complete" ELSE q.status
    BY <2>1, TriedShape
  <2>3. proc # "down" /\ proc' # "down" /\ disk' = disk
    BY <1>2, <1>3 DEF TickTriesOrder
  <2>4. orders' = [orders EXCEPT ![k] = o] /\ ApplyFill(q, p) /\ q = orders[k]
    OBVIOUS
  <2> HIDE DEF o, p, q
  <2>5. /\ o.symbol = orders[k].symbol /\ o.side = orders[k].side /\ o.qty = orders[k].qty
        /\ q.symbol = o.symbol /\ q.side = o.side /\ q.qty = o.qty
        /\ o.status = IF p > 0 THEN "complete" ELSE "open"
    BY <2>1, <2>2, <2>4
  <2>6. L!Fill \/ UNCHANGED InMemory
    BY <2>1, <2>2, <2>3, <2>4, <2>5, VisitLedger
  <2> QED BY <2>3, <2>6, SaveShown DEF L!Work
<1>4. ASSUME TickBeginsForcing PROVE UNCHANGED <<InMemory, OnFile>>
  BY <1>2, <1>4, StillLedger DEF TickBeginsForcing, book
<1>5. ASSUME NEW bs \in BSPrices, TickForcesOrder(bs) PROVE L!Work
  <2> PICK k \in feed.todo :
        /\ orders' = [orders EXCEPT ![k] = Forced(orders[k], bs)]
        /\ ApplyFill(Forced(orders[k], bs), Forced(orders[k], bs).fill)
    BY <1>5 DEF TickForcesOrder
  <2> DEFINE o == Forced(orders[k], bs)
  <2>1. /\ SymbolMap(ticks, Nat) /\ SymbolMap(positions, Position)
        /\ k \in OpenOrders /\ orders[k] \in Order /\ orders[k].status = "open"
        /\ orders[k].filled = 0 /\ orders[k].fill = 0
    BY LedgerFacts
  <2>2. /\ o \in Order /\ o.symbol = orders[k].symbol /\ o.side = orders[k].side /\ o.qty = orders[k].qty
        /\ o.fill \in Nat /\ o.status = IF o.fill > 0 THEN "complete" ELSE orders[k].status
    BY <2>1, ForcedShape
  <2>3. proc # "down" /\ proc' # "down" /\ disk' = disk
    BY <1>2, <1>5 DEF TickForcesOrder
  <2>4. orders' = [orders EXCEPT ![k] = o] /\ ApplyFill(o, o.fill)
    OBVIOUS
  <2> HIDE DEF o
  <2>5. o.status = IF o.fill > 0 THEN "complete" ELSE "open"
    BY <2>1, <2>2
  <2>6. L!Fill \/ UNCHANGED InMemory
    BY <2>1, <2>2, <2>3, <2>4, <2>5, VisitLedger
  <2> QED BY <2>3, <2>6, SaveShown DEF L!Work
<1>6. ASSUME TickEnds PROVE L!Work
  <2>1. UNCHANGED <<orders, positions>> /\ SaveState /\ proc # "down" /\ proc' # "down"
    BY <1>2, <1>6 DEF TickEnds, book
  <2>2. UNCHANGED InMemory
    BY <2>1, MemoryShown
  <2> QED BY <2>1, <2>2, SaveShown DEF L!Work
<1> QED
  BY <1>1, <1>3, <1>4, <1>5, <1>6 DEF Feed

\* A restart cancels some open orders of the file, and no more.
LEMMA LoadLedger ==
    ASSUME NEW os, \A k \in DOMAIN os : os[k] \in Order, NEW ps
    PROVE  LET qs == [k \in DOMAIN os |-> ZombieClean(os[k])]  b == Shown(os, ps) IN
           \E ks \in SUBSET L!Open(b) : Shown(qs, ps) = L!Cancelled(b, ks)
<1> DEFINE qs == [k \in DOMAIN os |-> ZombieClean(os[k])]
           b == Shown(os, ps)
           ks == {k \in DOMAIN os : os[k].status = "open" /\ os[k].price = 0}
<1>1. DOMAIN b.orders = DOMAIN os /\ \A k \in DOMAIN os : b.orders[k] = Lot(os[k])
  BY DEF Shown
<1>2. Shown(qs, ps) = [orders |-> [k \in DOMAIN os |-> Lot(qs[k])], pos |-> b.pos]
  BY DEF Shown
<1>3. ASSUME NEW k \in DOMAIN os
      PROVE  Lot(qs[k]) = IF k \in ks THEN [b.orders[k] EXCEPT !.status = "cancelled"] ELSE b.orders[k]
  <2>1. os[k] \in Order /\ qs[k] = ZombieClean(os[k])
    OBVIOUS
  <2>2. CASE k \in ks
    <3>1. /\ qs[k] = [os[k] EXCEPT !.status = "cancelled"] /\ b.orders[k] = Lot(os[k])
      BY <1>1, <2>1, <2>2 DEF ZombieClean
    <3>2. /\ qs[k].status = "cancelled" /\ qs[k].symbol = os[k].symbol
          /\ qs[k].side = os[k].side /\ qs[k].qty = os[k].qty
      BY <2>1, <3>1 DEF Order
    <3>3. Lot(qs[k]) = [Lot(os[k]) EXCEPT !.status = "cancelled"]
      BY <3>2 DEF Lot
    <3> QED BY <2>2, <3>1, <3>3
  <2>3. CASE k \notin ks
    BY <1>1, <2>1, <2>3 DEF ZombieClean
  <2> QED BY <2>2, <2>3
<1>4. ks \subseteq L!Open(b)
  <2>1. ASSUME NEW k \in ks PROVE b.orders[k].status = "open"
    <3>1. b.orders[k] = Lot(os[k]) /\ os[k].status = "open"
      BY <1>1, <2>1
    <3> QED BY <3>1 DEF Lot
  <2>2. ks \subseteq DOMAIN os
    OBVIOUS
  <2> HIDE DEF ks, b
  <2> QED BY <1>1, <2>1, <2>2 DEF L!Open
<1> HIDE DEF ks, qs, b
<1>5. Shown(qs, ps) = L!Cancelled(b, ks)
  <2>1. [k \in DOMAIN os |-> Lot(qs[k])] = L!Marked(b, ks, "cancelled")
    <3>1. L!Marked(b, ks, "cancelled") =
            [k \in DOMAIN os |-> IF k \in ks THEN [b.orders[k] EXCEPT !.status = "cancelled"] ELSE b.orders[k]]
      BY <1>1 DEF L!Marked
    <3> QED BY <1>3, <3>1
  <2> QED BY <1>2, <2>1 DEF L!Cancelled
<1> QED
  BY <1>4, <1>5 DEF qs, b

\* An empty book is shown as the ledger's.
LEMMA EmptyShown == Shown(<<>>, EmptyMap) = L!NoBook /\ Shown(Loaded(EmptyBook).orders, EmptyMap) = L!NoBook
<1>1. DOMAIN EmptyMap = {} /\ DOMAIN <<>> = {} /\ DOMAIN Loaded(EmptyBook).orders = {}
  BY DEF EmptyMap, Loaded, EmptyBook
<1>2. ASSUME NEW os, DOMAIN os = {} PROVE Shown(os, EmptyMap) = L!NoBook
  BY <1>1, <1>2 DEF Shown, L!NoBook, L!Nothing
<1> QED
  BY <1>1, <1>2

\* What the file holds, or the empty book, is a book.
LEMMA SavedType == ASSUME LedgerInv PROVE \A k \in DOMAIN Saved.orders : Saved.orders[k] \in Order
<1>1. CASE disk = NoFile
  BY <1>1 DEF Saved, EmptyBook
<1>2. CASE disk # NoFile
  BY <1>2 DEF Saved, LedgerInv, TypeOK, BookType
<1> QED
  BY <1>1, <1>2

\* The life cycle's steps are the ledger's.
LEMMA LifecycleLedger == ASSUME LedgerInv, Lifecycle PROVE L!Next \/ UNCHANGED <<InMemory, OnFile>>
<1>1. ASSUME Start PROVE UNCHANGED <<InMemory, OnFile>>
  <2>1. /\ proc = "down" /\ proc' # "down" /\ disk' = disk
        /\ orders = <<>> /\ positions = EmptyMap
    BY <1>1 DEF Start, LedgerInv
  <2>2. OnFile' = OnFile /\ InMemory = Shown(Loaded(Saved).orders, Saved.positions)
        /\ InMemory' = Shown(orders', positions')
    BY <2>1, SaveShown DEF InMemory
  <2>3. CASE disk = NoFile
    <3>1. Saved = EmptyBook /\ Saved.positions = EmptyMap
      BY <2>3 DEF Saved, EmptyBook
    <3>2. orders' = <<>> /\ positions' = EmptyMap
      BY <1>1, <2>1, <2>3 DEF Start, book
    <3> QED BY <2>2, <3>1, <3>2, EmptyShown
  <2>4. CASE disk # NoFile
    <3>1. BookBecomes(Loaded(disk)) /\ Saved = disk
      BY <1>1, <2>4 DEF Start, Saved
    <3>2. orders' = Loaded(disk).orders /\ positions' = disk.positions
      BY <3>1 DEF BookBecomes, Loaded
    <3> QED BY <2>2, <3>1, <3>2
  <2> QED BY <2>3, <2>4
<1>2. ASSUME Connect PROVE UNCHANGED <<InMemory, OnFile>>
  <2>1. UNCHANGED <<orders, positions, disk>> /\ proc # "down" /\ proc' # "down"
    BY <1>2 DEF Connect, book
  <2> QED BY <2>1, StillLedger
<1>3. ASSUME Disconnect PROVE L!Next
  <2>1. UNCHANGED <<orders, positions>> /\ SaveState /\ proc # "down" /\ proc' # "down"
    BY <1>3 DEF Disconnect, book
  <2>2. UNCHANGED InMemory
    BY <2>1, MemoryShown
  <2> QED BY <2>1, <2>2, SaveShown DEF L!Work, L!Next
<1>4. ASSUME Crash PROVE L!Next
  <2>1. proc' = "down" /\ disk' = disk
    BY <1>4 DEF Crash
  <2>2. InMemory' = Shown(Loaded(Saved).orders, Saved.positions) /\ OnFile' = OnFile
        /\ OnFile = Shown(Saved.orders, Saved.positions)
    <3>1. Saved' = Saved
      BY <2>1 DEF Saved
    <3>2. InMemory' = Shown(Loaded(Saved').orders, Saved'.positions)
      BY <2>1 DEF InMemory
    <3> QED BY <2>1, <3>1, <3>2, SaveShown DEF OnFile
  <2>3. Loaded(Saved).orders = [k \in DOMAIN Saved.orders |-> ZombieClean(Saved.orders[k])]
    BY DEF Loaded
  <2> DEFINE os == Saved.orders
             ps == Saved.positions
  <2>4. \A k \in DOMAIN os : os[k] \in Order
    BY SavedType
  <2> HIDE DEF os, ps
  <2>5. \E ks \in SUBSET L!Open(Shown(os, ps)) :
          Shown([k \in DOMAIN os |-> ZombieClean(os[k])], ps) = L!Cancelled(Shown(os, ps), ks)
    BY <2>4, LoadLedger
  <2>6. \E ks \in SUBSET L!Open(OnFile) : InMemory' = L!Cancelled(OnFile, ks)
    BY <2>2, <2>3, <2>5 DEF os, ps
  <2> QED BY <2>2, <2>6 DEF L!Restart, L!Next
<1>5. ASSUME Reset PROVE L!Next
  <2>1. /\ proc' # "down" /\ orders' = <<>> /\ positions' = EmptyMap /\ disk' = NoFile
    BY <1>5 DEF Reset, BookBecomes, EmptyBook
  <2>2. InMemory' = L!NoBook
    BY <2>1, MemoryShown, EmptyShown
  <2>3. OnFile' = L!NoBook
    <3>1. Saved' = EmptyBook
      BY <2>1 DEF Saved, EmptyBook
    <3>2. OnFile' = Shown(Saved'.orders, Saved'.positions)
      BY DEF OnFile
    <3> QED BY <3>1, <3>2, EmptyShown DEF EmptyBook
  <2> QED BY <2>2, <2>3 DEF L!Wipe, L!Next
<1> QED
  BY <1>1, <1>2, <1>3, <1>4, <1>5 DEF Lifecycle

\* Every step of the broker is one of the ledger's, or shows nothing.
LEMMA LedgerStep == LedgerInv /\ [Next]_vars => [L!Next]_<<InMemory, OnFile>>
<1> SUFFICES ASSUME LedgerInv, [Next]_vars PROVE L!Next \/ UNCHANGED <<InMemory, OnFile>>
  OBVIOUS
<1>1. CASE UNCHANGED vars
  BY <1>1 DEF vars, InMemory, OnFile, Saved
<1>2. CASE Next
  BY <1>2, RunnerLedger, FeedLedger, LifecycleLedger DEF Next, L!Next
<1> QED
  BY <1>1, <1>2

\* A process that is down has no book in memory.
LEMMA DownEmpty == Spec => [](proc = "down" => orders = <<>> /\ positions = EmptyMap)
<1> DEFINE I == proc = "down" => orders = <<>> /\ positions = EmptyMap
<1>1. Init => I
  BY DEF Init, EmptyBook
<1>2. TypeOK /\ Quiet /\ I /\ [Next]_vars => I'
  <2> SUFFICES ASSUME TypeOK, Quiet, I, [Next]_vars, proc' = "down"
               PROVE  orders' = <<>> /\ positions' = EmptyMap
    OBVIOUS
  <2>1. ASSUME Crash PROVE orders' = <<>> /\ positions' = EmptyMap
    BY <2>1 DEF Crash, BookBecomes, EmptyBook
  <2>2. ASSUME UNCHANGED vars PROVE orders' = <<>> /\ positions' = EmptyMap
    BY <2>2 DEF vars
  <2>3. ~Start /\ ~Connect /\ ~Disconnect /\ ~Reset
    BY DEF Start, Connect, Disconnect, Reset
  <2>4. ~Feed
    BY DEF Feed, TickArrives, TickTriesOrder, TickBeginsForcing, TickForcesOrder, TickEnds, Quiet
  <2>5. ~Runner
    BY DEF Runner, PlaceOrder, CancelOrder, ModifyOrder, GetPositions, KillBegins, KillCancels,
           KillTakesLock, KillEnds, KillCloses, Quiet
  <2> QED BY <2>1, <2>2, <2>3, <2>4, <2>5 DEF Next, Lifecycle
<1> QED
  BY TypeInvariant, <1>1, <1>2, PTL DEF Spec

\* The paper broker implements the ledger: whichever thread works, wherever a save
\* fails and wherever the process dies, positions move by whole orders as these
\* fill, once each, or are flattened, and a restart goes on from a book that was
\* once saved; and no finished order changes while the process lives.
THEOREM KeepsTheLedger == Spec => LedgerKept
<1>1. Init => L!Init
  <2> SUFFICES ASSUME Init PROVE L!Init
    OBVIOUS
  <2>1. Saved = EmptyBook /\ proc = "down"
    BY DEF Init, Saved
  <2>2. OnFile = L!NoBook /\ InMemory = L!NoBook
    BY <2>1, EmptyShown DEF OnFile, InMemory, EmptyBook
  <2> QED BY <2>2 DEF L!Init
<1>2. Spec => []LedgerInv
  BY TypeInvariant, KillInvariant, BooksInvariant, DownEmpty, PTL DEF LedgerInv
<1>3. Spec => L!Spec
  BY <1>1, <1>2, LedgerStep, PTL DEF Spec, L!Spec
<1> QED
  BY <1>3, FinishedForever, PTL DEF LedgerKept

==============================================================================
