---------------------------- MODULE MCPaperBroker ----------------------------
(* Two small paper brokers: `size` is the number of orders of the one that is  *)
(* followed. With two, an option and a perpetual in either fill mode, the kill *)
(* switch at any time, and in the fill mode that fills at once a save may      *)
(* fail; with three, the option only, in that mode, and no kill switch. Prices *)
(* are multiples of 12000 (1.20 USD): slippage, spread and every average price *)
(* of three fills are then whole numbers.                                      *)
EXTENDS PaperBroker

VARIABLE size

MCOrder(symbol, side, qty, type, price, trigger, cs) ==
    [symbol |-> symbol, side |-> side, qty |-> qty, type |-> type, price |-> price,
     trigger |-> trigger, cs |-> cs]

\* The last one closes as close_trade does a perpetual's leg: its contract size
\* is not the one of the order that opened.
MCOrders == {
    MCOrder("opt", "BUY", 2, "LIMIT", 2400000, 0, 10),
    MCOrder("opt", "SELL", 3, "SL", 2412000, 2412000, 10),
    MCOrder("perp", "SELL", 1, "MARKET", 0, 0, 1),
    MCOrder("opt", "SELL", 1, "MARKET", 0, 0, 1)}

MCInit == Init /\ size \in {2, 3} /\ (size = 3 => fillMode = "market_like")

OptionOnly ==
    /\ "perp" \notin DOMAIN ticks'
    /\ main'.phase = "run"
    /\ \A i \in DOMAIN orders' : orders'[i].symbol = "opt"

OfOneSize == \A i \in DOMAIN orders' : orders'[i].symbol = "opt" => orders'[i].cs = 10

MCNext ==
    /\ Next /\ UNCHANGED size
    /\ IF size = 3 THEN OptionOnly /\ saveFailures' = 0
                   ELSE OfOneSize /\ Len(orders') <= 2 /\ (fillMode = "realistic_limit" => saveFailures' = 0)

MCSpec == MCInit /\ [][MCNext]_<<vars, size>>
=============================================================================
