---------------------------- MODULE MCTradeBook ----------------------------
(* Instances of TradeBook for TLC: a short strangle and a perpetual trade. *)
EXTENDS TradeBook

CONSTANTS call, put, perp

MCOptions == {call, put}
MCFutures == {perp}

Strangle   == <<[symbol |-> call, qty |-> -1], [symbol |-> put, qty |-> -1]>>
Trend      == <<[symbol |-> perp, qty |-> 1]>>
MCPlans    == {Strangle, Trend}
=============================================================================
