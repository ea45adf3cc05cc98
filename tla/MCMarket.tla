------------------------------ MODULE MCMarket ------------------------------
(* What the bot knows of the market, the plans it builds from that, and the  *)
(* files of what it has traded, under the repair scripts. They share no      *)
(* state here, so one behaviour follows one of them, which `part` names,     *)
(* while the others stay as they begin. "edges" is the chain with the index  *)
(* about the thresholds of the strike step.                                  *)
(* The kill switch is left to MCTradeBook.                                   *)
EXTENDS Scripts, Chain, Plans

CONSTANTS call, put, perp

VARIABLE part

market == <<part, vars, scriptVars, chainVars, ctx>>

\* The scripts: a plan of two legs, and one of a leg, which has an order left to
\* close it with.
MCOptions == {call, put}
MCFutures == {perp}
Short(o)  == [symbol |-> o, qty |-> -1]
MCTraded  == {<<Short(call), Short(put)>>, <<Short(call)>>}

\* The chain: three expiries, of which today's is too near to trade, in two
\* orders; and one expiry with five strikes.
Opt(e, k, s) == [exp |-> e, strike |-> k, side |-> s]
Pair(e, k)   == <<Opt(e, k, "C"), Opt(e, k, "P")>>
TwoOrders == {Pair(0, 82000) \o Pair(1, 81000) \o Pair(1, 82000) \o Pair(2, 82000),
              Pair(2, 82000) \o Pair(1, 82000) \o Pair(1, 81000) \o Pair(0, 82000)}
FiveStrikes == Pair(2, 80000) \o Pair(2, 81000) \o Pair(2, 82000) \o Pair(2, 83000) \o Pair(2, 84000)

MCListings == TwoOrders \cup {FiveStrikes}
MCFeeds    == {"ws", "rest"}
Usual      == {81500, 82499}
MCIndex    == Usual \cup {25, 75, 1000, 1001, 1150, 10000, 10500}
MCQuotes   == {[ltp |-> 0, iv |-> 36], [ltp |-> 1, iv |-> 36]}
MCReadings == {0, 2, 120}

\* The plans: the instances of config/settings.yaml, one or two per strategy, on
\* the strikes of two expiries at once, weekly above and monthly below, and on a
\* strip below the spot.
AnyRegime == {"range", "trending", "volatile"}
\* Thresholds no context fails, to be overridden.
Open == [kind |-> "", name |-> "", regimes |-> AnyRegime, minRank |-> 0, maxRank |-> 100, maxDvol |-> 1000,
         minMomentum |-> 0, minStrikes |-> 1, wing |-> 0, width |-> 0, profit |-> 70,
         target |-> 100, stop |-> 100, minDte |-> 2]

Condor   == [Open EXCEPT !.kind = "iron_condor", !.regimes = {"range"}, !.minRank = 30, !.maxDvol = 90, !.minStrikes = 5, !.wing = 30]
Strangle == [Open EXCEPT !.kind = "short_strangle", !.regimes = {"range"}, !.minRank = 35, !.maxDvol = 90, !.wing = 40]
Call     == [Open EXCEPT !.kind = "short_call", !.minRank = 35, !.maxDvol = 90, !.wing = 50]
Spread   == [Open EXCEPT !.kind = "debit_spread", !.minRank = 15, !.maxRank = 85, !.minMomentum = 3, !.minStrikes = 5, !.width = 50, !.target = 250, !.stop = 50]
Narrow   == [Spread EXCEPT !.name = "narrow", !.width = 10]
Debit    == [Open EXCEPT !.kind = "directional_debit", !.minRank = 15, !.maxRank = 85, !.minMomentum = 5, !.minStrikes = 3, !.stop = 50]
Trend    == [Open EXCEPT !.kind = "futures_trend", !.minMomentum = 5, !.minStrikes = 0, !.target = 600, !.stop = 200]
Calendar == [Open EXCEPT !.kind = "calendar_spread", !.regimes = {"range", "trending"}, !.minRank = 15, !.maxRank = 70, !.minStrikes = 3, !.target = 50, !.stop = 200]
Straddle == [Open EXCEPT !.kind = "long_straddle", !.regimes = {"range", "volatile"}, !.minRank = 30, !.maxRank = 90, !.minStrikes = 3, !.stop = 50]

MCPresets     == {Condor, Strangle, Call, Spread, Narrow, Debit, Trend, Calendar, Straddle}
MCGrids       == {{1800, 1900, 2000, 2100, 2200}, {1800, 1850, 1900}}
MCCoins       == {"BTC", "ETH"}
MCSpots       == {2049}
MCPrices      == {0, 10, 60}
MCRanks       == {50}
MCDvols       == {45}
MCMomenta     == {-6, 6}
MCRegimes     == {"range"}
MCDtes        == {1}
MCSettlements == {0, 1800, 1850, 1900, 2000, 2100, 2200, 4000}

------------------------------------------------------------------------------
\* A context in which no strategy has a plan.
Quiet == [coin |-> "BTC", strikes |-> {1800}, ltp |-> [o \in {1800} \X {"C", "P"} |-> 0], spot |-> 1960,
          rank |-> 0, dvol |-> 0, momentum |-> 0, regime |-> "range", dte |-> 1]

\* A part that is not followed begins in one state. The coin counts only in a
\* perpetual's contract, so the second one has the small strip to itself.
MCInit ==
    /\ part \in {"scripts", "chain", "edges", "plans"}
    /\ ScriptsInit /\ ChainInit
    /\ CASE part = "chain" -> listing \in TwoOrders
         [] part = "edges" -> listing = FiveStrikes
         [] OTHER -> feed = "ws" /\ listing = FiveStrikes
    /\ IF part = "plans" THEN PlansInit /\ (ctx.coin = "ETH" => Cardinality(ctx.strikes) = 3) ELSE ctx = Quiet

InScripts == part = "scripts" /\ UNCHANGED <<part, chainVars, ctx>>
InChain   == part = "chain" /\ UNCHANGED <<part, vars, scriptVars, ctx>>
AtEdges   == part = "edges" /\ UNCHANGED <<part, vars, scriptVars, ctx, today, dvol, latest>>
InPlans   == part = "plans" /\ UNCHANGED <<part, vars, scriptVars, chainVars>>

MCNext ==
    \/ InScripts /\ ScriptsNext /\ op'.kind # "kill"
    \/ InChain /\ ChainNext /\ spot' \in Usual \cup {spot}
    \/ AtEdges /\ (NextDay \/ HourPasses \/ Connect \/ OnSpot)
    \/ InPlans /\ PlansNext

MCSpec == MCInit /\ [][MCNext]_market

\* The files and the caches keep the shape of their state.
MarketTypeOK == ScriptsTypeOK /\ ChainTypeOK
=============================================================================
