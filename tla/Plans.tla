-------------------------------- MODULE Plans --------------------------------
(***************************************************************************)
(* The strategies, crypto_options_bot/strategy/: each is a function of the *)
(* market context that gives a plan or none.  Here a plan is in a set of   *)
(* at most one.                                                            *)
(*                                                                         *)
(* Strikes, the spot and settlements are whole dollars; an option's last  *)
(* price is in thousandths of the coin, as Deribit quotes it and the feeds *)
(* store it.  Momentum, wings and widths are in thousandths, multiples in  *)
(* hundredths; a plan's target and stop are in hundredths of a thousandth  *)
(* of what its profit is counted in, the coin or, for a perpetual, the     *)
(* dollar.  A settlement is a price of the underlying at which the plan's  *)
(* options expire.                                                         *)
(***************************************************************************)
EXTENDS Integers, FiniteSets, FiniteSetsExt, Functions

CONSTANTS
    Grids,        \* sets of strikes of a context
    Coins,        \* a subset of {"BTC", "ETH"}
    Spots,        \* spots
    Prices,       \* last prices, 0 for none
    Ranks,        \* implied volatility ranks
    Dvols,        \* volatility indices
    Momenta,      \* momenta in thousandths
    Regimes,      \* a subset of {"range", "trending", "volatile"}
    Dtes,         \* days to the expiry, -1 when unknown
    Settlements,  \* prices at expiry the properties look at
    Presets       \* the strategy instances: records of their settings

Selling   == {"iron_condor", "short_strangle", "short_call"}
Buying    == {"debit_spread", "directional_debit", "long_straddle"}
Following == {"debit_spread", "directional_debit", "futures_trend"}

ASSUME ContextAssumption ==
    /\ Coins \subseteq {"BTC", "ETH"}
    /\ \A grid \in Grids : grid \subseteq Nat \ {0, 1} /\ IsFiniteSet(grid)
    /\ Spots \subseteq Nat \ {0, 1} /\ Prices \subseteq Nat /\ Momenta \subseteq Int
    /\ Settlements \subseteq Nat
    /\ \A p \in Presets :
        /\ p.kind \in Selling \cup Buying \cup {"futures_trend", "calendar_spread"}
        /\ p.wing \in Nat /\ p.width \in Nat /\ p.profit \in 0..100 /\ p.target \in Nat /\ p.stop \in Nat
        /\ p.kind # "futures_trend" => p.minStrikes \in Nat \ {0}

Dist(x, y) == IF x > y THEN x - y ELSE y - x

\* Options that cost a fraction of the coin: two of them, with the profit or the
\* loss that is a multiple of their price, at most half of it (less, when they are
\* bought).  A trend's stop and
\* target are at most half the price away.
TargetFits(p, cost) == (100 + p.target) * cost < 500 * 100
StopFits(p, cost)   == (100 + 2 * p.stop) * cost <= 500 * 100
TrendFits(p, m)     == 3 * p.target * Dist(m, 0) <= 1000 * 100 /\ 3 * p.stop * Dist(m, 0) <= 1000 * 100
Modest(p) ==
    /\ p.kind \in Buying => p.stop <= 100 /\ \A x, y \in Prices \cup {0} : TargetFits(p, x + y)
    /\ p.kind \in Selling => \A x, y \in Prices \cup {0} : StopFits(p, x + y)
    /\ p.kind = "futures_trend" => \A m \in Momenta : TrendFits(p, m)

ASSUME ModestAssumption == \A p \in Presets : Modest(p)

Sides == {"C", "P"}

VARIABLE ctx      \* the SignalContext

Quoted(k, side) == ctx.ltp[k, side]

PlansInit ==
    \E c \in Coins, grid \in Grids, s \in Spots, r \in Ranks, v \in Dvols, m \in Momenta, g \in Regimes, d \in Dtes :
        ctx = [coin |-> c, strikes |-> grid, ltp |-> [o \in grid \X Sides |-> 0], spot |-> s,
               rank |-> r, dvol |-> v, momentum |-> m, regime |-> g, dte |-> d]

------------------------------------------------------------------------------
(* The helpers. *)

\* min(strikes, key=distance): a tie goes to the lower strike of a sorted list.
Snap(target) ==
    CHOOSE k \in ctx.strikes : \A j \in ctx.strikes :
        Dist(k, target) < Dist(j, target) \/ (Dist(k, target) = Dist(j, target) /\ k <= j)

AtmStrike == Snap(ctx.spot)

\* round() of n/d: a tie goes to the even number.
Rounded(n, d) ==
    LET q == n \div d  r == 2 * (n % d)
    IN  IF r > d \/ (r = d /\ q % 2 = 1) THEN q + 1 ELSE q

Wing(p) == Max({50, Rounded(ctx.spot * p.wing, 1000)})

LegOf(way, k, side) == [way |-> way, strike |-> k, side |-> side, price |-> Quoted(k, side)]

\* What the legs bring in, negative for a debit.
Credit(legs) == SumFunctionOnSet([l \in legs |-> IF l.way = "SELL" THEN l.price ELSE -l.price], legs)

AllQuoted(legs) == \A l \in legs : l.price > 0

\* Each strategy has thresholds of its own: those it lacks are out of reach.
Eligible(p) ==
    /\ ctx.regime \in p.regimes
    /\ ctx.rank \in p.minRank..p.maxRank
    /\ ctx.dvol <= p.maxDvol
    /\ Dist(ctx.momentum, 0) >= p.minMomentum
    /\ Cardinality(ctx.strikes) >= p.minStrikes

Direction == IF ctx.momentum > 0 THEN "C" ELSE "P"

\* The plan of a strategy that sells for a credit and of one that pays a debit.
ForCredit(p, legs, risk) ==
    [by |-> p, legs |-> legs, target |-> Credit(legs) * p.profit, stop |-> risk * p.stop]
ForDebit(p, legs) ==
    [by |-> p, legs |-> legs, target |-> -Credit(legs) * p.target, stop |-> -Credit(legs) * p.stop]

------------------------------------------------------------------------------
(* The strategies. *)

\* The risk is that of the call wing: dollars less coins, as the code takes one from
\* the other.
IronCondor(p) ==
    LET shortC == Snap(AtmStrike + Wing(p))  longC == Snap(shortC + Wing(p))
        shortP == Snap(AtmStrike - Wing(p))  longP == Snap(shortP - Wing(p))
        legs == {LegOf("SELL", shortC, "C"), LegOf("BUY", longC, "C"),
                 LegOf("SELL", shortP, "P"), LegOf("BUY", longP, "P")}
        risk == 1000 * (longC - shortC) - Credit(legs)
    IN  IF /\ Eligible(p)
           /\ longC > shortC /\ longP < shortP
           /\ AllQuoted(legs) /\ Credit(legs) > 0 /\ risk > 0
        THEN {ForCredit(p, legs, risk)} ELSE {}

ShortStrangle(p) ==
    LET legs == {LegOf("SELL", Snap(AtmStrike + Wing(p)), "C"),
                 LegOf("SELL", Snap(AtmStrike - Wing(p)), "P")}
    IN  IF Eligible(p) /\ AllQuoted(legs)
        THEN {ForCredit(p, legs, 2 * Credit(legs))} ELSE {}

\* It alone looks at the expiry, when it is known.
ShortCall(p) ==
    LET legs == {LegOf("SELL", Snap(AtmStrike + Wing(p)), "C")}
    IN  IF /\ Eligible(p) /\ AllQuoted(legs)
           /\ ctx.dte >= 0 => ctx.dte >= p.minDte
        THEN {ForCredit(p, legs, 2 * Credit(legs))} ELSE {}

\* mutant: the width is always added
ShortAbove(p) == {Snap(Rounded((1000 + p.width) * AtmStrike, 1000))} \ {AtmStrike}

\* The strike sold against the one at the money: the nearest to a width away
\* or, when that is the same strike, the next one up.  The branch for the next
\* one down asks for a direction there is not.
ShortStrikes(p) ==
    LET long == AtmStrike
        wide == Rounded((IF Direction = "C" THEN 1000 + p.width ELSE 1000 - p.width) * long, 1000)
        above == {k \in ctx.strikes : k > long}
    IN  IF Snap(wide) # long THEN {Snap(wide)}
        ELSE IF Direction = "C" /\ above # {} THEN {Min(above)} ELSE {}

\* What it takes for the most it can gain is dollars less coins, too.
DebitSpread(p) ==
    UNION {LET legs == {LegOf("BUY", AtmStrike, Direction), LegOf("SELL", short, Direction)}
               gain == 1000 * Dist(short, AtmStrike) + Credit(legs)
           IN  IF Eligible(p) /\ AllQuoted(legs) /\ Credit(legs) < 0 /\ gain > 0
               THEN {[ForDebit(p, legs) EXCEPT !.target = Min({@, 90 * gain})]} ELSE {}
           : short \in ShortStrikes(p)}

\* At the money or, without a quote there, the quoted strike nearest the spot.
DirectionalDebit(p) ==
    LET quoted == {k \in ctx.strikes : Quoted(k, Direction) > 0}
        near == {k \in quoted : \A j \in quoted :
                    Dist(k, ctx.spot) < Dist(j, ctx.spot) \/ (Dist(k, ctx.spot) = Dist(j, ctx.spot) /\ k <= j)}
        strikes == IF AtmStrike \in quoted THEN {AtmStrike} ELSE near
    IN  IF Eligible(p) THEN {ForDebit(p, {LegOf("BUY", k, Direction)}) : k \in strikes} ELSE {}

LongStraddle(p) ==
    LET legs == {LegOf("BUY", AtmStrike, "C"), LegOf("BUY", AtmStrike, "P")}
    IN  IF Eligible(p) /\ AllQuoted(legs) THEN {ForDebit(p, legs)} ELSE {}

\* The account state the runner hands over has no expiries: it stops there.
AccountExpiries == {}
CalendarSpread(p) ==
    {ForDebit(p, {LegOf("SELL", AtmStrike, "C"), LegOf("BUY", AtmStrike, "C")}) :
        e \in {x \in AccountExpiries : Eligible(p)}}

\* Thousandths of the coin in a contract of its perpetual.
ContractSize == IF ctx.coin = "BTC" THEN 1 ELSE 10

\* A perpetual: its stop and target are what a contract makes of distances from
\* the spot.
FuturesTrend(p) ==
    LET moved == Dist(ctx.momentum, 0) * ctx.spot
        leg == [way |-> IF ctx.momentum > 0 THEN "BUY" ELSE "SELL", strike |-> 0, side |-> "F", price |-> ctx.spot]
        far(multiple) == ((moved * 3 * multiple) * ContractSize) \div 2000
    IN  IF Eligible(p) /\ moved > 0
        THEN {[by |-> p, legs |-> {leg}, target |-> far(p.target), stop |-> far(p.stop)]}
        ELSE {}

PlansOf(p) ==
    CASE p.kind = "iron_condor"       -> IronCondor(p)
      [] p.kind = "short_strangle"    -> ShortStrangle(p)
      [] p.kind = "short_call"        -> ShortCall(p)
      [] p.kind = "debit_spread"      -> DebitSpread(p)
      [] p.kind = "directional_debit" -> DirectionalDebit(p)
      [] p.kind = "futures_trend"     -> FuturesTrend(p)
      [] p.kind = "calendar_spread"   -> CalendarSpread(p)
      [] p.kind = "long_straddle"     -> LongStraddle(p)

------------------------------------------------------------------------------
(* The market moves. *)

Requote == \E o \in ctx.strikes \X Sides, x \in Prices : ctx' = [ctx EXCEPT !.ltp[o] = x]

Moves ==
    \E s \in Spots, m \in Momenta, g \in Regimes :
        ctx' = [ctx EXCEPT !.spot = s, !.momentum = m, !.regime = g]

PlansNext == Requote \/ Moves

PlansSpec == PlansInit /\ [][PlansNext]_ctx

------------------------------------------------------------------------------
(* What a plan is worth at a settlement. *)

\* An option pays the dollars the settlement is beyond its strike.
Worth(leg, s) == IF leg.side = "C" THEN Max({s - leg.strike, 0}) ELSE Max({leg.strike - s, 0})

\* What a leg gains its buyer, in thousandths of a dollar: an option costs coins,
\* which are worth the settlement.
Gain(leg, s) == IF leg.side = "F" THEN ContractSize * (s - leg.price)
                ELSE 1000 * Worth(leg, s) - leg.price * s

Pnl(plan, s) == SumFunctionOnSet([l \in plan.legs |-> IF l.way = "BUY" THEN Gain(l, s) ELSE -Gain(l, s)], plan.legs)

\* A plan's target or stop, in hundredths of that.
InDollars(plan, amount, s) == IF plan.by.kind = "futures_trend" THEN amount ELSE amount * s

\* The market doubles from above all strikes, or halves from below them; it settles
\* there or at a strike.
Up   == 2 * Max(ctx.strikes \cup {ctx.spot})
Down == Min(ctx.strikes \cup {ctx.spot}) \div 2
Outcomes == {Up, Down} \cup ctx.strikes

(* Properties of a plan. *)

\* A plan that buys loses at most its debit, at any settlement: for the spread
\* because the strike it sells is on the right side of the one it buys.
DebitIsTheRisk(plan) == \A s \in Settlements : Pnl(plan, s) >= Credit(plan.legs) * s

\* A premium seller keeps its whole credit if the market settles at the strike
\* that was at the money, however the strikes were snapped.
QuietMarketPays(plan) ==
    Credit(plan.legs) > 0 /\ Pnl(plan, AtmStrike) = Credit(plan.legs) * AtmStrike

\* What is at risk and what is to be earned.
KeepsTerms(p, plan) ==
    /\ p.kind \in Buying => DebitIsTheRisk(plan)
    /\ p.kind \in Selling => QuietMarketPays(plan)

\* The target is a profit some outcome gives, and the stop a loss.
TargetInReach(plan) == \E s \in Outcomes : 100 * Pnl(plan, s) >= InDollars(plan, plan.target, s)
StopInReach(plan)   == \E s \in Outcomes : 100 * Pnl(plan, s) <= -InDollars(plan, plan.stop, s)

\* Every plan's are, but for the two terms the code gets from dollars less coins:
\* the bound on the spread's target is no bound (debit_spread.py:121-129), and the
\* condor's stop is thousands of coins.
EndsInReach(p, plan) ==
    /\ p.kind # "debit_spread" => TargetInReach(plan)
    /\ p.kind # "iron_condor" => StopInReach(plan)

\* A plan on the momentum loses at the far end against it and, but for the spread,
\* whose debit may be more than its width is worth, gains at the other, whichever
\* strikes were quoted.
FollowsMomentum(p, plan) ==
    LET along   == IF ctx.momentum > 0 THEN Up ELSE Down
        against == IF ctx.momentum > 0 THEN Down ELSE Up
    IN  Pnl(plan, against) < 0 /\ (p.kind # "debit_spread" => Pnl(plan, along) > 0)

\* What a plan's kind promises, its payoff at expiry keeps: for the plan of every
\* instance in every context.
PlansPayOff ==
    \A p \in Presets : \A plan \in PlansOf(p) :
        /\ KeepsTerms(p, plan)
        /\ EndsInReach(p, plan)
        /\ p.kind \in Following => FollowsMomentum(p, plan)

\* debit_spread.py:129: the spread's target "is bounded by max_profit since the
\* spread caps gains", so some outcome gives it.
SpreadTargetInReach ==
    \A p \in Presets : p.kind = "debit_spread" => \A plan \in DebitSpread(p) : TargetInReach(plan)

==============================================================================
