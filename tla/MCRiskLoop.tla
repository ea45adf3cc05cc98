----------------------------- MODULE MCRiskLoop -----------------------------
(* A small bot: capital 100, losses of 5.                                    *)
EXTENDS RiskLoop

MCCaps(open, daily, trade, highDvol, highIvRank) ==
    [maxOpen |-> open, maxDaily |-> daily, maxTrade |-> trade, highDvol |-> highDvol,
     highIvRank |-> highIvRank]

BaseCaps == MCCaps(1, 50, 40, 80, 75)

SmallPresets ==
    [aggressive |-> MCCaps(2, 60, 60, 90, 80),
     base       |-> BaseCaps,
     defensive  |-> MCCaps(1, 25, 10, 60, 55)]

\* The breaker trips at 8% and lets go at 4%, the engine's own defaults.
SmallSettings ==
    {[caps |-> BaseCaps, maxContracts |-> 5, maxDrawdown |-> 80, recovery |-> 40]}

\* A loss of 5 reaches the daily cap, one of 10 trips the breaker as well.
Losses      == {-5, 0}
Swings      == {-10, 0}
TotalsRange == {-10, -5, 0}
=============================================================================
