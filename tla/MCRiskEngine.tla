---------------------------- MODULE MCRiskEngine ----------------------------
(* A small risk engine: presets as in the code, settings as in settings.yaml *)
(* and tighter, in tenths of a percent.                                       *)
EXTENDS RiskEngine

MCCaps(open, daily, trade, highDvol, highIvRank) ==
    [maxOpen |-> open, maxDaily |-> daily, maxTrade |-> trade, highDvol |-> highDvol,
     highIvRank |-> highIvRank]

BaseCaps == MCCaps(2, 50, 40, 80, 75)

SmallPresets ==
    [aggressive |-> MCCaps(3, 60, 60, 90, 80),
     base       |-> BaseCaps,
     defensive  |-> MCCaps(1, 25, 10, 60, 55)]

SmallSettings == {
    [caps |-> BaseCaps, maxContracts |-> 5, maxDrawdown |-> 80, recovery |-> 40],
    [caps |-> BaseCaps, maxContracts |-> 3, maxDrawdown |-> 30, recovery |-> 10]}

\* Losing five in a day is the daily cap of the base preset.
PnlLevels == {-5, 0}
=============================================================================
