----------------------------- MODULE RiskEngine -----------------------------
(***************************************************************************)
(* The risk engine, crypto_options_bot/risk/engine.py: what it remembers   *)
(* of the account and the market, the drawdown breaker, the adaptive caps  *)
(* and the decision on a plan.  One action per public method, called here  *)
(* in any order; RiskLoop calls them in the order the runner does.         *)
(*                                                                         *)
(* Money is an integer, percentages are in tenths of a percent.  The       *)
(* engine keeps nothing on disk: a restart is a new behaviour.             *)
(***************************************************************************)
EXTENDS Integers, Sequences, FiniteSets

CONSTANTS
    Settings,           \* contents settings.yaml may have: the risk section
    Presets,            \* the caps of each named preset
    LossesToDefensive,  \* losses in a row that switch to the defensive preset
    WinsToAggressive,   \* wins in a row that switch to the aggressive preset
    Capitals, Equities, Pnls, PositionCounts, DvolLevels, IvRanks,
    Stops,              \* what a plan may lose per contract, 0 if it says nothing
    MaxDays             \* bound on the calendar

Caps == [maxOpen : Nat, maxDaily : Nat, maxTrade : Nat, highDvol : Nat, highIvRank : Nat]

Setting == [caps : Caps, maxContracts : Nat, maxDrawdown : Nat \ {0}, recovery : Nat]

\* The breaker lets go at a smaller drawdown than it trips at.
ASSUME SettingsAssumption ==
    \A c \in Settings : c \in Setting /\ c.recovery < c.maxDrawdown

ASSUME InputsAssumption ==
    /\ {"aggressive", "base", "defensive"} \subseteq DOMAIN Presets
    /\ \A name \in DOMAIN Presets : Presets[name] \in Caps
    /\ LossesToDefensive \in Nat \ {0} /\ WinsToAggressive \in Nat \ {0}
    /\ Capitals \subseteq Nat /\ Equities \subseteq Int /\ Pnls \subseteq Int
    /\ PositionCounts \subseteq Nat /\ DvolLevels \subseteq Nat /\ IvRanks \subseteq Nat
    /\ Stops \subseteq Nat /\ MaxDays \in Nat

VARIABLES
    capital, dailyPnl, openPositions,  \* the account, as last told
    dvol, ivRank,                      \* the market, as last told
    paused, ddPaused,                  \* paused by anyone; by the breaker
    peak,                              \* highest equity since the start
    preset, losses, wins,              \* preset in force, runs of results
    caps, maxContracts,                \* caps in force
    maxDrawdown, recovery,             \* thresholds of the breaker
    day,                               \* the day daily P&L belongs to
    today,                             \* the calendar
    decision,                          \* what the last call decided, if it was check_trade
    best, equity, fresh,               \* history: see BreakerHolds
    recent, forced                     \* history: see PresetFollowsResults

account  == <<capital, dailyPnl, openPositions, day>>
market   == <<dvol, ivRank>>
breaker  == <<paused, ddPaused, peak, maxDrawdown, recovery>>
sizing   == <<preset, losses, wins, caps, maxContracts>>
ofEquity == <<best, equity, fresh>>
ofTrades == <<recent, forced>>
vars     == <<account, market, breaker, sizing, today, decision, ofEquity, ofTrades>>

Larger(a, b)  == IF a >= b THEN a ELSE b
Smaller(a, b) == IF a <= b THEN a ELSE b

NoDecision == [reason |-> "none", qty |-> 0, stop |-> 0]

\* __init__, on one of the settings.
Init ==
    /\ \E c \in Settings :
         /\ caps = c.caps /\ maxContracts = c.maxContracts
         /\ maxDrawdown = c.maxDrawdown /\ recovery = c.recovery
    /\ capital \in Capitals
    /\ dailyPnl = 0 /\ openPositions = 0
    /\ dvol = 0 /\ ivRank = 50
    /\ paused = FALSE /\ ddPaused = FALSE /\ peak = 0
    /\ preset = "base" /\ losses = 0 /\ wins = 0
    /\ day = 0 /\ today = 0
    /\ decision = NoDecision
    /\ best = 0 /\ equity = 0 /\ fresh = FALSE
    /\ recent = <<>> /\ forced = FALSE

------------------------------------------------------------------------------
(* What the engine is told. *)

UpdateCapital(c) ==
    /\ capital' = c
    /\ peak' = Larger(peak, c)
    /\ best' = Larger(best, c) /\ fresh' = FALSE
    /\ decision' = NoDecision
    /\ UNCHANGED <<dailyPnl, openPositions, day, market, paused, ddPaused, maxDrawdown,
                   recovery, sizing, today, equity, ofTrades>>

UpdateMarketState(d, iv) ==
    /\ dvol' = d /\ ivRank' = iv
    /\ decision' = NoDecision
    /\ UNCHANGED <<account, breaker, sizing, today, ofEquity, ofTrades>>

UpdateOpenPositions(n) ==
    /\ openPositions' = n
    /\ decision' = NoDecision
    /\ UNCHANGED <<capital, dailyPnl, day, market, breaker, sizing, today, ofEquity, ofTrades>>

UpdateDailyPnl(pnl) ==
    /\ dailyPnl' = pnl
    /\ day' = today
    /\ decision' = NoDecision
    /\ UNCHANGED <<capital, openPositions, market, breaker, sizing, today, ofEquity, ofTrades>>

\* _roll_period: a new day starts from zero.
RolledPnl == IF day = today THEN dailyPnl ELSE 0

\* The drawdown, in tenths of a percent of the peak, against a threshold.
DrawdownAtLeast(p, e, pct) == p > 0 /\ (p - e) * 1000 >= pct * p
DrawdownAtMost(p, e, pct)  == p > 0 => (p - e) * 1000 <= pct * p

Trips(p, e) == DrawdownAtLeast(p, e, maxDrawdown)

\* mutant: a breaker that lets go lifts every pause
UpdateEquityLifting(e) ==
    LET p == Larger(peak, e)
    IN  /\ peak' = p
        /\ ddPaused' = IF ddPaused THEN ~DrawdownAtMost(p, e, recovery) ELSE Trips(p, e)
        /\ paused' = IF ddPaused THEN ~DrawdownAtMost(p, e, recovery) ELSE paused \/ Trips(p, e)
        /\ dailyPnl' = RolledPnl /\ day' = today
        /\ best' = Larger(best, e) /\ equity' = e /\ fresh' = TRUE
        /\ decision' = NoDecision
        /\ UNCHANGED <<capital, openPositions, market, maxDrawdown, recovery, sizing,
                       today, ofTrades>>

\* update_equity and _check_drawdown_breaker.  A breaker that has tripped lets
\* go when the drawdown is back within the recovery threshold, which does not
\* lift the pause; only one that has not tripped can trip.
UpdateEquity(e) ==
    LET p == Larger(peak, e)
    IN  /\ peak' = p
        /\ ddPaused' = IF ddPaused THEN ~DrawdownAtMost(p, e, recovery) ELSE Trips(p, e)
        /\ paused' = (paused \/ (~ddPaused /\ Trips(p, e)))
        /\ dailyPnl' = RolledPnl /\ day' = today
        /\ best' = Larger(best, e) /\ equity' = e /\ fresh' = TRUE
        /\ decision' = NoDecision
        /\ UNCHANGED <<capital, openPositions, market, maxDrawdown, recovery, sizing,
                       today, ofTrades>>

------------------------------------------------------------------------------
(* The caps in force. *)

\* mutant: the fallback keeps the unknown name
ApplyPresetUnchecked(name) ==
    LET known == IF name \in DOMAIN Presets THEN name ELSE "base"
    IN  preset' = name /\ caps' = Presets[known]

\* _apply_preset falls back to base on an unknown name, and does not touch
\* max_contracts_per_trade.
ApplyPreset(name) ==
    LET known == IF name \in DOMAIN Presets THEN name ELSE "base"
    IN  preset' = known /\ caps' = Presets[known]

\* The preset _maybe_switch_preset chooses after the result just recorded; the
\* market overrides the streaks above a DVOL of 85.
ChosenPreset(l, w) ==
    IF dvol > 85 THEN "defensive"
    ELSE IF l >= LossesToDefensive THEN "defensive"
    ELSE IF w >= WinsToAggressive THEN "aggressive"
    ELSE preset

Remembered == Larger(LossesToDefensive, WinsToAggressive)

Lately(s) == IF Len(s) > Remembered THEN Tail(s) ELSE s

\* mutant: a loss does not end a run of wins
WinsKept(pnl) == IF pnl >= 0 THEN wins + 1 ELSE wins

WinsAfter(pnl) == IF pnl >= 0 THEN wins + 1 ELSE 0

\* The counters stop at their thresholds, the only values they are compared to.
RecordTradeResult(pnl) ==
    LET l == IF pnl >= 0 THEN 0 ELSE losses + 1
        w == WinsAfter(pnl)
    IN  /\ losses' = Smaller(l, LossesToDefensive)
        /\ wins' = Smaller(w, WinsToAggressive)
        /\ IF ChosenPreset(l, w) # preset THEN ApplyPreset(ChosenPreset(l, w))
                                          ELSE UNCHANGED <<preset, caps>>
        /\ recent' = Lately(Append(recent, pnl >= 0)) /\ forced' = FALSE
        /\ decision' = NoDecision
        /\ UNCHANGED <<account, market, breaker, maxContracts, today, ofEquity>>

ForcePreset(name) ==
    /\ ApplyPreset(name)
    /\ forced' = TRUE
    /\ decision' = NoDecision
    /\ UNCHANGED <<account, market, breaker, losses, wins, maxContracts, today, ofEquity, recent>>

\* The risk part of the runner's _maybe_reload_config: the caps of the file
\* replace those in force, whatever preset they came from.
ReloadConfig(c) ==
    /\ caps' = c.caps /\ maxContracts' = c.maxContracts
    /\ maxDrawdown' = c.maxDrawdown /\ recovery' = c.recovery
    /\ fresh' = FALSE
    /\ decision' = NoDecision
    /\ UNCHANGED <<account, market, paused, ddPaused, peak, preset, losses, wins, today,
                   best, equity, ofTrades>>

------------------------------------------------------------------------------
(* The decision. *)

\* int(base_qty * 1.5) in the aggressive preset, within the contract cap.
ScaledUp(q) == IF preset = "aggressive" THEN Smaller(maxContracts, (q * 3) \div 2) ELSE q

Halved(q, high) == IF high THEN q \div 2 ELSE q

\* mutant: rounds the number of contracts up
AffordableUp(c, stop) ==
    Smaller(maxContracts, Larger(1, (c * caps.maxTrade) \div (1000 * stop) + 1))

\* Contracts whose loss the budget of one trade covers, at least one.
Affordable(c, stop) ==
    Smaller(maxContracts, Larger(1, (c * caps.maxTrade) \div (1000 * stop)))

TrimmedQty(c, stop) ==
    Halved(Halved(Affordable(c, stop), dvol > caps.highDvol), ivRank > caps.highIvRank)

Refused(reason, stop) == [reason |-> reason, qty |-> 0, stop |-> stop]

\* The checks after the pauses, in their order.
Verdict(stop, pnl, open, c) ==
    IF -pnl * 1000 >= c * caps.maxDaily THEN Refused("daily loss", stop)
    ELSE IF open >= caps.maxOpen THEN Refused("position cap", stop)
    ELSE IF stop = 0 \/ c * caps.maxTrade = 0 THEN Refused("no stop", stop)
    ELSE IF TrimmedQty(c, stop) = 0 THEN Refused("sizing", stop)
    ELSE [reason |-> "ok", qty |-> ScaledUp(TrimmedQty(c, stop)), stop |-> stop]

\* The account a caller may pass along with the plan.
NoAccount == [given |-> FALSE]

\* check_trade: a paused engine decides before it looks at the account.
CheckTrade(stop, a) ==
    /\ IF a # NoAccount /\ ~paused /\ ~ddPaused
       THEN dailyPnl' = a.pnl /\ openPositions' = a.open /\ capital' = a.capital
       ELSE dailyPnl' = RolledPnl /\ UNCHANGED <<openPositions, capital>>
    /\ day' = today
    /\ decision' = IF paused THEN Refused("paused", stop)
                   ELSE IF ddPaused THEN Refused("drawdown", stop)
                   ELSE Verdict(stop, dailyPnl', openPositions', capital')
    /\ UNCHANGED <<market, breaker, sizing, today, ofEquity, ofTrades>>

------------------------------------------------------------------------------
(* Pausing, and the calendar. *)

Pause ==
    /\ paused' = TRUE
    /\ decision' = NoDecision
    /\ UNCHANGED <<account, market, ddPaused, peak, maxDrawdown, recovery, sizing, today,
                   ofEquity, ofTrades>>

\* mutant: resume also resets the drawdown breaker
ResumeAll ==
    /\ paused' = FALSE /\ ddPaused' = FALSE
    /\ decision' = NoDecision
    /\ UNCHANGED <<account, market, peak, maxDrawdown, recovery, sizing, today,
                   ofEquity, ofTrades>>

Resume ==
    /\ paused' = FALSE
    /\ decision' = NoDecision
    /\ UNCHANGED <<account, market, ddPaused, peak, maxDrawdown, recovery, sizing, today,
                   ofEquity, ofTrades>>

ResumeFromDrawdown ==
    /\ paused' = FALSE /\ ddPaused' = FALSE
    /\ fresh' = FALSE
    /\ decision' = NoDecision
    /\ UNCHANGED <<account, market, peak, maxDrawdown, recovery, sizing, today,
                   best, equity, ofTrades>>

NewDay ==
    /\ today < MaxDays
    /\ today' = today + 1
    /\ decision' = NoDecision
    /\ UNCHANGED <<account, market, breaker, sizing, ofEquity, ofTrades>>

Accounts ==
    {NoAccount} \cup [given : {TRUE}, pnl : Pnls, open : PositionCounts, capital : Capitals]

Next ==
    \/ \E c \in Capitals : UpdateCapital(c)
    \/ \E d \in DvolLevels, iv \in IvRanks : UpdateMarketState(d, iv)
    \/ \E n \in PositionCounts : UpdateOpenPositions(n)
    \/ \E pnl \in Pnls : UpdateDailyPnl(pnl) \/ RecordTradeResult(pnl)
    \/ \E e \in Equities : UpdateEquity(e)
    \/ \E name \in DOMAIN Presets \cup {"unknown"} : ForcePreset(name)
    \/ \E c \in Settings : ReloadConfig(c)
    \/ \E stop \in Stops, a \in Accounts : CheckTrade(stop, a)
    \/ Pause \/ Resume \/ ResumeFromDrawdown
    \/ NewDay

Spec == Init /\ [][Next]_vars
------------------------------------------------------------------------------
(* Properties. *)

Decision == [reason : {"none", "paused", "drawdown", "daily loss", "position cap",
                       "no stop", "sizing", "ok"},
             qty : Nat, stop : Nat]

\* Type invariant: the state of risk/engine.py.
TypeOK ==
    /\ capital \in Nat /\ dailyPnl \in Int /\ openPositions \in Nat
    /\ dvol \in Nat /\ ivRank \in Nat
    /\ paused \in BOOLEAN /\ ddPaused \in BOOLEAN /\ peak \in Nat
    /\ preset \in DOMAIN Presets
    /\ losses \in 0..LossesToDefensive /\ wins \in 0..WinsToAggressive
    /\ caps \in Caps /\ maxContracts \in Nat
    /\ maxDrawdown \in Nat \ {0} /\ recovery \in Nat
    /\ day \in 0..today /\ today \in 0..MaxDays
    /\ decision \in Decision
    /\ best \in Nat /\ equity \in Int /\ fresh \in BOOLEAN
    /\ recent \in Seq(BOOLEAN) /\ forced \in BOOLEAN

\* Sizing: an allowed plan gets between one contract and the contract cap, and
\* more than one only if they can lose no more than the budget of one trade
\* (half as much again in the aggressive preset), whatever sequence of presets,
\* reloads and market states set the caps.  A single contract is allowed even
\* if it can lose more than the budget: "floored at 1".
SizeWithinBudget ==
    decision.reason = "ok" =>
        /\ decision.qty \in 1..maxContracts
        /\ decision.qty > 1 =>
             IF preset = "aggressive"
             THEN 2 * (decision.qty * decision.stop) * 1000 <= 3 * (capital * caps.maxTrade)
             ELSE (decision.qty * decision.stop) * 1000 <= capital * caps.maxTrade

\* The drawdown breaker holds: no plan is allowed while the equity last told is
\* a maximal drawdown or more below the best ever told, whatever pauses,
\* resumes and preset changes there were.  (Until the next update_equity, a
\* manual resume_from_drawdown, a reload of the thresholds and an
\* update_capital leave the breaker unevaluated.)
BreakerHolds ==
    decision.reason = "ok" /\ fresh => ~DrawdownAtLeast(best, equity, maxDrawdown)

LastAre(s, n, result) == Len(s) >= n /\ \A i \in Len(s) - n + 1 .. Len(s) : s[i] = result

\* N losses in a row end in the defensive preset, and only force_preset leaves
\* it before the next result: no counter survives the wrong kind of result.
LossRunIsDefensive ==
    LastAre(recent, LossesToDefensive, FALSE) /\ ~forced => preset = "defensive"

\* The engine turns aggressive, unless forced, only on the last of M wins in a
\* row and never while DVOL is above 85.
AggressiveIsEarned ==
    [][preset # "aggressive" /\ preset' = "aggressive" =>
         \/ forced'
         \/ LastAre(recent', WinsToAggressive, TRUE) /\ dvol <= 85]_vars

\* The adaptive presets follow the runs of results, in both directions.
PresetsFollowResults == []LossRunIsDefensive /\ AggressiveIsEarned

==============================================================================
