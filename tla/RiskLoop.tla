------------------------------ MODULE RiskLoop ------------------------------
(***************************************************************************)
(* The risk engine as the runner uses it: the loop of run() in             *)
(* crypto_options_bot/__main__.py, which tells the engine the account and  *)
(* the market once a cycle, asks it about every strategy's plan, waits for *)
(* the trader's answer, closes trades and reads the kill file last.        *)
(*                                                                         *)
(* Marks move and the operator acts between any two steps of the loop.     *)
(* This is one life of the process: what an earlier one left on disk (the  *)
(* realized P&L, the open trades, a kill file) is arbitrary in LoopInit.   *)
(***************************************************************************)
EXTENDS RiskEngine

CONSTANTS
    StartingCapital,
    Totals,          \* bound on the cumulative P&L, realized or in all
    Marks,           \* unrealized P&L the positions may have
    Gains,           \* what closing a trade may realize
    MaxTrades,       \* bound on the open trades
    ChecksPerCycle   \* strategies asked for a plan in one cycle

\* The inputs of RiskEngine include whatever this loop tells the engine.
ASSUME LoopAssumption ==
    /\ StartingCapital \in Nat /\ StartingCapital \in Capitals
    /\ Totals \subseteq Pnls /\ 0 \in Pnls
    /\ {total + StartingCapital : total \in Totals} \subseteq Equities
    /\ 0..MaxTrades \subseteq PositionCounts
    /\ Marks \subseteq Int /\ Gains \subseteq Int
    /\ MaxTrades \in Nat /\ ChecksPerCycle \in Nat \ {0}

VARIABLES
    stage,       \* the call the loop makes next
    left,        \* strategies not asked yet in this cycle
    realized,    \* broker._realized_pnl: cumulative, never reset by a day
    unrealized,  \* sum of the positions' pnl
    openTrades,  \* number of the journal's open trades
    killFile,    \* data_cache/kill_switch.json is there
    killed,      \* history: the kill switch has fired in this life
    results,     \* history: whether the last trades closed won
    dayStart,    \* history: the realized P&L at the start of the day
    asked        \* history: the realized P&L the last plan allowed was checked with

desk     == <<realized, unrealized, openTrades>>
control  == <<stage, left>>
told     == <<killed, results, dayStart, asked>>
loopVars == <<vars, control, desk, killFile, told>>

Stages == {"boot", "reload", "positions", "pnl", "equity", "market", "check", "gate",
           "monitor", "kill"}

LoopInit ==
    /\ Init
    /\ stage = "boot" /\ left = 0
    /\ realized \in Totals /\ unrealized = 0
    /\ openTrades \in 0..MaxTrades
    /\ killFile \in BOOLEAN
    /\ killed = FALSE /\ results = <<>> /\ dayStart = realized /\ asked = realized

Goes(s) == stage' = s /\ UNCHANGED left

------------------------------------------------------------------------------
(* One cycle, in the order of the code. *)

\* _connect_tick_pipeline: a new engine is told the starting capital.
Boot ==
    /\ stage = "boot" /\ Goes("reload")
    /\ UpdateCapital(StartingCapital)
    /\ UNCHANGED <<desk, killFile, told>>

\* _maybe_reload_config, when settings.yaml has changed and when it has not.
Reload ==
    /\ stage = "reload" /\ Goes("positions")
    /\ \/ \E c \in Settings : ReloadConfig(c)
       \/ UNCHANGED vars
    /\ UNCHANGED <<desk, killFile, told>>

TellPositions ==
    /\ stage = "positions" /\ Goes("pnl")
    /\ UpdateOpenPositions(openTrades)
    /\ UNCHANGED <<desk, killFile, told>>

TellPnl ==
    /\ stage = "pnl" /\ Goes("equity")
    /\ UpdateDailyPnl(realized + unrealized)
    /\ UNCHANGED <<desk, killFile, told>>

TellEquity ==
    /\ stage = "equity"
    /\ stage' = "market" /\ left' = ChecksPerCycle
    /\ UpdateEquity(realized + unrealized + StartingCapital)
    /\ UNCHANGED <<desk, killFile, told>>

TellMarket ==
    /\ stage = "market" /\ Goes("check")
    /\ \E d \in DvolLevels, iv \in IvRanks : UpdateMarketState(d, iv)
    /\ UNCHANGED <<desk, killFile, told>>

\* mutant: counts one strategy too many
NextStrategyTwice ==
    /\ left' = left - 1
    /\ IF left >= 0 THEN stage' \in {"check", "market"} ELSE stage' = "monitor"

\* After a strategy comes the next one, of this underlying or of another.
NextStrategy ==
    /\ left' = left - 1
    /\ IF left > 1 THEN stage' \in {"check", "market"} ELSE stage' = "monitor"

\* mutant: the position count is the one of the start of the cycle
StaleAccount == [given |-> TRUE, pnl |-> realized, open |-> openPositions,
                 capital |-> StartingCapital]

Account == [given |-> TRUE, pnl |-> realized, open |-> openTrades,
            capital |-> StartingCapital]

\* _process_strategy as far as the risk check: no plan, a refusal, or the
\* trader is asked.
Check ==
    /\ stage = "check"
    /\ \/ /\ NextStrategy
          /\ UNCHANGED <<vars, asked>>
       \/ \E stop \in Stops :
            /\ CheckTrade(stop, Account)
            /\ IF decision'.reason = "ok"
               THEN Goes("gate") /\ asked' = realized
               ELSE NextStrategy /\ UNCHANGED asked
    /\ UNCHANGED <<desk, killFile, killed, results, dayStart>>

\* The trader vetoes or execute_plan fails; or the plan's trade is opened.
Gate ==
    /\ stage = "gate" /\ NextStrategy
    /\ \/ UNCHANGED openTrades
       \/ openTrades < MaxTrades /\ openTrades' = openTrades + 1
    /\ UNCHANGED <<vars, realized, unrealized, killFile, told>>

\* What record_trade_result is told of a closed trade: its realized_pnl,
\* which nothing sets, because the tick hook that should compares the status
\* of an order with a string no status has.
ReportedPnl(gain) == 0

\* close_trade, for a trade whose target, stop or expiry has come.
CloseTrade ==
    /\ stage = "monitor" /\ openTrades > 0
    /\ \E gain \in Gains :
         /\ {realized + gain, realized + gain + unrealized} \subseteq Totals
         /\ realized' = realized + gain
         /\ results' = Lately(Append(results, gain >= 0))
         /\ RecordTradeResult(ReportedPnl(gain))
    /\ openTrades' = openTrades - 1
    /\ UNCHANGED <<control, unrealized, killFile, killed, dayStart, asked>>

MonitorEnds ==
    /\ stage = "monitor" /\ Goes("kill")
    /\ UNCHANGED <<vars, desk, killFile, told>>

\* mutant: a paused bot does not look for the kill file
KillUnlessPaused ==
    /\ stage = "kill" /\ Goes("reload")
    /\ IF killFile /\ ~paused
       THEN /\ realized' = realized + unrealized /\ unrealized' = 0
            /\ Pause
            /\ killFile' = FALSE /\ killed' = TRUE
       ELSE UNCHANGED <<vars, realized, unrealized, killFile, killed>>
    /\ UNCHANGED <<openTrades, results, dayStart, asked>>

\* The kill switch: the broker cancels and closes everything, the engine is
\* paused and the file renamed; the journal's trades stay open.
KillSwitch ==
    /\ stage = "kill" /\ Goes("reload")
    /\ IF killFile
       THEN /\ realized' = realized + unrealized /\ unrealized' = 0
            /\ Pause
            /\ killFile' = FALSE /\ killed' = TRUE
       ELSE UNCHANGED <<vars, realized, unrealized, killFile, killed>>
    /\ UNCHANGED <<openTrades, results, dayStart, asked>>

\* The loop's next call; one of them always can happen.
LoopStep ==
    \/ Boot \/ Reload \/ TellPositions \/ TellPnl \/ TellEquity \/ TellMarket
    \/ Check \/ Gate \/ CloseTrade \/ MonitorEnds \/ KillSwitch

------------------------------------------------------------------------------
(* What happens meanwhile. *)

\* A tick on the feed's thread marks the positions, and the resting orders it
\* fills realize what they close, between any two calls of the loop.  The book
\* may hold what no open trade accounts for, a leg left over for one.
MarkMoves ==
    /\ \E m \in Marks, gain \in Gains \cup {0} :
         /\ {realized + gain, realized + gain + m} \subseteq Totals
         /\ realized' = realized + gain
         /\ unrealized' = m
    /\ UNCHANGED <<vars, control, openTrades, killFile, told>>

OperatorKills ==
    /\ ~killFile /\ killFile' = TRUE
    /\ UNCHANGED <<vars, control, desk, told>>

DayBreaks ==
    /\ NewDay
    /\ dayStart' = realized
    /\ UNCHANGED <<control, desk, killFile, killed, results, asked>>

LoopNext == LoopStep \/ MarkMoves \/ OperatorKills \/ DayBreaks

\* The loop goes on: every call it makes returns, the trader's answer
\* included, which has a timeout; nothing else has to happen.
LoopSpec == LoopInit /\ [][LoopNext]_loopVars /\ WF_loopVars(LoopStep)

------------------------------------------------------------------------------
(* Properties. *)

\* Type invariant: the engine's, and where the loop is.
LoopTypeOK ==
    /\ TypeOK
    /\ stage \in Stages /\ left \in 0..ChecksPerCycle
    /\ realized \in Totals /\ realized + unrealized \in Totals
    /\ openTrades \in 0..MaxTrades
    /\ killFile \in BOOLEAN /\ killed \in BOOLEAN
    /\ results \in Seq(BOOLEAN) /\ dayStart \in Totals /\ asked \in Totals

\* A trade opens only where the caps in force leave room: fewer open trades in
\* the journal than the cap, the equity measured this cycle less than a maximal
\* drawdown below the best of this life, and the cumulative realized loss, as
\* the plan's check read it, below the daily cap.  The check and the
\* opening are two steps, the trader's answer and any number of ticks between
\* them, and several strategies are asked after the account was told once.
\* What ticks realize after the check nobody looks at again: the loss may have
\* passed the daily cap by the time the trade opens.
OpensInsideLimits ==
    [][openTrades' > openTrades =>
         /\ openTrades < caps.maxOpen
         /\ -asked * 1000 < StartingCapital * caps.maxDaily
         /\ ~DrawdownAtLeast(best, equity, maxDrawdown)]_loopVars

\* Once the kill switch has fired no trade opens in this life of the process,
\* whatever the drawdown breaker does, the presets or a reload change, and
\* however many trades are still closed.
KillHalts == [][killed => openTrades' <= openTrades]_loopVars

\* The operator's kill file is obeyed: the engine is paused and the file gone,
\* however the loop, the trader and the ticks get along, and whether or not
\* the bot is paused already.
KillFileObeyed == killFile ~> (killed /\ paused /\ ~killFile)

\* What the comments and the settings promise of the drawdown breaker: it
\* resumes by itself once equity is back within the recovery threshold.
BreakerAutoResumes ==
    fresh /\ DrawdownAtMost(best, equity, recovery) /\ ~killed => ~paused

\* What the header promises of the daily loss cap: it stops new positions
\* after a loss of that much today.
DailyCapIsDaily ==
    decision.reason = "daily loss" =>
        (dayStart - realized) * 1000 >= capital * caps.maxDaily

\* What the settings promise of the adaptive presets: N consecutive losses
\* lead to the defensive preset.
LosingRunIsDefensive ==
    LastAre(results, LossesToDefensive, FALSE) => preset = "defensive"

==============================================================================
