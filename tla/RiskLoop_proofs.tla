--------------------------- MODULE RiskLoop_proofs ---------------------------
(***************************************************************************)
(* The runner's loop is a user of the risk engine: every behaviour of the  *)
(* loop is, for the engine, a behaviour of RiskEngine, so that what is     *)
(* proved there holds in the running bot.  On top of it, two properties of *)
(* the loop itself: what it opens is inside the limits although the check  *)
(* and the opening are separate steps, and the kill switch is for good.    *)
(***************************************************************************)
EXTENDS RiskLoop, RiskEngine_proofs

\* What the loop passes to the risk engine is among the engine's inputs.
LEMMA TotalIsInput ==
    ASSUME NEW total \in Totals
    PROVE  total \in Pnls /\ total + StartingCapital \in Equities
  BY LoopAssumption

\* The account the loop passes along is one RiskEngine knows of.
LEMMA AccountIsInput ==
    ASSUME realized \in Totals, openTrades \in 0..MaxTrades
    PROVE  Account \in Accounts /\ Account # NoAccount
<1>1. realized \in Pnls /\ openTrades \in PositionCounts /\ StartingCapital \in Capitals
  BY LoopAssumption
<1>2. Account \in Accounts
  BY <1>1 DEF Account, Accounts
<1>3. Account.given # NoAccount.given
  BY DEF Account, NoAccount
<1> QED
  BY <1>2, <1>3

\* Where the loop is, and the quantities it tells the engine.
LoopInv ==
    /\ stage \in Stages
    /\ realized \in Totals /\ unrealized \in Int /\ realized + unrealized \in Totals
    /\ openTrades \in 0..MaxTrades /\ asked \in Totals

\* The initial state of the loop satisfies its invariant.
LEMMA LoopInit1 == LoopInit => LoopInv
<1> SUFFICES ASSUME LoopInit PROVE LoopInv
  OBVIOUS
<1>1. realized \in Totals /\ realized \in Int /\ unrealized = 0
  BY LoopAssumption, InputsAssumption DEF LoopInit
<1>2. realized + unrealized = realized
  BY <1>1
<1> QED
  BY <1>1, <1>2 DEF LoopInit, LoopInv, Stages

\* Each step of the loop is a step of the engine, or none.
LEMMA StepOfEngine == ASSUME LoopInv, [LoopNext]_loopVars PROVE [Next]_vars
<1>1. ASSUME Boot PROVE Next
  BY <1>1, LoopAssumption DEF Boot, Next
<1>2. ASSUME Reload PROVE [Next]_vars
  BY <1>2 DEF Reload, Next
<1>3. ASSUME TellPositions PROVE Next
  <2>1. openTrades \in PositionCounts
    BY LoopAssumption DEF LoopInv
  <2> QED BY <1>3, <2>1 DEF TellPositions, Next
<1>4. ASSUME TellPnl PROVE Next
  <2>1. realized + unrealized \in Pnls
    BY TotalIsInput DEF LoopInv
  <2> QED BY <1>4, <2>1 DEF TellPnl, Next
<1>5. ASSUME TellEquity PROVE Next
  <2>1. realized + unrealized + StartingCapital \in Equities
    BY TotalIsInput DEF LoopInv
  <2> QED BY <1>5, <2>1 DEF TellEquity, Next
<1>6. ASSUME TellMarket PROVE Next
  BY <1>6 DEF TellMarket, Next
<1>7. ASSUME Check PROVE [Next]_vars
  <2>1. Account \in Accounts
    BY AccountIsInput DEF LoopInv
  <2> QED BY <1>7, <2>1 DEF Check, Next
<1>8. ASSUME CloseTrade PROVE Next
  BY <1>8, LoopAssumption DEF CloseTrade, ReportedPnl, Next
<1>9. ASSUME KillSwitch PROVE [Next]_vars
  BY <1>9 DEF KillSwitch, Next
<1>10. ASSUME DayBreaks PROVE Next
  BY <1>10 DEF DayBreaks, Next
<1>11. ASSUME Gate \/ MonitorEnds \/ MarkMoves \/ OperatorKills PROVE UNCHANGED vars
  BY <1>11 DEF Gate, MonitorEnds, MarkMoves, OperatorKills
<1>12. ASSUME UNCHANGED loopVars PROVE UNCHANGED vars
  BY <1>12 DEF loopVars
<1> QED
  BY <1>1, <1>2, <1>3, <1>4, <1>5, <1>6, <1>7, <1>8, <1>9, <1>10, <1>11, <1>12
     DEF LoopNext, LoopStep

\* Every step of the loop keeps its invariant.
LEMMA LoopInvStep == ASSUME LoopInv, [LoopNext]_loopVars PROVE LoopInv'
<1> USE DEF LoopInv
<1>1. ASSUME stage' \in Stages, UNCHANGED desk, asked' \in Totals PROVE LoopInv'
  BY <1>1 DEF desk
<1>2. ASSUME Boot \/ Reload \/ TellPositions \/ TellPnl \/ TellEquity \/ TellMarket
             \/ MonitorEnds
      PROVE  LoopInv'
  BY <1>1, <1>2 DEF Boot, Reload, TellPositions, TellPnl, TellEquity, TellMarket,
                    MonitorEnds, Goes, Stages, told
<1>3. ASSUME NextStrategy PROVE stage' \in Stages
  BY <1>3 DEF NextStrategy, Stages
<1>4. ASSUME Check PROVE LoopInv'
  BY <1>1, <1>3, <1>4 DEF Check, Goes, Stages
<1>5. ASSUME Gate PROVE LoopInv'
  <2>1. stage' \in Stages /\ UNCHANGED <<realized, unrealized, asked>>
    BY <1>3, <1>5 DEF Gate, told
  <2>2. openTrades' \in 0..MaxTrades
    BY <1>5, LoopAssumption DEF Gate
  <2> QED BY <2>1, <2>2
<1>6. ASSUME CloseTrade PROVE LoopInv'
  <2>1. PICK gain \in Gains :
            /\ {realized + gain, realized + gain + unrealized} \subseteq Totals
            /\ realized' = realized + gain
    BY <1>6 DEF CloseTrade
  <2>2. UNCHANGED <<stage, unrealized, asked>> /\ openTrades' = openTrades - 1 /\ openTrades > 0
    BY <1>6 DEF CloseTrade, control
  <2>3. openTrades' \in 0..MaxTrades
    BY <2>2, LoopAssumption
  <2> QED BY <2>1, <2>2, <2>3
<1>7. ASSUME KillSwitch PROVE LoopInv'
  <2>1. stage' \in Stages /\ UNCHANGED <<openTrades, asked>>
    BY <1>7 DEF KillSwitch, Goes, Stages
  <2>2. \/ realized' = realized + unrealized /\ unrealized' = 0
        \/ UNCHANGED <<realized, unrealized>>
    BY <1>7 DEF KillSwitch
  <2>3. \A total \in Totals : total \in Int
    BY TotalIsInput, InputsAssumption
  <2>4. realized' \in Totals /\ unrealized' \in Int /\ realized' + unrealized' \in Totals
    BY <2>2, <2>3
  <2> QED BY <2>1, <2>4
<1>8. ASSUME MarkMoves PROVE LoopInv'
  <2>1. PICK m \in Marks, gain \in Gains \cup {0} :
            /\ realized + gain \in Totals /\ realized + gain + m \in Totals
            /\ realized' = realized + gain /\ unrealized' = m
    BY <1>8 DEF MarkMoves
  <2>2. UNCHANGED <<stage, openTrades, asked>>
    BY <1>8 DEF MarkMoves, control, told
  <2> QED BY <2>1, <2>2, LoopAssumption
<1>9. ASSUME OperatorKills \/ DayBreaks \/ UNCHANGED loopVars PROVE LoopInv'
  BY <1>9 DEF OperatorKills, DayBreaks, loopVars, control, desk, told
<1> QED
  BY <1>2, <1>4, <1>5, <1>6, <1>7, <1>8, <1>9 DEF LoopNext, LoopStep

\* Every state of the loop satisfies its invariant.
LEMMA LoopInvariant == LoopSpec => []LoopInv
<1> QED
  BY LoopInit1, LoopInvStep, PTL DEF LoopSpec

\* The running bot uses the engine as RiskEngine says it may be used.
THEOREM LoopImplementsEngine == LoopSpec => Spec
<1>1. LoopInit => Init
  BY DEF LoopInit
<1> QED
  BY <1>1, LoopInvariant, StepOfEngine, PTL DEF LoopSpec, Spec

\* So sizes stay within the budget and the breaker holds in the running bot.
THEOREM EngineHoldsInLoop ==
    LoopSpec => [](TypeOK /\ SizeWithinBudget /\ BreakerHolds /\ LossRunIsDefensive)
<1> QED
  BY LoopImplementsEngine, TypeCorrect, SizesAreBounded, BreakerAlwaysHolds,
     LossesTurnDefensive, PTL

------------------------------------------------------------------------------
(* The kill switch is for good. *)

\* Nothing in the loop lifts a pause, and a paused engine allows nothing: after
\* the kill switch the loop never waits for the trader's answer again.
HaltedInv == killed => paused /\ stage # "gate"

\* Only Gate opens trades.
LEMMA WhoOpens == ASSUME LoopInv, [LoopNext]_loopVars, openTrades' > openTrades PROVE Gate
<1>1. openTrades \in Int /\ ~(openTrades > openTrades) /\ ~(openTrades - 1 > openTrades)
  BY LoopAssumption DEF LoopInv
<1> QED
  BY <1>1 DEF LoopNext, LoopStep, Boot, Reload, TellPositions, TellPnl, TellEquity, TellMarket,
             Check, CloseTrade, MonitorEnds, KillSwitch, MarkMoves, OperatorKills, DayBreaks,
             desk, loopVars

\* Every engine call the loop makes leaves a pause in force.
LEMMA PauseStays == ASSUME [LoopNext]_loopVars, paused = TRUE PROVE paused' = TRUE
<1>1. ASSUME UNCHANGED vars PROVE paused' = TRUE
  BY <1>1 DEF vars, breaker
<1>2. ASSUME UNCHANGED breaker PROVE paused' = TRUE
  BY <1>2 DEF breaker
<1>3. ASSUME Boot PROVE paused' = TRUE
  BY <1>3 DEF Boot, UpdateCapital
<1>4. ASSUME Reload PROVE paused' = TRUE
  BY <1>1, <1>4 DEF Reload, ReloadConfig
<1>5. ASSUME TellPositions \/ TellPnl \/ TellMarket \/ CloseTrade \/ DayBreaks PROVE paused' = TRUE
  BY <1>2, <1>5 DEF TellPositions, TellPnl, TellMarket, CloseTrade, DayBreaks,
     UpdateOpenPositions, UpdateDailyPnl, UpdateMarketState, RecordTradeResult, NewDay
<1>6. ASSUME TellEquity PROVE paused' = TRUE
  BY <1>6 DEF TellEquity, UpdateEquity
<1>7. ASSUME Check PROVE paused' = TRUE
  BY <1>1, <1>2, <1>7 DEF Check, CheckTrade
<1>8. ASSUME KillSwitch PROVE paused' = TRUE
  BY <1>1, <1>8 DEF KillSwitch, Pause
<1>9. ASSUME Gate \/ MonitorEnds \/ MarkMoves \/ OperatorKills \/ UNCHANGED loopVars
      PROVE  paused' = TRUE
  BY <1>1, <1>9 DEF Gate, MonitorEnds, MarkMoves, OperatorKills, loopVars
<1> QED
  BY <1>3, <1>4, <1>5, <1>6, <1>7, <1>8, <1>9 DEF LoopNext, LoopStep

\* The loop reaches the gate only from a check that allowed the plan.
LEMMA WhoReachesGate ==
    ASSUME LoopInv, [LoopNext]_loopVars, stage' = "gate"
    PROVE  \/ stage = "gate" /\ ~Gate
           \/ /\ stage = "check" /\ UNCHANGED desk /\ asked' = realized
              /\ \E stop \in Stops : CheckTrade(stop, Account) /\ decision'.reason = "ok"
<1>1. ASSUME NextStrategy PROVE FALSE
  BY <1>1 DEF NextStrategy
<1>2. ASSUME Boot \/ Reload \/ TellPositions \/ TellPnl \/ TellEquity \/ TellMarket
             \/ MonitorEnds \/ KillSwitch
      PROVE  FALSE
  BY <1>2 DEF Boot, Reload, TellPositions, TellPnl, TellEquity, TellMarket, MonitorEnds,
              KillSwitch, Goes
<1>3. ASSUME CloseTrade PROVE FALSE
  BY <1>3 DEF CloseTrade, control
<1>4. ASSUME MarkMoves \/ OperatorKills \/ DayBreaks \/ UNCHANGED loopVars
      PROVE  stage = "gate"
  BY <1>4 DEF MarkMoves, OperatorKills, DayBreaks, control, loopVars
<1>5. ASSUME Gate PROVE FALSE
  BY <1>1, <1>5 DEF Gate
<1>6. ASSUME Check
      PROVE  /\ stage = "check" /\ UNCHANGED desk /\ asked' = realized
             /\ \E stop \in Stops : CheckTrade(stop, Account) /\ decision'.reason = "ok"
  BY <1>1, <1>6 DEF Check
<1> QED
  BY <1>2, <1>3, <1>4, <1>5, <1>6 DEF LoopNext, LoopStep

\* Every step keeps a halted loop from trading.
LEMMA HaltedStep == ASSUME LoopInv, HaltedInv, [LoopNext]_loopVars PROVE HaltedInv'
<1> SUFFICES ASSUME killed' PROVE paused' /\ stage' # "gate"
  BY DEF HaltedInv
<1>1. CASE killed
  <2>1. paused' = TRUE
    BY <1>1, PauseStays DEF HaltedInv
  <2>2. ASSUME stage' = "gate" PROVE FALSE
    <3>1. PICK stop \in Stops : CheckTrade(stop, Account) /\ decision'.reason = "ok"
      BY <1>1, <2>2, WhoReachesGate DEF HaltedInv
    <3> QED BY <1>1, <3>1, AllowedMeans DEF HaltedInv
  <2> QED BY <2>1, <2>2
<1>2. CASE ~killed
  <2>1. KillSwitch /\ killFile
    BY <1>2 DEF LoopNext, LoopStep, Boot, Reload, TellPositions, TellPnl, TellEquity, TellMarket,
                Check, Gate, CloseTrade, MonitorEnds, KillSwitch, MarkMoves, OperatorKills,
                DayBreaks, told, loopVars
  <2> QED BY <2>1 DEF KillSwitch, Pause, Goes
<1> QED
  BY <1>1, <1>2

\* No trade opens after the kill switch has fired, for any bounds, settings and
\* presets.
THEOREM KilledForGood == LoopSpec => KillHalts
<1>1. LoopInit => HaltedInv
  BY DEF LoopInit, HaltedInv
<1>2. ASSUME LoopInv, HaltedInv, [LoopNext]_loopVars
      PROVE  [killed => openTrades' <= openTrades]_loopVars
  <2>1. ASSUME killed PROVE ~(openTrades' > openTrades)
    BY <1>2, <2>1, WhoOpens DEF HaltedInv, Gate
  <2>2. openTrades \in Int /\ openTrades' \in Int
    BY <1>2, LoopInvStep, LoopAssumption DEF LoopInv
  <2> QED BY <2>1, <2>2
<1> QED
  BY <1>1, <1>2, LoopInvariant, HaltedStep, PTL DEF LoopSpec, KillHalts
------------------------------------------------------------------------------
(* Trades open inside the limits. *)

\* From update_equity to the end of the cycle the breaker has been evaluated,
\* and while the trader thinks, what the check found of the journal and the caps still
\* holds: only the marks and the realized P&L move.
GateInv ==
    /\ stage \in {"market", "check", "gate", "monitor", "kill"} => fresh
    /\ stage = "gate" =>
         /\ ~(openTrades >= caps.maxOpen)
         /\ ~(-asked * 1000 >= StartingCapital * caps.maxDaily)
         /\ ~DrawdownAtLeast(best, equity, maxDrawdown)

\* What an allowed plan says of the account it was checked against.
LEMMA AllowedAccount ==
    ASSUME LoopInv, BreakerInv, fresh, UNCHANGED desk,
           NEW stop \in Stops, CheckTrade(stop, Account), decision'.reason = "ok",
           asked' = realized
    PROVE  /\ ~(openTrades' >= caps'.maxOpen)
           /\ ~(-asked' * 1000 >= StartingCapital * caps'.maxDaily)
           /\ ~DrawdownAtLeast(best', equity', maxDrawdown')
<1>1. /\ ~paused /\ ~ddPaused
      /\ ~(-dailyPnl' * 1000 >= capital' * caps.maxDaily)
      /\ ~(openPositions' >= caps.maxOpen)
  BY AllowedMeans
<1>2. Account # NoAccount
  BY AccountIsInput DEF LoopInv
<1>3. dailyPnl' = Account.pnl /\ openPositions' = Account.open /\ capital' = Account.capital
  BY <1>1, <1>2 DEF CheckTrade
<1>4. dailyPnl' = realized /\ openPositions' = openTrades /\ capital' = StartingCapital
  BY <1>3 DEF Account
<1>5. UNCHANGED <<caps, best, equity, maxDrawdown>> /\ UNCHANGED <<realized, openTrades>>
  BY DEF CheckTrade, sizing, breaker, ofEquity, desk
<1>6. ~DrawdownAtLeast(best, equity, maxDrawdown)
  BY <1>1 DEF BreakerInv
<1>7. ~DrawdownAtLeast(best', equity', maxDrawdown')
  BY <1>5, <1>6
<1> QED
  BY <1>1, <1>4, <1>5, <1>7

\* Every step keeps the entry gate's promise.
LEMMA GateStep ==
    ASSUME LoopInv, BreakerInv, GateInv, [LoopNext]_loopVars
    PROVE  GateInv'
<1>1. stage' \in {"market", "check", "gate", "monitor", "kill"} => fresh'
  <2> SUFFICES ASSUME stage' \in {"market", "check", "gate", "monitor", "kill"}
               PROVE  fresh'
    OBVIOUS
  <2> USE DEF GateInv
  <2>1. ASSUME Boot \/ Reload \/ TellPositions \/ TellPnl
        PROVE  FALSE
    BY <2>1 DEF Boot, Reload, TellPositions, TellPnl, Goes
  <2>2. ASSUME TellEquity PROVE fresh'
    BY <2>2 DEF TellEquity, UpdateEquity
  <2>3. ASSUME TellMarket PROVE fresh'
    BY <2>3 DEF TellMarket, UpdateMarketState, ofEquity
  <2>4. ASSUME Check PROVE fresh'
    BY <2>4 DEF Check, CheckTrade, ofEquity, vars
  <2>5. ASSUME Gate PROVE fresh'
    BY <2>5 DEF Gate, ofEquity, vars
  <2>6. ASSUME CloseTrade \/ MonitorEnds PROVE fresh'
    BY <2>6 DEF CloseTrade, MonitorEnds, RecordTradeResult, ofEquity, vars
  <2>7. ASSUME KillSwitch PROVE FALSE
    BY <2>7 DEF KillSwitch, Goes
  <2>8. ASSUME MarkMoves \/ OperatorKills \/ DayBreaks \/ UNCHANGED loopVars
        PROVE  fresh'
    BY <2>8 DEF MarkMoves, OperatorKills, DayBreaks, NewDay, ofEquity, vars, control, loopVars
  <2> QED
    BY <2>1, <2>2, <2>3, <2>4, <2>5, <2>6, <2>7, <2>8 DEF LoopNext, LoopStep
<1>2. ASSUME stage' = "gate"
      PROVE  /\ ~(openTrades' >= caps'.maxOpen)
             /\ ~(-asked' * 1000 >= StartingCapital * caps'.maxDaily)
             /\ ~DrawdownAtLeast(best', equity', maxDrawdown')
  <2>1. CASE stage = "gate" /\ ~Gate
    <3>1. MarkMoves \/ OperatorKills \/ DayBreaks \/ UNCHANGED loopVars
      BY <2>1 DEF LoopNext, LoopStep, Boot, Reload, TellPositions, TellPnl, TellEquity,
                  TellMarket, Check, CloseTrade, MonitorEnds, KillSwitch
    <3>2. UNCHANGED <<openTrades, asked, caps, best, equity, maxDrawdown>>
      BY <3>1 DEF MarkMoves, OperatorKills, DayBreaks, NewDay, vars, breaker, sizing, ofEquity,
                  desk, told, loopVars
    <3>3. /\ ~(openTrades >= caps.maxOpen)
          /\ ~(-asked * 1000 >= StartingCapital * caps.maxDaily)
          /\ ~DrawdownAtLeast(best, equity, maxDrawdown)
      BY <2>1 DEF GateInv
    <3> QED BY <3>2, <3>3
  <2>2. CASE /\ stage = "check" /\ UNCHANGED desk /\ asked' = realized
             /\ \E stop \in Stops : CheckTrade(stop, Account) /\ decision'.reason = "ok"
    <3>1. fresh
      BY <2>2 DEF GateInv
    <3> QED BY <2>2, <3>1, AllowedAccount
  <2> QED BY <1>2, <2>1, <2>2, WhoReachesGate
<1> QED
  BY <1>1, <1>2 DEF GateInv

\* A trade opens only where the caps and the drawdown leave room, for every set of
\* caps and whatever happens between the check and the opening: but for the daily
\* loss, which is the one the check read (risk/engine.py:327-333).
THEOREM OpensWithinLimits == LoopSpec => OpensInsideLimits
<1>1. LoopInit => BreakerInv /\ GateInv
  BY BreakerInit DEF LoopInit, GateInv
<1>2. ASSUME LoopInv, TypeOK, BreakerInv, [LoopNext]_loopVars PROVE BreakerInv'
  BY <1>2, StepOfEngine, BreakerStep
<1>3. ASSUME LoopInv, TypeOK, GateInv, [LoopNext]_loopVars
      PROVE  [openTrades' > openTrades =>
                /\ openTrades < caps.maxOpen
                /\ -asked * 1000 < StartingCapital * caps.maxDaily
                /\ ~DrawdownAtLeast(best, equity, maxDrawdown)]_loopVars
  <2> SUFFICES ASSUME openTrades' > openTrades
               PROVE  /\ openTrades < caps.maxOpen
                      /\ -asked * 1000 < StartingCapital * caps.maxDaily
                      /\ ~DrawdownAtLeast(best, equity, maxDrawdown)
    OBVIOUS
  <2>1. stage = "gate"
    BY <1>3, WhoOpens DEF Gate
  <2>2. /\ ~(openTrades >= caps.maxOpen)
        /\ ~(-asked * 1000 >= StartingCapital * caps.maxDaily)
        /\ ~DrawdownAtLeast(best, equity, maxDrawdown)
    BY <1>3, <2>1 DEF GateInv
  <2>3. caps.maxOpen \in Int /\ caps.maxDaily \in Int
    BY <1>3 DEF TypeOK, Caps
  <2>4. openTrades \in Int /\ asked \in Int /\ StartingCapital \in Int
    BY <1>3, LoopAssumption, TotalIsInput, InputsAssumption DEF LoopInv
  <2>5. openTrades < caps.maxOpen
    BY <2>2, <2>3, <2>4
  <2> DEFINE loss == -asked * 1000
             cap == StartingCapital * caps.maxDaily
  <2>6. loss \in Int /\ cap \in Int
    BY <2>3, <2>4
  <2>7. ~(loss >= cap)
    BY <2>2
  <2> HIDE DEF loss, cap
  <2>8. loss < cap
    BY <2>6, <2>7
  <2> QED BY <2>2, <2>5, <2>8 DEF loss, cap
<1>4. LoopSpec => []TypeOK
  BY LoopImplementsEngine, TypeCorrect, PTL
<1>5. LoopSpec => []BreakerInv
  BY <1>1, <1>2, <1>4, LoopInvariant, PTL DEF LoopSpec
<1> QED
  BY <1>1, <1>3, <1>4, <1>5, LoopInvariant, GateStep, PTL DEF LoopSpec, OpensInsideLimits
------------------------------------------------------------------------------
(* The types of the loop. *)

\* A cycle has strategies left to ask as long as it asks.
CycleInv ==
    /\ left \in 0..ChecksPerCycle
    /\ stage \in {"market", "check", "gate"} => left > 0
    /\ killFile \in BOOLEAN /\ killed \in BOOLEAN
    /\ results \in Seq(BOOLEAN) /\ dayStart \in Totals

\* After a strategy the next one has its turn only if there is one.
LEMMA TurnsLeft ==
    ASSUME left \in 0..ChecksPerCycle, left > 0, NextStrategy
    PROVE  left' \in 0..ChecksPerCycle /\ (stage' \in {"market", "check", "gate"} => left' > 0)
  BY LoopAssumption DEF NextStrategy

\* Every step of the loop keeps the count of the strategies left.
LEMMA CycleStep == ASSUME LoopInv, CycleInv, [LoopNext]_loopVars PROVE CycleInv'
<1> USE DEF CycleInv
<1>1. ASSUME UNCHANGED <<left, killFile, told>>, stage' \in {"market", "check", "gate"} => left > 0
      PROVE  CycleInv'
  BY <1>1 DEF told
<1>2. ASSUME Boot \/ Reload \/ TellPositions \/ TellPnl \/ MonitorEnds PROVE CycleInv'
  <2>1. UNCHANGED <<left, killFile, told>> /\ stage' \notin {"market", "check", "gate"}
    BY <1>2 DEF Boot, Reload, TellPositions, TellPnl, MonitorEnds, Goes
  <2> QED
    BY <1>1, <2>1
<1>3. ASSUME TellEquity PROVE CycleInv'
  BY <1>3, LoopAssumption DEF TellEquity, told
<1>4. ASSUME TellMarket PROVE CycleInv'
  <2>1. UNCHANGED <<left, killFile, told>> /\ stage = "market"
    BY <1>4 DEF TellMarket, Goes
  <2> QED
    BY <1>1, <2>1
<1>5. ASSUME Check PROVE CycleInv'
  <2>1. /\ stage = "check" /\ UNCHANGED <<killFile, killed, results, dayStart>>
        /\ NextStrategy \/ Goes("gate")
    BY <1>5 DEF Check
  <2>2. CASE NextStrategy
    BY <2>1, <2>2, TurnsLeft
  <2>3. CASE Goes("gate")
    BY <2>1, <2>3 DEF Goes
  <2> QED
    BY <2>1, <2>2, <2>3
<1>6. ASSUME Gate PROVE CycleInv'
  BY <1>6, TurnsLeft DEF Gate, told
<1>7. ASSUME CloseTrade PROVE CycleInv'
  <2>1. PICK gain \in Gains : results' = Lately(Append(results, gain >= 0))
    BY <1>7 DEF CloseTrade
  <2>2. (gain >= 0) \in BOOLEAN
    OBVIOUS
  <2>3. results' \in Seq(BOOLEAN)
    BY <2>1, <2>2, LatelyKeeps
  <2>4. UNCHANGED <<stage, left, killFile, killed, dayStart>>
    BY <1>7 DEF CloseTrade, control
  <2> QED
    BY <2>3, <2>4
<1>8. ASSUME KillSwitch PROVE CycleInv'
  <2>1. left' = left /\ stage' \notin {"market", "check", "gate"} /\ UNCHANGED <<results, dayStart>>
    BY <1>8 DEF KillSwitch, Goes
  <2>2. killFile' \in BOOLEAN /\ killed' \in BOOLEAN
    BY <1>8 DEF KillSwitch
  <2> QED
    BY <2>1, <2>2
<1>9. ASSUME MarkMoves \/ OperatorKills \/ UNCHANGED loopVars PROVE CycleInv'
  BY <1>9 DEF MarkMoves, OperatorKills, loopVars, control, told
<1>10. ASSUME DayBreaks PROVE CycleInv'
  BY <1>10 DEF DayBreaks, control, LoopInv
<1> QED
  BY <1>2, <1>3, <1>4, <1>5, <1>6, <1>7, <1>8, <1>9, <1>10 DEF LoopNext, LoopStep

\* The loop's place, the account it tells and the engine's state have their types: a
\* cycle asks exactly the strategies there are, and the P&L stays in its bounds.
THEOREM LoopTypeCorrect == LoopSpec => []LoopTypeOK
<1>1. LoopInit => CycleInv
  <2> SUFFICES ASSUME LoopInit PROVE CycleInv
    OBVIOUS
  <2>1. <<>> \in Seq(BOOLEAN)
    BY EmptySeq
  <2>2. /\ stage = "boot" /\ left = 0 /\ killFile \in BOOLEAN /\ killed = FALSE
        /\ results = <<>> /\ dayStart = realized /\ realized \in Totals
    BY DEF LoopInit
  <2>3. left \in 0..ChecksPerCycle
    BY <2>2, LoopAssumption
  <2>4. stage \in Stages
    BY <2>2 DEF Stages
  <2> QED
    BY <2>1, <2>2, <2>3, <2>4 DEF CycleInv
<1>2. TypeOK /\ LoopInv /\ CycleInv => LoopTypeOK
  BY DEF LoopInv, CycleInv, LoopTypeOK
<1> QED
  BY <1>1, <1>2, LoopInvariant, CycleStep, LoopImplementsEngine, TypeCorrect, PTL DEF LoopSpec

==============================================================================
