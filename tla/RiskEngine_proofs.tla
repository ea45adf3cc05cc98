-------------------------- MODULE RiskEngine_proofs --------------------------
(***************************************************************************)
(* What holds of the risk engine for every set of presets and settings,    *)
(* every threshold and every sequence of calls.                            *)
(***************************************************************************)
EXTENDS RiskEngine, SequenceTheorems, TLAPS

------------------------------------------------------------------------------
(* Sizing. *)

\* A quotient of naturals, rounded down.
LEMMA Quotient ==
    ASSUME NEW a \in Nat, NEW b \in Nat \ {0}
    PROVE  a \div b \in Nat /\ (a \div b) * b <= a
  OBVIOUS

\* The contracts a budget affords cost no more than the budget.
LEMMA AffordableBound ==
    ASSUME caps \in Caps, maxContracts \in Nat,
           NEW c \in Nat, NEW stop \in Nat \ {0}
    PROVE  /\ Affordable(c, stop) \in 0..maxContracts
           /\ Affordable(c, stop) > 1 =>
                (Affordable(c, stop) * stop) * 1000 <= c * caps.maxTrade
<1> DEFINE B == c * caps.maxTrade
           D == 1000 * stop
           q == B \div D
<1>1. B \in Nat /\ D \in Nat \ {0}
  BY DEF Caps
<1>2. q \in Nat /\ q * D <= B
  <2> HIDE DEF B, D
  <2> QED BY <1>1, Quotient
<1>3. Affordable(c, stop) = Smaller(maxContracts, Larger(1, q))
  BY DEF Affordable
<1>4. (q * stop) * 1000 = q * D
  <2> HIDE DEF q
  <2> QED BY <1>2
<1>5. \A m \in Nat : m <= q => (m * stop) * 1000 <= (q * stop) * 1000
  <2> HIDE DEF q
  <2> QED BY <1>2
<1> HIDE DEF q, B, D
<1>6. Affordable(c, stop) \in 0..maxContracts
  BY <1>2, <1>3 DEF Smaller, Larger
<1>7. Affordable(c, stop) > 1 => Affordable(c, stop) <= q
  BY <1>2, <1>3 DEF Smaller, Larger
<1>8. ASSUME Affordable(c, stop) > 1
      PROVE  (Affordable(c, stop) * stop) * 1000 <= B
  <2>1. (Affordable(c, stop) * stop) * 1000 <= (q * stop) * 1000
    BY <1>5, <1>6, <1>7, <1>8
  <2>2. (Affordable(c, stop) * stop) * 1000 \in Int /\ (q * stop) * 1000 \in Int /\ B \in Int
    BY <1>1, <1>2, <1>6
  <2> QED BY <1>2, <1>4, <2>1, <2>2
<1> QED
  BY <1>6, <1>8 DEF B

\* Trimming for the market only lowers the number.
LEMMA TrimmedBound ==
    ASSUME caps \in Caps, maxContracts \in Nat,
           NEW c \in Nat, NEW stop \in Nat \ {0}
    PROVE  /\ TrimmedQty(c, stop) \in 0..maxContracts
           /\ TrimmedQty(c, stop) > 1 =>
                (TrimmedQty(c, stop) * stop) * 1000 <= c * caps.maxTrade
<1> DEFINE a == Affordable(c, stop)
           t == TrimmedQty(c, stop)
           B == c * caps.maxTrade
<1>1. a \in 0..maxContracts /\ (a > 1 => (a * stop) * 1000 <= B)
  BY AffordableBound
<1>2. t \in Nat /\ t <= a
  <2> HIDE DEF a
  <2>1. t = Halved(Halved(a, dvol > caps.highDvol), ivRank > caps.highIvRank)
    BY DEF TrimmedQty, a
  <2>2. \A q \in Nat : \A high : Halved(q, high) \in Nat /\ Halved(q, high) <= q
    BY DEF Halved
  <2> HIDE DEF t
  <2> QED BY <1>1, <2>1, <2>2
<1>3. B \in Nat
  BY DEF Caps
<1> HIDE DEF a, t, B
<1>4. (t * stop) * 1000 <= (a * stop) * 1000
  BY <1>1, <1>2
<1>5. (t * stop) * 1000 \in Int /\ (a * stop) * 1000 \in Int
  BY <1>1, <1>2
<1> QED
  BY <1>1, <1>2, <1>3, <1>4, <1>5 DEF t, B

\* Scaling up by half stays within the contract cap and one and a half budgets.
LEMMA ScaledBound ==
    ASSUME maxContracts \in Nat, NEW t \in 1..maxContracts,
           NEW stop \in Nat \ {0}, NEW B \in Nat, t > 1 => (t * stop) * 1000 <= B
    PROVE  /\ ScaledUp(t) \in 1..maxContracts
           /\ ScaledUp(t) > 1 =>
                IF preset = "aggressive" THEN 2 * (ScaledUp(t) * stop) * 1000 <= 3 * B
                                         ELSE (ScaledUp(t) * stop) * 1000 <= B
<1> DEFINE u == (t * 3) \div 2
<1>1. u \in Nat /\ 1 <= u /\ 2 * u <= 3 * t /\ (u > 1 => t > 1)
  OBVIOUS
<1> HIDE DEF u
<1>2. CASE preset # "aggressive"
  BY <1>2 DEF ScaledUp
<1>3. CASE preset = "aggressive"
  <2> DEFINE s == ScaledUp(t)
  <2>1. s \in 1..maxContracts /\ s <= u
    BY <1>1, <1>3 DEF ScaledUp, Smaller, u
  <2> HIDE DEF s
  <2>2. ASSUME s > 1
        PROVE  2 * (s * stop) * 1000 <= 3 * B
    <3>1. t > 1 /\ 2 * s <= 3 * t
      BY <1>1, <2>1, <2>2
    <3>2. (2 * s) * stop <= (3 * t) * stop
      BY <2>1, <3>1
    <3>3. 2 * (s * stop) * 1000 = ((2 * s) * stop) * 1000
      BY <2>1
    <3>4. ((3 * t) * stop) * 1000 = 3 * ((t * stop) * 1000)
      OBVIOUS
    <3>5. (t * stop) * 1000 <= B
      BY <3>1
    <3> DEFINE x == (2 * s) * stop
               y == (3 * t) * stop
               z == (t * stop) * 1000
    <3>6. x \in Int /\ y \in Int /\ z \in Int
      BY <2>1
    <3> HIDE DEF x, y, z
    <3>7. x * 1000 <= 3 * B
      <4>1. x <= y /\ y * 1000 = 3 * z /\ z <= B
        BY <3>2, <3>4, <3>5 DEF x, y, z
      <4> QED BY <3>6, <4>1
    <3> QED BY <3>3, <3>7 DEF x
  <2> QED BY <1>3, <2>1, <2>2 DEF s
<1> QED
  BY <1>2, <1>3

------------------------------------------------------------------------------
(* Types. *)

\* The preset that the regime chooses is one of the presets.
LEMMA PresetKnown ==
    ASSUME preset \in DOMAIN Presets, NEW l, NEW w
    PROVE  ChosenPreset(l, w) \in DOMAIN Presets
  BY InputsAssumption DEF ChosenPreset

\* Applying a preset sets known caps.
LEMMA AppliedPreset ==
    ASSUME NEW name, ApplyPreset(name)
    PROVE  preset' \in DOMAIN Presets /\ caps' \in Caps
  BY InputsAssumption DEF ApplyPreset

\* The history of results is a sequence, and keeps its last entries.
LEMMA LatelyKeeps ==
    ASSUME NEW s \in Seq(BOOLEAN), NEW r \in BOOLEAN
    PROVE  LET t == Lately(Append(s, r))
           IN  /\ t \in Seq(BOOLEAN)
               /\ Len(t) > 0 /\ t[Len(t)] = r
               /\ \/ Len(t) = Len(s) + 1 /\ \A i \in 1..Len(s) : t[i] = s[i]
                  \/ /\ Len(t) = Len(s) /\ Len(t) >= Remembered
                     /\ \A i \in 1..Len(s) - 1 : t[i] = s[i + 1]
<1> DEFINE a == Append(s, r)
           t == Lately(a)
<1>1. /\ a \in Seq(BOOLEAN) /\ Len(a) = Len(s) + 1 /\ a[Len(a)] = r
      /\ \A i \in 1..Len(s) : a[i] = s[i]
  OBVIOUS
<1>2. Remembered \in Nat \ {0}
  BY InputsAssumption DEF Remembered, Larger
<1>3. Len(s) \in Nat
  OBVIOUS
<1> HIDE DEF a
<1>4. CASE Len(a) > Remembered
  <2>1. t = Tail(a)
    BY <1>4 DEF Lately
  <2>2. a # <<>>
    BY <1>1, <1>3
  <2>3. Tail(a) \in Seq(BOOLEAN) /\ Len(Tail(a)) = Len(a) - 1
        /\ \A i \in 1..Len(a) - 1 : Tail(a)[i] = a[i + 1]
    BY <1>1, <2>2
  <2> HIDE DEF t
  <2>4. Len(t) > 0 /\ t[Len(t)] = r /\ Len(t) = Len(s) /\ Len(t) >= Remembered
    BY <1>1, <1>2, <1>3, <1>4, <2>1, <2>3
  <2>5. \A i \in 1..Len(s) - 1 : t[i] = s[i + 1]
    BY <1>1, <1>3, <2>1, <2>3
  <2> QED BY <2>1, <2>3, <2>4, <2>5 DEF t, a
<1>5. CASE ~(Len(a) > Remembered)
  <2>1. t = a
    BY <1>5 DEF Lately
  <2> QED BY <1>1, <1>3, <2>1 DEF a
<1> QED
  BY <1>4, <1>5

\* The absence of a decision is in the type of decisions.
LEMMA NothingDecided == NoDecision \in Decision
  BY DEF NoDecision, Decision

\* The initial state has the types.
LEMMA TypeInit == Init => TypeOK
<1> SUFFICES ASSUME Init PROVE TypeOK
  OBVIOUS
<1>1. caps \in Caps /\ maxContracts \in Nat /\ maxDrawdown \in Nat \ {0} /\ recovery \in Nat
  BY SettingsAssumption DEF Init, Setting
<1>2. recent \in Seq(BOOLEAN) /\ decision \in Decision
  BY NothingDecided DEF Init
<1>3. losses \in 0..LossesToDefensive /\ wins \in 0..WinsToAggressive
  BY InputsAssumption DEF Init
<1>4. day \in 0..today /\ today \in 0..MaxDays
  BY InputsAssumption DEF Init
<1>5. preset \in DOMAIN Presets /\ capital \in Nat
  BY InputsAssumption DEF Init
<1> QED
  <2>1. dailyPnl \in Int /\ openPositions \in Nat /\ dvol \in Nat /\ ivRank \in Nat
    BY DEF Init
  <2>2. paused \in BOOLEAN /\ ddPaused \in BOOLEAN /\ peak \in Nat
    BY DEF Init
  <2>3. best \in Nat /\ equity \in Int
    BY DEF Init
  <2>4. fresh \in BOOLEAN
    BY DEF Init
  <2>5. forced \in BOOLEAN
    BY DEF Init
  <2> QED BY <1>1, <1>2, <1>3, <1>4, <1>5, <2>1, <2>2, <2>3, <2>4, <2>5 DEF TypeOK

\* The checks end in a decision.
LEMMA VerdictType ==
    ASSUME caps \in Caps, maxContracts \in Nat,
           NEW stop \in Nat, NEW pnl \in Int, NEW open \in Nat, NEW c \in Nat
    PROVE  Verdict(stop, pnl, open, c) \in Decision
<1>1. \A reason \in {"daily loss", "position cap", "no stop", "sizing"} :
        Refused(reason, stop) \in Decision
  BY DEF Refused, Decision
<1>2. stop # 0 => ScaledUp(TrimmedQty(c, stop)) \in Nat
  <2>1. stop # 0 => TrimmedQty(c, stop) \in 0..maxContracts
    BY TrimmedBound
  <2>2. \A q \in Nat : ScaledUp(q) \in Nat
    BY DEF ScaledUp, Smaller
  <2> QED BY <2>1, <2>2
<1>3. stop # 0 => [reason |-> "ok", qty |-> ScaledUp(TrimmedQty(c, stop)), stop |-> stop]
                    \in Decision
  BY <1>2 DEF Decision
<1> QED
  BY <1>1, <1>3 DEF Verdict

\* What check_trade takes from the account it is passed.
LEMMA CheckTradeTypes ==
    ASSUME TypeOK, NEW stop \in Stops, NEW a \in Accounts, CheckTrade(stop, a)
    PROVE  TypeOK'
<1>1. a # NoAccount => a.pnl \in Int /\ a.open \in Nat /\ a.capital \in Nat
  BY InputsAssumption DEF Accounts
<1>2. dailyPnl' \in Int /\ openPositions' \in Nat /\ capital' \in Nat
  BY <1>1 DEF TypeOK, RolledPnl, CheckTrade
<1>3. stop \in Nat
  BY InputsAssumption
<1>4. Refused("paused", stop) \in Decision /\ Refused("drawdown", stop) \in Decision
  BY <1>3 DEF Refused, Decision
<1>5. Verdict(stop, dailyPnl', openPositions', capital') \in Decision
  BY <1>2, <1>3, VerdictType DEF TypeOK
<1>6. decision' \in Decision
  BY <1>4, <1>5 DEF CheckTrade
<1> QED
  BY <1>2, <1>6 DEF CheckTrade, TypeOK, market, breaker, sizing, ofEquity, ofTrades

\* Every step keeps the types.
LEMMA TypeStep == TypeOK /\ [Next]_vars => TypeOK'
<1> SUFFICES ASSUME TypeOK, [Next]_vars PROVE TypeOK'
  OBVIOUS
<1> USE DEF account, market, breaker, sizing, ofEquity, ofTrades
<1>0. NoDecision \in Decision
  BY NothingDecided
<1>1. ASSUME NEW c \in Capitals, UpdateCapital(c) PROVE TypeOK'
  BY <1>0, <1>1, InputsAssumption DEF TypeOK, UpdateCapital, Larger
<1>2. ASSUME NEW d \in DvolLevels, NEW iv \in IvRanks, UpdateMarketState(d, iv) PROVE TypeOK'
  BY <1>0, <1>2, InputsAssumption DEF TypeOK, UpdateMarketState
<1>3. ASSUME NEW n \in PositionCounts, UpdateOpenPositions(n) PROVE TypeOK'
  BY <1>0, <1>3, InputsAssumption DEF TypeOK, UpdateOpenPositions
<1>4. ASSUME NEW pnl \in Pnls, UpdateDailyPnl(pnl) PROVE TypeOK'
  BY <1>0, <1>4, InputsAssumption DEF TypeOK, UpdateDailyPnl
<1>5. ASSUME NEW pnl \in Pnls, RecordTradeResult(pnl) PROVE TypeOK'
  <2> DEFINE l == IF pnl >= 0 THEN 0 ELSE losses + 1
             w == WinsAfter(pnl)
  <2>1. l \in Nat /\ w \in Nat
    BY DEF TypeOK, WinsAfter
  <2>2. losses' = Smaller(l, LossesToDefensive) /\ wins' = Smaller(w, WinsToAggressive)
    BY <1>5 DEF RecordTradeResult
  <2>3. preset' \in DOMAIN Presets /\ caps' \in Caps
    <3>1. \/ ApplyPreset(ChosenPreset(l, w))
          \/ UNCHANGED <<preset, caps>>
      BY <1>5 DEF RecordTradeResult
    <3> HIDE DEF l, w
    <3> QED BY <3>1, AppliedPreset DEF TypeOK
  <2>4. recent' \in Seq(BOOLEAN)
    <3>1. (pnl >= 0) \in BOOLEAN /\ recent \in Seq(BOOLEAN)
      BY InputsAssumption DEF TypeOK
    <3>2. recent' = Lately(Append(recent, pnl >= 0))
      BY <1>5 DEF RecordTradeResult
    <3> QED BY <3>1, <3>2, LatelyKeeps
  <2> HIDE DEF l, w
  <2>5. losses' \in 0..LossesToDefensive /\ wins' \in 0..WinsToAggressive
    BY <2>1, <2>2, InputsAssumption DEF Smaller
  <2>6. decision' = NoDecision /\ forced' = FALSE
        /\ UNCHANGED <<account, market, breaker, maxContracts, today, ofEquity>>
    BY <1>5 DEF RecordTradeResult
  <2> QED BY <1>0, <2>3, <2>4, <2>5, <2>6 DEF TypeOK
<1>6. ASSUME NEW e \in Equities, UpdateEquity(e) PROVE TypeOK'
  <2>1. e \in Int
    BY InputsAssumption
  <2>2. peak' \in Nat /\ best' \in Nat /\ equity' \in Int
    BY <1>6, <2>1 DEF TypeOK, UpdateEquity, Larger
  <2>3. paused' \in BOOLEAN /\ ddPaused' \in BOOLEAN
    BY <1>6 DEF TypeOK, UpdateEquity, Trips, DrawdownAtLeast, DrawdownAtMost
  <2> QED BY <1>0, <1>6, <2>2, <2>3 DEF TypeOK, UpdateEquity, RolledPnl
<1>7. ASSUME NEW name \in DOMAIN Presets \cup {"unknown"}, ForcePreset(name) PROVE TypeOK'
  <2>1. preset' \in DOMAIN Presets /\ caps' \in Caps
    BY <1>7, AppliedPreset DEF ForcePreset
  <2> QED BY <1>0, <1>7, <2>1 DEF TypeOK, ForcePreset
<1>8. ASSUME NEW c \in Settings, ReloadConfig(c) PROVE TypeOK'
  BY <1>0, <1>8, SettingsAssumption DEF TypeOK, ReloadConfig, Setting
<1>9. ASSUME NEW stop \in Stops, NEW a \in Accounts, CheckTrade(stop, a) PROVE TypeOK'
  BY <1>9, CheckTradeTypes
<1>10. ASSUME Pause \/ Resume \/ ResumeFromDrawdown PROVE TypeOK'
  BY <1>0, <1>10 DEF TypeOK, Pause, Resume, ResumeFromDrawdown
<1>12. ASSUME NewDay PROVE TypeOK'
  BY <1>0, <1>12, InputsAssumption DEF TypeOK, NewDay
<1>11. ASSUME UNCHANGED vars PROVE TypeOK'
  BY <1>11 DEF TypeOK, vars
<1> QED
  BY <1>1, <1>2, <1>3, <1>4, <1>5, <1>6, <1>7, <1>8, <1>9, <1>10, <1>11, <1>12 DEF Next

\* The risk engine's state keeps its type, whatever it is told and asked.
THEOREM TypeCorrect == Spec => []TypeOK
  BY TypeInit, TypeStep, PTL DEF Spec

------------------------------------------------------------------------------
(* Only check_trade decides. *)

\* Only check_trade leaves a decision that was not there before.
LEMMA WhoDecides ==
    ASSUME [Next]_vars
    PROVE  \/ decision' = NoDecision
           \/ \E stop \in Stops, a \in Accounts : CheckTrade(stop, a)
           \/ UNCHANGED vars
  BY DEF Next, UpdateCapital, UpdateMarketState, UpdateOpenPositions, UpdateDailyPnl,
         RecordTradeResult, UpdateEquity, ForcePreset, ReloadConfig, Pause, Resume,
         ResumeFromDrawdown, NewDay

\* It allows nothing while paused, and what it allows passed every check.
LEMMA AllowedMeans ==
    ASSUME NEW stop, NEW a, CheckTrade(stop, a), decision'.reason = "ok"
    PROVE  /\ ~paused /\ ~ddPaused
           /\ ~(-dailyPnl' * 1000 >= capital' * caps.maxDaily)
           /\ ~(openPositions' >= caps.maxOpen)
           /\ stop # 0 /\ TrimmedQty(capital', stop) # 0
           /\ decision' = [reason |-> "ok", qty |-> ScaledUp(TrimmedQty(capital', stop)),
                           stop |-> stop]
<1>1. \A reason : Refused(reason, stop).reason = reason
  BY DEF Refused
<1>2. ~paused /\ ~ddPaused
      /\ decision' = Verdict(stop, dailyPnl', openPositions', capital')
  BY <1>1 DEF CheckTrade
<1>3. /\ ~(-dailyPnl' * 1000 >= capital' * caps.maxDaily)
      /\ ~(openPositions' >= caps.maxOpen)
      /\ stop # 0 /\ TrimmedQty(capital', stop) # 0
      /\ Verdict(stop, dailyPnl', openPositions', capital')
           = [reason |-> "ok", qty |-> ScaledUp(TrimmedQty(capital', stop)), stop |-> stop]
  <2> DEFINE v == Verdict(stop, dailyPnl', openPositions', capital')
  <2>1. v.reason = "ok"
    BY <1>2
  <2>2. \A reason \in {"daily loss", "position cap", "no stop", "sizing"} :
          v # Refused(reason, stop)
    BY <1>1, <2>1
  <2>3. \/ \E reason \in {"daily loss", "position cap", "no stop", "sizing"} :
             v = Refused(reason, stop)
        \/ /\ ~(-dailyPnl' * 1000 >= capital' * caps.maxDaily)
           /\ ~(openPositions' >= caps.maxOpen)
           /\ ~(stop = 0 \/ capital' * caps.maxTrade = 0) /\ TrimmedQty(capital', stop) # 0
           /\ v = [reason |-> "ok", qty |-> ScaledUp(TrimmedQty(capital', stop)), stop |-> stop]
    <3> DEFINE c1 == -dailyPnl' * 1000 >= capital' * caps.maxDaily
               c2 == openPositions' >= caps.maxOpen
               c3 == stop = 0 \/ capital' * caps.maxTrade = 0
               t == TrimmedQty(capital', stop)
               ok == [reason |-> "ok", qty |-> ScaledUp(t), stop |-> stop]
    <3>1. v = IF c1 THEN Refused("daily loss", stop)
              ELSE IF c2 THEN Refused("position cap", stop)
              ELSE IF c3 THEN Refused("no stop", stop)
              ELSE IF t = 0 THEN Refused("sizing", stop)
              ELSE ok
      BY Zenon DEF Verdict
    <3> HIDE DEF c1, c2, c3, t, ok, v
    <3>2. \/ \E reason \in {"daily loss", "position cap", "no stop", "sizing"} :
               v = Refused(reason, stop)
          \/ ~c1 /\ ~c2 /\ ~c3 /\ t # 0 /\ v = ok
      BY <3>1
    <3>3. CASE \E reason \in {"daily loss", "position cap", "no stop", "sizing"} :
                 v = Refused(reason, stop)
      BY <3>3
    <3>4. CASE ~c1 /\ ~c2 /\ ~c3 /\ t # 0 /\ v = ok
      <4>1. ~(-dailyPnl' * 1000 >= capital' * caps.maxDaily)
        BY <3>4, Zenon DEF c1
      <4>2. ~(openPositions' >= caps.maxOpen)
        BY <3>4, Zenon DEF c2
      <4>3. ~(stop = 0 \/ capital' * caps.maxTrade = 0)
        BY <3>4, Zenon DEF c3
      <4>4. TrimmedQty(capital', stop) # 0
        BY <3>4, Zenon DEF t
      <4>5. v = [reason |-> "ok", qty |-> ScaledUp(TrimmedQty(capital', stop)), stop |-> stop]
        BY <3>4, Zenon DEF ok, t
      <4> QED BY <4>1, <4>2, <4>3, <4>4, <4>5, Zenon
    <3> QED BY <3>2, <3>3, <3>4, Zenon
  <2> HIDE DEF v
  <2>4. ~(\E reason \in {"daily loss", "position cap", "no stop", "sizing"} :
            v = Refused(reason, stop))
    BY <2>2
  <2>5. /\ ~(-dailyPnl' * 1000 >= capital' * caps.maxDaily)
        /\ ~(openPositions' >= caps.maxOpen)
        /\ ~(stop = 0 \/ capital' * caps.maxTrade = 0) /\ TrimmedQty(capital', stop) # 0
        /\ v = [reason |-> "ok", qty |-> ScaledUp(TrimmedQty(capital', stop)), stop |-> stop]
    BY <2>3, <2>4, Zenon
  <2>6. stop # 0
    BY <2>5, Zenon
  <2> QED BY <2>5, <2>6, Zenon DEF v
<1> QED
  BY <1>2, <1>3

\* Every step keeps the sizes within the budget.
LEMMA SizeStep == TypeOK /\ SizeWithinBudget /\ [Next]_vars => SizeWithinBudget'
<1> SUFFICES ASSUME TypeOK, SizeWithinBudget, [Next]_vars, decision'.reason = "ok"
             PROVE  SizeWithinBudget'
  BY DEF SizeWithinBudget
<1>1. decision' # NoDecision
  BY DEF NoDecision
<1>2. ASSUME NEW stop \in Stops, NEW a \in Accounts, CheckTrade(stop, a)
      PROVE  SizeWithinBudget'
  <2> DEFINE t == TrimmedQty(capital', stop)
             B == capital' * caps.maxTrade
  <2>1. /\ stop # 0 /\ t # 0
        /\ decision' = [reason |-> "ok", qty |-> ScaledUp(t), stop |-> stop]
    BY <1>2, AllowedMeans
  <2>2. stop \in Nat \ {0}
    BY <2>1, InputsAssumption
  <2>3. capital' \in Nat
    BY <1>2, CheckTradeTypes DEF TypeOK
  <2>4. t \in 0..maxContracts /\ (t > 1 => (t * stop) * 1000 <= B)
    BY <2>2, <2>3, TrimmedBound DEF TypeOK
  <2>5. B \in Nat
    BY <2>3 DEF TypeOK, Caps
  <2>6. UNCHANGED <<preset, caps, maxContracts>>
    BY <1>2 DEF CheckTrade, sizing
  <2> HIDE DEF t, B
  <2>7. t \in 1..maxContracts /\ maxContracts \in Nat
    BY <2>1, <2>4 DEF TypeOK
  <2>8. /\ ScaledUp(t) \in 1..maxContracts
        /\ ScaledUp(t) > 1 =>
             IF preset = "aggressive" THEN 2 * (ScaledUp(t) * stop) * 1000 <= 3 * B
                                      ELSE (ScaledUp(t) * stop) * 1000 <= B
    BY <2>2, <2>4, <2>5, <2>7, ScaledBound
  <2>9. decision'.qty = ScaledUp(t) /\ decision'.stop = stop
    BY <2>1
  <2> QED BY <2>6, <2>8, <2>9 DEF SizeWithinBudget, B
<1>3. ASSUME UNCHANGED vars PROVE SizeWithinBudget'
  BY <1>3 DEF SizeWithinBudget, vars, account, market, breaker, sizing
<1> QED
  BY <1>1, <1>2, <1>3, WhoDecides

\* Whatever the presets, the settings and the order of the calls, an allowed
\* size is within the contract cap and the budget of one trade.
THEOREM SizesAreBounded == Spec => []SizeWithinBudget
<1>1. Init => SizeWithinBudget
  BY DEF Init, SizeWithinBudget, NoDecision
<1> QED
  BY <1>1, TypeInit, TypeStep, SizeStep, PTL DEF Spec

------------------------------------------------------------------------------
(* The drawdown breaker. *)

\* A breaker that is not paused has been found, at the last evaluation, less
\* than the maximal drawdown away from the peak; that needs the recovery
\* threshold, where it lets go, below the maximum, where it trips.
BreakerInv ==
    /\ best = peak
    /\ recovery < maxDrawdown
    /\ fresh /\ ~ddPaused => ~DrawdownAtLeast(peak, equity, maxDrawdown)

\* A drawdown that has recovered below one bound is below every larger one.
LEMMA RecoveredIsBelow ==
    ASSUME NEW p \in Nat, NEW e \in Int, NEW r \in Nat, NEW m \in Nat, r < m,
           DrawdownAtMost(p, e, r)
    PROVE  ~DrawdownAtLeast(p, e, m)
<1>1. CASE p = 0
  BY <1>1 DEF DrawdownAtLeast
<1>2. CASE p > 0
  <2>1. r * p < m * p
    BY <1>2
  <2>2. (p - e) * 1000 <= r * p
    BY <1>2 DEF DrawdownAtMost
  <2>3. r * p \in Int /\ m * p \in Int /\ (p - e) * 1000 \in Int
    OBVIOUS
  <2>4. ~((p - e) * 1000 >= m * p)
    BY <2>1, <2>2, <2>3
  <2> QED BY <2>4 DEF DrawdownAtLeast
<1> QED
  BY <1>1, <1>2

\* The initial state satisfies the breaker's invariant.
LEMMA BreakerInit == Init => BreakerInv
  BY SettingsAssumption DEF Init, BreakerInv

\* Every step keeps the breaker's invariant.
LEMMA BreakerStep == TypeOK /\ BreakerInv /\ [Next]_vars => BreakerInv'
<1> SUFFICES ASSUME TypeOK, BreakerInv, [Next]_vars PROVE BreakerInv'
  OBVIOUS
<1> USE DEF account, market, breaker, sizing, ofEquity, ofTrades
<1>1. ASSUME NEW c \in Capitals, UpdateCapital(c) PROVE BreakerInv'
  BY <1>1 DEF BreakerInv, UpdateCapital
<1>2. ASSUME NEW e \in Equities, UpdateEquity(e) PROVE BreakerInv'
  <2>1. e \in Int /\ peak' \in Nat /\ recovery \in Nat /\ maxDrawdown \in Nat
    BY <1>2, InputsAssumption DEF TypeOK, UpdateEquity, Larger
  <2>2. /\ peak' = Larger(peak, e) /\ best' = peak' /\ equity' = e
        /\ UNCHANGED <<recovery, maxDrawdown>>
        /\ ddPaused' = IF ddPaused THEN ~DrawdownAtMost(peak', e, recovery) ELSE Trips(peak', e)
    BY <1>2 DEF UpdateEquity, BreakerInv
  <2>3. ASSUME ~ddPaused' PROVE ~DrawdownAtLeast(peak', e, maxDrawdown)
    <3>1. CASE ddPaused
      <4>1. DrawdownAtMost(peak', e, recovery)
        BY <2>2, <2>3, <3>1
      <4> QED BY <2>1, <4>1, RecoveredIsBelow DEF BreakerInv
    <3>2. CASE ~ddPaused
      BY <2>2, <2>3, <3>2 DEF Trips
    <3> QED BY <3>1, <3>2
  <2>4. ~ddPaused' => ~DrawdownAtLeast(peak', equity', maxDrawdown')
    BY <2>2, <2>3
  <2> QED BY <2>2, <2>4 DEF BreakerInv
<1>3. ASSUME NEW c \in Settings, ReloadConfig(c) PROVE BreakerInv'
  BY <1>3, SettingsAssumption DEF BreakerInv, ReloadConfig
<1>4. ASSUME ResumeFromDrawdown PROVE BreakerInv'
  BY <1>4 DEF BreakerInv, ResumeFromDrawdown
<1>5. ASSUME UNCHANGED <<peak, best, recovery, maxDrawdown, fresh, ddPaused, equity>>
      PROVE  BreakerInv'
  BY <1>5 DEF BreakerInv, DrawdownAtLeast
<1>6. \/ \E c \in Capitals : UpdateCapital(c)
      \/ \E e \in Equities : UpdateEquity(e)
      \/ \E c \in Settings : ReloadConfig(c)
      \/ ResumeFromDrawdown
      \/ UNCHANGED <<peak, best, recovery, maxDrawdown, fresh, ddPaused, equity>>
  BY DEF Next, UpdateMarketState, UpdateOpenPositions, UpdateDailyPnl, RecordTradeResult,
         ForcePreset, CheckTrade, Pause, Resume, NewDay, vars
<1> QED
  BY <1>1, <1>2, <1>3, <1>4, <1>5, <1>6

\* Every step keeps the breaker's promise.
LEMMA BreakerHoldsStep ==
    TypeOK /\ BreakerInv /\ BreakerHolds /\ [Next]_vars => BreakerHolds'
<1> SUFFICES ASSUME TypeOK, BreakerInv, BreakerHolds, [Next]_vars, decision'.reason = "ok"
             PROVE  BreakerHolds'
  BY DEF BreakerHolds
<1>1. decision' # NoDecision
  BY DEF NoDecision
<1>2. ASSUME NEW stop \in Stops, NEW a \in Accounts, CheckTrade(stop, a)
      PROVE  BreakerHolds'
  <2>1. ~ddPaused
    BY <1>2, AllowedMeans
  <2>2. UNCHANGED <<best, equity, fresh, maxDrawdown>>
    BY <1>2 DEF CheckTrade, breaker, ofEquity
  <2>3. fresh => ~DrawdownAtLeast(best, equity, maxDrawdown)
    BY <2>1 DEF BreakerInv
  <2>4. fresh' => ~DrawdownAtLeast(best', equity', maxDrawdown')
    BY <2>2, <2>3
  <2> QED BY <2>4 DEF BreakerHolds, DrawdownAtLeast
<1>3. ASSUME UNCHANGED vars PROVE BreakerHolds'
  BY <1>3 DEF BreakerHolds, DrawdownAtLeast, vars, breaker, ofEquity
<1> QED
  BY <1>1, <1>2, <1>3, WhoDecides

\* No plan is allowed while the equity last told is a maximal drawdown below
\* the best, for every pair of thresholds and every history of equities.
THEOREM BreakerAlwaysHolds == Spec => []BreakerHolds
<1>1. Init => BreakerHolds
  BY DEF Init, BreakerHolds, NoDecision
<1> QED
  BY <1>1, TypeInit, TypeStep, BreakerInit, BreakerStep, BreakerHoldsStep, PTL DEF Spec

------------------------------------------------------------------------------
(* The runs of results. *)

\* The last n results of a history that has just grown are the newest and the
\* last n - 1 of the one before.
LEMMA LastAreGrows ==
    ASSUME NEW s \in Seq(BOOLEAN), NEW r \in BOOLEAN, NEW n \in Nat \ {0}, NEW result
    PROVE  LET t == Lately(Append(s, r))
           IN  /\ LastAre(t, n, result) => r = result /\ (n = 1 \/ LastAre(s, n - 1, result))
               /\ n <= Remembered /\ r = result /\ (n = 1 \/ LastAre(s, n - 1, result))
                    => LastAre(t, n, result)
<1> DEFINE t == Lately(Append(s, r))
<1>1. /\ t \in Seq(BOOLEAN) /\ Len(t) > 0 /\ t[Len(t)] = r
      /\ \/ Len(t) = Len(s) + 1 /\ \A i \in 1..Len(s) : t[i] = s[i]
         \/ /\ Len(t) = Len(s) /\ Len(t) >= Remembered
            /\ \A i \in 1..Len(s) - 1 : t[i] = s[i + 1]
  BY LatelyKeeps
<1>2. Remembered \in Nat /\ Len(s) \in Nat /\ Len(t) \in Nat
  <2> HIDE DEF t
  <2> QED BY <1>1, InputsAssumption DEF Remembered, Larger
<1> HIDE DEF t
<1>3. ASSUME LastAre(t, n, result) PROVE r = result /\ (n = 1 \/ LastAre(s, n - 1, result))
  <2>1. r = result
    BY <1>1, <1>2, <1>3 DEF LastAre
  <2>2. CASE Len(t) = Len(s) + 1 /\ \A i \in 1..Len(s) : t[i] = s[i]
    BY <1>2, <1>3, <2>1, <2>2 DEF LastAre
  <2>3. CASE Len(t) = Len(s) /\ \A i \in 1..Len(s) - 1 : t[i] = s[i + 1]
    <3>1. Len(s) >= n /\ \A i \in Len(s) - n + 1 .. Len(s) : t[i] = result
      BY <1>3, <2>3 DEF LastAre
    <3>2. ASSUME NEW i \in Len(s) - (n - 1) + 1 .. Len(s) PROVE s[i] = result
      <4>1. i - 1 \in 1..Len(s) - 1 /\ i - 1 \in Len(s) - n + 1 .. Len(s)
        BY <1>2, <3>1
      <4>2. t[i - 1] = s[(i - 1) + 1]
        BY <2>3, <4>1
      <4> QED BY <3>1, <4>1, <4>2
    <3> QED BY <1>2, <2>1, <3>1, <3>2 DEF LastAre
  <2> QED BY <1>1, <2>2, <2>3
<1>4. ASSUME n <= Remembered, r = result, n = 1 \/ LastAre(s, n - 1, result)
      PROVE  LastAre(t, n, result)
  <2>1. CASE Len(t) = Len(s) + 1 /\ \A i \in 1..Len(s) : t[i] = s[i]
    BY <1>1, <1>2, <1>4, <2>1 DEF LastAre
  <2>2. CASE /\ Len(t) = Len(s) /\ Len(t) >= Remembered
             /\ \A i \in 1..Len(s) - 1 : t[i] = s[i + 1]
    <3>1. ASSUME NEW i \in Len(t) - n + 1 .. Len(t) PROVE t[i] = result
      <4>1. CASE i = Len(t)
        BY <1>1, <1>4, <4>1
      <4>2. CASE i # Len(t)
        <5>1. i \in 1..Len(s) - 1 /\ n # 1
          BY <1>2, <1>4, <2>2, <4>2
        <5>2. t[i] = s[i + 1] /\ i + 1 \in Len(s) - (n - 1) + 1 .. Len(s)
          BY <1>2, <2>2, <5>1
        <5> QED BY <1>4, <5>1, <5>2 DEF LastAre
      <4> QED BY <4>1, <4>2
    <3> QED BY <1>2, <1>4, <2>2, <3>1 DEF LastAre
  <2> QED BY <1>1, <2>1, <2>2
<1> QED
  BY <1>3, <1>4 DEF t

\* The counters know how the history ends: as many losses as count are
\* counted, and as many wins as are counted happened.
ResultsInv ==
    /\ \A n \in 1..LossesToDefensive : LastAre(recent, n, FALSE) => losses >= n
    /\ \A n \in 1..WinsToAggressive : wins >= n => LastAre(recent, n, TRUE)

\* The initial state satisfies the invariant on the recent results.
LEMMA ResultsInit == Init => ResultsInv
  BY InputsAssumption DEF Init, ResultsInv, LastAre

\* What a result does to the counters.
LEMMA Counting ==
    ASSUME TypeOK, NEW pnl \in Pnls, RecordTradeResult(pnl)
    PROVE  LET l == IF pnl >= 0 THEN 0 ELSE losses + 1
               w == IF pnl >= 0 THEN wins + 1 ELSE 0
           IN  /\ l \in Nat /\ w \in Nat /\ (pnl >= 0) \in BOOLEAN
               /\ losses' = Smaller(l, LossesToDefensive)
               /\ wins' = Smaller(w, WinsToAggressive)
               /\ IF ChosenPreset(l, w) # preset THEN ApplyPreset(ChosenPreset(l, w))
                                                 ELSE UNCHANGED <<preset, caps>>
               /\ recent' = Lately(Append(recent, pnl >= 0))
  BY InputsAssumption DEF TypeOK, RecordTradeResult, WinsAfter

\* record_trade_result, with the preset it may force, keeps that invariant.
LEMMA ResultsRecord ==
    ASSUME TypeOK, ResultsInv, NEW pnl \in Pnls, RecordTradeResult(pnl)
    PROVE  ResultsInv'
<1> DEFINE l == IF pnl >= 0 THEN 0 ELSE losses + 1
           w == IF pnl >= 0 THEN wins + 1 ELSE 0
           r == pnl >= 0
<1>1. /\ l \in Nat /\ w \in Nat /\ r \in BOOLEAN /\ recent \in Seq(BOOLEAN)
      /\ losses' = Smaller(l, LossesToDefensive) /\ wins' = Smaller(w, WinsToAggressive)
      /\ recent' = Lately(Append(recent, r))
  BY Counting DEF TypeOK
<1>2. losses \in Nat /\ wins \in Nat /\ LossesToDefensive \in Nat /\ WinsToAggressive \in Nat
      /\ WinsToAggressive <= Remembered
  BY InputsAssumption DEF TypeOK, Remembered, Larger
<1>3. (r => l = 0 /\ w = wins + 1) /\ (~r => l = losses + 1 /\ w = 0)
  OBVIOUS
<1> HIDE DEF l, w, r
<1>4. ASSUME NEW n \in 1..LossesToDefensive, LastAre(recent', n, FALSE)
      PROVE  losses' >= n
  <2>1. r = FALSE /\ (n = 1 \/ LastAre(recent, n - 1, FALSE))
    <3>1. n \in Nat \ {0}
      BY <1>2
    <3>2. LET t == Lately(Append(recent, r))
          IN  LastAre(t, n, FALSE) => r = FALSE /\ (n = 1 \/ LastAre(recent, n - 1, FALSE))
      BY <1>1, <3>1, LastAreGrows
    <3> QED BY <1>1, <1>4, <3>2
  <2>2. losses >= n - 1
    <3>1. CASE n = 1
      BY <1>2, <3>1
    <3>2. CASE n # 1
      <4>1. n - 1 \in 1..LossesToDefensive
        BY <1>2, <3>2
      <4> QED BY <2>1, <3>2, <4>1 DEF ResultsInv
    <3> QED BY <3>1, <3>2
  <2>3. l >= n
    BY <1>2, <1>3, <2>1, <2>2
  <2> QED BY <1>1, <1>2, <2>3 DEF Smaller
<1>5. ASSUME NEW n \in 1..WinsToAggressive, wins' >= n
      PROVE  LastAre(recent', n, TRUE)
  <2>1. w >= n
    BY <1>1, <1>2, <1>5 DEF Smaller
  <2>2. r = TRUE /\ wins >= n - 1
    BY <1>1, <1>2, <1>3, <2>1
  <2>3. n = 1 \/ LastAre(recent, n - 1, TRUE)
    <3>1. n # 1 => n - 1 \in 1..WinsToAggressive
      BY <1>2
    <3> QED BY <2>2, <3>1 DEF ResultsInv
  <2>4. n \in Nat \ {0} /\ n <= Remembered
    BY <1>2, InputsAssumption DEF Remembered, Larger
  <2> QED BY <1>1, <2>2, <2>3, <2>4, LastAreGrows
<1> QED
  BY <1>4, <1>5 DEF ResultsInv

\* Only record_trade_result changes the results; only it and force_preset
\* change the preset.
LEMMA WhoRecords ==
    ASSUME [Next]_vars
    PROVE  \/ \E pnl \in Pnls : RecordTradeResult(pnl)
           \/ UNCHANGED <<recent, losses, wins>> /\ (forced' \/ UNCHANGED <<preset, forced>>)
<1> USE DEF account, market, breaker, sizing, ofEquity, ofTrades
<1> QED
  BY DEF Next, UpdateCapital, UpdateMarketState, UpdateOpenPositions, UpdateDailyPnl,
         UpdateEquity, ForcePreset, ReloadConfig, CheckTrade, Pause, Resume,
         ResumeFromDrawdown, NewDay, vars

\* Every step keeps that invariant.
LEMMA ResultsStep == TypeOK /\ ResultsInv /\ [Next]_vars => ResultsInv'
<1> SUFFICES ASSUME TypeOK, ResultsInv, [Next]_vars PROVE ResultsInv'
  OBVIOUS
<1>1. CASE UNCHANGED <<recent, losses, wins>>
  BY <1>1 DEF ResultsInv
<1> QED
  BY <1>1, WhoRecords, ResultsRecord

\* The preset in force after a result is the one chosen.
LEMMA PresetRecord ==
    ASSUME TypeOK, NEW pnl \in Pnls, RecordTradeResult(pnl)
    PROVE  preset' = ChosenPreset(IF pnl >= 0 THEN 0 ELSE losses + 1,
                                  IF pnl >= 0 THEN wins + 1 ELSE 0)
<1> DEFINE l == IF pnl >= 0 THEN 0 ELSE losses + 1
           w == IF pnl >= 0 THEN wins + 1 ELSE 0
<1>1. IF ChosenPreset(l, w) # preset THEN ApplyPreset(ChosenPreset(l, w))
                                     ELSE UNCHANGED <<preset, caps>>
  BY Counting
<1>2. ChosenPreset(l, w) \in DOMAIN Presets
  BY PresetKnown DEF TypeOK
<1> HIDE DEF l, w
<1>3. preset' = ChosenPreset(l, w)
  BY <1>1, <1>2 DEF ApplyPreset
<1> QED
  BY <1>3 DEF l, w

\* Every step keeps the preset defensive in a losing run.
LEMMA LossRunStep ==
    TypeOK /\ ResultsInv /\ LossRunIsDefensive /\ [Next]_vars => LossRunIsDefensive'
<1> SUFFICES ASSUME TypeOK, ResultsInv, LossRunIsDefensive, [Next]_vars,
                    LastAre(recent', LossesToDefensive, FALSE), ~forced'
             PROVE  preset' = "defensive"
  BY DEF LossRunIsDefensive
<1>1. ASSUME NEW pnl \in Pnls, RecordTradeResult(pnl) PROVE preset' = "defensive"
  <2> DEFINE l == IF pnl >= 0 THEN 0 ELSE losses + 1
             w == IF pnl >= 0 THEN wins + 1 ELSE 0
  <2>1. LossesToDefensive \in 1..LossesToDefensive
    BY InputsAssumption
  <2>2. losses' >= LossesToDefensive
    BY <1>1, <2>1, ResultsRecord DEF ResultsInv
  <2>3. l \in Nat /\ losses' = Smaller(l, LossesToDefensive)
    BY <1>1, Counting
  <2>4. preset' = ChosenPreset(l, w)
    BY <1>1, PresetRecord
  <2> HIDE DEF l, w
  <2>5. l >= LossesToDefensive
    BY <2>2, <2>3, InputsAssumption DEF Smaller
  <2> QED BY <2>4, <2>5 DEF ChosenPreset
<1>2. CASE UNCHANGED <<recent, losses, wins>> /\ UNCHANGED <<preset, forced>>
  BY <1>2 DEF LossRunIsDefensive
<1> QED
  BY <1>1, <1>2, WhoRecords

\* N losses in a row end in the defensive preset, for every N.
THEOREM LossesTurnDefensive == Spec => []LossRunIsDefensive
<1>1. Init => LossRunIsDefensive
  BY InputsAssumption DEF Init, LossRunIsDefensive, LastAre
<1> QED
  BY <1>1, TypeInit, TypeStep, ResultsInit, ResultsStep, LossRunStep, PTL DEF Spec

\* A step that turns the preset aggressive was forced, or follows the wins it takes.
LEMMA AggressiveStep ==
    ASSUME TypeOK, ResultsInv, [Next]_vars, preset # "aggressive", preset' = "aggressive"
    PROVE  forced' \/ (LastAre(recent', WinsToAggressive, TRUE) /\ dvol <= 85)
<1>1. ASSUME NEW pnl \in Pnls, RecordTradeResult(pnl)
      PROVE  LastAre(recent', WinsToAggressive, TRUE) /\ dvol <= 85
  <2> DEFINE l == IF pnl >= 0 THEN 0 ELSE losses + 1
             w == IF pnl >= 0 THEN wins + 1 ELSE 0
  <2>1. w \in Nat /\ wins' = Smaller(w, WinsToAggressive)
    BY <1>1, Counting
  <2>2. preset' = ChosenPreset(l, w)
    BY <1>1, PresetRecord
  <2> HIDE DEF l, w
  <2>3. ~(dvol > 85) /\ w >= WinsToAggressive
    BY <2>2 DEF ChosenPreset
  <2>4. wins' >= WinsToAggressive /\ WinsToAggressive \in 1..WinsToAggressive
    BY <2>1, <2>3, InputsAssumption DEF Smaller
  <2>5. LastAre(recent', WinsToAggressive, TRUE)
    BY <1>1, <2>4, ResultsRecord DEF ResultsInv
  <2>6. dvol \in Nat
    BY DEF TypeOK
  <2>7. dvol <= 85
    BY <2>3, <2>6
  <2> QED BY <2>5, <2>7
<1> QED
  BY <1>1, WhoRecords

\* The engine turns aggressive only on M wins in a row, for every M.
THEOREM AggressiveOnlyEarned == Spec => AggressiveIsEarned
<1>1. TypeOK /\ ResultsInv /\ [Next]_vars =>
        [preset # "aggressive" /\ preset' = "aggressive" =>
           \/ forced'
           \/ LastAre(recent', WinsToAggressive, TRUE) /\ dvol <= 85]_vars
  BY AggressiveStep
<1> QED
  BY <1>1, TypeInit, TypeStep, ResultsInit, ResultsStep, PTL DEF Spec, AggressiveIsEarned

\* The adaptive presets follow the runs of results (risk/engine.py:231-287).
THEOREM PresetsFollow == Spec => PresetsFollowResults
<1> QED
  BY LossesTurnDefensive, AggressiveOnlyEarned, PTL DEF PresetsFollowResults
==============================================================================
