------------------------------ MODULE MCAgents ------------------------------
(* Those who act: the live client, the runner's entries, the trader, the     *)
(* evolver and the scheduler that runs it. They share no state here, so one  *)
(* behaviour follows one of them, which `part` names, while the others stay  *)
(* as they begin. "closing" is the client with one leg, which is filled bit  *)
(* by bit and closed again and again, with no fault or kill switch and the   *)
(* positions read before the first order only.                               *)
EXTENDS DeribitClient, Entries, Trader, Evolver, Scheduler

VARIABLE part

agents == <<part, clientVars, entriesVars, traderVars, evolverVars, schedulerVars>>

\* The client.
OneLeg  == <<[symbol |-> "put", qty |-> -2]>>
TwoLegs == <<[symbol |-> "put", qty |-> -2], [symbol |-> "future", qty |-> 1]>>
MCOptions == {"put"}
MCFutures == {"future"}
MCPlans   == {OneLeg, TwoLegs}

\* The entries: a strangle, a short call and a perpetual on two markets, two
\* expiries and none, with the gate closed in a third market.
Open     == [kind |-> "", name |-> "", regimes |-> {"range", "trending", "volatile"},
             minRank |-> 35, maxRank |-> 100, maxDvol |-> 90, minMomentum |-> 0, minStrikes |-> 1,
             wing |-> 0, width |-> 0, profit |-> 70, target |-> 100, stop |-> 100, minDte |-> 2]
Strangle == [Open EXCEPT !.kind = "short_strangle", !.wing = 40]
Call     == [Open EXCEPT !.kind = "short_call", !.wing = 50]
Trend    == [Open EXCEPT !.kind = "futures_trend", !.minMomentum = 5, !.minStrikes = 0, !.target = 600, !.stop = 200]

MCOrder    == <<Strangle, Call, Trend>>
MCPresets  == {Strangle, Call, Trend}
Strikes    == {1800, 1900, 2000, 2100, 2200}
Market(s, v) == [coin |-> "BTC", strikes |-> Strikes, ltp |-> [o \in Strikes \X Sides |-> 10], spot |-> s,
                 rank |-> 50, dvol |-> v, momentum |-> 6, regime |-> "range", dte |-> 7]
MCContexts == {Market(1960, 60), Market(2060, 60), Market(1960, 40)}
MCExpiries == {Unnamed, 0, 7}
NoNumbers  == {}

\* The trader: judgements of every kind and others; texts that are an object, and
\* texts with an object, a line and a first word that say different things; a block
\* of probabilities has the form llm.py:98-99 describes.
Unsure   == [NoReply EXCEPT !.first = "hold"]
MCSix    == Judgments \cup {Unsure, NoReply}
Json(a, q) == [NoReply EXCEPT !.whole = a, !.braces = a, !.qty = q]
Prose(a, b, c) == [NoReply EXCEPT !.braces = a, !.line = b, !.first = c]
MCTexts  == {Json(a, q) : a \in Actions, q \in {-4, 1, 3}} \cup {Json("raises", 1)}
            \cup {Prose(a, b, c) : a \in {"nothing", "approve", "downsize"},
                                   b \in {"nothing", "raises", "veto", "hold"}, c \in {"nothing", "veto", "approve"}}
MCBlocks == {NoBlock, [content |-> [a \in Actions |-> IF a = "veto" THEN 9 ELSE 1]]}

\* The evolver: a piece of settings.yaml with a risk cap, the number of positions
\* and a preset of it, two strategies that have a profit target each, and a switch.
loss       == "risk.max_trade_loss_pct"
maxOpen    == "risk.max_open_positions"
preset     == "risk.presets.base.max_open_positions"
condor     == "strategy.iron_condor.profit_target_pct"
strangle   == "strategy.short_strangle.profit_target_pct"
straddleOn == "strategy.long_straddle.enabled"

MCLines   == <<loss, maxOpen, preset, condor, strangle, straddleOn>>
MCLeaf    == straddleOn :> "enabled" @@ loss :> "max_trade_loss_pct"
             @@ maxOpen :> "max_open_positions" @@ preset :> "max_open_positions"
             @@ condor :> "profit_target_pct" @@ strangle :> "profit_target_pct"
MCShipped == straddleOn :> 0 @@ loss :> 20 @@ maxOpen :> 10 @@ preset :> 10
             @@ condor :> 70 @@ strangle :> 50
MCLimits  == "profit_target_pct" :> 5 @@ "max_open_positions" :> 1

\* Within the rails, beyond them, too many keys, none such; ids used again, and one
\* answer with two proposals.
Proposal(i, d) == [id |-> i, diff |-> d]
Proposals ==
    {Proposal("a", loss :> 22), Proposal("a", loss :> 40), Proposal("a", loss :> 18),
     Proposal("b", condor :> 72 @@ strangle :> 55),
     Proposal("b", maxOpen :> 11), Proposal("b", preset :> 10 @@ loss :> 21),
     Proposal("b", condor :> 71 @@ strangle :> 51 @@ loss :> 20),
     Proposal("a", "risk.cap" :> 3), Proposal("b", loss :> Text), Proposal("b", loss :> NaN), Proposal("a", straddleOn :> 1)}
MCAnswers == {<<p>> : p \in Proposals} \cup {<<p, q>> : p, q \in {x \in Proposals : x.id = "b"}}

\* The scheduler: a frequent job, a daily one and a slow one; a job may take
\* longer than the shortest interval.
MCJobs == <<1, 0, 2>>

------------------------------------------------------------------------------
\* A part that is not followed begins in one state.
MCInit ==
    /\ part \in {"client", "closing", "entries", "trader", "evolver", "scheduler"}
    /\ ClientInit /\ EvolverInit /\ SchedulerInit
    /\ EntriesInit /\ (part # "entries" => ctx.spot = 2060 /\ nearest = 7)
    /\ TraderInit /\ (part # "trader" => scores)

InClient    == UNCHANGED <<part, entriesVars, traderVars, evolverVars, schedulerVars>>
InEntries   == part = "entries" /\ UNCHANGED <<part, clientVars, traderVars, evolverVars, schedulerVars>>
InTrader    == part = "trader" /\ UNCHANGED <<part, clientVars, entriesVars, evolverVars, schedulerVars>>
InEvolver   == part = "evolver" /\ UNCHANGED <<part, clientVars, entriesVars, traderVars, schedulerVars>>
InScheduler == part = "scheduler" /\ UNCHANGED <<part, clientVars, entriesVars, traderVars, evolverVars>>

\* The plan that is begun, if one is.
Begins(p) == op.kind = "idle" /\ op'.kind = "open" => op'.plan = p

MCNext ==
    \/ part = "client" /\ InClient /\ ClientNext /\ Begins(TwoLegs)
    \/ /\ part = "closing" /\ InClient /\ faults' = 0 /\ ClientNext /\ Begins(OneLeg)
       /\ op'.kind # "list" /\ (op'.kind = "positions" => book = <<>>)
    \/ InEntries /\ EntriesNext
    \/ InTrader /\ TraderNext
    \/ InEvolver /\ EvolverNext
    \/ InScheduler /\ SchedulerNext

MCSpec == MCInit /\ [][MCNext]_agents

\* Every part keeps the shape of its state.
AgentsTypeOK == ClientTypeOK /\ EntriesTypeOK /\ TraderTypeOK /\ EvolverTypeOK /\ SchedulerTypeOK
=============================================================================
