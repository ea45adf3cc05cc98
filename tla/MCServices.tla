----------------------------- MODULE MCServices -----------------------------
(* The parts that keep the bot running and feed it: the supervisor, the      *)
(* guards around it, the event bus, the WebSocket feed and the client of the *)
(* language models. They share no state, so one behaviour follows one of     *)
(* them, which `part` names, while the others stay as they begin.            *)
EXTENDS Supervisor, Guards, EventBus, WSFeed, LLMRouter

VARIABLE part

parts == <<supervisorVars, guardsVars, busState, feedState, routerVars>>
services == <<part, parts>>

\* One currency, two strikes, one of which is a leg like the perpetual.
MCSpot    == {"BTC"}
MCStrikes == {"atm", "far"}
MCLegs    == {"far", "perp"}
MCPerps   == {"perp"}

\* Two subjects; a group on both of them by a pattern, one on the first.
BTC         == <<"tick", "btc">>
ETH         == <<"tick", "eth">>
TwoSubjects == {BTC, ETH}
TwoKeys     == {<<<<"tick", "*">>, "features">>, <<BTC, "collector">>}

MCConfigured == <<"minimax", "anthropic">>
MCTokens     == {1, 2}

\* A part that is not followed begins in one state, in which it may rest.
MCInit ==
    /\ part \in {"supervisor", "guards", "bus", "feed", "router"}
    /\ SupervisorInit /\ BusInit /\ FeedInit
    /\ GuardsInit /\ (part # "guards" => bot[1] = "up")
    /\ RouterInit /\ (part # "router" => settings = [p \in Providers |-> "good"])

InSupervisor == part = "supervisor" /\ UNCHANGED <<part, guardsVars, busState, feedState, routerVars>>
InGuards     == part = "guards" /\ UNCHANGED <<part, supervisorVars, busState, feedState, routerVars>>
InBus        == part = "bus" /\ UNCHANGED <<part, supervisorVars, guardsVars, feedState, routerVars>>
InFeed       == part = "feed" /\ UNCHANGED <<part, supervisorVars, guardsVars, busState, routerVars>>
InRouter     == part = "router" /\ UNCHANGED <<part, supervisorVars, guardsVars, busState, feedState>>

MCNext ==
    \/ InSupervisor /\ SupervisorNext
    \/ InGuards /\ GuardsNext
    \/ InBus /\ BusNext
    \/ InFeed /\ FeedNext
    \/ InRouter /\ RouterNext

\* The fairness of each part's own specification.
Fairness ==
    /\ WF_supervisorVars(InSupervisor /\ LoopStep)
    /\ WF_supervisorVars(InSupervisor /\ ChildObeys)
    /\ WF_guardsVars(InGuards /\ Supervisor)
    /\ WF_guardsVars(InGuards /\ SomeComesUp)
    /\ WF_guardsVars(InGuards /\ Minute)
    /\ WF_guardsVars(InGuards /\ ServiceRestarts)
    /\ WF_guardsVars(InGuards /\ Watchdog)
    /\ \A i \in 1..MaxTasks : WF_busState(InBus /\ RunTask(i))
    /\ WF_busState(InBus /\ StopGoesOn)
    /\ WF_feedState(InFeed /\ FeedStep)
    /\ WF_feedState(InFeed /\ RunnerEnds)
    /\ WF_routerVars(InRouter /\ Step)

MCSpec == MCInit /\ [][MCNext]_services /\ Fairness

\* Every part keeps the shape of its state.
ServicesTypeOK == SupervisorTypeOK /\ GuardsTypeOK /\ BusTypeOK /\ FeedTypeOK /\ RouterTypeOK
=============================================================================
