------------------------------- MODULE Entries -------------------------------
(***************************************************************************)
(* How the runner enters trades (__main__.py): a cycle builds one context  *)
(* of the market and lets every strategy instance at it in turn, each      *)
(* behind its cooldown, the volatility gate, the comparison with the open  *)
(* trades and the risk engine.  Meanwhile the feed may name another        *)
(* expiry or none.  Orders without a trade are TradeBook's.                *)
(*                                                                         *)
(* An expiry is the days to it, Unnamed when the feed names none.  The     *)
(* plans are those of Plans; the risk engine and the trader are a choice   *)
(* here (RiskLoop, Trader).                                                *)
(***************************************************************************)
EXTENDS Plans, Sequences, SequencesExt

CONSTANTS
    Order,        \* the instances in the order of _build_strategies
    Contexts,     \* markets a cycle may find
    Expiries,     \* what get_nearest_expiry may name
    Cooldown,     \* cooldown_sec in ticks
    MinDvol,      \* the volatility gate
    MinRank,
    MaxTrades     \* bound on the open trades

ASSUME EntriesAssumption == Cooldown \in Nat

Unnamed == -1

VARIABLES
    nearest,   \* the expiry the feed names at this moment
    turn,      \* the instance whose turn it is, 0 between cycles
    cooling,   \* ticks until an instance may enter again
    open       \* the journal's open trades: the expiry and the plan of each, and
               \* whether it was compared with those before it

entriesVars == <<ctx, nearest, turn, cooling, open>>

Instance == Order[turn]
Between  == turn = 0

EntriesInit ==
    /\ ctx \in Contexts /\ nearest \in Expiries /\ turn = 0
    /\ cooling = [i \in DOMAIN Order |-> 0] /\ open = <<>>

------------------------------------------------------------------------------
\* The symbols of a trade's options: a perpetual's strike is 0.  Without an expiry
\* they are those of no option there is.
Symbols(expiry, legs) == {<<expiry, l.strike, l.side>> : l \in {m \in legs : m.strike # 0}}
OpenSymbols == UNION {Symbols(t.expiry, t.legs) : t \in ToSet(open)}

\* mutant: a trade all of whose legs are held
DuplicateIfAll(legs) == Symbols(nearest, legs) \subseteq OpenSymbols

\* A trade one of whose options an open trade has.
Duplicate(legs) == Symbols(nearest, legs) \cap OpenSymbols # {}

GateClosed == \/ ctx.dvol > 0 /\ ctx.dvol < MinDvol
              \/ ctx.rank > 0 /\ ctx.rank < MinRank

Passed == turn' = IF turn = Len(Order) THEN 0 ELSE turn + 1

\* Whether the legs are compared: never without an expiry, and a comparison that
\* fails is passed over.
Compared == IF nearest = Unnamed THEN {FALSE} ELSE BOOLEAN

\* What the instance would trade now.
Candidates(compared) ==
    IF cooling[turn] > 0 \/ GateClosed THEN {}
    ELSE {plan \in PlansOf(Instance) : compared => ~Duplicate(plan.legs)}

\* Allowed, approved and executed.
Enter ==
    /\ ~Between /\ Len(open) < MaxTrades
    /\ \E c \in Compared : \E plan \in Candidates(c) :
        open' = Append(open, [expiry |-> nearest, legs |-> plan.legs, compared |-> c])
    /\ cooling' = [cooling EXCEPT ![turn] = Cooldown]
    /\ Passed
    /\ UNCHANGED <<ctx, nearest>>

\* No plan, a gate, a refusal, a veto, or a leg that cannot be placed: there is no
\* cooldown then.
Skip ==
    /\ ~Between
    /\ Passed
    /\ UNCHANGED <<ctx, nearest, cooling, open>>

------------------------------------------------------------------------------
\* A cycle begins with a context; its expiry is the one named now.
BuildContext ==
    /\ Between
    /\ \E c \in Contexts : ctx' = [c EXCEPT !.dte = nearest]
    /\ turn' = 1
    /\ UNCHANGED <<nearest, cooling, open>>

\* The list of instruments is refreshed or outlives its hour (Chain).
NameExpiry ==
    /\ nearest' \in Expiries
    /\ UNCHANGED <<ctx, turn, cooling, open>>

Tick ==
    /\ Between /\ \E i \in DOMAIN Order : cooling[i] > 0
    /\ cooling' = [i \in DOMAIN Order |-> Max({cooling[i] - 1, 0})]
    /\ UNCHANGED <<ctx, nearest, turn, open>>

\* A target, a stop or the expiry: the trade is closed, and the orders that
\* close it fill.
CloseTrade ==
    /\ Between
    /\ \E i \in DOMAIN open : open' = RemoveAt(open, i)
    /\ UNCHANGED <<ctx, nearest, turn, cooling>>

EntriesNext == \/ BuildContext \/ NameExpiry \/ Tick \/ CloseTrade \/ Enter \/ Skip

EntriesSpec == EntriesInit /\ [][EntriesNext]_entriesVars

------------------------------------------------------------------------------
(* Properties. *)

\* The counters stay within their bounds, and a trade's legs are quoted.
EntriesTypeOK ==
    /\ nearest \in Expiries /\ turn \in 0..Len(Order)
    /\ cooling \in [DOMAIN Order -> 0..Cooldown]
    /\ Len(open) <= MaxTrades
    /\ \A t \in ToSet(open) : t.expiry \in Expiries /\ \A l \in t.legs : l.price > 0

\* Two open trades share an option only if the later one was not compared: no
\* other twins come of the instances' plans, in whatever markets, and although the
\* feed changes its mind on the expiry between the context and the order.
NoTwins ==
    \A i, j \in DOMAIN open : i < j /\ open[j].compared =>
        Symbols(open[i].expiry, open[i].legs) \cap Symbols(open[j].expiry, open[j].legs) = {}

\* What the comparison is for (__main__.py:1036-1039): without it "the same
\* short_strangle fires every cooldown (5 min) and accumulates 3-6 identical
\* positions in a session".
NoneIdentical ==
    \A i, j \in DOMAIN open : i # j =>
        {[l EXCEPT !.price = 0] : l \in open[i].legs} # {[l EXCEPT !.price = 0] : l \in open[j].legs}

==============================================================================
