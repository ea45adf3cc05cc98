-------------------------------- MODULE Trader ---------------------------------
(***************************************************************************)
(* The trader (agent/trader.py) as the runner uses it (__main__.py): every *)
(* plan the risk engine allows is put to a language model, which may veto  *)
(* it or make it smaller; a pass without an entry asks it, now and then,   *)
(* whether staying flat is right.                                          *)
(*                                                                         *)
(* A plan is gated in three tries: six judgements which code turns into a  *)
(* decision, one-token probes where the provider gives probabilities, and  *)
(* an action in plain text.  A text is what each step of the parser finds  *)
(* in it, which need not be what its author means: of "Veto is not         *)
(* warranted" the first word is taken.  A call that fails (LLMRouter) is   *)
(* the reply NoReply.                                                      *)
(***************************************************************************)
EXTENDS Integers, FiniteSets, FiniteSetsExt, Sequences

CONSTANTS
    SixReplies,    \* replies to the question for six judgements
    TextReplies,   \* replies to the question for an action
    Blocks,        \* logprobs blocks the four probes may bring
    MaxQty,        \* bound on the quantity the risk engine allows
    Interval,      \* idle_check_interval_sec in passes of the loop
    MaxClock       \* bound on the passes

Actions == {"approve", "veto", "downsize", "hold"}

\* Of a text only the four actions are taken (trader.py:585-598); a block of
\* probabilities has the form llm.py:97-99 describes: content, and no more.
ASSUME TraderAssumption ==
    /\ \A r \in TextReplies :
         /\ {r.whole, r.braces, r.line} \subseteq Actions \cup {"nothing", "raises"}
         /\ r.first \in Actions \cup {"nothing"} /\ r.qty \in Int
    /\ \A b \in Blocks : "top_logprobs" \notin DOMAIN b
    /\ MaxQty \in Nat /\ MaxClock \in Nat /\ Interval \in 0..MaxClock
NoReply == [whole |-> "nothing", braces |-> "nothing", line |-> "nothing", first |-> "nothing", qty |-> 1]
NoBlock == [empty |-> TRUE]
None    == [action |-> "none", qty |-> 0]     \* no decision
Raised  == [action |-> "raised", qty |-> 0]   \* an exception

VARIABLES
    now,        \* time in passes
    phase,      \* where the runner's pass is: plans, idle, wait
    produced,   \* _cycle_plans_produced
    scores,     \* the last good provider is one taken to give probabilities
    lastIdle,   \* last_idle_check_at
    gate        \* the pass's plan: the quantity allowed, the replies, the decision,
                \* whether it was recorded, and the quantity executed, if any

traderVars == <<now, phase, produced, scores, lastIdle, gate>>

NoGate == [allowed |-> 0, six |-> NoReply, text |-> NoReply, block |-> NoBlock,
           decision |-> None, written |-> TRUE, executed |-> {}, by |-> "nobody"]

TraderInit ==
    /\ now = Interval   \* the first idle question is due at once
    /\ phase = "plans" /\ produced = FALSE
    /\ scores \in BOOLEAN /\ lastIdle = 0 /\ gate = NoGate

------------------------------------------------------------------------------
(* Six judgements. *)

Judgments ==
    [regime    : {"trending_up", "trending_down", "range", "volatile_high", "quiet_low"},
     direction : {"bullish", "bearish", "neutral"},
     toxic     : {"low", "normal", "high"},
     liquidity : {"no", "partial", "yes"},
     quotes    : {"favorable", "normal", "unfavorable"},
     inventory : {"no_pressure", "long_bias", "short_bias"}]

HardVeto(j) ==
    \/ j.toxic = "high" \/ j.liquidity = "yes"
    \/ j.regime = "volatile_high" /\ j.direction = "neutral"

Downsizes(j) ==
    \/ j.quotes = "unfavorable" \/ j.inventory # "no_pressure" \/ j.liquidity = "partial"
    \/ j.regime \in {"trending_up", "trending_down", "volatile_high"}
    \/ j.toxic = "normal"

Clean(j) == j.regime \in {"range", "quiet_low"} /\ j.direction = "neutral"

Aggregate(j) ==
    IF HardVeto(j) THEN "veto"
    ELSE IF Clean(j) /\ ~Downsizes(j) THEN "approve"
    ELSE "downsize"

\* A reply of six valid judgements decides; the size is then 1.
SixDecision(reply) ==
    IF reply \in Judgments THEN [action |-> Aggregate(reply), qty |-> 1] ELSE None

------------------------------------------------------------------------------
(* Probes and text. *)

NotAsked(six, block, text) == six \in Judgments => block = NoBlock /\ text = NoReply

\* The probability of an action is read from the field top_logprobs of the block.
Probability(block, a) == IF "top_logprobs" \in DOMAIN block THEN block.top_logprobs[a] ELSE 0

\* The probable one of the four, when any has a probability.
ProbeDecision(block) ==
    IF \A a \in Actions : Probability(block, a) = 0 THEN None
    ELSE [action |-> CHOOSE a \in Actions : \A b \in Actions : Probability(block, a) >= Probability(block, b),
          qty |-> 1]

\* At least one.
AtLeastOne(q) == Max({1, q})

\* The text as a JSON object; its first {...}; a line with "action:" or
\* "decision is"; its first word.  An action that is no string raises, and so does
\* "action:" with nothing after it.
Parse(reply) ==
    LET said(x) == IF x = "raises" THEN Raised ELSE [action |-> x, qty |-> AtLeastOne(reply.qty)]
        told(x) == IF x = "raises" THEN Raised ELSE [action |-> x, qty |-> 1]
    IN  IF reply.whole # "nothing" THEN said(reply.whole)
        ELSE IF reply.braces # "nothing" THEN said(reply.braces)
        ELSE IF reply.line # "nothing" THEN told(reply.line)
        ELSE IF reply.first # "nothing" THEN told(reply.first)
        ELSE None

Probed(block) == IF scores THEN ProbeDecision(block) ELSE None

\* The provider is asked for probabilities first.
AskLLM(block, text) == IF Probed(block) # None THEN Probed(block) ELSE Parse(text)

\* mutant: without an answer there is no trade
CautiousFallback == [action |-> "veto", qty |-> 1]

Fallback == [action |-> "approve", qty |-> 1]

\* decide_cycle for the one plan of the runner: it has a candidate, and the bot
\* is alive.
Decide(six, block, text) ==
    IF SixDecision(six) # None THEN SixDecision(six)
    ELSE IF AskLLM(block, text) # None THEN AskLLM(block, text)
    ELSE Fallback

\* What the runner makes of it: an exception counts as the risk engine's word,
\* and so does holding.
Sized(allowed, d) ==
    IF d = Raised THEN {allowed}
    ELSE IF d.action = "veto" THEN {}
    ELSE IF d.action = "downsize" THEN {Max({0, Min({d.qty, allowed})})}
    ELSE {allowed}

------------------------------------------------------------------------------
\* A plan is allowed, put to the model and executed.  The decision is written to
\* the history first; when that fails the exception takes its place.
Gate(written) ==
    /\ phase = "plans"
    /\ \E allowed \in 1..MaxQty, six \in SixReplies, text \in TextReplies, block \in Blocks :
        LET said    == Decide(six, block, text)
            decided == IF written THEN said ELSE Raised
        IN  /\ NotAsked(six, block, text)
            /\ gate' = [allowed |-> allowed, six |-> six, text |-> text, block |-> block,
                        decision |-> said, written |-> written, executed |-> Sized(allowed, decided),
                        by |-> IF SixDecision(six) # None THEN "six"
                               ELSE IF Probed(block) # None THEN "probes" ELSE "text"]
    /\ scores' \in BOOLEAN
    /\ \/ produced' = (produced \/ gate'.executed # {})
       \/ produced' = produced     \* execute_plan raised
    /\ phase' = "idle"
    /\ UNCHANGED <<now, lastIdle>>

GateWritten   == Gate(TRUE)
GateUnwritten == Gate(FALSE)

NoPlan ==
    /\ phase = "plans" /\ phase' = "idle"
    /\ UNCHANGED <<now, produced, scores, lastIdle, gate>>

\* The next strategy's plan.
AnotherPlan ==
    /\ phase = "idle" /\ gate # NoGate
    /\ phase' = "plans" /\ gate' = NoGate
    /\ UNCHANGED <<now, produced, scores, lastIdle>>

IdleDue == ~produced /\ now - lastIdle >= Interval

NotDue ==
    /\ phase = "idle" /\ ~IdleDue /\ phase' = "wait"
    /\ gate' = NoGate
    /\ UNCHANGED <<now, produced, scores, lastIdle>>

\* The idle question; whatever comes of it, its time is taken first.
AskIdle ==
    /\ phase = "idle" /\ IdleDue
    /\ lastIdle' = now
    /\ phase' = "wait" /\ scores' \in BOOLEAN
    /\ gate' = NoGate
    /\ UNCHANGED <<now, produced>>

\* The broker or the feed gives nothing to ask about: on to the next pass.
NoContext ==
    /\ phase = "idle" /\ IdleDue
    /\ phase' = "plans" /\ produced' = FALSE
    /\ gate' = NoGate
    /\ UNCHANGED <<now, scores, lastIdle>>

\* The wait at the end of a pass.
Wait ==
    /\ phase = "wait" /\ now < MaxClock
    /\ now' = now + 1
    /\ phase' = "plans" /\ produced' = FALSE
    /\ UNCHANGED <<scores, lastIdle, gate>>

TraderNext == GateWritten \/ GateUnwritten \/ NoPlan \/ AnotherPlan \/ NotDue \/ AskIdle \/ NoContext \/ Wait

TraderSpec == TraderInit /\ [][TraderNext]_traderVars

------------------------------------------------------------------------------
(* Properties. *)

TraderTypeOK ==
    /\ now \in 0..MaxClock /\ phase \in {"plans", "idle", "wait"}
    /\ produced \in BOOLEAN /\ scores \in BOOLEAN
    /\ lastIdle \in 0..now
    /\ gate.allowed \in 0..MaxQty /\ Cardinality(gate.executed) <= 1

\* Whatever the model says and however it fails, a plan is executed with a
\* quantity from one to the risk engine's, or not at all.
OnlyRestricts == gate.executed \subseteq 1..gate.allowed

Readings(text) == {text.whole, text.braces, text.line, text.first}

\* A plan that is not executed was read as vetoed in words, or by judgements that
\* amount to a veto: no failure of the model stops a trade.
OnlyVetoStops ==
    gate.allowed > 0 /\ gate.executed = {} =>
        \/ gate.by = "six" /\ HardVeto(gate.six)
        \/ gate.by = "text" /\ "veto" \in Readings(gate.text)

\* A veto that could be recorded is obeyed.
VetoStops == gate.written /\ gate.decision.action = "veto" => gate.executed = {}

\* tests/test_trader_wiring.py:5: "VETO blocks execution."
VetoBlocks == gate.decision.action = "veto" => gate.executed = {}

\* From good to bad.
Toxic     == <<"low", "normal", "high">>
Liquidity == <<"no", "partial", "yes">>
Quotes    == <<"favorable", "normal", "unfavorable">>
From(order, x) == {order[k] : k \in {m \in DOMAIN order : \E n \in 1..m : order[n] = x}}

Worsenings(j) ==
    [regime    : {j.regime},
     direction : {j.direction},
     toxic     : From(Toxic, j.toxic),
     liquidity : From(Liquidity, j.liquidity),
     quotes    : From(Quotes, j.quotes),
     inventory : {j.inventory, "long_bias", "short_bias"}]

Strictness == [approve |-> 0, downsize |-> 1, veto |-> 2]

\* With a worse market and all else the same a decision never gets looser.
WorseNeverLoosens ==
    gate.by = "six" =>
        \A j \in Worsenings(gate.six) : Strictness[Aggregate(j)] >= Strictness[gate.decision.action]

\* The model can make a trade smaller or stop it, by words that are read so, and
\* more so in a worse market; its failures can do neither.
TraderRestricts == OnlyRestricts /\ OnlyVetoStops /\ VetoStops /\ WorseNeverLoosens

==============================================================================
