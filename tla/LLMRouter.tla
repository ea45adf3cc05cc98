------------------------------ MODULE LLMRouter -------------------------------
(***************************************************************************)
(* The language-model router (agent/llm.py): a call tries the configured   *)
(* providers in order, retries those that are down, blacklists those that  *)
(* refuse the key, and stops at the first answer.  A daily budget is       *)
(* checked before the call and charged after the answer.                   *)
(*                                                                         *)
(* A key is good, bad or not set.  A provider answers as it likes, but     *)
(* gives an answer only for a good key.  Prompts and texts are left out.   *)
(* A process and its client may be started again: the client keeps         *)
(* everything in memory.                                                   *)
(***************************************************************************)
EXTENDS Naturals, Sequences, SequencesExt, FiniteSets

CONSTANTS
    Configured,   \* the providers in the order of the settings
    MaxRetries,   \* max_retries
    DeadFor,      \* the blacklist's 1800 s, in ticks
    DayLength,    \* ticks in a day
    CallLimit,    \* daily_call_limit
    TokenLimit,   \* daily_token_limit
    Tokens,       \* what an answer may cost
    MaxClock,     \* bound on the ticks
    MaxEdits,     \* bound on edits of the settings
    MaxReboots    \* bound on restarts

Providers == ToSet(Configured)
KeyStates == {"good", "bad", "unset"}
Nobody    == "nobody"

\* Names tell the configured providers apart, and an answer may be paid.
ASSUME RouterAssumption ==
    /\ Configured \in Seq(Providers) /\ Nobody \notin Providers
    /\ \A i, j \in DOMAIN Configured : Configured[i] = Configured[j] => i = j
    /\ MaxRetries \in Nat /\ DeadFor \in Nat /\ DayLength \in Nat \ {0}
    /\ CallLimit \in Nat /\ TokenLimit \in Nat
    /\ Tokens \subseteq Nat /\ \E cost \in Tokens : TokenLimit + cost > 0
    /\ MaxClock \in Nat /\ MaxEdits \in Nat /\ MaxReboots \in Nat

VARIABLES
    now,
    settings,   \* the key each provider has in the settings
    clientKeys, \* the keys the client has read
    lastGood,   \* _last_good_provider
    dead,       \* _dead_providers: until when a provider is left out
    budget,     \* the LLMBudget: its day, calls and tokens
    call,       \* the call in progress; history: when it began and whom it asked
    edits, reboots

routerVars == <<now, settings, clientKeys, lastGood, dead, budget, call, edits, reboots>>

Day  == now \div DayLength
Idle == [phase |-> "idle", order |-> <<>>, attempt |-> 0,
         force |-> Nobody, began |-> 0, asked |-> {}]

FreshBudget == [day |-> 0, calls |-> 0, tokens |-> 0]

RouterInit ==
    /\ now = 0 /\ settings \in [Providers -> KeyStates] /\ clientKeys = settings
    /\ lastGood = Nobody /\ dead = [p \in Providers |-> 0]
    /\ budget = FreshBudget /\ call = Idle
    /\ edits = 0 /\ reboots = 0

------------------------------------------------------------------------------
Rolled == IF budget.day = Day THEN budget ELSE [FreshBudget EXCEPT !.day = Day]

Exceeded(b) == b.tokens >= TokenLimit \/ b.calls >= CallLimit

Charged(cost) == [Rolled EXCEPT !.calls = @ + 1, !.tokens = @ + cost]

Place(p) == CHOOSE i \in DOMAIN Configured : Configured[i] = p

\* mutant: the providers from the last good one on
OrderFromLastGood(force) ==
    IF force # Nobody THEN <<force>>
    ELSE IF lastGood = Nobody THEN Configured
    ELSE SubSeq(Configured, Place(lastGood), Len(Configured))

\* The last good provider first, then the others in order; a forced one alone.
ProviderOrder(force) ==
    IF force # Nobody THEN <<force>>
    ELSE IF lastGood = Nobody THEN Configured
    ELSE <<lastGood>> \o RemoveAt(Configured, Place(lastGood))

\* A call begins: the settings are read again if they have changed.
Begin(force) ==
    /\ call.phase = "idle"
    /\ clientKeys' = settings
    /\ budget' = Rolled
    /\ ~Exceeded(Rolled)
    /\ call' = [phase |-> "trying", order |-> ProviderOrder(force), attempt |-> 0,
                force |-> force, began |-> now, asked |-> {}]
    /\ UNCHANGED <<now, settings, lastGood, dead, edits, reboots>>

\* The operator's hourly probe of each provider (operator.py).
Probe == \E p \in Providers : Begin(p)

\* The budget is spent: the caller gets an error.
Refuse ==
    /\ call.phase = "idle"
    /\ clientKeys' = settings
    /\ budget' = Rolled
    /\ Exceeded(Rolled)
    /\ UNCHANGED <<now, settings, lastGood, dead, call, edits, reboots>>

------------------------------------------------------------------------------
Trying     == call.phase = "trying" /\ call.order # <<>>
Current    == Head(call.order)
Available  == clientKeys[Current] # "unset" /\ dead[Current] <= now

NextProvider == call' = [call EXCEPT !.order = Tail(@), !.attempt = 0, !.asked = @ \cup {Current}]

\* Without a key, or blacklisted.
Pass ==
    /\ Trying /\ ~Available
    /\ call' = [call EXCEPT !.order = Tail(@)]
    /\ UNCHANGED <<now, settings, clientKeys, lastGood, dead, budget, edits, reboots>>

\* A network error or a transient status, and attempts are left.
Retry ==
    /\ Trying /\ Available /\ call.attempt < MaxRetries
    /\ call' = [call EXCEPT !.attempt = @ + 1, !.asked = @ \cup {Current}]
    /\ UNCHANGED <<now, settings, clientKeys, lastGood, dead, budget, edits, reboots>>

\* mutant: the provider comes last in the order again
TryAgainLater ==
    /\ Trying /\ Available
    /\ call' = [call EXCEPT !.order = Append(Tail(@), Current), !.attempt = 0, !.asked = @ \cup {Current}]
    /\ UNCHANGED <<now, settings, clientKeys, lastGood, dead, budget, edits, reboots>>

\* A permanent status, or the last attempt.
GiveUp ==
    /\ Trying /\ Available
    /\ NextProvider
    /\ UNCHANGED <<now, settings, clientKeys, lastGood, dead, budget, edits, reboots>>

\* The key is refused.
Blacklist ==
    /\ Trying /\ Available /\ clientKeys[Current] = "bad"
    /\ dead' = [dead EXCEPT ![Current] = now + DeadFor]
    /\ NextProvider
    /\ UNCHANGED <<now, settings, clientKeys, lastGood, budget, edits, reboots>>

Answer ==
    /\ Trying /\ Available /\ clientKeys[Current] = "good"
    /\ \E cost \in Tokens : budget' = Charged(cost)
    /\ lastGood' = Current
    /\ dead' = [dead EXCEPT ![Current] = 0]
    /\ call' = Idle
    /\ UNCHANGED <<now, settings, clientKeys, edits, reboots>>

\* A 200 whose body is not the expected JSON: the exception is not an LLMError
\* and ends the call; nothing is charged.
Garbled ==
    /\ Trying /\ Available /\ clientKeys[Current] = "good"
    /\ call' = Idle
    /\ UNCHANGED <<now, settings, clientKeys, lastGood, dead, budget, edits, reboots>>

\* All providers are through: the last error is raised.
Fail ==
    /\ call.phase = "trying" /\ call.order = <<>>
    /\ call' = Idle
    /\ UNCHANGED <<now, settings, clientKeys, lastGood, dead, budget, edits, reboots>>

------------------------------------------------------------------------------
\* Attempts wait for each other and for answers, calls for the next pass.
ClockTick ==
    /\ now < MaxClock
    /\ now' = now + 1
    /\ UNCHANGED <<settings, clientKeys, lastGood, dead, budget, call, edits, reboots>>

\* The settings name another variable, or the variable another key.
Edit ==
    /\ edits < MaxEdits /\ edits' = edits + 1
    /\ \E p \in Providers : \E k \in KeyStates \ {settings[p]} : settings' = [settings EXCEPT ![p] = k]
    /\ UNCHANGED <<now, clientKeys, lastGood, dead, budget, call, reboots>>

Restart ==
    /\ reboots < MaxReboots /\ reboots' = reboots + 1
    /\ clientKeys' = settings /\ lastGood' = Nobody /\ dead' = [p \in Providers |-> 0]
    /\ budget' = FreshBudget /\ call' = Idle
    /\ UNCHANGED <<now, settings, edits>>

Step == Pass \/ Retry \/ GiveUp \/ Blacklist \/ Answer \/ Garbled \/ Fail

RouterNext ==
    \/ Begin(Nobody) \/ Probe \/ Refuse \/ Step \/ ClockTick \/ Edit \/ Restart

RouterSpec == RouterInit /\ [][RouterNext]_routerVars

\* The client's thread goes on.
RouterFairSpec == RouterSpec /\ WF_routerVars(Step)

------------------------------------------------------------------------------
(* Properties. *)

RouterTypeOK ==
    /\ now \in 0..MaxClock /\ settings \in [Providers -> KeyStates] /\ clientKeys \in [Providers -> KeyStates]
    /\ lastGood \in Providers \cup {Nobody}
    /\ dead \in [Providers -> 0..(MaxClock + DeadFor)]
    /\ call.attempt \in 0..MaxRetries /\ ToSet(call.order) \subseteq Providers
    /\ budget.day <= Day /\ call.asked \subseteq Providers /\ call.began <= now

\* The budget is checked before a call of several providers and attempts and
\* charged after it, perhaps on another day: a client's day still has at most
\* the allowed calls and the last one goes beyond the tokens.
BudgetHolds ==
    /\ budget.calls <= CallLimit
    /\ \E cost \in Tokens : budget.tokens < TokenLimit + cost

Failing == call.phase = "trying" /\ call.order = <<>> /\ call.force = Nobody

\* A call that fails has asked every provider that has a key, whichever was the
\* last good one, except those that a refused key had put on the blacklist for a
\* time which was not over when the call began.
NoneLeftUntried ==
    Failing => \A p \in Providers :
                  clientKeys[p] # "unset" /\ dead[p] <= call.began => p \in call.asked

\* What llm.py:23-24 promises: after a new key the next call tries again, so that a
\* provider with a good key is asked before a call fails.
NewKeyIsTried == Failing => \A p \in Providers : clientKeys[p] = "good" => p \in call.asked

\* Whatever the providers do, a call comes to an end.
CallEnds == []<>(call.phase = "idle")

\* No order of calls, failures, edits and restarts overdraws the budget, or leaves
\* out a provider for another reason than a missing key or a blacklist still in
\* force, be the blacklisted key the current one or not.
RouterKeeps == BudgetHolds /\ NoneLeftUntried

==============================================================================
