------------------------------- MODULE WSFeed -------------------------------
(***************************************************************************)
(* The WebSocket feed, crypto_options_bot/data/deribit_ws.py: its thread,  *)
(* which connects, subscribes and receives, and the runner's thread, which *)
(* starts the feed, subscribes and pins symbols on it and stops it.        *)
(*                                                                         *)
(* The two share a lock that neither holds while it sends: a thread takes  *)
(* the socket and the channels to add, sends, and records what it sent.    *)
(* The connection may break between any two of these steps.  A channel     *)
(* stands for its symbol; only a symbol that parses as an option or is a   *)
(* currency has one.                                                       *)
(***************************************************************************)
EXTENDS Integers, FiniteSets

CONSTANTS
    Spot,         \* the currencies
    Strikes,      \* options the strip may take
    Legs,         \* symbols the runner may pin: legs of open trades
    Channelless,  \* those of Legs that have no channel (perpetuals)
    MaxAttempts,  \* max_reconnect_attempts
    MaxConns      \* bound on the connections ever made

ASSUME FeedAssumption ==
    /\ Channelless \subseteq Legs /\ (Spot \cup Strikes) \cap Channelless = {}
    /\ MaxAttempts \in Nat /\ MaxConns \in Nat

Threads  == {"feed", "runner"}
Channels == (Spot \cup Strikes \cup Legs) \ Channelless

VARIABLES
    running,    \* _running
    ws,         \* _ws: the number of a connection, 0 for None
    connected,  \* _connected
    record,     \* _subscribed_channels
    keepAlive,  \* _keep_alive
    attempts,   \* _reconnect_attempts
    phase,      \* where the feed's thread is
    caller,     \* where the runner's thread is
    sending,    \* what each thread has taken to send, and on which socket
    link,       \* the last connection, and whether it is up
    opened,     \* the channels the exchange sends on it
    failures    \* history: connects that have failed since the last that did not

feedVars   == <<running, ws, connected, record, keepAlive, attempts>>
threadVars == <<phase, caller, sending>>
feedState  == <<feedVars, threadVars, link, opened, failures>>

Nothing == [step |-> "none", channels |-> {}, socket |-> 0]

FeedInit ==
    /\ running = FALSE /\ ws = 0 /\ connected = FALSE /\ record = {} /\ keepAlive = {}
    /\ attempts = 0 /\ phase = "none" /\ caller = "new"
    /\ sending = [t \in Threads |-> Nothing]
    /\ link = [n |-> 0, up |-> FALSE] /\ opened = {} /\ failures = 0

------------------------------------------------------------------------------
(* _send_subscribe, by either thread. *)

\* Under the lock: the socket and the channels not recorded yet.  Without a
\* connection, or with nothing to add, it returns at once.
Choose(t, channels) ==
    LET add == channels \ record
    IN  sending' = [sending EXCEPT ![t] =
            IF ws = 0 \/ ~connected \/ add = {} THEN Nothing
            ELSE [step |-> "chosen", channels |-> add, socket |-> ws]]

\* Without the lock.  On a broken connection the send may raise, which ends it,
\* or go unnoticed.
Send(t) ==
    /\ sending[t].step = "chosen"
    /\ IF sending[t].socket = link.n /\ link.up
       THEN /\ opened' = opened \cup sending[t].channels
            /\ sending' = [sending EXCEPT ![t].step = "sent"]
       ELSE /\ UNCHANGED opened
            /\ \/ sending' = [sending EXCEPT ![t] = Nothing]
               \/ sending' = [sending EXCEPT ![t].step = "sent"]
    /\ UNCHANGED <<feedVars, phase, caller, link, failures>>

\* mutant: replaces the set instead of adding to it
RecordOnly(t) ==
    /\ sending[t].step = "sent"
    /\ record' = sending[t].channels
    /\ sending' = [sending EXCEPT ![t] = Nothing]
    /\ UNCHANGED <<running, ws, connected, keepAlive, attempts, phase, caller, link, opened, failures>>

RecordSent(t) ==
    /\ sending[t].step = "sent"
    /\ record' = record \cup sending[t].channels
    /\ sending' = [sending EXCEPT ![t] = Nothing]
    /\ UNCHANGED <<running, ws, connected, keepAlive, attempts, phase, caller, link, opened, failures>>

Free(t) == sending[t] = Nothing

------------------------------------------------------------------------------
(* The feed's thread: _run_loop and _connect_and_consume. *)

Go(from, to) == phase = from /\ Free("feed") /\ phase' = to

Top ==
    /\ Go("top", IF running THEN "connecting" ELSE "dead")
    /\ UNCHANGED <<feedVars, caller, sending, link, opened, failures>>

ConnectFails ==
    /\ Go("connecting", "ended")
    /\ failures' = IF failures > MaxAttempts THEN failures ELSE failures + 1
    /\ UNCHANGED <<feedVars, caller, sending, link, opened>>

ConnectSucceeds ==
    /\ Go("connecting", "initial") /\ link.n < MaxConns
    /\ link' = [n |-> link.n + 1, up |-> TRUE] /\ opened' = {}
    /\ ws' = link.n + 1 /\ connected' = TRUE
    /\ attempts' = 0 /\ failures' = 0
    /\ UNCHANGED <<running, record, keepAlive, caller, sending>>

\* _build_initial_channels: the currencies and whatever strip the instruments
\* known at this moment give.
SubscribeInitial ==
    /\ Go("initial", "pins")
    /\ \E strip \in SUBSET Strikes : Choose("feed", Spot \cup strip)
    /\ UNCHANGED <<feedVars, caller, link, opened, failures>>

ReapplyKeepAlive ==
    /\ Go("pins", "receiving")
    /\ Choose("feed", keepAlive \cap Channels)
    /\ UNCHANGED <<feedVars, caller, link, opened, failures>>

\* recv raises, or returns while the feed is stopped: the finally clause.
\* A stop closes the socket under recv, which raises too.
RecvEnds ==
    /\ Go("receiving", "ended")
    /\ ~link.up \/ ~running
    /\ ws' = 0 /\ connected' = FALSE
    /\ link' = [link EXCEPT !.up = FALSE] /\ opened' = {}
    /\ UNCHANGED <<running, record, keepAlive, attempts, caller, sending, failures>>

GivesUp == attempts >= MaxAttempts

\* mutant: the thread ends with its first connection
EndedQuietly ==
    /\ phase = "ended"
    /\ phase' = "dead"
    /\ ws' = 0 /\ connected' = FALSE
    /\ UNCHANGED <<running, record, keepAlive, attempts, caller, sending, link, opened, failures>>

\* _close_ws and _should_reconnect.
EndOfConnection ==
    /\ phase = "ended"
    /\ ws' = 0 /\ connected' = FALSE
    /\ running' = (running /\ ~GivesUp)
    /\ phase' = IF running' THEN "sleeping" ELSE "dead"
    /\ UNCHANGED <<record, keepAlive, attempts, caller, sending, link, opened, failures>>

Slept ==
    /\ Go("sleeping", "top")
    /\ attempts' = attempts + 1
    /\ UNCHANGED <<running, ws, connected, record, keepAlive, caller, sending, link, opened, failures>>

\* The exchange, or the network, ends the connection.
Breaks ==
    /\ link.up
    /\ link' = [link EXCEPT !.up = FALSE] /\ opened' = {}
    /\ UNCHANGED <<feedVars, threadVars, failures>>

------------------------------------------------------------------------------
(* The runner's thread. *)

Turn(from, to) == caller = from /\ Free("runner") /\ caller' = to

\* start: nothing when the feed runs, else a new thread.
Start(from, to) ==
    /\ Turn(from, to)
    /\ IF running THEN UNCHANGED <<running, attempts, phase>>
       ELSE /\ phase \in {"none", "dead"}
            /\ running' = TRUE /\ attempts' = 0 /\ phase' = "top"
    /\ UNCHANGED <<ws, connected, record, keepAlive, sending, link, opened, failures>>

\* _build_feed polls is_connected for 15 s and stops the feed if it never is.
Adopt ==
    /\ Turn("polling", "built") /\ connected
    /\ UNCHANGED <<feedVars, phase, sending, link, opened, failures>>

Reject ==
    /\ Turn("polling", "stopping")
    /\ running' = FALSE
    /\ UNCHANGED <<ws, connected, record, keepAlive, attempts, phase, sending, link, opened, failures>>

SubscribeSpot ==
    /\ Turn("started", "serving")
    /\ Choose("runner", Spot)
    /\ UNCHANGED <<feedVars, phase, link, opened, failures>>

\* keep_alive_subscribe: the pins first, then subscribe.
Pin ==
    /\ Turn("serving", "pinning")
    /\ \E legs \in SUBSET Legs \ {{}} : keepAlive' = keepAlive \cup legs
    /\ UNCHANGED <<running, ws, connected, record, attempts, phase, sending, link, opened, failures>>

SubscribePins ==
    /\ Turn("pinning", "serving")
    /\ Choose("runner", keepAlive \cap Channels)
    /\ UNCHANGED <<feedVars, phase, link, opened, failures>>

Stop ==
    /\ Turn("serving", "stopping")
    /\ running' = FALSE
    /\ UNCHANGED <<ws, connected, record, keepAlive, attempts, phase, sending, link, opened, failures>>

\* _close_ws by the runner: it closes the socket it finds, none while the
\* feed's thread is still connecting.
CloseOnStop ==
    /\ Turn("stopping", "stopped")
    /\ IF ws = link.n THEN link' = [link EXCEPT !.up = FALSE] /\ opened' = {}
                      ELSE UNCHANGED <<link, opened>>
    /\ ws' = 0 /\ connected' = FALSE
    /\ UNCHANGED <<running, record, keepAlive, attempts, phase, sending, failures>>

------------------------------------------------------------------------------
FeedStep ==
    \/ Top \/ ConnectFails \/ ConnectSucceeds \/ SubscribeInitial \/ ReapplyKeepAlive
    \/ RecvEnds \/ EndOfConnection \/ Slept \/ Send("feed") \/ RecordSent("feed")

RunnerStep ==
    \/ Start("new", "polling") \/ Adopt \/ Reject \/ Start("built", "started")
    \/ SubscribeSpot \/ Pin \/ SubscribePins \/ Stop \/ CloseOnStop
    \/ Send("runner") \/ RecordSent("runner")

RunnerEnds == CloseOnStop \/ Send("runner") \/ RecordSent("runner")

FeedNext == FeedStep \/ RunnerStep \/ Breaks

\* The feed's thread runs on, and the runner finishes a stop it has begun.
FeedSpec ==
    /\ FeedInit /\ [][FeedNext]_feedState
    /\ WF_feedState(FeedStep)
    /\ WF_feedState(RunnerEnds)

------------------------------------------------------------------------------
(* Properties. *)

\* The state keeps its shape, and the socket the feed holds is the last one.
FeedTypeOK ==
    /\ running \in BOOLEAN /\ connected \in BOOLEAN
    /\ record \subseteq Channels /\ keepAlive \subseteq Legs /\ opened \subseteq Channels
    /\ attempts \in 0..MaxAttempts /\ failures \in 0..MaxAttempts + 1
    /\ link.n \in 0..MaxConns /\ ws \in {0, link.n}
    /\ connected => ws # 0
    /\ opened # {} => link.up

\* Every pin with a channel is received on the first connection, once both
\* threads are through with it: whichever of them found its channel unrecorded
\* has sent it.
PinsOpenAtFirst ==
    link = [n |-> 1, up |-> TRUE] /\ phase = "receiving" /\ caller = "serving"
        /\ Free("feed") /\ Free("runner")
    => keepAlive \cap Channels \subseteq opened

\* What the exchange sends is recorded, or about to be.
OpenIsRecorded ==
    opened \subseteq record \cup UNION {sending[t].channels : t \in Threads}

\* The feed's thread gives the feed up only after MaxAttempts connects in a row
\* have failed, whatever connections there were before.
GivesUpLate ==
    [][running /\ ~running' /\ caller' # "stopping" => failures >= MaxAttempts]_feedState

\* A feed that is not connected connects again, gives up or is stopped.
Reconnects == []<>(connected \/ ~running)

\* A stop that finds the thread in the middle of connecting ends it all the same.
FeedStops == caller = "stopping" ~> phase = "dead"

\* The two threads on one socket lose no channel between them, on any connection
\* the record of what is open covers what is.
FeedCovers == PinsOpenAtFirst /\ OpenIsRecorded

\* The feed neither gives up too early nor stays down or alive for ever.
FeedGoesOn == GivesUpLate /\ Reconnects /\ FeedStops

\* deribit_ws.py:259-261: "on every (re)connect we ensure all `_keep_alive`
\* channels are open".
PinsOpen ==
    link.up /\ phase = "receiving" /\ caller = "serving" /\ Free("feed") /\ Free("runner")
    => keepAlive \cap Channels \subseteq opened
=============================================================================
