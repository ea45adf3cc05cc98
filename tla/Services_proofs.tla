---------------------------- MODULE Services_proofs ----------------------------
(***************************************************************************)
(* The services the bot runs on, each proved for itself: they share no     *)
(* state.  The supervisor, for any window, number of restarts and pauses:  *)
(* it never starts a bot that has exited too often, and never before the   *)
(* pause is over.  (Bounds of the pauses rest on powers of two, which the  *)
(* provers do not know; its type correctness is left to TLC.)  The         *)
(* WebSocket feed, for any channels and bounds: the pins are open from the *)
(* first connection on, and what is open is recorded.  The router, for any *)
(* providers, keys, budgets and answers.  The option chain of either feed, *)
(* for any lists, prices and bounds: strip, expiry, strike and rank are    *)
(* sound.                                                                  *)
(***************************************************************************)
EXTENDS Supervisor, WSFeed, LLMRouter, Chain, DataTheorems

(* The supervisor. *)

Places == {"loop", "spawn", "record", "wait", "decide", "sleep"} \cup Ended

\* All exits that count are at least as old as the pause chosen.
Rested == \A i \in DOMAIN exits : exits[i] >= NextBackoff(attempt)

PauseInv ==
    /\ pc = "sleep" => backoff = NextBackoff(attempt) /\ \A i \in DOMAIN exits : exits[i] >= slept
    /\ pc = "spawn" => Rested
    /\ pc = "loop" /\ ~stop => Rested

TimesInv == exits \in Seq(Nat) /\ slept \in Nat /\ attempt \in Nat /\ pc \in Places

SupervisorInductive == TimesInv /\ NeverThrashes /\ PauseInv

------------------------------------------------------------------------------
\* The next backoff is a time.
LEMMA BackoffIsTime == ASSUME NEW n \in Nat PROVE NextBackoff(n) \in Int
<1>1. Initial \in Nat /\ MaxBackoff \in Nat
  BY PolicyAssumption
<1> QED
  BY <1>1 DEF NextBackoff

\* A second later the list is at most as long, and each age is one that grew.
LEMMA OlderAges ==
    ASSUME NEW ages \in Seq(Nat)
    PROVE  /\ Older(ages) \in Seq(Nat) /\ Len(Older(ages)) <= Len(ages)
           /\ \A i \in DOMAIN Older(ages) : \E j \in DOMAIN ages : Older(ages)[i] = ages[j] + 1
<1> DEFINE old == {i \in DOMAIN ages : ages[i] >= Window}
           gone == Cardinality(old)
           n == Len(ages) - gone
<1>1. Len(ages) \in Nat /\ DOMAIN ages = 1..Len(ages) /\ \A i \in 1..Len(ages) : ages[i] \in Nat
  BY LenProperties, ElementOfSeq
<1>2. gone \in Nat /\ gone <= Len(ages)
  <2>1. IsFiniteSet(1..Len(ages)) /\ Cardinality(1..Len(ages)) = Len(ages)
    BY <1>1, FS_Interval
  <2>2. old \subseteq 1..Len(ages)
    BY <1>1
  <2>3. IsFiniteSet(old) /\ gone <= Cardinality(1..Len(ages))
    <3> HIDE DEF old
    <3> QED
      BY <2>1, <2>2, FS_Subset
  <2> HIDE DEF old
  <2> QED
    BY <2>1, <2>3, FS_CardinalityType
<1>3. Older(ages) = [i \in 1..n |-> ages[i + gone] + 1]
  BY DEF Older
<1> HIDE DEF gone
<1>4. n \in Nat /\ n <= Len(ages) /\ \A i \in 1..n : i + gone \in 1..Len(ages)
  BY <1>1, <1>2
<1>5. \A i \in 1..n : ages[i + gone] + 1 \in Nat
  BY <1>1, <1>4
<1>6. Older(ages) \in [1..n -> Nat]
  <2> HIDE DEF n
  <2> QED
    BY <1>3, <1>5
<1>7. Older(ages) \in Seq(Nat) /\ Len(Older(ages)) = n /\ DOMAIN Older(ages) = 1..n
  <2> HIDE DEF n
  <2> QED
    BY <1>4, <1>6, SeqDef, LenProperties
<1>8. \A i \in 1..n : Older(ages)[i] = ages[i + gone] + 1
  <2> HIDE DEF n
  <2> QED
    BY <1>3
<1> QED
  BY <1>1, <1>4, <1>7, <1>8

\* The initial state of the supervisor satisfies its invariant.
LEMMA SupervisorInitInductive == SupervisorInit => SupervisorInductive
<1> SUFFICES ASSUME SupervisorInit PROVE SupervisorInductive
  OBVIOUS
<1>1. exits = <<>> /\ exits \in Seq(Nat) /\ Len(exits) = 0 /\ DOMAIN exits = {}
  BY EmptySeq DEF SupervisorInit
<1>2. MaxRestarts \in Nat /\ MaxRestarts > 0
  BY PolicyAssumption
<1> QED
  BY <1>1, <1>2 DEF SupervisorInit, SupervisorInductive, TimesInv, Places, NeverThrashes, PauseInv, Rested

\* The exit that counts in is the youngest; the supervisor ends if it is one too many.
LEMMA DecideKeeps == ASSUME SupervisorInductive, Decide PROVE SupervisorInductive'
<1>1. exits \in Seq(Nat) /\ attempt \in Nat /\ MaxRestarts \in Nat
  BY PolicyAssumption DEF SupervisorInductive, TimesInv
<1>2. exits' = Append(exits, 0) /\ exits' \in Seq(Nat)
  BY <1>1, AppendProperties DEF Decide
<1>3. Len(exits') \in Nat /\ DOMAIN exits' = 1..Len(exits') /\ \A i \in 1..Len(exits') : exits'[i] \in Nat
  BY <1>2, LenProperties, ElementOfSeq
<1>4. attempt' \in Nat
  BY <1>1 DEF Decide
<1>5. CASE ShouldGiveUp(exits')
  <2>1. pc' = "gaveup" /\ slept' = slept
    BY <1>5 DEF Decide
  <2> QED
    BY <1>2, <1>4, <2>1 DEF SupervisorInductive, TimesInv, Places, Ended, NeverThrashes, PauseInv
<1>6. CASE ~ShouldGiveUp(exits')
  <2>1. pc' = "sleep" /\ backoff' = NextBackoff(attempt') /\ slept' = 0
    BY <1>6 DEF Decide
  <2>2. Len(exits') < MaxRestarts
    BY <1>1, <1>3, <1>6 DEF ShouldGiveUp
  <2>3. \A i \in DOMAIN exits' : exits'[i] >= slept'
    BY <1>3, <2>1
  <2>4. TimesInv' /\ NeverThrashes'
    BY <1>2, <1>4, <2>1, <2>2 DEF TimesInv, Places, NeverThrashes
  <2>5. PauseInv'
    BY <2>1, <2>3 DEF PauseInv, NextBackoff
  <2> QED
    BY <2>4, <2>5 DEF SupervisorInductive
<1> QED
  BY <1>5, <1>6

\* A slice makes the exits older by what it adds to the pause.
LEMMA SliceKeeps == ASSUME SupervisorInductive, SleepSlice PROVE SupervisorInductive'
<1>1. /\ exits \in Seq(Nat) /\ exits' = Older(exits) /\ slept \in Nat /\ slept' = slept + 1
      /\ UNCHANGED <<pc, attempt, backoff, stop>> /\ pc = "sleep"
  BY DEF SupervisorInductive, TimesInv, SleepSlice
<1>2. exits' \in Seq(Nat) /\ Len(exits') <= Len(exits)
      /\ \A i \in DOMAIN exits' : \E j \in DOMAIN exits : exits'[i] = exits[j] + 1
  BY <1>1, OlderAges
<1>3. Len(exits) \in Nat /\ Len(exits') \in Nat /\ MaxRestarts \in Nat
      /\ DOMAIN exits = 1..Len(exits) /\ \A j \in DOMAIN exits : exits[j] \in Nat
  BY <1>1, <1>2, LenProperties, ElementOfSeq, PolicyAssumption
<1>4. Len(exits') < MaxRestarts
  BY <1>1, <1>2, <1>3 DEF SupervisorInductive, NeverThrashes
<1>5. ASSUME NEW i \in DOMAIN exits' PROVE exits'[i] >= slept'
  <2>1. PICK j \in DOMAIN exits : exits'[i] = exits[j] + 1
    BY <1>2
  <2>2. exits[j] \in Nat /\ exits[j] >= slept
    BY <1>1, <1>3 DEF SupervisorInductive, PauseInv
  <2> QED
    BY <1>1, <2>1, <2>2
<1>6. PauseInv'
  BY <1>1, <1>5 DEF SupervisorInductive, PauseInv, NextBackoff
<1>7. TimesInv' /\ NeverThrashes'
  BY <1>1, <1>2, <1>4 DEF SupervisorInductive, TimesInv, NeverThrashes
<1> QED
  BY <1>6, <1>7 DEF SupervisorInductive

\* A tick of the clock keeps the supervisor's invariant.
LEMMA TickKeeps == ASSUME SupervisorInductive, Tick PROVE SupervisorInductive'
<1>1. /\ exits \in Seq(Nat) /\ exits' = Older(exits) /\ pc = "wait"
      /\ UNCHANGED <<pc, attempt, backoff, slept, stop>>
  BY DEF SupervisorInductive, TimesInv, Tick
<1>2. exits' \in Seq(Nat) /\ Len(exits') <= Len(exits)
  BY <1>1, OlderAges
<1>3. Len(exits) \in Nat /\ Len(exits') \in Nat /\ MaxRestarts \in Nat
  BY <1>1, <1>2, LenProperties, PolicyAssumption
<1>4. Len(exits') < MaxRestarts
  BY <1>1, <1>2, <1>3 DEF SupervisorInductive, NeverThrashes
<1> QED
  BY <1>1, <1>2, <1>4 DEF SupervisorInductive, TimesInv, NeverThrashes, PauseInv

\* The pause is over, or the supervisor is told to stop.
LEMMA WakeKeeps == ASSUME SupervisorInductive, Wake PROVE SupervisorInductive'
<1>1. /\ UNCHANGED <<exits, attempt, backoff, slept, stop>> /\ pc = "sleep" /\ pc' = "loop"
      /\ slept >= backoff \/ stop
  BY DEF Wake
<1>2. ASSUME ~stop PROVE Rested
  <2> SUFFICES ASSUME NEW i \in DOMAIN exits PROVE exits[i] >= NextBackoff(attempt)
    BY DEF Rested
  <2>1. exits[i] \in Nat /\ slept \in Nat /\ NextBackoff(attempt) \in Int
    BY LenProperties, ElementOfSeq, BackoffIsTime DEF SupervisorInductive, TimesInv
  <2>2. exits[i] >= slept /\ slept >= NextBackoff(attempt)
    BY <1>1, <1>2 DEF SupervisorInductive, PauseInv
  <2> QED
    BY <2>1, <2>2
<1>3. PauseInv'
  BY <1>1, <1>2 DEF PauseInv, Rested, NextBackoff
<1> QED
  BY <1>1, <1>3 DEF SupervisorInductive, TimesInv, Places, NeverThrashes

\* The other steps leave times alone, and none comes to a start but by TestStop.
LEMMA OthersKeep ==
    ASSUME SupervisorInductive,
           TestStop \/ Spawn \/ SpawnFails \/ Record \/ Reap \/ OnSignal \/ ChildExits \/ ChildHangs \/ UNCHANGED supervisorVars
    PROVE  SupervisorInductive'
<1>1. UNCHANGED <<exits, attempt, backoff, slept>>
  BY DEF TestStop, Spawn, SpawnFails, Record, Reap, OnSignal, ChildExits, ChildHangs, supervisorVars
<1>2. \/ pc' = pc /\ (stop' = stop \/ (stop' = TRUE /\ pc' = pc))
      \/ pc = "loop" /\ pc' = "spawn" /\ ~stop
      \/ pc \in Places \ {"gaveup"} /\ pc' \in {"record", "wait", "decide", "bye", "failed"}
  BY DEF TestStop, Spawn, SpawnFails, Record, Reap, OnSignal, ChildExits, ChildHangs, supervisorVars, Places, Ended
<1>3. TimesInv' /\ NeverThrashes'
  BY <1>1, <1>2 DEF SupervisorInductive, TimesInv, Places, Ended, NeverThrashes
<1>4. PauseInv'
  BY <1>1, <1>2 DEF SupervisorInductive, PauseInv, Rested, NextBackoff
<1> QED
  BY <1>3, <1>4 DEF SupervisorInductive

\* Every step keeps the supervisor's invariant.
LEMMA SupervisorNextInductive == SupervisorInductive /\ [SupervisorNext]_supervisorVars => SupervisorInductive'
  BY DecideKeeps, SliceKeeps, TickKeeps, WakeKeeps, OthersKeep DEF SupervisorNext, LoopStep

\* Every state of the supervisor satisfies its inductive invariant.
THEOREM SupervisorAlwaysInductive == SupervisorSpec => []SupervisorInductive
<1> QED
  BY SupervisorInitInductive, SupervisorNextInductive, PTL DEF SupervisorSpec

\* The supervisor (supervisor.py) never runs a bot, nor is about to, with as many
\* exits in the window as make it give up, for any window and any limit.
THEOREM NeverThrashing == SupervisorSpec => []NeverThrashes
<1>1. SupervisorInductive => NeverThrashes
  BY DEF SupervisorInductive
<1> QED
  BY <1>1, SupervisorAlwaysInductive, PTL

\* No slice, signal or order of them starts a bot before the pause is over, for any
\* first and longest pause.
THEOREM AlwaysPausesFirst == SupervisorSpec => []PausesFirst
<1>1. SupervisorInductive => PausesFirst
  BY DEF SupervisorInductive, PauseInv, Rested, PausesFirst
<1> QED
  BY <1>1, SupervisorAlwaysInductive, PTL

\* The whole policy of restarts.
THEOREM AlwaysPolicyKept == SupervisorSpec => []PolicyKept
<1>1. NeverThrashes /\ PausesFirst => PolicyKept
  BY DEF PolicyKept
<1> QED
  BY <1>1, NeverThrashing, AlwaysPausesFirst, PTL

------------------------------------------------------------------------------
(* The WebSocket feed. *)

Sending == [step : {"none", "chosen", "sent"}, channels : SUBSET Channels, socket : Nat]

Phases  == {"none", "top", "connecting", "initial", "pins", "receiving", "ended", "sleeping", "dead"}
Callers == {"new", "polling", "built", "started", "serving", "pinning", "stopping", "stopped"}

\* What FeedTypeOK says, and what is not its business.
FeedTypeInv ==
    /\ FeedTypeOK
    /\ phase \in Phases /\ caller \in Callers
    /\ sending \in [Threads -> Sending]
    /\ link \in [n : Nat, up : BOOLEAN]

\* The channels a thread has sent but not recorded yet.
Sent(t) == IF sending[t].step = "sent" THEN sending[t].channels ELSE {}

\* An open channel is recorded, or some thread has sent it.  That it was chosen is
\* not enough: a thread drops its choice when the connection breaks.
SentInv == \A c \in opened : c \in record \/ \E t \in Threads : c \in Sent(t)

\* The feed counts at least the failures it has had in a row, up to the next sleep.
AttemptsInv ==
    /\ phase \in {"initial", "pins", "receiving"} => attempts = 0
    /\ phase \in {"ended", "sleeping"} => attempts <= failures
    /\ phase \in {"top", "connecting"} => attempts <= failures + 1
    /\ phase = "sleeping" => attempts < MaxAttempts

FeedInductive == FeedTypeInv /\ SentInv /\ AttemptsInv

------------------------------------------------------------------------------
\* The initial state of the feed satisfies its invariant.
LEMMA FeedInitInductive == FeedInit => FeedInductive
<1> SUFFICES ASSUME FeedInit PROVE FeedInductive
  OBVIOUS
<1>1. Nothing \in Sending
  BY DEF Nothing, Sending
<1>2. FeedTypeInv
  <2>1. attempts \in 0..MaxAttempts /\ failures \in 0..MaxAttempts + 1
    BY FeedAssumption DEF FeedInit
  <2>2. link.n \in 0..MaxConns /\ ws \in {0, link.n} /\ link \in [n : Nat, up : BOOLEAN]
    BY FeedAssumption DEF FeedInit
  <2>3. FeedTypeOK
    BY <2>1, <2>2 DEF FeedInit, FeedTypeOK
  <2>4. phase \in Phases /\ caller \in Callers /\ sending \in [Threads -> Sending]
    BY <1>1 DEF FeedInit, Phases, Callers
  <2> QED
    BY <2>2, <2>3, <2>4 DEF FeedTypeInv
<1>3. SentInv /\ AttemptsInv
  BY DEF FeedInit, SentInv, AttemptsInv
<1> QED
  BY <1>2, <1>3 DEF FeedInductive

\* A thread that is free takes some channels to send, or none.
LEMMA ChooseKeeps ==
    ASSUME FeedInductive, NEW t \in Threads, Free(t), NEW cs \in SUBSET Channels, Choose(t, cs),
           UNCHANGED <<record, opened>>
    PROVE  sending' \in [Threads -> Sending] /\ SentInv'
<1> DEFINE taken == IF ws = 0 \/ ~connected \/ cs \ record = {} THEN Nothing
                    ELSE [step |-> "chosen", channels |-> cs \ record, socket |-> ws]
<1>1. sending \in [Threads -> Sending] /\ ws \in Nat
  BY DEF FeedInductive, FeedTypeInv, FeedTypeOK
<1>2. taken \in Sending /\ taken.step # "sent"
  BY <1>1 DEF Sending, Nothing
<1>3. sending' = [sending EXCEPT ![t] = taken]
  BY DEF Choose
<1>4. sending' \in [Threads -> Sending]
  <2> HIDE DEF taken
  <2> QED
    BY <1>1, <1>2, <1>3
<1>5. sending[t].step # "sent"
  BY DEF Free, Nothing
<1>6. \A u \in Threads : Sent(u)' = Sent(u)
  <2> SUFFICES ASSUME NEW u \in Threads PROVE Sent(u)' = Sent(u)
    OBVIOUS
  <2>1. CASE u = t
    <3>1. sending'[u] = taken
      BY <1>1, <1>3, <2>1
    <3> HIDE DEF taken
    <3> QED
      BY <1>2, <1>5, <2>1, <3>1 DEF Sent
  <2>2. CASE u # t
    <3>1. sending'[u] = sending[u]
      BY <1>1, <1>3, <2>2
    <3> QED
      BY <3>1 DEF Sent
  <2> QED
    BY <2>1, <2>2
<1>7. SentInv'
  BY <1>6 DEF FeedInductive, SentInv
<1> QED
  BY <1>4, <1>7

\* Sending, on the connection there is or on one that is gone.
LEMMA SendKeeps ==
    ASSUME FeedInductive, NEW t \in Threads, Send(t)
    PROVE  FeedInductive'
<1>1. /\ sending \in [Threads -> Sending] /\ sending[t].step = "chosen"
      /\ sending[t].channels \subseteq Channels
  BY DEF FeedInductive, FeedTypeInv, Send, Sending
<1> DEFINE sent == [sending[t] EXCEPT !.step = "sent"]
<1>2. sent \in Sending /\ sent.step = "sent" /\ sent.channels = sending[t].channels /\ Nothing \in Sending
  BY <1>1 DEF Sending, Nothing
<1>3. \/ /\ sending' = [sending EXCEPT ![t] = sent]
         /\ link.up /\ opened' = opened \cup sending[t].channels
      \/ sending' = [sending EXCEPT ![t] = sent] /\ opened' = opened
      \/ sending' = [sending EXCEPT ![t] = Nothing] /\ opened' = opened
  BY DEF Send, FeedInductive, FeedTypeInv
<1> HIDE DEF sent
<1>4. sending' \in [Threads -> Sending]
  BY <1>1, <1>2, <1>3
<1>5. \A u \in Threads \ {t} : sending'[u] = sending[u]
  BY <1>1, <1>3
<1>6. SentInv'
  <2> SUFFICES ASSUME NEW c \in opened' PROVE c \in record' \/ \E u \in Threads : c \in Sent(u)'
    BY DEF SentInv
  <2>1. record' = record
    BY DEF Send, feedVars
  <2>2. CASE c \in opened
    <3>1. CASE c \in record
      BY <2>1, <3>1
    <3>2. CASE c \notin record
      <4>1. PICK u \in Threads : c \in Sent(u)
        BY <2>2, <3>2 DEF FeedInductive, SentInv
      <4>2. u # t
        BY <1>1, <4>1 DEF Sent
      <4> QED
        BY <1>5, <4>1, <4>2 DEF Sent
    <3> QED
      BY <3>1, <3>2
  <2>3. CASE c \notin opened
    <3>1. sending'[t] = sent /\ c \in sending[t].channels
      BY <1>1, <1>3, <2>3
    <3>2. c \in Sent(t)'
      BY <1>2, <3>1 DEF Sent
    <3> QED
      BY <3>2
  <2> QED
    BY <2>2, <2>3
<1>7. UNCHANGED <<running, ws, connected, record, keepAlive, attempts, phase, caller, link, failures>>
  BY DEF Send, feedVars
<1>8. FeedTypeInv'
  BY <1>1, <1>3, <1>4, <1>7 DEF FeedInductive, FeedTypeInv, FeedTypeOK
<1>9. AttemptsInv'
  BY <1>7 DEF FeedInductive, AttemptsInv
<1> QED
  BY <1>6, <1>8, <1>9 DEF FeedInductive

\* Recording what a subscribe has sent keeps the feed's invariant.
LEMMA RecordKeeps ==
    ASSUME FeedInductive, NEW t \in Threads, RecordSent(t)
    PROVE  FeedInductive'
<1>1. sending \in [Threads -> Sending] /\ sending' = [sending EXCEPT ![t] = Nothing]
      /\ record' = record \cup sending[t].channels /\ Nothing \in Sending
  BY DEF FeedInductive, FeedTypeInv, RecordSent, Nothing, Sending
<1>2. sending[t].channels \subseteq Channels /\ sending' \in [Threads -> Sending]
  BY <1>1 DEF Sending
<1>3. UNCHANGED <<running, ws, connected, keepAlive, attempts, phase, caller, link, opened, failures>>
  BY DEF RecordSent
<1>4. SentInv'
  <2> SUFFICES ASSUME NEW c \in opened PROVE c \in record' \/ \E u \in Threads : c \in Sent(u)'
    BY <1>3 DEF SentInv
  <2>1. CASE c \in record
    BY <1>1, <2>1
  <2>2. CASE c \notin record
    <3>1. PICK u \in Threads : c \in Sent(u)
      BY <2>2 DEF FeedInductive, SentInv
    <3>2. CASE u = t
      BY <1>1, <3>1, <3>2 DEF Sent
    <3>3. CASE u # t
      <4>1. sending'[u] = sending[u]
        BY <1>1, <3>3
      <4> QED
        BY <3>1, <4>1 DEF Sent
    <3> QED
      BY <3>2, <3>3
  <2> QED
    BY <2>1, <2>2
<1>5. FeedTypeInv'
  BY <1>1, <1>2, <1>3 DEF FeedInductive, FeedTypeInv, FeedTypeOK
<1>6. AttemptsInv'
  BY <1>3 DEF FeedInductive, AttemptsInv
<1> QED
  BY <1>4, <1>5, <1>6 DEF FeedInductive

------------------------------------------------------------------------------
\* Nothing is sent or recorded.
LEMMA SentUnchanged ==
    ASSUME FeedInductive, UNCHANGED <<record, sending>>, opened' = opened \/ opened' = {}
    PROVE  SentInv'
  BY DEF FeedInductive, SentInv, Sent

\* The steps of the feed's own loop keep the feed's invariant.
LEMMA FeedKeeps ==
    ASSUME FeedInductive,
           \/ Top \/ ConnectFails \/ ConnectSucceeds \/ RecvEnds \/ EndOfConnection \/ Slept
    PROVE  FeedInductive'
<1>1. /\ link \in [n : Nat, up : BOOLEAN] /\ attempts \in Nat /\ failures \in Nat
      /\ attempts <= MaxAttempts /\ failures <= MaxAttempts + 1 /\ MaxAttempts \in Nat
  BY FeedAssumption DEF FeedInductive, FeedTypeInv, FeedTypeOK
<1>2. CASE Top
  <2>1. UNCHANGED <<running, ws, connected, record, keepAlive, attempts, caller, sending, link, opened, failures>>
        /\ phase = "top" /\ phase' \in {"connecting", "dead"}
    BY <1>2 DEF Top, Go, feedVars
  <2>2. FeedTypeInv'
    BY <2>1 DEF FeedInductive, FeedTypeInv, FeedTypeOK, Phases
  <2>3. AttemptsInv'
    BY <2>1 DEF FeedInductive, AttemptsInv
  <2> QED
    BY <2>1, <2>2, <2>3, SentUnchanged DEF FeedInductive
<1>3. CASE ConnectFails
  <2>1. UNCHANGED <<running, ws, connected, record, keepAlive, attempts, caller, sending, link, opened>>
        /\ phase = "connecting" /\ phase' = "ended"
        /\ failures' = IF failures > MaxAttempts THEN failures ELSE failures + 1
    BY <1>3 DEF ConnectFails, Go, feedVars
  <2>2. failures' \in 0..MaxAttempts + 1 /\ attempts <= failures'
    BY <1>1, <2>1 DEF FeedInductive, AttemptsInv
  <2>3. FeedTypeInv'
    BY <2>1, <2>2 DEF FeedInductive, FeedTypeInv, FeedTypeOK, Phases
  <2>4. AttemptsInv'
    BY <2>1, <2>2 DEF AttemptsInv
  <2> QED
    BY <2>1, <2>3, <2>4, SentUnchanged DEF FeedInductive
<1>4. CASE ConnectSucceeds
  <2>1. /\ UNCHANGED <<running, record, keepAlive, caller, sending>>
        /\ phase' = "initial" /\ link.n < MaxConns /\ link' = [n |-> link.n + 1, up |-> TRUE]
        /\ opened' = {} /\ ws' = link.n + 1 /\ connected' = TRUE /\ attempts' = 0 /\ failures' = 0
    BY <1>4 DEF ConnectSucceeds, Go
  <2>2. link'.n = link.n + 1 /\ link'.up = TRUE /\ link.n + 1 \in 0..MaxConns
    BY <1>1, <2>1, FeedAssumption
  <2>3. FeedTypeInv'
    <3>1. ws' \in {0, link'.n} /\ ws' # 0 /\ attempts' \in 0..MaxAttempts /\ failures' \in 0..MaxAttempts + 1
      BY <1>1, <2>1, <2>2
    <3>2. link' \in [n : Nat, up : BOOLEAN]
      BY <1>1, <2>1
    <3>3. FeedTypeOK'
      BY <2>1, <2>2, <3>1 DEF FeedInductive, FeedTypeInv, FeedTypeOK
    <3> QED
      BY <2>1, <3>2, <3>3 DEF FeedInductive, FeedTypeInv, Phases
  <2>4. AttemptsInv'
    BY <2>1 DEF AttemptsInv
  <2> QED
    BY <2>1, <2>3, <2>4, SentUnchanged DEF FeedInductive
<1>5. CASE RecvEnds
  <2>1. /\ UNCHANGED <<running, record, keepAlive, attempts, caller, sending, failures>>
        /\ phase = "receiving" /\ phase' = "ended" /\ ws' = 0 /\ connected' = FALSE
        /\ link' = [link EXCEPT !.up = FALSE] /\ opened' = {}
    BY <1>5 DEF RecvEnds, Go
  <2>2. link'.n = link.n /\ link' \in [n : Nat, up : BOOLEAN]
    BY <1>1, <2>1
  <2>3. FeedTypeInv'
    BY <2>1, <2>2 DEF FeedInductive, FeedTypeInv, FeedTypeOK, Phases
  <2>4. AttemptsInv'
    BY <1>1, <2>1 DEF FeedInductive, AttemptsInv
  <2> QED
    BY <2>1, <2>3, <2>4, SentUnchanged DEF FeedInductive
<1>6. CASE EndOfConnection
  <2>1. /\ UNCHANGED <<record, keepAlive, attempts, caller, sending, link, opened, failures>>
        /\ phase = "ended" /\ ws' = 0 /\ connected' = FALSE /\ running' \in BOOLEAN
        /\ phase' = IF running' THEN "sleeping" ELSE "dead"
        /\ running' => attempts < MaxAttempts
    <3>1. running' = (running /\ ~GivesUp)
      BY <1>6 DEF EndOfConnection
    <3>2. running' \in BOOLEAN
      BY <3>1, Zenon
    <3>3. ASSUME running' PROVE attempts < MaxAttempts
      <4>1. ~(attempts >= MaxAttempts)
        BY <3>1, <3>3 DEF GivesUp
      <4> QED
        BY <1>1, <4>1
    <3>4. /\ UNCHANGED <<record, keepAlive, attempts, caller, sending, link, opened, failures>>
          /\ phase = "ended" /\ ws' = 0 /\ connected' = FALSE
          /\ phase' = IF running' THEN "sleeping" ELSE "dead"
      BY <1>6 DEF EndOfConnection
    <3> QED
      BY <3>2, <3>3, <3>4
  <2>2. FeedTypeInv'
    BY <2>1 DEF FeedInductive, FeedTypeInv, FeedTypeOK, Phases
  <2>3. AttemptsInv'
    BY <1>1, <2>1 DEF FeedInductive, AttemptsInv
  <2> QED
    BY <2>1, <2>2, <2>3, SentUnchanged DEF FeedInductive
<1>7. CASE Slept
  <2>1. /\ UNCHANGED <<running, ws, connected, record, keepAlive, caller, sending, link, opened, failures>>
        /\ phase = "sleeping" /\ phase' = "top" /\ attempts' = attempts + 1
    BY <1>7 DEF Slept, Go
  <2>2. attempts' \in 0..MaxAttempts /\ attempts' <= failures + 1
    BY <1>1, <2>1 DEF FeedInductive, AttemptsInv
  <2>3. FeedTypeInv'
    BY <2>1, <2>2 DEF FeedInductive, FeedTypeInv, FeedTypeOK, Phases
  <2>4. AttemptsInv'
    BY <2>1, <2>2 DEF AttemptsInv
  <2> QED
    BY <2>1, <2>3, <2>4, SentUnchanged DEF FeedInductive
<1> QED
  BY <1>2, <1>3, <1>4, <1>5, <1>6, <1>7

\* The feed's thread subscribes when it has connected, then the pins.
LEMMA FeedSubscribesKeeps ==
    ASSUME FeedInductive, SubscribeInitial \/ ReapplyKeepAlive
    PROVE  FeedInductive'
<1>1. /\ UNCHANGED <<running, ws, connected, record, keepAlive, attempts, caller, link, opened, failures>>
      /\ Free("feed") /\ phase \in {"initial", "pins"} /\ phase' \in {"pins", "receiving"}
  BY DEF SubscribeInitial, ReapplyKeepAlive, Go, feedVars
<1>2. \E cs \in SUBSET Channels : Choose("feed", cs)
  <2>1. CASE SubscribeInitial
    <3>1. PICK strip \in SUBSET Strikes : Choose("feed", Spot \cup strip)
      BY <2>1 DEF SubscribeInitial
    <3>2. Spot \cup strip \in SUBSET Channels
      BY FeedAssumption DEF Channels
    <3> QED
      BY <3>1, <3>2
  <2>2. CASE ReapplyKeepAlive
    BY <2>2 DEF ReapplyKeepAlive
  <2> QED
    BY <2>1, <2>2
<1>3. sending' \in [Threads -> Sending] /\ SentInv'
  <2>1. "feed" \in Threads
    BY DEF Threads
  <2> QED
    BY <1>1, <1>2, <2>1, ChooseKeeps
<1>4. FeedTypeInv'
  BY <1>1, <1>3 DEF FeedInductive, FeedTypeInv, FeedTypeOK, Phases
<1>5. AttemptsInv'
  BY <1>1 DEF FeedInductive, AttemptsInv
<1> QED
  BY <1>3, <1>4, <1>5 DEF FeedInductive

\* The runner's subscriptions keep the feed's invariant.
LEMMA RunnerSubscribesKeeps ==
    ASSUME FeedInductive, SubscribeSpot \/ SubscribePins
    PROVE  FeedInductive'
<1>1. /\ UNCHANGED <<running, ws, connected, record, keepAlive, attempts, phase, link, opened, failures>>
      /\ Free("runner") /\ caller' = "serving"
  BY DEF SubscribeSpot, SubscribePins, Turn, feedVars
<1>2. \E cs \in SUBSET Channels : Choose("runner", cs)
  <2>1. Spot \in SUBSET Channels /\ keepAlive \cap Channels \in SUBSET Channels
    BY FeedAssumption DEF Channels
  <2> QED
    BY <2>1 DEF SubscribeSpot, SubscribePins
<1>3. sending' \in [Threads -> Sending] /\ SentInv'
  <2>1. "runner" \in Threads
    BY DEF Threads
  <2> QED
    BY <1>1, <1>2, <2>1, ChooseKeeps
<1>4. FeedTypeInv'
  BY <1>1, <1>3 DEF FeedInductive, FeedTypeInv, FeedTypeOK, Callers
<1>5. AttemptsInv'
  BY <1>1 DEF FeedInductive, AttemptsInv
<1> QED
  BY <1>3, <1>4, <1>5 DEF FeedInductive

\* The runner's other steps, and the connection breaking, keep the feed's invariant.
LEMMA RunnerKeeps ==
    ASSUME FeedInductive,
           \/ \E from, to \in Callers : Start(from, to)
           \/ Adopt \/ Reject \/ Pin \/ Stop \/ CloseOnStop \/ Breaks
    PROVE  FeedInductive'
<1>1. link \in [n : Nat, up : BOOLEAN] /\ MaxAttempts \in Nat
  BY FeedAssumption DEF FeedInductive, FeedTypeInv
<1>2. CASE \E from, to \in Callers : Start(from, to)
  <2>1. /\ UNCHANGED <<ws, connected, record, keepAlive, sending, link, opened, failures>>
        /\ caller' \in Callers
        /\ \/ UNCHANGED <<running, attempts, phase>>
           \/ running' = TRUE /\ attempts' = 0 /\ phase' = "top"
    BY <1>2 DEF Start, Turn
  <2>2. FeedTypeInv'
    <3>1. running' \in BOOLEAN /\ phase' \in Phases /\ attempts' \in 0..MaxAttempts
      <4>1. running \in BOOLEAN /\ phase \in Phases /\ attempts \in 0..MaxAttempts /\ 0 \in 0..MaxAttempts
        BY <1>1 DEF FeedInductive, FeedTypeInv, FeedTypeOK
      <4>2. "top" \in Phases
        BY DEF Phases
      <4> QED
        BY <2>1, <4>1, <4>2
    <3> QED
      BY <2>1, <3>1 DEF FeedInductive, FeedTypeInv, FeedTypeOK
  <2>3. AttemptsInv'
    <3>1. failures \in Nat
      BY FeedAssumption DEF FeedInductive, FeedTypeInv, FeedTypeOK
    <3> QED
      BY <2>1, <3>1 DEF FeedInductive, AttemptsInv
  <2> QED
    BY <2>1, <2>2, <2>3, SentUnchanged DEF FeedInductive
<1>3. CASE Adopt \/ Reject \/ Pin \/ Stop
  <2>1. /\ UNCHANGED <<ws, connected, record, attempts, phase, sending, link, opened, failures>>
        /\ caller' \in Callers /\ running' \in BOOLEAN /\ keepAlive' \subseteq Legs
    <3>1. keepAlive \subseteq Legs /\ running \in BOOLEAN
      BY DEF FeedInductive, FeedTypeInv, FeedTypeOK
    <3>2. CASE Adopt
      BY <3>1, <3>2 DEF Adopt, Turn, feedVars, Callers
    <3>3. CASE Reject
      BY <3>1, <3>3 DEF Reject, Turn, Callers
    <3>4. CASE Pin
      BY <3>1, <3>4 DEF Pin, Turn, Callers
    <3>5. CASE Stop
      BY <3>1, <3>5 DEF Stop, Turn, Callers
    <3> QED
      BY <1>3, <3>2, <3>3, <3>4, <3>5
  <2>2. FeedTypeInv'
    BY <2>1 DEF FeedInductive, FeedTypeInv, FeedTypeOK
  <2>3. AttemptsInv'
    BY <2>1 DEF FeedInductive, AttemptsInv
  <2> QED
    BY <2>1, <2>2, <2>3, SentUnchanged DEF FeedInductive
<1>4. CASE CloseOnStop
  <2>1. /\ UNCHANGED <<running, record, keepAlive, attempts, phase, sending, failures>>
        /\ caller' = "stopped" /\ ws' = 0 /\ connected' = FALSE
        /\ \/ link' = [link EXCEPT !.up = FALSE] /\ opened' = {}
           \/ UNCHANGED <<link, opened>>
    BY <1>4 DEF CloseOnStop, Turn
  <2>2. link'.n = link.n /\ link' \in [n : Nat, up : BOOLEAN]
    BY <1>1, <2>1
  <2>3. FeedTypeInv'
    BY <2>1, <2>2 DEF FeedInductive, FeedTypeInv, FeedTypeOK, Callers
  <2>4. AttemptsInv'
    BY <2>1 DEF FeedInductive, AttemptsInv
  <2> QED
    BY <2>1, <2>3, <2>4, SentUnchanged DEF FeedInductive
<1>5. CASE Breaks
  <2>1. /\ UNCHANGED <<running, ws, connected, record, keepAlive, attempts, phase, caller, sending, failures>>
        /\ link' = [link EXCEPT !.up = FALSE] /\ opened' = {}
    BY <1>5 DEF Breaks, feedVars, threadVars
  <2>2. link'.n = link.n /\ link' \in [n : Nat, up : BOOLEAN]
    BY <1>1, <2>1
  <2>3. FeedTypeInv'
    BY <2>1, <2>2 DEF FeedInductive, FeedTypeInv, FeedTypeOK
  <2>4. AttemptsInv'
    BY <2>1 DEF FeedInductive, AttemptsInv
  <2> QED
    BY <2>1, <2>3, <2>4, SentUnchanged DEF FeedInductive
<1> QED
  BY <1>2, <1>3, <1>4, <1>5

\* A step that changes nothing keeps the feed's invariant.
LEMMA FeedStutterKeeps == ASSUME FeedInductive, UNCHANGED feedState PROVE FeedInductive'
<1>1. UNCHANGED <<running, ws, connected, record, keepAlive, attempts, phase, caller, sending, link, opened, failures>>
  BY DEF feedState, feedVars, threadVars
<1>2. FeedTypeInv'
  BY <1>1 DEF FeedInductive, FeedTypeInv, FeedTypeOK
<1>3. AttemptsInv'
  BY <1>1 DEF FeedInductive, AttemptsInv
<1> QED
  BY <1>1, <1>2, <1>3, SentUnchanged DEF FeedInductive

\* Every step keeps the feed's invariant.
LEMMA FeedNextInductive == FeedInductive /\ [FeedNext]_feedState => FeedInductive'
<1> SUFFICES ASSUME FeedInductive, [FeedNext]_feedState PROVE FeedInductive'
  OBVIOUS
<1>1. CASE FeedStep
  <2>1. "feed" \in Threads
    BY DEF Threads
  <2> QED
    BY <1>1, <2>1, FeedKeeps, FeedSubscribesKeeps, SendKeeps, RecordKeeps DEF FeedStep
<1>2. CASE RunnerStep
  <2>1. "runner" \in Threads
    BY DEF Threads
  <2>2. Start("new", "polling") \/ Start("built", "started") => \E from, to \in Callers : Start(from, to)
    BY DEF Callers
  <2> QED
    BY <1>2, <2>1, <2>2, RunnerKeeps, RunnerSubscribesKeeps, SendKeeps, RecordKeeps DEF RunnerStep
<1>3. CASE Breaks
  BY <1>3, RunnerKeeps
<1>4. CASE UNCHANGED feedState
  BY <1>4, FeedStutterKeeps
<1> QED
  BY <1>1, <1>2, <1>3, <1>4 DEF FeedNext

\* Every state of the feed satisfies its inductive invariant.
THEOREM FeedAlwaysInductive == FeedSpec => []FeedInductive
<1> QED
  BY FeedInitInductive, FeedNextInductive, PTL DEF FeedSpec

\* The feed's state keeps its shape (data/deribit_ws.py), and the socket it holds
\* is the last one it opened.
THEOREM FeedTypeCorrect == FeedSpec => []FeedTypeOK
<1>1. FeedInductive => FeedTypeOK
  BY DEF FeedInductive, FeedTypeInv
<1> QED
  BY <1>1, FeedAlwaysInductive, PTL

\* Whatever the two threads subscribe and whenever the connection breaks between
\* a choice, a send and a record, no channel is received that the feed does not
\* know of or is about to record.
THEOREM OpenAlwaysRecorded == FeedSpec => []OpenIsRecorded
<1>1. FeedInductive => OpenIsRecorded
  BY DEF FeedInductive, SentInv, Sent, OpenIsRecorded
<1> QED
  BY <1>1, FeedAlwaysInductive, PTL

\* For any number of attempts: the feed's thread gives up only after that many
\* connects in a row have failed.
THEOREM GivesUpOnlyLate == FeedSpec => GivesUpLate
<1>1. FeedInductive /\ [FeedNext]_feedState => (running /\ ~running' /\ caller' # "stopping" => failures >= MaxAttempts)
  <2> SUFFICES ASSUME FeedInductive, [FeedNext]_feedState, running, ~running', caller' # "stopping"
               PROVE  failures >= MaxAttempts
    OBVIOUS
  <2>1. CASE EndOfConnection
    <3>1. attempts \in Nat /\ failures \in Nat /\ MaxAttempts \in Nat
      BY FeedAssumption DEF FeedInductive, FeedTypeInv, FeedTypeOK
    <3>2. GivesUp /\ phase = "ended"
      <4>1. running' = (running /\ ~GivesUp) /\ phase = "ended"
        BY <2>1 DEF EndOfConnection
      <4> QED
        BY <4>1, Zenon
    <3>3. attempts >= MaxAttempts /\ attempts <= failures
      BY <3>2 DEF GivesUp, FeedInductive, AttemptsInv
    <3> QED
      BY <3>1, <3>3
  <2>2. CASE ~EndOfConnection
    <3>1. running \in BOOLEAN
      BY DEF FeedInductive, FeedTypeInv, FeedTypeOK
    <3>2. CASE FeedStep
      <4>1. running' = running
        BY <2>2, <3>2 DEF FeedStep, feedVars, Top, ConnectFails, ConnectSucceeds, SubscribeInitial,
                          ReapplyKeepAlive, RecvEnds, Slept, Send, RecordSent
      <4> QED
        BY <4>1
    <3>3. CASE \E from, to : Start(from, to)
      <4>1. running' = running \/ running' = TRUE
        BY <3>3 DEF Start
      <4> QED
        BY <4>1
    <3>4. CASE Reject \/ Stop
      BY <3>4 DEF Reject, Stop, Turn
    <3>5. CASE Adopt \/ SubscribeSpot \/ Pin \/ SubscribePins \/ CloseOnStop \/ Send("runner") \/ RecordSent("runner")
      <4>1. running' = running
        BY <3>5 DEF feedVars, Adopt, SubscribeSpot, Pin, SubscribePins, CloseOnStop, Send, RecordSent
      <4> QED
        BY <4>1
    <3>6. CASE Breaks \/ UNCHANGED feedState
      <4>1. running' = running
        BY <3>6 DEF Breaks, feedState, feedVars
      <4> QED
        BY <4>1
    <3> QED
      BY <3>2, <3>3, <3>4, <3>5, <3>6 DEF FeedNext, RunnerStep
  <2> QED
    BY <2>1, <2>2
<1> QED
  BY <1>1, FeedAlwaysInductive, PTL DEF FeedSpec, GivesUpLate

------------------------------------------------------------------------------
(* The pins on the first connection. *)

\* A channel is received, or a thread is about to send it.
Covered(c) == c \in opened \/ \E t \in Threads : c \in sending[t].channels

OnFirst == link.n = 1 /\ link.up

\* Before the first connection nothing is sent; a connection that is up is the one
\* the feed holds; on the first one all that is recorded is received, and the pins
\* are covered once they have been subscribed.
FirstInv ==
    /\ link.n = 0 => ~link.up /\ record = {} /\ \A t \in Threads : sending[t] = Nothing
    /\ link.up => phase \in {"initial", "pins", "receiving"} /\ ws = link.n /\ connected
    /\ OnFirst => /\ record \subseteq opened
                  /\ \A t \in Threads : /\ sending[t].step = "sent" => sending[t].channels \subseteq opened
                                        /\ sending[t].step = "chosen" => sending[t].socket = 1
    /\ OnFirst /\ phase = "receiving" /\ caller # "pinning"
         => \A c \in keepAlive \cap Channels : Covered(c)

\* What a thread takes to send: nothing before the first connection, on it all
\* that is not received yet; nothing that was covered is forgotten.
LEMMA ChooseCovers ==
    ASSUME FeedInductive, FirstInv, NEW t \in Threads, Free(t), NEW cs \in SUBSET Channels, Choose(t, cs),
           UNCHANGED <<record, opened>>
    PROVE  /\ link.n = 0 => \A u \in Threads : sending'[u] = Nothing
           /\ OnFirst => /\ \A u \in Threads : /\ sending'[u].step = "sent" => sending'[u].channels \subseteq opened
                                               /\ sending'[u].step = "chosen" => sending'[u].socket = 1
                         /\ \A c \in cs : Covered(c)'
           /\ \A c \in Channels : Covered(c) => Covered(c)'
<1> DEFINE taken == IF ws = 0 \/ ~connected \/ cs \ record = {} THEN Nothing
                    ELSE [step |-> "chosen", channels |-> cs \ record, socket |-> ws]
<1>1. sending \in [Threads -> Sending] /\ link \in [n : Nat, up : BOOLEAN] /\ connected \in BOOLEAN
      /\ ws \in {0, link.n} /\ (connected => ws # 0)
  BY DEF FeedInductive, FeedTypeInv, FeedTypeOK
<1>2. sending' = [sending EXCEPT ![t] = taken]
  BY DEF Choose
<1>3. link.n = 0 => taken = Nothing
  BY <1>1
<1>4. OnFirst => /\ taken = IF cs \ record = {} THEN Nothing
                            ELSE [step |-> "chosen", channels |-> cs \ record, socket |-> 1]
                 /\ record \subseteq opened
  BY <1>1 DEF OnFirst, FirstInv
<1>5. OnFirst => /\ taken.step # "sent" /\ (taken.step = "chosen" => taken.socket = 1)
                 /\ cs \ record \subseteq taken.channels
  <2> HIDE DEF taken
  <2> QED BY <1>4 DEF Nothing
<1> HIDE DEF taken
<1>6. sending'[t] = taken /\ \A u \in Threads \ {t} : sending'[u] = sending[u]
  BY <1>1, <1>2
<1>7. link.n = 0 => \A u \in Threads : sending'[u] = Nothing
  BY <1>3, <1>6 DEF FirstInv
<1>8. OnFirst => \A u \in Threads : /\ sending'[u].step = "sent" => sending'[u].channels \subseteq opened
                                    /\ sending'[u].step = "chosen" => sending'[u].socket = 1
  BY <1>5, <1>6 DEF FirstInv
<1>9. ASSUME OnFirst, NEW c \in cs PROVE Covered(c)'
  <2>1. CASE c \in record
    BY <1>4, <1>9, <2>1 DEF Covered
  <2>2. CASE c \notin record
    BY <1>5, <1>6, <1>9, <2>2 DEF Covered
  <2> QED BY <2>1, <2>2
<1>10. ASSUME NEW c \in Channels, Covered(c) PROVE Covered(c)'
  <2>1. CASE c \in opened
    BY <2>1 DEF Covered
  <2>2. CASE c \notin opened
    <3>1. PICK u \in Threads : c \in sending[u].channels
      BY <1>10, <2>2 DEF Covered
    <3>2. u # t
      BY <3>1 DEF Free, Nothing
    <3> QED BY <1>6, <3>1, <3>2 DEF Covered
  <2> QED BY <2>1, <2>2
<1> QED
  BY <1>7, <1>8, <1>9, <1>10

\* A subscribe, on whichever thread, keeps the invariant on the first channels.
LEMMA FirstSubscribesKeeps ==
    ASSUME FeedInductive, FirstInv,
           SubscribeInitial \/ ReapplyKeepAlive \/ SubscribeSpot \/ SubscribePins
    PROVE  FirstInv'
<1>1. /\ UNCHANGED <<running, ws, connected, record, keepAlive, attempts, link, opened, failures>>
      /\ "feed" \in Threads /\ "runner" \in Threads
  BY DEF SubscribeInitial, ReapplyKeepAlive, SubscribeSpot, SubscribePins, feedVars, Threads
<1>2. PICK t \in Threads, cs \in SUBSET Channels :
        /\ Free(t) /\ Choose(t, cs)
        /\ \/ phase = "initial" /\ phase' = "pins" /\ caller' = caller
           \/ phase = "pins" /\ phase' = "receiving" /\ caller' = caller /\ cs = keepAlive \cap Channels
           \/ phase' = phase /\ caller' = "serving" /\ caller = "started"
           \/ phase' = phase /\ caller' = "serving" /\ cs = keepAlive \cap Channels
  <2>1. CASE SubscribeInitial
    <3>1. PICK strip \in SUBSET Strikes : Choose("feed", Spot \cup strip)
      BY <2>1 DEF SubscribeInitial
    <3>2. Spot \cup strip \in SUBSET Channels
      BY FeedAssumption DEF Channels
    <3>3. Free("feed") /\ phase = "initial" /\ phase' = "pins" /\ caller' = caller
      BY <2>1 DEF SubscribeInitial, Go
    <3> QED BY <1>1, <3>1, <3>2, <3>3
  <2>2. CASE ReapplyKeepAlive
    <3>1. /\ Free("feed") /\ Choose("feed", keepAlive \cap Channels)
          /\ phase = "pins" /\ phase' = "receiving" /\ caller' = caller
      BY <2>2 DEF ReapplyKeepAlive, Go
    <3> QED BY <1>1, <3>1
  <2>3. CASE SubscribeSpot
    <3>1. /\ Free("runner") /\ Choose("runner", Spot) /\ Spot \in SUBSET Channels
          /\ phase' = phase /\ caller' = "serving" /\ caller = "started"
      BY <2>3, FeedAssumption DEF SubscribeSpot, Turn, Channels
    <3> QED BY <1>1, <3>1
  <2>4. CASE SubscribePins
    <3>1. /\ Free("runner") /\ Choose("runner", keepAlive \cap Channels)
          /\ phase' = phase /\ caller' = "serving"
      BY <2>4 DEF SubscribePins, Turn
    <3> QED BY <1>1, <3>1
  <2> QED BY <2>1, <2>2, <2>3, <2>4
<1>3. /\ link.n = 0 => \A u \in Threads : sending'[u] = Nothing
      /\ OnFirst => /\ \A u \in Threads : /\ sending'[u].step = "sent" => sending'[u].channels \subseteq opened
                                          /\ sending'[u].step = "chosen" => sending'[u].socket = 1
                    /\ \A c \in cs : Covered(c)'
      /\ \A c \in Channels : Covered(c) => Covered(c)'
  BY <1>1, <1>2, ChooseCovers
<1>4. link.n = 0 => ~link.up /\ record = {}
  BY DEF FirstInv
<1>5. link.up => phase' \in {"initial", "pins", "receiving"} /\ ws = link.n /\ connected
  BY <1>2 DEF FirstInv
<1>6. OnFirst => record \subseteq opened
  BY DEF FirstInv
<1>7. ASSUME OnFirst, phase' = "receiving", caller' # "pinning", NEW c \in keepAlive \cap Channels
      PROVE  Covered(c)'
  <2>1. CASE cs = keepAlive \cap Channels
    BY <1>3, <1>7, <2>1
  <2>2. CASE cs # keepAlive \cap Channels
    <3>1. phase = "receiving" /\ caller # "pinning"
      BY <1>2, <1>7, <2>2
    <3>2. Covered(c)
      BY <1>7, <3>1 DEF FirstInv
    <3> QED BY <1>3, <1>7, <3>2
  <2> QED BY <2>1, <2>2
<1>8. OnFirst' = OnFirst
  BY <1>1 DEF OnFirst
<1> QED
  BY <1>1, <1>3, <1>4, <1>5, <1>6, <1>7, <1>8 DEF FirstInv

\* On the first connection what a thread sends is received.
LEMMA FirstSendKeeps ==
    ASSUME FeedInductive, FirstInv, NEW t \in Threads, Send(t)
    PROVE  FirstInv'
<1>1. /\ sending \in [Threads -> Sending] /\ sending[t].step = "chosen"
      /\ link \in [n : Nat, up : BOOLEAN]
  BY DEF FeedInductive, FeedTypeInv, Send
<1> DEFINE sent == [sending[t] EXCEPT !.step = "sent"]
<1>2. sent.step = "sent" /\ sent.channels = sending[t].channels
  BY <1>1 DEF Sending
<1>3. UNCHANGED <<running, ws, connected, record, keepAlive, attempts, phase, caller, link, failures>>
  BY DEF Send, feedVars
<1>4. link.n # 0
  BY <1>1 DEF FirstInv, Nothing
<1>5. OnFirst => sending' = [sending EXCEPT ![t] = sent] /\ opened' = opened \cup sending[t].channels
  <2> SUFFICES ASSUME OnFirst PROVE sending' = [sending EXCEPT ![t] = sent] /\ opened' = opened \cup sending[t].channels
    OBVIOUS
  <2>1. sending[t].socket = link.n /\ link.up
    BY <1>1 DEF FirstInv, OnFirst
  <2> QED BY <2>1 DEF Send
<1> HIDE DEF sent
<1>6. ASSUME OnFirst PROVE sending'[t] = sent /\ \A u \in Threads \ {t} : sending'[u] = sending[u]
  BY <1>1, <1>5, <1>6
<1>7. ASSUME OnFirst PROVE record \subseteq opened'
  BY <1>5, <1>7 DEF FirstInv
<1>8. ASSUME OnFirst, NEW u \in Threads
      PROVE  /\ sending'[u].step = "sent" => sending'[u].channels \subseteq opened'
             /\ sending'[u].step = "chosen" => sending'[u].socket = 1
  <2>1. CASE u = t
    BY <1>2, <1>5, <1>6, <1>8, <2>1
  <2>2. CASE u # t
    BY <1>5, <1>6, <1>8, <2>2 DEF FirstInv
  <2> QED BY <2>1, <2>2
<1>9. ASSUME OnFirst, NEW c, Covered(c) PROVE Covered(c)'
  BY <1>2, <1>5, <1>6, <1>9 DEF Covered
<1>10. OnFirst' = OnFirst
  BY <1>3 DEF OnFirst
<1>11. link.up => phase \in {"initial", "pins", "receiving"} /\ ws = link.n /\ connected
  BY DEF FirstInv
<1>12. ASSUME OnFirst, phase = "receiving", caller # "pinning", NEW c \in keepAlive \cap Channels PROVE Covered(c)'
  <2>1. Covered(c)
    BY <1>12 DEF FirstInv
  <2> QED BY <1>9, <1>12, <2>1
<1> QED
  BY <1>3, <1>4, <1>7, <1>8, <1>10, <1>11, <1>12 DEF FirstInv

\* Recording what a subscribe has sent keeps the invariant on the first channels.
LEMMA FirstRecordKeeps ==
    ASSUME FeedInductive, FirstInv, NEW t \in Threads, RecordSent(t)
    PROVE  FirstInv'
<1>1. /\ sending \in [Threads -> Sending] /\ sending' = [sending EXCEPT ![t] = Nothing]
      /\ sending[t].step = "sent" /\ record' = record \cup sending[t].channels
  BY DEF FeedInductive, FeedTypeInv, RecordSent
<1>2. UNCHANGED <<running, ws, connected, keepAlive, attempts, phase, caller, link, opened, failures>>
  BY DEF RecordSent
<1>3. sending'[t] = Nothing /\ \A u \in Threads \ {t} : sending'[u] = sending[u]
  BY <1>1
<1>4. link.n # 0
  BY <1>1 DEF FirstInv, Nothing
<1>5. ASSUME OnFirst PROVE record' \subseteq opened /\ sending[t].channels \subseteq opened
  BY <1>1, <1>5 DEF FirstInv
<1>6. ASSUME OnFirst, NEW u \in Threads
      PROVE  /\ sending'[u].step = "sent" => sending'[u].channels \subseteq opened
             /\ sending'[u].step = "chosen" => sending'[u].socket = 1
  BY <1>3, <1>6 DEF FirstInv, Nothing
<1>7. ASSUME OnFirst, NEW c, Covered(c) PROVE Covered(c)'
  BY <1>2, <1>3, <1>5, <1>7 DEF Covered
<1>8. OnFirst' = OnFirst
  BY <1>2 DEF OnFirst
<1>9. link.up => phase \in {"initial", "pins", "receiving"} /\ ws = link.n /\ connected
  BY DEF FirstInv
<1>10. ASSUME OnFirst, phase = "receiving", caller # "pinning", NEW c \in keepAlive \cap Channels PROVE Covered(c)'
  <2>1. Covered(c)
    BY <1>10 DEF FirstInv
  <2> QED BY <1>7, <1>10, <2>1
<1> QED
  BY <1>2, <1>4, <1>5, <1>6, <1>8, <1>9, <1>10 DEF FirstInv

\* A connection ends for good: the next one is another.
LEMMA FirstEndsKeeps ==
    ASSUME FeedInductive, FirstInv, UNCHANGED <<record, sending>>,
           link' = [link EXCEPT !.up = FALSE]
    PROVE  FirstInv'
<1>1. link \in [n : Nat, up : BOOLEAN]
  BY DEF FeedInductive, FeedTypeInv
<1>2. link'.n = link.n /\ ~link'.up
  BY <1>1
<1> QED
  BY <1>2 DEF FirstInv, OnFirst

\* Neither the connection nor what is sent changes, and nothing is pinned.
LEMMA FirstUnchanged ==
    ASSUME FeedInductive, FirstInv, UNCHANGED <<record, sending, link, opened>>,
           \/ ~link.up
           \/ UNCHANGED <<ws, connected, phase>> /\ (caller' = "pinning" \/ (keepAlive' = keepAlive /\ caller # "pinning"))
           \/ UNCHANGED <<ws, connected, phase, caller, keepAlive>>
    PROVE  FirstInv'
<1>1. \A c : Covered(c)' = Covered(c)
  BY DEF Covered
<1> QED
  BY <1>1 DEF FirstInv, OnFirst

\* The steps that send nothing keep the invariant on the first channels.
LEMMA FirstOthersKeep ==
    ASSUME FeedInductive, FirstInv,
           \/ Top \/ ConnectFails \/ ConnectSucceeds \/ RecvEnds \/ EndOfConnection \/ Slept
           \/ Start("new", "polling") \/ Start("built", "started")
           \/ Adopt \/ Reject \/ Pin \/ Stop \/ CloseOnStop \/ Breaks \/ UNCHANGED feedState
    PROVE  FirstInv'
<1>1. link \in [n : Nat, up : BOOLEAN] /\ ws \in {0, link.n} /\ keepAlive \subseteq Legs
  BY DEF FeedInductive, FeedTypeInv, FeedTypeOK
<1>2. link.up => phase \in {"initial", "pins", "receiving"} /\ ws = link.n /\ connected
  BY DEF FirstInv
<1>3. CASE Top \/ ConnectFails \/ EndOfConnection \/ Slept
  <2>1. UNCHANGED <<record, sending, link, opened>>
    BY <1>3 DEF Top, ConnectFails, EndOfConnection, Slept, feedVars
  <2>2. phase \in {"top", "connecting", "ended", "sleeping"}
    BY <1>3 DEF Top, ConnectFails, EndOfConnection, Slept, Go
  <2>3. ~link.up
    BY <1>2, <2>2
  <2> QED BY <2>1, <2>3, FirstUnchanged
<1>4. CASE ConnectSucceeds
  <2>1. /\ UNCHANGED <<record, keepAlive, caller, sending>> /\ phase' = "initial"
        /\ link' = [n |-> link.n + 1, up |-> TRUE] /\ opened' = {} /\ ws' = link.n + 1 /\ connected' = TRUE
    BY <1>4 DEF ConnectSucceeds, Go
  <2>2. link'.n = link.n + 1 /\ link'.up = TRUE
    BY <1>1, <2>1
  <2>3. OnFirst' => link.n = 0
    BY <1>1, <2>2 DEF OnFirst
  <2>4. OnFirst' => record = {} /\ \A t \in Threads : sending[t] = Nothing
    BY <2>3 DEF FirstInv
  <2>5. link'.n # 0
    BY <1>1, <2>2
  <2> QED BY <2>1, <2>2, <2>4, <2>5 DEF FirstInv, Nothing
<1>5. CASE RecvEnds \/ Breaks
  BY <1>5, FirstEndsKeeps DEF RecvEnds, Breaks, feedVars, threadVars
<1>6. CASE CloseOnStop
  <2>1. UNCHANGED <<record, sending>>
    BY <1>6 DEF CloseOnStop
  <2>2. CASE ws = link.n
    BY <1>6, <2>1, <2>2, FirstEndsKeeps DEF CloseOnStop
  <2>3. CASE ws # link.n
    BY <1>2, <1>6, <2>1, <2>3, FirstUnchanged DEF CloseOnStop
  <2> QED BY <2>2, <2>3
<1>7. CASE Start("new", "polling") \/ Start("built", "started")
  <2>1. UNCHANGED <<ws, connected, record, keepAlive, sending, link, opened>>
        /\ caller \in {"new", "built"} /\ caller' \in {"polling", "started"}
        /\ (phase' = phase \/ phase \in {"none", "dead"})
    BY <1>7 DEF Start, Turn
  <2>2. CASE phase' = phase
    <3>1. UNCHANGED <<ws, connected, phase>> /\ keepAlive' = keepAlive /\ caller # "pinning"
      BY <2>1, <2>2
    <3> QED BY <2>1, <3>1, FirstUnchanged
  <2>3. CASE phase \in {"none", "dead"}
    BY <1>2, <2>1, <2>3, FirstUnchanged
  <2> QED BY <2>1, <2>2, <2>3
<1>8. CASE Adopt \/ Reject \/ Stop \/ Pin
  <2>1. UNCHANGED <<ws, connected, record, sending, link, opened, phase>>
    BY <1>8 DEF Adopt, Reject, Stop, Pin, feedVars
  <2>2. caller' = "pinning" \/ (keepAlive' = keepAlive /\ caller # "pinning")
    BY <1>8 DEF Adopt, Reject, Stop, Pin, feedVars, Turn
  <2> QED BY <2>1, <2>2, FirstUnchanged
<1>9. CASE UNCHANGED feedState
  BY <1>9, FirstUnchanged DEF feedState, feedVars, threadVars
<1> QED
  BY <1>3, <1>4, <1>5, <1>6, <1>7, <1>8, <1>9

\* Every step keeps the invariant on the first channels.
LEMMA FirstNextKeeps == FeedInductive /\ FirstInv /\ [FeedNext]_feedState => FirstInv'
<1> SUFFICES ASSUME FeedInductive, FirstInv, [FeedNext]_feedState PROVE FirstInv'
  OBVIOUS
<1>1. "feed" \in Threads /\ "runner" \in Threads
  BY DEF Threads
<1>2. CASE FeedStep
  BY <1>1, <1>2, FirstOthersKeep, FirstSubscribesKeeps, FirstSendKeeps, FirstRecordKeeps DEF FeedStep
<1>3. CASE RunnerStep
  BY <1>1, <1>3, FirstOthersKeep, FirstSubscribesKeeps, FirstSendKeeps, FirstRecordKeeps DEF RunnerStep
<1>4. CASE Breaks \/ UNCHANGED feedState
  BY <1>4, FirstOthersKeep
<1> QED
  BY <1>2, <1>3, <1>4 DEF FeedNext

\* For any symbols and any number of connections: on the first connection every
\* pin with a channel is received once both threads are through with it, and no
\* channel is ever received that the record does not know or is about to know
\* (_send_subscribe and keep_alive_subscribe of data/deribit_ws.py).
THEOREM FeedAlwaysCovers == FeedSpec => []FeedCovers
<1>1. FeedInit => FirstInv
  BY DEF FeedInit, FirstInv, OnFirst
<1>2. FeedSpec => []FirstInv
  BY <1>1, FirstNextKeeps, FeedAlwaysInductive, PTL DEF FeedSpec
<1>3. FeedInductive /\ FirstInv => PinsOpenAtFirst
  <2> SUFFICES ASSUME FeedInductive, FirstInv, link = [n |-> 1, up |-> TRUE], phase = "receiving",
                      caller = "serving", Free("feed"), Free("runner"), NEW c \in keepAlive \cap Channels
               PROVE  c \in opened
    BY DEF PinsOpenAtFirst
  <2>1. OnFirst
    BY DEF OnFirst
  <2>2. Covered(c)
    BY <2>1 DEF FirstInv
  <2>3. \A t \in Threads : sending[t].channels = {}
    BY DEF Threads, Free, Nothing
  <2> QED BY <2>2, <2>3 DEF Covered
<1>4. FeedInductive /\ FirstInv => FeedCovers
  BY <1>3 DEF FeedInductive, SentInv, Sent, OpenIsRecorded, FeedCovers
<1> QED
  BY <1>2, <1>4, FeedAlwaysInductive, PTL

------------------------------------------------------------------------------
(* The router. *)

RouterTypes ==
    /\ now \in 0..MaxClock
    /\ settings \in [Providers -> KeyStates] /\ clientKeys \in [Providers -> KeyStates]
    /\ lastGood \in Providers \cup {Nobody}
    /\ dead \in [Providers -> 0..(MaxClock + DeadFor)]
    /\ budget \in [day : Nat, calls : Nat, tokens : Nat] /\ budget.day <= Day
    /\ call \in [phase : {"idle", "trying"}, order : Seq(Providers), attempt : 0..MaxRetries,
                 force : Providers \cup {Nobody}, began : 0..MaxClock, asked : SUBSET Providers]
    /\ call.began <= now

\* A call begins within the budget, and nothing is charged before its end.
WithinBudget == call.phase = "trying" => ~Exceeded(budget)

\* Who is through without having been asked had no key, or a refused one and a
\* blacklist that outlasts the call's beginning.
PassedForReason ==
    call.phase = "trying" /\ call.force = Nobody =>
        \A p \in Providers : \/ p \in ToSet(call.order) \/ p \in call.asked
                             \/ clientKeys[p] = "unset" \/ dead[p] > call.began

RouterInductive == RouterTypes /\ BudgetHolds /\ WithinBudget /\ PassedForReason

\* The day is a number that never decreases as the clock advances.
LEMMA DayGrows ==
    /\ now \in Nat => Day \in Nat
    /\ \A n \in Nat : n \div DayLength \in Nat
    /\ \A n \in Nat : n \div DayLength <= (n + 1) \div DayLength
<1>1. DayLength \in Nat \ {0}
  BY RouterAssumption
<1>2. (now \in Nat => Day \in Nat) /\ \A n \in Nat : n \div DayLength \in Nat
  BY <1>1 DEF Day
<1>3. ASSUME NEW n \in Nat PROVE n \div DayLength <= (n + 1) \div DayLength
  <2> DEFINE d == DayLength
             a == n \div d
             b == (n + 1) \div d
  <2>1. a \in Int /\ b \in Int
    BY <1>1
  <2>2. n = (d * a) + (n % d) /\ n + 1 = (d * b) + ((n + 1) % d)
        /\ n % d \in 0..d - 1 /\ (n + 1) % d \in 0..d - 1
    BY <1>1
  <2> HIDE DEF a, b
  <2>3. ASSUME b < a PROVE FALSE
    <3>1. d * (b + 1) <= d * a
      BY <1>1, <2>1, <2>3
    <3>2. d * (b + 1) = d * b + d
      BY <1>1, <2>1
    <3> QED BY <1>1, <2>1, <2>2, <3>1, <3>2
  <2>4. a <= b
    BY <2>1, <2>3
  <2> QED BY <2>4 DEF a, b
<1> QED
  BY <1>2, <1>3

\* Every provider is in the order a call begins with, unless it is forced.
LEMMA OrderComplete ==
    ASSUME RouterTypes, NEW force \in Providers \cup {Nobody}
    PROVE  /\ ProviderOrder(force) \in Seq(Providers)
           /\ force = Nobody => Providers \subseteq ToSet(ProviderOrder(force))
<1>1. /\ Configured \in Seq(Providers) /\ Nobody \notin Providers
      /\ \A i, j \in DOMAIN Configured : Configured[i] = Configured[j] => i = j
  BY RouterAssumption
<1>2. CASE force # Nobody
  <2>1. ProviderOrder(force) = <<force>>
    BY <1>2 DEF ProviderOrder
  <2> QED BY <1>2, <2>1
<1>3. CASE force = Nobody /\ lastGood = Nobody
  <2>1. ProviderOrder(force) = Configured
    BY <1>3 DEF ProviderOrder
  <2> QED BY <1>1, <2>1 DEF Providers
<1>4. CASE force = Nobody /\ lastGood # Nobody
  <2> DEFINE at   == Place(lastGood)
             n    == Len(Configured)
             rest == RemoveAt(Configured, at)
             full == <<lastGood>> \o rest
  <2>1. n \in Nat /\ DOMAIN Configured = 1..n /\ \A i \in 1..n : Configured[i] \in Providers
    BY <1>1
  <2>2. lastGood \in Providers /\ at \in 1..n /\ Configured[at] = lastGood
    <3>1. lastGood \in Providers
      BY <1>4 DEF RouterTypes
    <3>2. \E i \in DOMAIN Configured : Configured[i] = lastGood
      BY <3>1 DEF Providers, ToSet
    <3> QED BY <2>1, <3>1, <3>2 DEF Place
  <2>3. ProviderOrder(force) = full
    BY <1>4 DEF ProviderOrder
  <2>7. /\ rest \in Seq(Providers) /\ Len(rest) = n - 1
        /\ \A i \in 1..(n - 1) : rest[i] = IF i < at THEN Configured[i] ELSE Configured[i + 1]
    <3>1. rest = LessElement(Configured, at)
      BY DEF RemoveAt, LessElement
    <3> HIDE DEF rest, at
    <3>2. at \in DOMAIN Configured /\ Configured \in Seq(Providers)
      BY <1>1, <2>1, <2>2
    <3>3. /\ rest \in Seq(Providers) /\ Len(rest) = Len(Configured) - 1
          /\ \A k \in 1..(Len(Configured) - 1) : rest[k] = IF k < at THEN Configured[k] ELSE Configured[k + 1]
      <4> HIDE DEF n
      <4> QED BY <3>1, <3>2, RemovedAt, Zenon
    <3> QED BY <3>3
  <2> HIDE DEF rest, at
  <2>8. /\ full \in Seq(Providers) /\ Len(full) = n /\ full[1] = lastGood
        /\ \A i \in 1..(n - 1) : full[i + 1] = rest[i]
    <3>1. <<lastGood>> \in Seq(Providers) /\ Len(<<lastGood>>) = 1 /\ <<lastGood>>[1] = lastGood
      BY <2>2
    <3>2. /\ full \in Seq(Providers) /\ Len(full) = 1 + (n - 1)
          /\ \A i \in 1..(1 + (n - 1)) : full[i] = IF i <= 1 THEN <<lastGood>>[i] ELSE rest[i - 1]
      <4> DEFINE one == <<lastGood>>
      <4>1. full = one \o rest
        OBVIOUS
      <4> HIDE DEF one, full
      <4>2. one \in Seq(Providers) /\ Len(one) = 1
        BY <3>1 DEF one
      <4>3. /\ full \in Seq(Providers) /\ Len(full) = Len(one) + Len(rest)
            /\ \A i \in 1..(Len(one) + Len(rest)) :
                 full[i] = IF i <= Len(one) THEN one[i] ELSE rest[i - Len(one)]
        BY <2>7, <4>1, <4>2, ConcatProperties, Zenon
      <4>4. Len(rest) = n - 1
        BY <2>7
      <4>5. /\ full \in Seq(Providers) /\ Len(full) = 1 + (n - 1)
            /\ \A i \in 1..(1 + (n - 1)) : full[i] = IF i <= 1 THEN one[i] ELSE rest[i - 1]
        BY <4>2, <4>3, <4>4, Zenon
      <4> QED BY <4>5 DEF one
    <3> HIDE DEF full
    <3>3. ASSUME NEW i \in 1..(n - 1) PROVE full[i + 1] = rest[i]
      <4>1. i + 1 \in 1..(1 + (n - 1)) /\ ~(i + 1 <= 1) /\ i + 1 - 1 = i
        BY <2>1
      <4> QED BY <3>2, <4>1
    <3> QED BY <2>1, <2>2, <3>1, <3>2, <3>3
  <2> HIDE DEF full
  <2>9. ASSUME NEW p \in Providers PROVE p \in ToSet(full)
    <3>1. PICK i \in 1..n : Configured[i] = p
      BY <2>1 DEF Providers, ToSet
    <3>2. DOMAIN full = 1..n
      BY <2>8
    <3>3. CASE i = at
      BY <2>1, <2>2, <2>8, <3>1, <3>2, <3>3 DEF ToSet
    <3>4. CASE i < at
      <4>1. i \in 1..(n - 1) /\ rest[i] = p /\ i + 1 \in 1..n
        BY <2>1, <2>2, <2>7, <3>1, <3>4
      <4> QED BY <2>8, <3>2, <4>1 DEF ToSet
    <3>5. CASE i > at
      <4>1. i - 1 \in 1..(n - 1) /\ ~(i - 1 < at) /\ i - 1 + 1 = i
        BY <2>1, <2>2, <3>5
      <4>2. rest[i - 1] = p
        BY <2>7, <3>1, <4>1
      <4>3. full[i] = p
        BY <2>8, <4>1, <4>2
      <4> QED BY <3>2, <4>3 DEF ToSet
    <3> QED BY <2>1, <2>2, <3>3, <3>4, <3>5
  <2> QED BY <2>3, <2>8, <2>9
<1> QED
  BY <1>2, <1>3, <1>4

\* The budget of today, and one more answer.
LEMMA RolledHolds ==
    ASSUME RouterTypes, BudgetHolds
    PROVE  /\ Rolled \in [day : Nat, calls : Nat, tokens : Nat] /\ Rolled.day <= Day
           /\ Rolled.calls <= CallLimit
           /\ \E cost \in Tokens : Rolled.tokens < TokenLimit + cost
<1>1. Day \in Nat
  BY DayGrows DEF RouterTypes
<1>2. CASE budget.day = Day
  BY <1>1, <1>2 DEF Rolled, RouterTypes, BudgetHolds
<1>3. CASE budget.day # Day
  <2>1. Rolled = [day |-> Day, calls |-> 0, tokens |-> 0]
    BY <1>3 DEF Rolled, FreshBudget
  <2>2. 0 <= CallLimit /\ \E cost \in Tokens : 0 < TokenLimit + cost
    BY RouterAssumption
  <2> QED BY <1>1, <2>1, <2>2
<1> QED
  BY <1>2, <1>3

\* A call charged to a budget that is not exceeded leaves at most one call's worth
\* over it.
LEMMA ChargedHolds ==
    ASSUME RouterTypes, ~Exceeded(budget), NEW cost \in Tokens
    PROVE  /\ Charged(cost) \in [day : Nat, calls : Nat, tokens : Nat] /\ Charged(cost).day <= Day
           /\ Charged(cost).calls <= CallLimit /\ Charged(cost).tokens < TokenLimit + cost
<1>1. Day \in Nat
  BY DayGrows DEF RouterTypes
<1>2. cost \in Nat /\ TokenLimit \in Nat /\ CallLimit \in Nat
  BY RouterAssumption
<1>3. budget \in [day : Nat, calls : Nat, tokens : Nat] /\ budget.day <= Day
      /\ budget.tokens < TokenLimit /\ budget.calls < CallLimit
  BY <1>2 DEF RouterTypes, Exceeded
<1>4. ASSUME NEW b \in [day : Nat, calls : Nat, tokens : Nat]
      PROVE  [b EXCEPT !.calls = @ + 1, !.tokens = @ + cost]
               = [day |-> b.day, calls |-> b.calls + 1, tokens |-> b.tokens + cost]
  <2> DEFINE calls  == b.calls + 1
             tokens == b.tokens + cost
  <2>1. calls \in Nat /\ tokens \in Nat
    BY <1>2
  <2> HIDE DEF calls, tokens
  <2> DEFINE more == [b EXCEPT !.calls = calls, !.tokens = tokens]
             same == [day |-> b.day, calls |-> calls, tokens |-> tokens]
  <2>2. more \in [day : Nat, calls : Nat, tokens : Nat]
    BY <2>1
  <2>3. same \in [day : Nat, calls : Nat, tokens : Nat]
    BY <2>1
  <2>4. more.day = same.day /\ more.calls = same.calls /\ more.tokens = same.tokens
    BY <2>1
  <2> HIDE DEF more, same
  <2>5. more = same
    BY <2>2, <2>3, <2>4
  <2> QED BY <2>5 DEF more, same, calls, tokens
<1>5. Charged(cost) = [Rolled EXCEPT !.calls = @ + 1, !.tokens = @ + cost]
  BY DEF Charged
<1>6. CASE budget.day = Day
  <2>1. Rolled = budget
    BY <1>6 DEF Rolled
  <2>2. Charged(cost) = [day |-> budget.day, calls |-> budget.calls + 1, tokens |-> budget.tokens + cost]
    BY <1>3, <1>4, <1>5, <2>1
  <2> QED BY <1>2, <1>3, <2>2
<1>7. CASE budget.day # Day
  <2>1. Rolled = [day |-> Day, calls |-> 0, tokens |-> 0]
    BY <1>7 DEF Rolled, FreshBudget
  <2>2. Rolled \in [day : Nat, calls : Nat, tokens : Nat]
    BY <1>1, <2>1
  <2>3. Charged(cost) = [day |-> Day, calls |-> 0 + 1, tokens |-> 0 + cost]
    BY <1>4, <1>5, <2>1, <2>2
  <2> QED BY <1>1, <1>2, <1>3, <2>3
<1> QED
  BY <1>6, <1>7

\* The order without its head has the rest.
LEMMA TailHasRest ==
    ASSUME NEW s \in Seq(Providers), s # <<>>
    PROVE  /\ Head(s) \in Providers /\ Tail(s) \in Seq(Providers)
           /\ \A p : p \in ToSet(s) => p = Head(s) \/ p \in ToSet(Tail(s))
<1>1. /\ Len(s) \in Nat /\ Len(s) # 0 /\ DOMAIN s = 1..Len(s)
      /\ Tail(s) \in Seq(Providers) /\ Len(Tail(s)) = Len(s) - 1 /\ Head(s) = s[1]
      /\ \A i \in 1..(Len(s) - 1) : Tail(s)[i] = s[i + 1]
  OBVIOUS
<1>2. ASSUME NEW i \in 1..Len(s), i # 1 PROVE s[i] \in ToSet(Tail(s))
  <2>1. i - 1 \in 1..(Len(s) - 1) /\ i - 1 + 1 = i
    BY <1>1, <1>2
  <2>2. Tail(s)[i - 1] = s[i] /\ i - 1 \in DOMAIN Tail(s)
    BY <1>1, <2>1
  <2> QED BY <2>2 DEF ToSet
<1> QED
  BY <1>1, <1>2 DEF ToSet

\* The initial state of the router satisfies its invariant.
LEMMA RouterInitInductive == RouterInit => RouterInductive
<1> SUFFICES ASSUME RouterInit PROVE RouterInductive
  OBVIOUS
<1>1. 0 \in 0..MaxClock /\ 0 \in 0..(MaxClock + DeadFor) /\ 0 \in 0..MaxRetries /\ <<>> \in Seq(Providers)
  BY RouterAssumption
<1>2. Day \in Nat
  BY <1>1, DayGrows DEF RouterInit
<1>3. RouterTypes
  BY <1>1, <1>2 DEF RouterInit, RouterTypes, Idle, FreshBudget
<1>4. BudgetHolds
  BY RouterAssumption DEF RouterInit, BudgetHolds, FreshBudget
<1> QED
  BY <1>3, <1>4 DEF RouterInductive, RouterInit, WithinBudget, PassedForReason, Idle

\* A new request, forced to one provider or not, keeps the router's invariant.
LEMMA BeginKeeps ==
    ASSUME RouterInductive, NEW force \in Providers \cup {Nobody}, Begin(force)
    PROVE  RouterInductive'
<1>1. RouterTypes /\ BudgetHolds
  BY DEF RouterInductive
<1>2. /\ budget' = Rolled /\ ~Exceeded(Rolled) /\ clientKeys' = settings /\ call'.phase = "trying"
      /\ call' = [phase |-> "trying", order |-> ProviderOrder(force), attempt |-> 0,
                  force |-> force, began |-> now, asked |-> {}]
      /\ UNCHANGED <<now, settings, lastGood, dead>>
  BY DEF Begin
<1>3. 0 \in 0..MaxRetries /\ Day' = Day
  BY <1>2, RouterAssumption DEF Day
<1>4. RouterTypes'
  BY <1>1, <1>2, <1>3, OrderComplete, RolledHolds DEF RouterTypes
<1>5. BudgetHolds'
  BY <1>1, <1>2, RolledHolds DEF BudgetHolds
<1>6. WithinBudget'
  BY <1>2 DEF WithinBudget, Exceeded
<1>7. PassedForReason'
  BY <1>1, <1>2, OrderComplete DEF PassedForReason
<1> QED
  BY <1>4, <1>5, <1>6, <1>7 DEF RouterInductive

\* Every step on the way to an answer.
LEMMA TryingKeeps == ASSUME RouterInductive, Step PROVE RouterInductive'
<1>1. RouterTypes /\ BudgetHolds /\ WithinBudget /\ PassedForReason
  BY DEF RouterInductive
<1>2. UNCHANGED <<now, settings, clientKeys>> /\ Day' = Day
  BY DEF Step, Pass, Retry, GiveUp, Blacklist, Answer, Garbled, Fail, Day
<1>3. Idle \in [phase : {"idle", "trying"}, order : Seq(Providers), attempt : 0..MaxRetries,
                force : Providers \cup {Nobody}, began : 0..MaxClock, asked : SUBSET Providers] /\ Idle.phase = "idle"
      /\ Idle.began <= now
  <2>1. <<>> \in Seq(Providers) /\ 0 \in 0..MaxRetries /\ 0 \in 0..MaxClock /\ now \in 0..MaxClock /\ 0 <= now
    BY <1>1, RouterAssumption DEF RouterTypes
  <2> QED BY <2>1 DEF Idle
<1>4. ASSUME Pass \/ GiveUp \/ Blacklist PROVE RouterInductive'
  <2>1. call.phase = "trying" /\ call.order # <<>> /\ UNCHANGED <<budget, lastGood>>
    BY <1>4 DEF Pass, GiveUp, Blacklist, Trying
  <2>2. call.order \in Seq(Providers) /\ 0 \in 0..MaxRetries /\ DeadFor \in Nat /\ MaxClock \in Nat
    BY <1>1, RouterAssumption DEF RouterTypes
  <2>3. /\ Current \in Providers /\ Tail(call.order) \in Seq(Providers)
        /\ \A p : p \in ToSet(call.order) => p = Current \/ p \in ToSet(Tail(call.order))
    BY <2>1, <2>2, TailHasRest DEF Current
  <2>4. /\ call'.order = Tail(call.order) /\ call'.phase = call.phase /\ call'.force = call.force
        /\ call' \in [phase : {"idle", "trying"}, order : Seq(Providers), attempt : 0..MaxRetries,
                      force : Providers \cup {Nobody}, began : 0..MaxClock, asked : SUBSET Providers]
        /\ call.asked \subseteq call'.asked /\ call'.began = call.began
        /\ Current \in call'.asked \/ clientKeys[Current] = "unset" \/ dead'[Current] > call'.began
    <3>1. CASE Pass
      <4>1. call' = [call EXCEPT !.order = Tail(@)] /\ dead' = dead
            /\ (clientKeys[Current] = "unset" \/ ~(dead[Current] <= now))
        BY <3>1 DEF Pass, Available
      <4>2. now \in Nat /\ dead[Current] \in Nat
        BY <1>1, <2>2, <2>3 DEF RouterTypes
      <4>4. call.began \in Nat /\ call.began <= now /\ call'.began = call.began
        BY <1>1, <2>2, <4>1 DEF RouterTypes
      <4>3. clientKeys[Current] = "unset" \/ dead'[Current] > call'.began
        BY <4>1, <4>2, <4>4
      <4> QED BY <1>1, <2>3, <4>1, <4>3, <4>4 DEF RouterTypes
    <3>2. CASE GiveUp \/ Blacklist
      <4>1. call' = [call EXCEPT !.order = Tail(@), !.attempt = 0, !.asked = @ \cup {Current}]
        BY <3>2 DEF GiveUp, Blacklist, NextProvider
      <4> QED BY <1>1, <2>2, <2>3, <4>1 DEF RouterTypes
    <3> QED BY <1>4, <3>1, <3>2
  <2>5. /\ dead' \in [Providers -> 0..(MaxClock + DeadFor)]
        /\ \A p \in Providers : dead[p] > call.began => dead'[p] > call'.began \/ p \in call'.asked
    <3>1. CASE dead' = dead
      BY <1>1, <2>4, <3>1 DEF RouterTypes
    <3>2. CASE Blacklist
      <4>1. dead' = [dead EXCEPT ![Current] = now + DeadFor]
            /\ call' = [call EXCEPT !.order = Tail(@), !.attempt = 0, !.asked = @ \cup {Current}]
        BY <3>2 DEF Blacklist, NextProvider
      <4>2. now + DeadFor \in 0..(MaxClock + DeadFor) /\ Current \in call'.asked
        BY <1>1, <2>2, <4>1 DEF RouterTypes
      <4> QED BY <1>1, <2>3, <2>4, <4>1, <4>2 DEF RouterTypes
    <3> QED BY <1>4, <3>1, <3>2 DEF Pass, GiveUp
  <2>6. RouterTypes'
    BY <1>1, <1>2, <2>1, <2>4, <2>5 DEF RouterTypes
  <2>7. BudgetHolds' /\ WithinBudget'
    BY <1>1, <2>1 DEF BudgetHolds, WithinBudget, Exceeded
  <2>8. PassedForReason'
    BY <1>1, <1>2, <2>1, <2>3, <2>4, <2>5 DEF PassedForReason
  <2> QED BY <2>6, <2>7, <2>8 DEF RouterInductive
<1>5. CASE Retry
  <2>1. /\ call.order # <<>> /\ call.attempt < MaxRetries
        /\ call' = [call EXCEPT !.attempt = @ + 1, !.asked = @ \cup {Current}]
        /\ UNCHANGED <<lastGood, dead, budget>>
    BY <1>5 DEF Retry, Trying
  <2>2. Current \in Providers
    BY <1>1, <2>1, TailHasRest DEF RouterTypes, Current
  <2>3. call.attempt + 1 \in 0..MaxRetries
    <3>1. call.attempt \in 0..MaxRetries /\ MaxRetries \in Nat
      BY <1>1, RouterAssumption DEF RouterTypes
    <3> QED BY <2>1, <3>1
  <2>4. call'.order = call.order /\ call'.phase = call.phase /\ call'.force = call.force
        /\ call.asked \subseteq call'.asked /\ call'.began = call.began
    BY <1>1, <2>1 DEF RouterTypes
  <2>5. RouterTypes'
    BY <1>1, <1>2, <2>1, <2>2, <2>3 DEF RouterTypes
  <2> QED
    BY <1>1, <1>2, <2>1, <2>4, <2>5
       DEF RouterInductive, BudgetHolds, WithinBudget, Exceeded, PassedForReason
<1>6. CASE Answer
  <2> PICK cost \in Tokens : budget' = Charged(cost)
    BY <1>6 DEF Answer
  <2>1. call.phase = "trying" /\ call.order # <<>> /\ call' = Idle /\ lastGood' = Current
        /\ dead' = [dead EXCEPT ![Current] = 0]
    BY <1>6 DEF Answer, Trying
  <2>2. ~Exceeded(budget)
    BY <1>1, <2>1 DEF WithinBudget
  <2>3. Current \in Providers
    BY <1>1, <2>1, TailHasRest DEF RouterTypes, Current
  <2>4. 0 \in 0..(MaxClock + DeadFor)
    BY RouterAssumption
  <2>5. RouterTypes'
    BY <1>1, <1>2, <1>3, <2>1, <2>2, <2>3, <2>4, ChargedHolds DEF RouterTypes
  <2>6. BudgetHolds'
    BY <1>1, <2>2, ChargedHolds DEF BudgetHolds
  <2> QED BY <1>3, <2>1, <2>5, <2>6 DEF RouterInductive, WithinBudget, PassedForReason
<1>7. CASE Garbled \/ Fail
  <2>1. call' = Idle /\ UNCHANGED <<lastGood, dead, budget>>
    BY <1>7 DEF Garbled, Fail
  <2>2. RouterTypes'
    BY <1>1, <1>2, <1>3, <2>1 DEF RouterTypes
  <2> QED
    BY <1>1, <1>3, <2>1, <2>2 DEF RouterInductive, BudgetHolds, WithinBudget, PassedForReason
<1> QED
  BY <1>4, <1>5, <1>6, <1>7 DEF Step

\* Every step keeps the router's invariant.
LEMMA RouterNextInductive == RouterInductive /\ [RouterNext]_routerVars => RouterInductive'
<1> SUFFICES ASSUME RouterInductive, [RouterNext]_routerVars PROVE RouterInductive'
  OBVIOUS
<1>1. RouterTypes /\ BudgetHolds /\ WithinBudget /\ PassedForReason
  BY DEF RouterInductive
<1>2. CASE Begin(Nobody) \/ Probe
  BY <1>2, BeginKeeps DEF Probe
<1>3. CASE Step
  BY <1>3, TryingKeeps
<1>4. CASE Refuse
  <2>1. call.phase = "idle" /\ call' = call /\ clientKeys' = settings /\ budget' = Rolled
        /\ UNCHANGED <<now, settings, lastGood, dead>> /\ Day' = Day
    BY <1>4 DEF Refuse, Day
  <2>2. RouterTypes' /\ BudgetHolds'
    BY <1>1, <2>1, RolledHolds DEF RouterTypes, BudgetHolds
  <2> QED BY <2>1, <2>2 DEF RouterInductive, WithinBudget, PassedForReason
<1>5. CASE ClockTick
  <2>1. now' = now + 1 /\ now < MaxClock
        /\ UNCHANGED <<settings, clientKeys, lastGood, dead, budget, call>>
    BY <1>5 DEF ClockTick
  <2>2. now \in Nat /\ now' \in 0..MaxClock /\ budget.day <= Day'
    <3>1. now \in Nat /\ now' \in 0..MaxClock /\ now' \in Nat
      BY <1>1, <2>1, RouterAssumption DEF RouterTypes
    <3>2. Day \in Nat /\ Day' \in Nat
      BY <3>1, DayGrows DEF Day
    <3>3. Day <= Day'
      BY <2>1, <3>1, DayGrows DEF Day
    <3>4. budget.day \in Nat /\ budget.day <= Day
      BY <1>1 DEF RouterTypes
    <3> QED BY <3>1, <3>2, <3>3, <3>4
  <2>3. RouterTypes'
    BY <1>1, <2>1, <2>2 DEF RouterTypes
  <2> QED
    BY <1>1, <2>1, <2>3
       DEF RouterInductive, BudgetHolds, WithinBudget, Exceeded, PassedForReason
<1>6. CASE Edit
  <2>1. settings' \in [Providers -> KeyStates]
        /\ UNCHANGED <<now, clientKeys, lastGood, dead, budget, call>> /\ Day' = Day
    BY <1>1, <1>6 DEF Edit, RouterTypes, Day
  <2>2. RouterTypes'
    BY <1>1, <2>1 DEF RouterTypes
  <2> QED
    BY <1>1, <2>1, <2>2
       DEF RouterInductive, BudgetHolds, WithinBudget, Exceeded, PassedForReason
<1>7. CASE Restart
  <2>1. /\ clientKeys' = settings /\ lastGood' = Nobody /\ dead' = [p \in Providers |-> 0]
        /\ budget' = FreshBudget /\ call' = Idle /\ UNCHANGED <<now, settings>> /\ Day' = Day
    BY <1>7 DEF Restart, Day
  <2>2. /\ 0 \in 0..(MaxClock + DeadFor) /\ 0 \in 0..MaxRetries /\ <<>> \in Seq(Providers)
        /\ Day \in Nat /\ 0 \in 0..MaxClock /\ 0 <= now
    BY <1>1, DayGrows, RouterAssumption DEF RouterTypes
  <2>3. RouterTypes'
    BY <1>1, <2>1, <2>2 DEF RouterTypes, FreshBudget, Idle
  <2>4. BudgetHolds'
    BY <2>1, RouterAssumption DEF BudgetHolds, FreshBudget
  <2> QED BY <2>1, <2>3, <2>4 DEF RouterInductive, WithinBudget, PassedForReason, Idle
<1>8. CASE UNCHANGED routerVars
  <2>1. UNCHANGED <<now, settings, clientKeys, lastGood, dead, budget, call>> /\ Day' = Day
    BY <1>8 DEF routerVars, Day
  <2>2. RouterTypes'
    BY <1>1, <2>1 DEF RouterTypes
  <2> QED
    BY <1>1, <2>1, <2>2
       DEF RouterInductive, BudgetHolds, WithinBudget, Exceeded, PassedForReason
<1> QED
  BY <1>2, <1>3, <1>4, <1>5, <1>6, <1>7, <1>8 DEF RouterNext

\* Every state of the router satisfies its inductive invariant.
THEOREM RouterAlwaysInductive == RouterSpec => []RouterInductive
<1> QED
  BY RouterInitInductive, RouterNextInductive, PTL DEF RouterSpec

\* The client (agent/llm.py) keeps its types: no provider is tried more often
\* than max_retries allows and the budget never counts for a day to come.
THEOREM RouterTypeCorrect == RouterSpec => []RouterTypeOK
<1>1. RouterInductive => RouterTypeOK
  <2> SUFFICES ASSUME RouterInductive PROVE RouterTypeOK
    OBVIOUS
  <2>1. ToSet(call.order) \subseteq Providers
    <3>1. call.order \in Seq(Providers)
      BY DEF RouterInductive, RouterTypes
    <3> QED BY <3>1 DEF ToSet
  <2> QED BY <2>1 DEF RouterInductive, RouterTypes, RouterTypeOK
<1> QED
  BY <1>1, RouterAlwaysInductive, PTL

\* For any number of providers, limits and costs: a client's day never has more
\* calls than allowed and overdraws its tokens by less than one answer, and a
\* call that fails has asked every provider but those without a key and those whose
\* blacklist was in force when it began (whatever their key is by then).
THEOREM RouterAlwaysKeeps == RouterSpec => []RouterKeeps
<1>1. RouterInductive => RouterKeeps
  <2> SUFFICES ASSUME RouterInductive PROVE RouterKeeps
    OBVIOUS
  <2>1. NoneLeftUntried
    <3> SUFFICES ASSUME Failing, NEW p \in Providers, clientKeys[p] # "unset", dead[p] <= call.began
                 PROVE  p \in call.asked
      BY DEF NoneLeftUntried
    <3>1. ToSet(call.order) = {}
      BY DEF Failing, ToSet
    <3>2. dead[p] \in Nat /\ call.began \in Nat
      BY RouterAssumption DEF RouterInductive, RouterTypes
    <3> QED BY <3>1, <3>2 DEF Failing, RouterInductive, PassedForReason
  <2> QED BY <2>1 DEF RouterKeeps, RouterInductive
<1> QED
  BY <1>1, RouterAlwaysInductive, PTL

------------------------------------------------------------------------------
(* The chain. *)

\* The options of the exchange's list.
Listed == ToSet(listing)

\* The list is finite and made of options.
LEMMA ListedFinite == ASSUME listing \in Seq(Listable) PROVE IsFiniteSet(Listed) /\ Listed \subseteq Listable
<1>1. DOMAIN listing = 1..Len(listing) /\ Len(listing) \in Nat /\ \A i \in DOMAIN listing : listing[i] \in Listable
  BY LenProperties, ElementOfSeq
<1>2. IsFiniteSet(DOMAIN listing)
  <2>1. 1 \in Int /\ Len(listing) \in Int
    BY <1>1
  <2> QED BY <1>1, <2>1, FS_Interval
<1>3. listing \in Surjection(DOMAIN listing, Listed)
  BY <1>1 DEF Listed, ToSet, Surjection
<1>4. IsFiniteSet(Listed)
  BY <1>2, <1>3, FS_Surjection
<1> QED
  BY <1>1, <1>4 DEF Listed, ToSet

\* So are some of its options and their expiries.
LEMMA NamesFinite ==
    ASSUME listing \in Seq(Listable), NEW names, names \subseteq Listed
    PROVE  IsFiniteSet(names) /\ IsFiniteSet(Known(names)) /\ Known(names) \subseteq Nat
<1>1. IsFiniteSet(names) /\ names \subseteq Listable
  BY ListedFinite, FS_Subset
<1>2. [o \in names |-> o.exp] \in Surjection(names, Known(names))
  BY DEF Known, Surjection
<1>3. IsFiniteSet(Known(names))
  BY <1>1, <1>2, FS_Surjection
<1> QED
  BY <1>1, <1>3 DEF Known, Listable

\* Each expiry of the list begins at a place of its own.
LEMMA PlacesApart ==
    ASSUME listing \in Seq(Listable), NEW e \in Known(Listed)
    PROVE  LET place == Min({i \in DOMAIN listing : listing[i].exp = e})
           IN  place \in Nat /\ listing[place].exp = e
<1> DEFINE at == {i \in DOMAIN listing : listing[i].exp = e}
<1>1. at \subseteq Nat /\ at # {}
  <2>1. DOMAIN listing \subseteq Nat
    BY LenProperties
  <2>2. \E i \in DOMAIN listing : listing[i].exp = e
    BY DEF Known, Listed, ToSet
  <2> QED BY <2>1, <2>2
<1>2. Min(at) \in at
  <2> HIDE DEF at
  <2> QED BY <1>1, MinIs
<1> QED
  BY <1>1, <1>2

\* _next_n_expiries gives at most as many expiries as configured.
LEMMA FewExpiries ==
    ASSUME listing \in Seq(Listable), NEW names, names \subseteq Listed
    PROVE  /\ NextExpiries(names) \subseteq Known(names)
           /\ IsFiniteSet(NextExpiries(names)) /\ Cardinality(NextExpiries(names)) <= ExpiryCount
<1> DEFINE place(e) == Min({i \in DOMAIN listing : listing[i].exp = e})
           open == {e \in Known(names) : e >= today /\ (MinDte > 0 => e - today >= MinDte)}
           before == {p \in open \X open : place(p[1]) < place(p[2])}
           few == FirstOf(open, before, ExpiryCount)
<1>1. IsFiniteSet(open)
  BY NamesFinite, FS_Subset
<1>2. \A e \in open : place(e) \in Nat /\ listing[place(e)].exp = e
  <2>1. open \subseteq Known(Listed)
    BY DEF Known
  <2> HIDE DEF open
  <2> QED BY <2>1, PlacesApart
<1>3. /\ \A x \in open : <<x, x>> \notin before
      /\ \A x, y \in open : x # y => <<x, y>> \in before \/ <<y, x>> \in before
      /\ \A x, y, z \in open : <<x, y>> \in before /\ <<y, z>> \in before => <<x, z>> \in before
  <2> HIDE DEF place, open
  <2>1. \A x, y \in open : <<x, y>> \in before <=> place(x) < place(y)
    OBVIOUS
  <2>2. \A x, y \in open : x # y => place(x) # place(y)
    BY <1>2
  <2> HIDE DEF before
  <2> QED BY <1>2, <2>1, <2>2
<1>4. IsFiniteSet(few) /\ Cardinality(few) <= ExpiryCount
  <2> HIDE DEF open, before
  <2>1. ExpiryCount \in Nat
    BY ChainAssumption
  <2> QED BY ONLY <1>1, <1>3, <2>1, FirstAreFew DEF few
<1>5. NextExpiries(names) = few
  <2>1. \A e \in open : {f \in open : <<f, e>> \in before} = {f \in open : place(f) < place(e)}
    <3> HIDE DEF open, place
    <3> QED OBVIOUS
  <2>2. few = {e \in open : Cardinality({f \in open : place(f) < place(e)}) < ExpiryCount}
    <3> HIDE DEF open, place, before
    <3> QED BY <2>1 DEF FirstOf
  <2> HIDE DEF few
  <2> QED BY <2>2 DEF NextExpiries
<1> QED
  <2> HIDE DEF few
  <2>1. NextExpiries(names) \subseteq Known(names)
    BY <1>5 DEF few, FirstOf
  <2> QED BY <1>4, <1>5, <2>1

\* _strip_for_expiry gives at most Cap options, all of the expiry asked for.
LEMMA FewOptions ==
    ASSUME listing \in Seq(Listable), NEW names, names \subseteq Listed, NEW e, NEW s
    PROVE  /\ StripFor(names, e, s) \subseteq {o \in names : o.exp = e}
           /\ IsFiniteSet(StripFor(names, e, s)) /\ Cardinality(StripFor(names, e, s)) <= Cap
<1> DEFINE half == Cap \div 2
           step == StrikeStep(s)
           in(o) == s > 0 => o.strike \in (Atm(s) - half * step)..(Atm(s) + (Cap - 1 - half) * step)
           inside == {o \in names : o.exp = e /\ in(o)}
           before == {p \in inside \X inside : Before(p[1], p[2])}
           few == FirstOf(inside, before, Cap)
<1>1. IsFiniteSet(inside) /\ inside \subseteq {o \in names : o.exp = e}
  <2>1. inside \in SUBSET names
    OBVIOUS
  <2> HIDE DEF in
  <2> QED BY <2>1, NamesFinite, FS_Subset
<1>2. \A o \in inside : o \in Listable /\ o.exp = e
  BY <1>1, ListedFinite
<1> HIDE DEF inside
<1>3. /\ \A x \in inside : <<x, x>> \notin before
      /\ \A x, y \in inside : x # y => <<x, y>> \in before \/ <<y, x>> \in before
      /\ \A x, y, z \in inside : <<x, y>> \in before /\ <<y, z>> \in before => <<x, z>> \in before
  <2>1. \A x, y \in inside : <<x, y>> \in before <=> Before(x, y)
    OBVIOUS
  <2>2. \A x \in inside : x = [exp |-> e, strike |-> x.strike, side |-> x.side] /\ x.strike \in Nat /\ x.side \in {"C", "P"}
    BY <1>2 DEF Listable
  <2>3. \A x, y \in inside : x # y => x.strike # y.strike \/ x.side # y.side
    BY <2>2
  <2> HIDE DEF before
  <2>4. ASSUME NEW x \in inside, NEW y \in inside, x # y PROVE <<x, y>> \in before \/ <<y, x>> \in before
    <3>1. Before(x, y) \/ Before(y, x)
      BY <2>2, <2>3, <2>4 DEF Before
    <3> QED BY <2>1, <3>1
  <2>5. ASSUME NEW x \in inside, NEW y \in inside, NEW z \in inside, Before(x, y), Before(y, z) PROVE Before(x, z)
    BY <2>2, <2>5 DEF Before
  <2>6. \A x \in inside : ~Before(x, x)
    BY <2>2 DEF Before
  <2> QED BY <2>1, <2>4, <2>5, <2>6
<1>4. IsFiniteSet(few) /\ Cardinality(few) <= Cap
  <2> HIDE DEF before
  <2>1. Cap \in Nat
    BY ChainAssumption
  <2> QED BY ONLY <1>1, <1>3, <2>1, FirstAreFew DEF few
<1>5. StripFor(names, e, s) = few
  <2>1. \A o \in inside : {p \in inside : <<p, o>> \in before} = {p \in inside : Before(p, o)}
    OBVIOUS
  <2>2. few = {o \in inside : Cardinality({p \in inside : Before(p, o)}) < Cap}
    <3> HIDE DEF before
    <3> QED BY <2>1 DEF FirstOf
  <2> HIDE DEF few, before
  <2> QED BY <2>2 DEF StripFor, inside
<1> QED
  <2>1. few \subseteq inside
    BY DEF FirstOf
  <2> HIDE DEF few
  <2> QED BY <1>1, <1>4, <1>5, <2>1

\* A strip, or what is left of it, is bounded.
Bounded(names) ==
    /\ Cardinality(Known(names)) <= ExpiryCount
    /\ \A e \in Known(names) : Cardinality({o \in names : o.exp = e}) <= Cap

\* What a connection asks for is listed and within both bounds.
LEMMA StripIsBounded ==
    ASSUME listing \in Seq(Listable), NEW names, names \subseteq Listed, NEW s,
           NEW some, some \subseteq Strip(names, s)
    PROVE  some \subseteq names /\ Bounded(some)
<1>1. \A e : StripFor(names, e, s) \subseteq {o \in names : o.exp = e}
  BY FewOptions
<1>2. some \subseteq names /\ \A o \in some : o.exp \in NextExpiries(names) /\ o \in StripFor(names, o.exp, s)
  BY <1>1 DEF Strip
<1>3. Cardinality(Known(some)) <= ExpiryCount
  <2>1. Known(some) \in SUBSET NextExpiries(names)
    BY <1>2 DEF Known
  <2>2. IsFiniteSet(NextExpiries(names)) /\ Cardinality(NextExpiries(names)) <= ExpiryCount
    BY FewExpiries
  <2>3. IsFiniteSet(Known(some)) /\ Cardinality(Known(some)) <= Cardinality(NextExpiries(names))
    BY <2>1, <2>2, FS_Subset
  <2>4. Cardinality(Known(some)) \in Nat /\ Cardinality(NextExpiries(names)) \in Nat
    BY <2>2, <2>3, FS_CardinalityType
  <2> QED BY <2>2, <2>3, <2>4, ChainAssumption
<1>4. ASSUME NEW e \in Known(some) PROVE Cardinality({o \in some : o.exp = e}) <= Cap
  <2> DEFINE these == {o \in some : o.exp = e}
  <2>1. these \in SUBSET StripFor(names, e, s)
    BY <1>2
  <2>2. IsFiniteSet(StripFor(names, e, s)) /\ Cardinality(StripFor(names, e, s)) <= Cap
    BY FewOptions
  <2> HIDE DEF these
  <2>3. IsFiniteSet(these) /\ Cardinality(these) <= Cardinality(StripFor(names, e, s))
    BY <2>1, <2>2, FS_Subset
  <2>4. Cardinality(these) \in Nat /\ Cardinality(StripFor(names, e, s)) \in Nat
    BY <2>2, <2>3, FS_CardinalityType
  <2>5. Cardinality(these) <= Cap
    BY <2>2, <2>3, <2>4, ChainAssumption
  <2> QED BY <2>5 DEF these
<1> QED
  BY <1>2, <1>3, <1>4 DEF Bounded

------------------------------------------------------------------------------
(* What has ticked. *)

Ticks == [quote : Quotes, place : Nat]

\* The keys of the dict are listed options, each at a place of its own.
LatestInv ==
    /\ Ticked \subseteq Listed
    /\ latest \in [Ticked -> Ticks]
    /\ \A o \in Ticked : latest[o].place \in 1..Cardinality(Ticked)
    /\ \A o, p \in Ticked : latest[o].place = latest[p].place => o = p

\* Quotes that come in keep the keys listed and their places apart.
LEMMA PutKeeps ==
    ASSUME listing \in Seq(Listable), LatestInv, NEW names, names \subseteq Listed, NEW q \in Quotes,
           latest' = Put(names, q), listing' = listing
    PROVE  LatestInv' /\ Ticked' = Ticked \cup names
<1> DEFINE new == names \ Ticked
           rank(o) == Cardinality({p \in new : PlaceInList(p) <= PlaceInList(o)})
           place(o) == IF o \in Ticked THEN latest[o].place ELSE Cardinality(Ticked) + rank(o)
           all == Ticked \cup names
<1>1. /\ IsFiniteSet(Ticked) /\ IsFiniteSet(new) /\ Cardinality(Ticked) \in Nat /\ Cardinality(new) \in Nat
      /\ IsFiniteSet(all) /\ Cardinality(all) = Cardinality(Ticked) + Cardinality(new)
  <2>1. IsFiniteSet(Ticked) /\ IsFiniteSet(new)
    BY ListedFinite, FS_Subset DEF LatestInv
  <2>2. Ticked \cap new = {} /\ all = Ticked \cup new
    OBVIOUS
  <2> HIDE DEF all, new
  <2>3. /\ IsFiniteSet(Ticked \cup new)
        /\ Cardinality(Ticked \cup new) = Cardinality(Ticked) + Cardinality(new) - Cardinality(Ticked \cap new)
    BY <2>1, FS_Union
  <2>4. Cardinality(Ticked) \in Nat /\ Cardinality(new) \in Nat /\ Cardinality(Ticked \cap new) = 0
    BY <2>1, <2>2, FS_CardinalityType, FS_EmptySet
  <2>5. IsFiniteSet(all) /\ Cardinality(all) = Cardinality(Ticked) + Cardinality(new) - 0
    BY ONLY <2>2, <2>3, <2>4
  <2> QED BY ONLY <2>1, <2>4, <2>5
<1>2. /\ \A o \in new : rank(o) \in 1..Cardinality(new)
      /\ \A o, p \in new : rank(o) = rank(p) => o = p
  <2> DEFINE at == [o \in new |-> PlaceInList(o)]
  <2>1. \A o \in new : PlaceInList(o) \in DOMAIN listing /\ listing[PlaceInList(o)] = o
    <3>1. ASSUME NEW o \in new PROVE \E i \in DOMAIN listing : listing[i] = o
      BY DEF Listed, ToSet
    <3> HIDE DEF new
    <3> QED BY <3>1 DEF PlaceInList
  <2> HIDE DEF new
  <2>2. (\A o \in new : at[o] \in Int) /\ (\A o, p \in new : at[o] = at[p] => o = p)
    <3>1. DOMAIN listing \subseteq Int
      BY LenProperties
    <3> QED BY <2>1, <3>1
  <2>3. \A o \in new : {p \in new : at[p] <= at[o]} = {p \in new : PlaceInList(p) <= PlaceInList(o)}
    OBVIOUS
  <2> HIDE DEF at
  <2>31. IsFiniteSet(new)
    BY <1>1
  <2>4. /\ \A o \in new : Cardinality({p \in new : at[p] <= at[o]}) \in 1..Cardinality(new)
        /\ \A o, p \in new : Cardinality({r \in new : at[r] <= at[o]}) = Cardinality({r \in new : at[r] <= at[p]}) => o = p
    BY ONLY <2>31, <2>2, RanksApart
  <2>5. \A o \in new : rank(o) = Cardinality({p \in new : at[p] <= at[o]})
    BY <2>3
  <2> HIDE DEF rank
  <2> QED BY <2>4, <2>5
<1>3. latest' = [o \in all |-> IF o \in names THEN [quote |-> q, place |-> place(o)] ELSE latest[o]]
  BY DEF Put
<1> HIDE DEF new, rank
<1>4. ASSUME NEW o \in all PROVE o \in Ticked \/ o \in new
  BY DEF new
<1>5. ASSUME NEW o \in all PROVE place(o) \in 1..Cardinality(all)
  <2>1. CASE o \in Ticked
    <3>1. latest[o].place \in 1..Cardinality(Ticked)
      BY <2>1 DEF LatestInv
    <3> HIDE DEF all
    <3> QED BY <1>1, <2>1, <3>1
  <2>2. CASE o \notin Ticked
    <3>1. rank(o) \in 1..Cardinality(new)
      BY <1>2, <1>4, <2>2
    <3> HIDE DEF all
    <3> QED BY <1>1, <2>2, <3>1
  <2> QED BY <2>1, <2>2
<1>6. ASSUME NEW o \in all, NEW p \in all, place(o) = place(p) PROVE o = p
  <2>1. CASE o \in Ticked /\ p \in Ticked
    BY <1>6, <2>1 DEF LatestInv
  <2>2. CASE o \in Ticked /\ p \notin Ticked
    <3>1. latest[o].place \in 1..Cardinality(Ticked) /\ rank(p) \in 1..Cardinality(new)
      BY <1>2, <1>4, <2>2 DEF LatestInv
    <3> HIDE DEF all
    <3> QED BY <1>1, <1>6, <2>2, <3>1
  <2>3. CASE o \notin Ticked /\ p \in Ticked
    <3>1. latest[p].place \in 1..Cardinality(Ticked) /\ rank(o) \in 1..Cardinality(new)
      BY <1>2, <1>4, <2>3 DEF LatestInv
    <3> HIDE DEF all
    <3> QED BY <1>1, <1>6, <2>3, <3>1
  <2>4. CASE o \notin Ticked /\ p \notin Ticked
    <3>1. o \in new /\ p \in new /\ rank(o) \in 1..Cardinality(new) /\ rank(p) \in 1..Cardinality(new)
      BY <1>2, <1>4, <2>4
    <3>2. rank(o) = rank(p)
      <4> HIDE DEF all
      <4> QED BY <1>1, <1>6, <2>4, <3>1
    <3> QED BY <1>2, <3>1, <3>2
  <2> QED BY <2>1, <2>2, <2>3, <2>4
<1>7. ASSUME NEW o \in all PROVE latest'[o] \in Ticks /\ latest'[o].place = place(o)
  <2>1. CASE o \in names
    <3>1. latest'[o] = [quote |-> q, place |-> place(o)]
      BY <1>3, <2>1
    <3>2. place(o) \in Nat
      <4> HIDE DEF place, all
      <4>1. place(o) \in 1..Cardinality(all) /\ Cardinality(all) \in Nat
        BY <1>1, <1>5
      <4> QED BY <4>1
    <3> HIDE DEF place
    <3> QED BY <3>1, <3>2 DEF Ticks
  <2>2. CASE o \notin names
    <3>1. o \in Ticked /\ latest'[o] = latest[o]
      BY <1>3, <2>2
    <3> QED BY <3>1 DEF LatestInv
  <2> QED BY <2>1, <2>2
<1>8. Ticked' = all /\ latest' \in [all -> Ticks]
  <2>1. DOMAIN latest' = all /\ latest' = [o \in all |-> latest'[o]]
    <3> HIDE DEF all, place
    <3> DEFINE val(o) == IF o \in names THEN [quote |-> q, place |-> place(o)] ELSE latest[o]
    <3>1. latest' = [o \in all |-> val(o)]
      BY <1>3
    <3> HIDE DEF val
    <3> QED BY <3>1
  <2> HIDE DEF all, place
  <2> QED BY <1>7, <2>1 DEF Ticked
<1>9. all \subseteq Listed /\ Listed' = Listed
  BY DEF LatestInv, Listed
<1> QED
  <2> HIDE DEF all, place
  <2>1. \A o \in all : latest'[o].place \in 1..Cardinality(all)
    BY <1>5, <1>7
  <2>2. \A o, p \in all : latest'[o].place = latest'[p].place => o = p
    BY <1>6, <1>7
  <2>3. LatestInv'
    BY <1>8, <1>9, <2>1, <2>2 DEF LatestInv
  <2> QED BY <1>8, <2>3 DEF all

------------------------------------------------------------------------------
(* Spot, strike and rank. *)

\* A multiple of the step at most half a step away.
LEMMA RoundIsNear ==
    ASSUME NEW x \in Nat, NEW step \in {50, 100, 1000}
    PROVE  2 * (RoundTo(x, step) - x) <= step /\ -2 * (RoundTo(x, step) - x) <= step
<1>1. CASE step = 50
  BY <1>1 DEF RoundTo
<1>2. CASE step = 100
  BY <1>2 DEF RoundTo
<1>3. CASE step = 1000
  BY <1>3 DEF RoundTo
<1> QED
  BY <1>1, <1>2, <1>3

\* The strike the spot is rounded to is the nearest.
LEMMA AtmNear == ASSUME spot \in Nat PROVE AtmIsNearest
<1>1. StrikeStep(spot) \in {50, 100, 1000}
  BY DEF StrikeStep
<1>2. CASE spot > 0
  <2>1. Atm(spot) = RoundTo(spot, StrikeStep(spot))
    BY <1>2 DEF Atm
  <2> QED BY <1>1, <1>2, <2>1, RoundIsNear DEF AtmIsNearest
<1> QED
  BY <1>2 DEF AtmIsNearest

\* The rank by the volatility index, without the minimum.
LEMMA RankByDvol ==
    ASSUME NEW d \in Nat, d > 0
    PROVE  IvRank(d, 0) = IF d < 30 THEN d ELSE LET r == 30 + ((d - 30) * 70) \div 50 IN IF 100 <= r THEN 100 ELSE r
<1> DEFINE r == 30 + ((d - 30) * 70) \div 50
<1>1. CASE d >= 30
  <2>1. r \in Int
    BY <1>1
  <2>2. IvRank(d, 0) = Min({100, r})
    BY <1>1 DEF IvRank
  <2> HIDE DEF r
  <2>3. Min({100, r}) = IF 100 <= r THEN 100 ELSE r
    BY <2>1, LesserIs
  <2>4. IvRank(d, 0) = IF 100 <= r THEN 100 ELSE r
    BY <2>2, <2>3
  <2> QED BY <1>1, <2>4 DEF r
<1>2. CASE d < 30
  BY <1>2 DEF IvRank
<1> QED BY <1>1, <1>2

\* It never falls as the published index rises above 3 percent.
LEMMA DvolRanks == RankFollowsDvol
<1>1. ASSUME NEW d \in Nat, d >= 2 PROVE IvRank(d - 1, 0) <= IvRank(d, 0)
  <2> DEFINE c == d - 1
  <2>1. c \in Nat /\ c > 0 /\ c = d - 1
    BY <1>1
  <2> HIDE DEF c
  <2>2. /\ IvRank(c, 0) = IF c < 30 THEN c ELSE LET r == 30 + ((c - 30) * 70) \div 50 IN IF 100 <= r THEN 100 ELSE r
        /\ IvRank(d, 0) = IF d < 30 THEN d ELSE LET r == 30 + ((d - 30) * 70) \div 50 IN IF 100 <= r THEN 100 ELSE r
    BY <1>1, <2>1, RankByDvol
  <2>3. ASSUME d < 30 PROVE IvRank(c, 0) <= IvRank(d, 0)
    BY <2>1, <2>2, <2>3
  <2>4. ASSUME d >= 30 PROVE IvRank(c, 0) <= IvRank(d, 0)
    <3>1. c >= 30 => ((c - 30) * 70) \div 50 <= ((d - 30) * 70) \div 50
      BY <1>1, <2>1, <2>4
    <3>2. ((d - 30) * 70) \div 50 >= 0 /\ ((d - 30) * 70) \div 50 \in Int /\ ((c - 30) * 70) \div 50 \in Int
      BY <1>1, <2>1, <2>4
    <3> QED BY <1>1, <2>1, <2>2, <2>4, <3>1, <3>2
  <2>5. IvRank(c, 0) <= IvRank(d, 0)
    <3>1. d < 30 \/ d >= 30
      BY <1>1
    <3> QED BY <2>3, <2>4, <3>1, Zenon
  <2> QED BY <2>1, <2>5
<1>2. ASSUME NEW close \in 5..Max(DvolReadings)
      PROVE  IvRank(DvolPct(close - 1), 0) <= IvRank(DvolPct(close), 0)
  <2>1. close \in Nat /\ close >= 2 /\ DvolPct(close) = close /\ DvolPct(close - 1) = close - 1
    BY <1>2 DEF DvolPct
  <2> QED BY <1>1, <2>1
<1> QED
  BY <1>2 DEF RankFollowsDvol

\* The volatility looked up at a strike is a number.
LEMMA IvIsNat ==
    ASSUME listing \in Seq(Listable), LatestInv, NEW k, NEW side
    PROVE  IvAt(k, side) \in Nat
<1>1. ASSUME <<k, side>> \in Priced PROVE OiEntry(k, side).quote.iv \in Nat
  <2>1. PICK o \in Ticked : o.strike = k /\ o.side = side
    BY <1>1 DEF Priced
  <2> DEFINE places == {latest[p].place : p \in AtStrike(k, side)}
  <2>2. IsFiniteSet(AtStrike(k, side)) /\ AtStrike(k, side) \subseteq Ticked /\ o \in AtStrike(k, side)
    BY <2>1, ListedFinite, FS_Subset DEF AtStrike, LatestInv
  <2>3. places \subseteq Nat /\ places # {}
    BY <2>2 DEF LatestInv, Ticks
  <2>4. IsFiniteSet(places)
    <3> DEFINE f == [p \in AtStrike(k, side) |-> latest[p].place]
    <3>1. f \in Surjection(AtStrike(k, side), places)
      BY DEF Surjection
    <3> HIDE DEF f, places
    <3> QED BY <2>2, <3>1, FS_Surjection
  <2>5. \E m \in places : \A n \in places : n <= m
    <3> HIDE DEF places
    <3> QED BY <2>3, <2>4, GreatestNumber
  <2>6. \E p \in AtStrike(k, side) : \A r \in AtStrike(k, side) : latest[r].place <= latest[p].place
    BY <2>5
  <2>7. PICK p \in AtStrike(k, side) : OiEntry(k, side) = latest[p]
    BY <2>6 DEF OiEntry
  <2>8. latest[p] \in Ticks
    BY <2>2 DEF LatestInv
  <2> QED BY <2>7, <2>8, ChainAssumption DEF Ticks
<1> QED
  BY <1>1 DEF IvAt

\* The rank never falls with more volatility, by the index or by the quotes.
LEMMA RankFollows == ASSUME listing \in Seq(Listable), LatestInv PROVE RankFollowsVolatility
<1>1. AtmIv2 \in Nat
  <2>1. IvAt(Atm(spot), "C") \in Nat /\ IvAt(Atm(spot), "P") \in Nat
    BY IvIsNat
  <2> QED BY <2>1 DEF AtmIv2
<1>2. ASSUME NEW iv \in Nat, NEW v \in 1..iv PROVE IvRank(0, v) <= IvRank(0, iv)
  BY <1>2 DEF IvRank
<1> QED
  BY <1>1, <1>2, DvolRanks DEF RankFollowsVolatility

\* The traded expiry is one of a listed option.
LEMMA NearestIsListed ==
    ASSUME listing \in Seq(Listable), NEW names, names \subseteq Listed, Nearest(names) # None
    PROVE  Nearest(names) \in Known(Offered)
<1> DEFINE open == {e \in Known(names) : e >= today}
<1>1. open # {} /\ Nearest(names) = Min(open)
  BY DEF Nearest
<1>2. open \subseteq Nat
  BY NamesFinite
<1>3. Min(open) \in open
  <2> HIDE DEF open
  <2> QED BY <1>1, <1>2, MinIs
<1>4. open \subseteq Known(Offered)
  BY DEF Known, Offered, Listed
<1> QED
  BY <1>1, <1>3, <1>4

------------------------------------------------------------------------------
\* What the lists hold is listed, what was asked for is bounded.
ChainInv ==
    /\ listing \in Seq(Listable) /\ spot \in Nat
    /\ cache.names \subseteq Listed
    /\ asked \subseteq Listed /\ Bounded(asked)
    /\ LatestInv

\* Every step of either feed keeps the lists.
LEMMA ChainStep == ASSUME ChainInv, [ChainNext]_chainVars PROVE ChainInv'
<1>1. ASSUME UNCHANGED <<listing, cache, asked, latest>>, spot' \in Nat PROVE ChainInv'
  BY <1>1 DEF ChainInv, Listed, LatestInv, Ticked, Bounded, Known
<1>2. ASSUME NextDay \/ HourPasses \/ FetchDvol \/ UNCHANGED chainVars PROVE ChainInv'
  BY <1>1, <1>2 DEF NextDay, HourPasses, FetchDvol, chainVars, ChainInv
<1>3. ASSUME OnSpot PROVE ChainInv'
  BY <1>1, <1>3, ChainAssumption DEF OnSpot
<1>4. ASSUME Connect PROVE ChainInv'
  <2>1. PICK names \in IF cache.held /\ fresh THEN {cache.names} ELSE {Offered, {}} :
            /\ cache' = [held |-> TRUE, names |-> names]
            /\ asked' = Strip(names, spot) \ recorded
    BY <1>4 DEF Connect
  <2>2. UNCHANGED <<listing, spot, latest>>
    BY <1>4 DEF Connect
  <2>3. names \subseteq Listed
    BY <2>1 DEF ChainInv, Offered, Listed
  <2>4. asked' \subseteq names /\ Bounded(asked')
    <3> DEFINE new == asked'
    <3>1. new \subseteq Strip(names, spot) /\ listing \in Seq(Listable)
      BY <2>1 DEF ChainInv
    <3> HIDE DEF new
    <3>2. new \subseteq names /\ Bounded(new)
      BY <2>3, <3>1, StripIsBounded
    <3> QED BY <3>2 DEF new
  <2>5. Bounded(asked)' /\ Listed' = Listed /\ LatestInv'
    BY <2>2, <2>4 DEF Bounded, Known, Listed, LatestInv, Ticked, ChainInv
  <2> QED BY <2>1, <2>2, <2>3, <2>4, <2>5 DEF ChainInv
<1>5. ASSUME OnTicker PROVE ChainInv'
  <2>1. PICK o \in asked, q \in Quotes : latest' = Put({o}, q)
    BY <1>5 DEF OnTicker
  <2>2. UNCHANGED <<listing, cache, asked>> /\ spot' \in Nat
    BY <1>5, ChainAssumption DEF OnTicker, ChainInv
  <2>3. LatestInv'
    BY <2>1, <2>2, PutKeeps DEF ChainInv
  <2> QED BY <2>2, <2>3 DEF ChainInv, Listed, Bounded, Known
<1>6. ASSUME Poll PROVE ChainInv'
  <2>1. PICK s \in IndexPrices \cup {0}, q \in Quotes, names \in SUBSET Offered :
            spot' = (IF s > 0 THEN s ELSE spot) /\ latest' = Put(names, q)
    BY <1>6 DEF Poll
  <2>2. UNCHANGED <<listing, cache, asked>> /\ spot' \in Nat
    BY <1>6, <2>1, ChainAssumption DEF Poll, ChainInv
  <2>3. names \subseteq Listed
    BY DEF Offered, Listed
  <2>4. LatestInv'
    BY <2>1, <2>2, <2>3, PutKeeps DEF ChainInv
  <2> QED BY <2>2, <2>4 DEF ChainInv, Listed, Bounded, Known
<1> QED
  BY <1>2, <1>3, <1>4, <1>5, <1>6 DEF ChainNext

\* They hold nothing at first.
LEMMA ChainStart == ChainInit => ChainInv
<1> SUFFICES ASSUME ChainInit PROVE ChainInv
  OBVIOUS
<1>1. listing \in Seq(Listable) /\ spot = 0 /\ cache.names = {} /\ asked = {}
  BY ChainAssumption DEF ChainInit
<1>2. Bounded(asked)
  <2>1. Known(asked) = {} /\ Cardinality({}) = 0
    BY <1>1, FS_EmptySet DEF Known
  <2> QED BY <2>1, ChainAssumption DEF Bounded
<1>3. LatestInv
  BY DEF ChainInit, LatestInv, Ticked
<1> QED
  BY <1>1, <1>2, <1>3 DEF ChainInv

\* What the feeds tell the strategies is sound, however old lists and quotes are: a
\* connection asks for no more options than the cap, the expiry is one the exchange
\* lists, the strike is the nearest to the spot, and the rank never falls as the
\* published index rises above 3 percent or, without one, as the quotes do.
THEOREM ChainAlwaysSound == ChainSpec => []ChainSound
<1>1. ChainInv => ChainSound
  <2> SUFFICES ASSUME ChainInv PROVE ChainSound
    OBVIOUS
  <2>1. StripBounded
    BY DEF ChainInv, Bounded, StripBounded
  <2>2. TradedIsListed
    BY NearestIsListed DEF TradedIsListed, NearestExpiry, ChainInv, LatestInv
  <2>3. AtmIsNearest /\ RankFollowsVolatility
    BY AtmNear, RankFollows DEF ChainInv
  <2> QED BY <2>1, <2>2, <2>3 DEF ChainSound
<1> QED
  BY <1>1, ChainStart, ChainStep, PTL DEF ChainSpec

------------------------------------------------------------------------------
\* The types of what the feeds keep.
CachesInv ==
    /\ feed \in Feeds /\ listing \in Listings /\ today \in 0..LastDay /\ fresh \in BOOLEAN
    /\ spot \in IndexPrices \cup {0} /\ dvol \in {DvolPct(c) : c \in DvolReadings \cup {0}}
    /\ cache.held \in BOOLEAN /\ asked \subseteq recorded
    /\ feed = "ws" => Ticked \subseteq recorded
    /\ feed = "rest" => ~cache.held /\ dvol = 0 /\ recorded = {}

\* Every step keeps the types of the caches.
LEMMA CachesStep == ASSUME ChainInv, CachesInv, [ChainNext]_chainVars PROVE CachesInv'
<1> USE DEF CachesInv
<1>1. ASSUME NextDay PROVE CachesInv'
  BY <1>1, ChainAssumption DEF NextDay, Ticked
<1>2. ASSUME HourPasses PROVE CachesInv'
  BY <1>2 DEF HourPasses, Ticked
<1>3. ASSUME OnSpot \/ FetchDvol \/ UNCHANGED chainVars PROVE CachesInv'
  BY <1>3 DEF OnSpot, FetchDvol, chainVars, Ticked
<1>4. ASSUME Connect PROVE CachesInv'
  <2>1. cache'.held = TRUE /\ fresh' = TRUE /\ recorded' = recorded \cup asked' /\ feed = "ws"
        /\ UNCHANGED <<feed, listing, today, spot, latest, dvol>>
    BY <1>4 DEF Connect
  <2> QED BY <2>1 DEF Ticked
<1>5. ASSUME OnTicker PROVE CachesInv'
  <2>1. PICK o \in asked, q \in Quotes : latest' = Put({o}, q)
    BY <1>5 DEF OnTicker
  <2>2. UNCHANGED <<feed, listing, today, cache, fresh, asked, recorded, dvol>> /\ spot' \in IndexPrices \cup {0}
        /\ feed = "ws"
    BY <1>5 DEF OnTicker
  <2>3. Ticked' = Ticked \cup {o}
    BY <2>1, <2>2, PutKeeps DEF ChainInv
  <2> QED BY <2>2, <2>3
<1>6. ASSUME Poll PROVE CachesInv'
  <2>1. UNCHANGED <<feed, listing, today, cache, fresh, asked, recorded, dvol>> /\ feed = "rest"
        /\ spot' \in IndexPrices \cup {0}
    BY <1>6 DEF Poll
  <2> QED BY <2>1
<1> QED
  BY <1>1, <1>2, <1>3, <1>4, <1>5, <1>6 DEF ChainNext

\* The caches of both feeds keep their shape: places of keys stay apart, and only
\* what was asked for ticks.
THEOREM ChainTypeCorrect == ChainSpec => []ChainTypeOK
<1>1. ChainInit => CachesInv
  <2> SUFFICES ASSUME ChainInit PROVE CachesInv
    OBVIOUS
  <2>0. 0 \in 0..LastDay
    BY ChainAssumption
  <2>1. /\ feed \in Feeds /\ listing \in Listings /\ today \in 0..LastDay /\ fresh \in BOOLEAN
        /\ spot = 0 /\ dvol = 0 /\ cache.held = FALSE /\ asked = {} /\ recorded = {}
    BY <2>0 DEF ChainInit
  <2>2. Ticked = {} /\ DvolPct(0) = 0
    BY DEF ChainInit, Ticked, DvolPct
  <2> QED BY <2>1, <2>2 DEF CachesInv
<1>2. ChainInv /\ CachesInv => ChainTypeOK
  BY DEF ChainInv, CachesInv, LatestInv, ChainTypeOK
<1> QED
  BY <1>1, <1>2, ChainStart, ChainStep, CachesStep, PTL DEF ChainSpec

====
