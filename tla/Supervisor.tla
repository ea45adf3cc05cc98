----------------------------- MODULE Supervisor -----------------------------
(***************************************************************************)
(* crypto_options_bot/supervisor.py: runs the bot as a child, starts it    *)
(* again after an exit with a growing pause, gives up when it exits too    *)
(* often, and passes a signal on to the child.                             *)
(*                                                                         *)
(* Time passes while the supervisor waits or sleeps, in slices of one      *)
(* second. An exit is kept as its age; older ones than the window no       *)
(* longer count, so time needs no bound. The signal handler may run        *)
(* between any two statements of the loop.                                 *)
(***************************************************************************)
EXTENDS Naturals, Sequences, FiniteSets

CONSTANTS
    MaxRestarts,   \* MAX_RESTARTS_IN_WINDOW
    Window,        \* WINDOW_SEC
    Initial,       \* INITIAL_BACKOFF_SEC
    MaxBackoff,    \* MAX_BACKOFF_SEC
    MayHang        \* whether a child may ignore the signal

ASSUME PolicyAssumption ==
    /\ MaxRestarts \in Nat \ {0} /\ Window \in Nat \ {0}
    /\ Initial \in Nat \ {0} /\ MaxBackoff \in Nat
    /\ Initial <= MaxBackoff /\ MayHang \in BOOLEAN

VARIABLES
    pc,        \* where the loop is
    child,     \* the child process: none, running, hung, exited
    known,     \* whether state["child"] is the child that runs
    told,      \* whether the child was sent the signal
    exits,     \* restart_times as ages, those within the window
    attempt,   \* attempt, up to where the pause no longer grows
    backoff,   \* the pause chosen
    slept,     \* slept
    stop,      \* state["stop"]
    gap        \* history: the signal came while a child was being started

supervisorVars == <<pc, child, known, told, exits, attempt, backoff, slept, stop, gap>>

Ended == {"bye", "gaveup", "failed"}

SupervisorInit ==
    /\ pc = "loop" /\ child = "none"
    /\ known = FALSE /\ told = FALSE /\ stop = FALSE
    /\ exits = <<>> /\ attempt = 0 /\ backoff = 0 /\ slept = 0 /\ gap = FALSE

------------------------------------------------------------------------------
\* The next pause: doubled with every attempt, up to a cap.
NextBackoff(n) ==
    LET delay == IF n = 0 THEN Initial ELSE Initial * 2^(n - 1)
    IN  IF delay > MaxBackoff THEN MaxBackoff ELSE delay

\* mutant: forgets the cap on the number in the window
GiveUpLate(ages) == Len(ages) > MaxRestarts

\* The list of ages has those of the window only.
ShouldGiveUp(ages) == Len(ages) >= MaxRestarts

\* A second goes by; the oldest, in front, leave the window.
Older(ages) ==
    LET gone == Cardinality({i \in DOMAIN ages : ages[i] >= Window})
    IN  [i \in 1..Len(ages) - gone |-> ages[i + gone] + 1]

------------------------------------------------------------------------------
(* The loop. *)

\* The test of the while loop.
TestStop ==
    /\ pc = "loop"
    /\ pc' = IF stop THEN "bye" ELSE "spawn"
    /\ UNCHANGED <<child, known, told, exits, attempt, backoff, slept, stop, gap>>

Spawn ==
    /\ pc = "spawn"
    /\ pc' = "record" /\ child' = "running" /\ known' = FALSE /\ told' = FALSE
    /\ UNCHANGED <<exits, attempt, backoff, slept, stop, gap>>

SpawnFails ==
    /\ pc = "spawn" /\ pc' = "failed"
    /\ UNCHANGED <<child, known, told, exits, attempt, backoff, slept, stop, gap>>

\* state["child"] = child
Record ==
    /\ pc = "record"
    /\ pc' = "wait" /\ known' = TRUE
    /\ UNCHANGED <<child, told, exits, attempt, backoff, slept, stop, gap>>

\* wait() returns; after a signal the loop ends.
Reap ==
    /\ pc = "wait" /\ child = "exited"
    /\ pc' = IF stop THEN "bye" ELSE "decide"
    /\ child' = "none"
    /\ UNCHANGED <<known, told, exits, attempt, backoff, slept, stop, gap>>

\* The exit is noted, then counted.
Decide ==
    /\ pc = "decide"
    /\ exits' = Append(exits, 0)
    /\ attempt' = IF attempt = 0 \/ NextBackoff(attempt) < MaxBackoff
                  THEN attempt + 1 ELSE attempt
    /\ IF ShouldGiveUp(exits') THEN pc' = "gaveup" /\ UNCHANGED <<backoff, slept>>
       ELSE pc' = "sleep" /\ backoff' = NextBackoff(attempt') /\ slept' = 0
    /\ UNCHANGED <<child, known, told, stop, gap>>

\* One slice of the pause.
SleepSlice ==
    /\ pc = "sleep" /\ slept < backoff /\ ~stop
    /\ slept' = slept + 1
    /\ exits' = Older(exits)
    /\ UNCHANGED <<pc, child, known, told, attempt, backoff, stop, gap>>

Wake ==
    /\ pc = "sleep" /\ (slept >= backoff \/ stop)
    /\ pc' = "loop"
    /\ UNCHANGED <<child, known, told, exits, attempt, backoff, slept, stop, gap>>

\* A second of waiting for the child.
Tick ==
    /\ pc = "wait" /\ exits' = Older(exits) /\ exits' # exits
    /\ UNCHANGED <<pc, child, known, told, attempt, backoff, slept, stop, gap>>

------------------------------------------------------------------------------
(* The signal handler and the child. *)

\* mutant: only notes the signal
NoteSignal ==
    /\ ~stop /\ pc \notin Ended
    /\ stop' = TRUE /\ gap' = (pc \in {"spawn", "record"})
    /\ UNCHANGED <<pc, child, known, told, exits, attempt, backoff, slept>>

\* _on_signal: the child it knows gets the signal, if it still runs.
OnSignal ==
    /\ ~stop /\ pc \notin Ended
    /\ stop' = TRUE /\ gap' = (pc \in {"spawn", "record"})
    /\ told' = (known /\ child \in {"running", "hung"})
    /\ UNCHANGED <<pc, child, known, exits, attempt, backoff, slept>>

\* The child crashes or reaches the end of its run.
ChildExits ==
    /\ child = "running"
    /\ child' = "exited"
    /\ UNCHANGED <<pc, known, told, exits, attempt, backoff, slept, stop, gap>>

\* It is stuck in a call and no longer sees a signal.
ChildHangs ==
    /\ MayHang /\ child = "running"
    /\ child' = "hung"
    /\ UNCHANGED <<pc, known, told, exits, attempt, backoff, slept, stop, gap>>

\* The runner ends its loop on a signal.
ChildObeys == told /\ ChildExits

------------------------------------------------------------------------------
LoopStep ==
    \/ TestStop \/ Spawn \/ SpawnFails \/ Record \/ Reap \/ Decide \/ SleepSlice \/ Wake

SupervisorNext == LoopStep \/ Tick \/ OnSignal \/ ChildExits \/ ChildHangs

\* The loop runs, and a child that got the signal and is not stuck ends.
SupervisorSpec == SupervisorInit /\ [][SupervisorNext]_supervisorVars /\ WF_supervisorVars(LoopStep) /\ WF_supervisorVars(ChildObeys)

------------------------------------------------------------------------------
(* Properties. *)

\* Type invariant.
SupervisorTypeOK ==
    /\ pc \in {"loop", "spawn", "record", "wait", "decide", "sleep"} \cup Ended
    /\ child \in {"none", "running", "hung", "exited"}
    /\ {known, told, stop, gap} \subseteq BOOLEAN
    /\ exits \in Seq(0..Window) /\ attempt \in Nat
    /\ backoff \in 0..MaxBackoff /\ slept \in 0..MaxBackoff

\* The bot never runs again, or is about to, with as many exits in the window as
\* make the supervisor give up, however its lives and pauses fall: give-up is
\* never missed, and the window forgets what is old.
NeverThrashes == pc # "gaveup" => Len(exits) < MaxRestarts

\* Between an exit and the next start lies the whole pause, unless the supervisor
\* is told to stop: no signal or slice makes it start early.
PausesFirst ==
    pc = "spawn" /\ exits # <<>> =>
        \A i \in DOMAIN exits : exits[i] >= NextBackoff(attempt)

\* A bot that exited is started again, unless the supervisor ends.
ComesBack == child = "exited" ~> (child = "running" \/ pc \in Ended)

\* A signal ends the supervisor and its child, wherever in the loop and the child's
\* life it comes, unless a child is being started just then or is stuck.
StopEnds == []<>(stop /\ ~gap => pc \in Ended \/ child = "hung")

\* Both limits of the restart policy hold at every start.
PolicyKept == NeverThrashes /\ PausesFirst

\* The supervisor never just waits: a bot that exited is replaced, a signal heard.
SupervisorGoesOn == ComesBack /\ StopEnds

=============================================================================
