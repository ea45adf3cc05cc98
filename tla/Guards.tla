------------------------------- MODULE Guards -------------------------------
(***************************************************************************)
(* Who keeps the bot running: the NSSM service, the supervisor daemon of   *)
(* scripts/crypto_supervisor.py with its orphan killer, and watchdog.ps1.  *)
(* They know of each other only what the process table, the service state  *)
(* and liveness.json show.                                                 *)
(*                                                                         *)
(* A unit of time is a minute, in which a bot that runs writes the file.   *)
(***************************************************************************)
EXTENDS Naturals, FiniteSets

CONSTANTS
    Pids,        \* process numbers of bots
    On,          \* the guards that run: "supervisor", "watchdog"
    Stale,       \* STALE_THRESHOLD_SEC
    Wedged,      \* bound on the age of the file
    SweepEvery,  \* ORPHAN_KILL_EVERY
    QuickStart,  \* whether a bot writes the file within a cycle of its start
    MaxBeside,   \* bound on the bots beside the service's
    MaxFaults    \* bound on what goes wrong

ASSUME GuardsAssumption ==
    /\ IsFiniteSet(Pids) /\ Pids \subseteq Nat \ {0}
    /\ On \subseteq {"supervisor", "watchdog"} /\ QuickStart \in BOOLEAN
    /\ Stale \in Nat /\ Wedged \in Nat /\ Stale < Wedged
    /\ SweepEvery \in Nat \ {0} /\ MaxBeside \in Nat /\ MaxFaults \in Nat

VARIABLES
    bot,         \* state of each process: none, starting, up, stuck
    service,     \* what NSSM reports: running, stopped, pending
    serviced,    \* the process NSSM started, 0 if none
    file,        \* liveness.json: who wrote it and its age
    port,        \* the process that serves the dashboard, 0 if none
    sup,         \* where the daemon's cycle is, and what the sweep will kill
    cycle,       \* its number, modulo SweepEvery
    faults       \* what has gone wrong so far

guardsVars == <<bot, service, serviced, file, port, sup, cycle, faults>>

Alive == {p \in Pids : bot[p] # "none"}
Up    == {p \in Pids : bot[p] = "up"}
Fresh == Pids \ (Alive \cup sup.targets \cup {file.pid})

\* The numbers are alike: a process gets the least that is free.
Least(ps) == {p \in ps : \A q \in ps : p <= q}
NewPids   == Least(Fresh)

At(step) == [at |-> step, why |-> sup.why, targets |-> {}]
Query    == [at |-> "query", why |-> "none", targets |-> {}]

\* The service is stopped; a bot may have been started by hand.
GuardsInit ==
    /\ \/ /\ bot = [p \in Pids |-> "none"]
          /\ file = [pid |-> 0, age |-> Wedged] /\ port = 0
       \/ \E p \in Least(Pids) :
             /\ bot = [q \in Pids |-> IF q = p THEN "up" ELSE "none"]
             /\ file = [pid |-> p, age |-> 0] /\ port = p
    /\ service = "stopped" /\ serviced = 0 /\ sup = Query
    /\ cycle = 1 /\ faults = 0

Fault == faults < MaxFaults /\ faults' = faults + 1
Fine  == UNCHANGED faults

\* A bot is started beside the service's.
StartDirect ==
    /\ IF Cardinality(Alive \ {serviced}) >= MaxBeside THEN UNCHANGED bot
       ELSE \E p \in NewPids : bot' = [bot EXCEPT ![p] = "starting"]
    /\ UNCHANGED <<service, serviced, port>>

Leave(ps) ==
    /\ serviced' = IF serviced \in ps THEN 0 ELSE serviced
    /\ port' = IF port \in ps THEN 0 ELSE port

Ends(ps) ==
    /\ bot' = [p \in Pids |-> IF p \in ps THEN "none" ELSE bot[p]]
    /\ Leave(ps)

\* NSSM ends its child and starts another.
StartChild ==
    \E p \in NewPids :
        /\ bot' = [q \in Pids |-> IF q = p THEN "starting"
                                  ELSE IF q = serviced THEN "none" ELSE bot[q]]
        /\ serviced' = p /\ service' = "running"
        /\ port' = IF port = serviced THEN 0 ELSE port

------------------------------------------------------------------------------
(* The bots and the service. *)

\* Its dashboard serves the port, if no other does: a bot tries to bind it once.
ComesUp(p) ==
    /\ bot[p] = "starting"
    /\ bot' = [bot EXCEPT ![p] = "up"]
    /\ port' = IF port = 0 THEN p ELSE port
    /\ UNCHANGED <<service, serviced, file, sup, cycle, faults>>

\* A minute: every bot that is up writes the file, one of them last.
Minute ==
    /\ IF Up = {} THEN file' = [file EXCEPT !.age = IF @ < Wedged THEN @ + 1 ELSE @]
       ELSE \E p \in Up : file' = [pid |-> p, age |-> 0]
    /\ UNCHANGED <<bot, service, serviced, port, sup, cycle, faults>>

Crash(p) ==
    /\ bot[p] # "none" /\ Fault
    /\ Ends({p})
    /\ UNCHANGED <<service, file, sup, cycle>>

\* The loop is blocked in a call.
Sticks(p) ==
    /\ bot[p] = "up" /\ Fault
    /\ bot' = [bot EXCEPT ![p] = "stuck"]
    /\ UNCHANGED <<service, serviced, file, port, sup, cycle>>

\* NSSM starts a child that has ended anew, after a throttle at times.
ServiceRestarts ==
    /\ service # "stopped" /\ serviced = 0 /\ Fine
    /\ StartChild
    /\ UNCHANGED <<file, sup, cycle>>

ServiceThrottles ==
    /\ service = "running" /\ serviced = 0 /\ Fault
    /\ service' = "pending"
    /\ UNCHANGED <<bot, serviced, file, port, sup, cycle>>

\* Somebody stops the service.
ServiceStopped ==
    /\ service = "running" /\ Fault
    /\ service' = "stopped" /\ Ends({serviced})
    /\ UNCHANGED <<file, sup, cycle>>

------------------------------------------------------------------------------
(* The supervisor daemon: run_cycle. *)

NextCycle == sup' = Query /\ cycle' = (cycle + 1) % SweepEvery

\* The service is not seen to run, so it is started. The start is refused while one
\* is pending, or fails, or the service runs and the query of its state has failed:
\* then a bot is started directly.
StartsService ==
    /\ sup.at = "query"
    /\ \/ service = "stopped" /\ StartChild /\ Fine
       \/ (IF service = "pending" THEN Fine ELSE Fault) /\ StartDirect
    /\ NextCycle /\ UNCHANGED file

\* It runs: in five seconds the file is read. The last cycle was 30 seconds ago.
FindsRunning ==
    /\ sup.at = "query" /\ service = "running"
    /\ QuickStart => /\ \A p \in Pids : bot[p] # "starting"
                     /\ Up # {} => file.pid \in Up /\ file.age = 0
    /\ sup' = At("look")
    /\ UNCHANGED <<bot, service, serviced, file, port, cycle, faults>>

TooOld == file.age > Stale

\* What the file says: too old, written by a process that is gone, or fine.
Looks ==
    /\ sup.at = "look"
    /\ LET why == IF TooOld THEN "stale"
                  ELSE IF file.pid # 0 /\ file.pid \notin Alive THEN "dead"
                  ELSE IF cycle = 0 THEN "routine" ELSE "none"
       IN  IF why = "none" THEN NextCycle
           ELSE sup' = [at |-> "sweep", why |-> why, targets |-> {}] /\ UNCHANGED cycle
    /\ UNCHANGED <<bot, service, serviced, file, port, faults>>

\* crypto_orphan_killer: every bot but the one that wrote the file.
Orphans == Alive \ {file.pid}

ListsOrphans ==
    /\ sup.at = "sweep"
    /\ sup' = [sup EXCEPT !.at = "kill", !.targets = Orphans]
    /\ UNCHANGED <<bot, service, serviced, file, port, cycle, faults>>

\* The sweep kills them, or fails; then the service is restarted if that is why
\* it swept.
KillsOrphans ==
    /\ sup.at = "kill"
    /\ \/ Fine /\ Ends(sup.targets)
       \/ Fault /\ UNCHANGED <<bot, serviced, port>>
    /\ IF sup.why = "routine" THEN NextCycle ELSE sup' = At("restart") /\ UNCHANGED cycle
    /\ UNCHANGED <<service, file>>

\* mutant: nothing is done about a stale file
RestartsDead ==
    /\ sup.at = "restart"
    /\ \/ sup.why = "dead" /\ Fine /\ StartChild
       \/ sup.why = "stale" /\ Fine /\ UNCHANGED <<bot, service, serviced, port>>
    /\ NextCycle /\ UNCHANGED file

\* nssm restart. If it fails for a stale bot one is started directly. After the
\* other restart the routine sweep still comes in its cycle.
Restarts ==
    /\ sup.at = "restart"
    /\ \/ Fine /\ StartChild
       \/ Fault /\ sup.why = "stale" /\ StartDirect
       \/ Fault /\ sup.why = "dead" /\ UNCHANGED <<bot, service, serviced, port>>
    /\ IF sup.why = "dead" /\ cycle = 0
       THEN sup' = [at |-> "sweep", why |-> "routine", targets |-> {}] /\ UNCHANGED cycle
       ELSE NextCycle
    /\ UNCHANGED file

Supervisor ==
    /\ "supervisor" \in On
    /\ \/ StartsService \/ FindsRunning \/ Looks
       \/ ListsOrphans \/ KillsOrphans \/ Restarts

------------------------------------------------------------------------------
(* The watchdog. *)

\* watchdog.ps1: there is no process of the bot, or nobody serves the dashboard,
\* though a bot may be alive: either way a bot is started.
Watchdog ==
    /\ "watchdog" \in On
    /\ Alive = {} \/ port = 0
    /\ StartDirect
    /\ UNCHANGED <<file, sup, cycle, faults>>

------------------------------------------------------------------------------
SomeComesUp == \E p \in Pids : ComesUp(p)

GuardsNext ==
    \/ SomeComesUp
    \/ \E p \in Pids : Crash(p) \/ Sticks(p)
    \/ Minute \/ ServiceRestarts \/ ServiceThrottles \/ ServiceStopped
    \/ Supervisor \/ Watchdog

GuardsSpec ==
    /\ GuardsInit /\ [][GuardsNext]_guardsVars
    /\ WF_guardsVars(SomeComesUp)
    /\ WF_guardsVars(Minute) /\ WF_guardsVars(ServiceRestarts)
    /\ WF_guardsVars(Supervisor) /\ WF_guardsVars(Watchdog)

------------------------------------------------------------------------------
(* Properties. *)

\* Type invariant.
GuardsTypeOK ==
    /\ bot \in [Pids -> {"none", "starting", "up", "stuck"}]
    /\ service \in {"running", "stopped", "pending"} /\ serviced \in Pids \cup {0}
    /\ file \in [pid : Pids \cup {0}, age : 0..Wedged] /\ port \in Alive \cup {0}
    /\ sup.at \in {"query", "look", "sweep", "kill", "restart"} /\ sup.targets \subseteq Pids
    /\ cycle \in 0..SweepEvery - 1 /\ faults \in 0..MaxFaults

\* However the service, the daemon with its sweeps and the watchdog cross each
\* other: time and again a bot works, a stuck one is ended, and no two bots live
\* side by side for ever. That one is alone in the end is not said, and not so: a
\* sweep may spare the bot beside the service, or the one without the dashboard, and
\* what it ended is started anew, perhaps before the sweep is over.
GuardsRecover ==
    /\ []<>(Up # {})
    /\ \A p \in Pids : []<>(bot[p] # "stuck")
    /\ \A p, q \in Pids : p < q => []<>~({p, q} \subseteq Alive)

=============================================================================
