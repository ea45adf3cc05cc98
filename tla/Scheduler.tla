------------------------------ MODULE Scheduler ------------------------------
(***************************************************************************)
(* agent/scheduler.py: the operator's jobs, at fixed intervals or daily,   *)
(* run one after the other by one loop. The loop reads the clock once per  *)
(* pass; jobs take time, fail, and are paused and resumed from elsewhere.  *)
(* A unit of time is the loop's longest wait, _tick_sec.                   *)
(***************************************************************************)
EXTENDS Integers, Sequences

CONSTANTS
    Jobs,      \* the jobs in the order they were added: their every_sec, or 0
    DailyAt,   \* time of day of the daily jobs
    Day,       \* length of a day
    Pausable,  \* the jobs that may be paused
    MaxLong,   \* bound on how long a job takes
    MaxTime    \* bound on the clock

N == Len(Jobs)
J == 1..N

ASSUME JobsAssumption ==
    /\ Jobs \in Seq(Nat) /\ Jobs # <<>> /\ Day \in Nat \ {0} /\ DailyAt \in 0..Day - 1
    /\ Pausable \subseteq 1..Len(Jobs) /\ MaxLong \in Nat /\ MaxTime \in Nat \ {0}

VARIABLES
    clock,     \* the clock
    last,      \* last_run_at
    next,      \* next_run_at
    jobPaused, \* paused
    place,     \* the job the pass is at; 0 while the loop waits
    start,     \* now of run_until: when the pass began
    began,     \* when the job that runs began; -1 if none runs
    waited,    \* whether the wait has lasted a unit
    stopped,   \* the stop event
    resumed,   \* history: jobs resumed since they last ran
    before     \* history: the run before the last one, 0 if none

schedulerVars == <<clock, last, next, jobPaused, place, start, began, waited, stopped, resumed, before>>

NoJob == -1

\* compute_next: from the last run, or from now before the first.
ComputeNext(j, lastRun, time) ==
    LET base   == IF lastRun = 0 THEN time ELSE lastRun
        target == (base \div Day) * Day + DailyAt
    IN  IF Jobs[j] # 0 THEN base + Jobs[j]
        ELSE IF target <= base THEN target + Day ELSE target

\* The jobs have been added at time 1.
SchedulerInit ==
    /\ clock = 1
    /\ last = [j \in J |-> 0] /\ next = [j \in J |-> ComputeNext(j, 0, 1)]
    /\ jobPaused = [j \in J |-> FALSE]
    /\ place = 0 /\ start = 1 /\ began = NoJob /\ waited = FALSE /\ stopped = FALSE
    /\ resumed = {} /\ before = [j \in J |-> 0]

------------------------------------------------------------------------------
(* The loop. *)

BeginPass ==
    /\ place = 0 /\ ~stopped
    /\ place' = 1 /\ start' = clock /\ waited' = FALSE
    /\ UNCHANGED <<clock, last, next, jobPaused, began, stopped, resumed, before>>

\* mutant: runs off the list
AfterLast == place + 1

AfterTurn == IF place = N THEN 0 ELSE place + 1

Due(j) == ~jobPaused[j] /\ start >= next[j]

SkipJob ==
    /\ place # 0 /\ began = NoJob /\ ~Due(place)
    /\ place' = AfterTurn
    /\ UNCHANGED <<clock, last, next, jobPaused, start, began, waited, stopped, resumed, before>>

BeginJob ==
    /\ place # 0 /\ began = NoJob /\ Due(place)
    /\ began' = clock
    /\ UNCHANGED <<clock, last, next, jobPaused, place, start, waited, stopped, resumed, before>>

\* mutant: after a job that ran the pass starts over
EndAndRestart ==
    /\ began # NoJob
    /\ began' = NoJob /\ place' = 0
    /\ last' = [last EXCEPT ![place] = start]
    /\ before' = [before EXCEPT ![place] = last[place]]
    /\ next' = [next EXCEPT ![place] = ComputeNext(place, start, clock)]
    /\ resumed' = resumed \ {place}
    /\ UNCHANGED <<clock, jobPaused, start, waited, stopped>>

\* The job returns or raises; either way its last run is the start of the pass.
EndJob ==
    /\ began # NoJob
    /\ began' = NoJob /\ place' = AfterTurn
    /\ last' = [last EXCEPT ![place] = start]
    /\ before' = [before EXCEPT ![place] = last[place]]
    /\ next' = [next EXCEPT ![place] = ComputeNext(place, start, clock)]
    /\ resumed' = resumed \ {place}
    /\ UNCHANGED <<clock, jobPaused, start, waited, stopped>>

\* Time passes while a job runs and, one unit at most, while the loop waits.
TimePasses ==
    /\ clock < MaxTime
    /\ \/ began # NoJob /\ clock - began < MaxLong /\ UNCHANGED waited
       \/ place = 0 /\ ~waited /\ waited' = TRUE
    /\ clock' = clock + 1
    /\ UNCHANGED <<last, next, jobPaused, place, start, began, stopped, resumed, before>>

------------------------------------------------------------------------------
(* From elsewhere. *)

Pause(j) ==
    /\ ~jobPaused[j]
    /\ jobPaused' = [jobPaused EXCEPT ![j] = TRUE]
    /\ UNCHANGED <<clock, last, next, place, start, began, waited, stopped, resumed, before>>

Resume(j) ==
    /\ jobPaused[j]
    /\ jobPaused' = [jobPaused EXCEPT ![j] = FALSE]
    /\ next' = [next EXCEPT ![j] = ComputeNext(j, last[j], clock)]
    /\ resumed' = resumed \cup {j}
    /\ UNCHANGED <<clock, last, place, start, began, waited, stopped, before>>

StopLoop ==
    /\ ~stopped /\ stopped' = TRUE
    /\ UNCHANGED <<clock, last, next, jobPaused, place, start, began, waited, resumed, before>>

SchedulerNext ==
    \/ BeginPass \/ SkipJob \/ BeginJob \/ EndJob \/ TimePasses
    \/ \E j \in Pausable : Pause(j) \/ Resume(j)
    \/ StopLoop

SchedulerSpec == SchedulerInit /\ [][SchedulerNext]_schedulerVars

------------------------------------------------------------------------------
(* Properties. *)

\* Type invariant.
SchedulerTypeOK ==
    /\ clock \in 1..MaxTime /\ start \in 1..clock /\ began \in {NoJob} \cup (start..clock)
    /\ last \in [J -> Nat] /\ next \in [J -> Nat] /\ before \in [J -> Nat]
    /\ jobPaused \in [J -> BOOLEAN] /\ place \in 0..N /\ {waited, stopped} \subseteq BOOLEAN
    /\ resumed \subseteq J

\* Two runs of an interval job are a whole interval apart, and between two runs of
\* a daily job lies its time of day: no slow neighbour, pause or resume makes a job
\* run twice for one slot.
Spaced ==
    \A j \in J : before[j] # 0 =>
        IF Jobs[j] # 0 THEN last[j] - before[j] >= Jobs[j]
        ELSE \E t \in before[j] + 1..last[j] : t % Day = DailyAt

\* A job that is due is late by no more than what every other job may take
\* twice, once after its turn and once before the next, and itself once: the
\* single loop starves nobody.
Punctual ==
    \A j \in J :
        ~jobPaused[j] /\ j \notin resumed /\ ~(began # NoJob /\ place = j) =>
            clock - next[j] <= (2 * N - 1) * MaxLong

\* Every job keeps its slots: none is used twice and none is long overdue.
SlotsKept == Spaced /\ Punctual

=============================================================================
