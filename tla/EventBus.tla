------------------------------ MODULE EventBus ------------------------------
(***************************************************************************)
(* InProcessBus of services/contracts/bus.py: one bounded queue for every  *)
(* pair of a subject pattern and a queue group, a task for every           *)
(* subscription that takes events off the queue and calls the handlers of  *)
(* the group, a ring of the last events for replay, and a stop that puts a *)
(* pill into every queue.                                                  *)
(*                                                                         *)
(* publish and subscribe do not suspend, so each is one step; stop         *)
(* suspends at a full queue, a task at an empty one and in every handler   *)
(* that awaits.                                                            *)
(***************************************************************************)
EXTENDS Naturals, Sequences, FiniteSets

CONSTANTS
    Subjects,   \* subjects events are published under: sequences of parts
    Keys,       \* the pairs <<pattern, group>> that may be subscribed
    Handlers,   \* the handlers
    Iterators,  \* those that read with events() instead of subscribe()
    Capacity,   \* size of a queue
    RingSize,   \* size of the ring
    MaxEvents,  \* bound on the events published
    MaxTasks    \* bound on the subscriptions

ASSUME BusAssumption ==
    /\ Iterators \subseteq Handlers
    /\ Capacity \in Nat \ {0} /\ RingSize \in Nat \ {0}
    /\ MaxEvents \in Nat /\ MaxTasks \in Nat

VARIABLES
    started,    \* _started
    keys,       \* the keys of _queues, in the order of the dictionary
    queues,     \* _queues
    handlers,   \* _handlers
    tasks,      \* one task per subscription or iterator
    published,  \* subjects of the events published; an event is its number
    ring,       \* _ring
    stopping,   \* where the call of stop() is
    received,   \* history: the events each handler was called with, by key
    taken,      \* history: what was taken from each queue
    refused     \* history: events that found a full queue, by key

busVars == <<started, keys, queues, handlers, tasks, published, ring, stopping>>
logs    == <<received, taken, refused>>
busState    == <<busVars, logs>>

Pill   == 0
Events == 1..Len(published)

Known == {keys[i] : i \in DOMAIN keys}

\* One task: waiting to start, for an event, in the calls of handlers, ended.
Task == [key : Keys, reader : Handlers, stage : {"new", "get", "call", "ended"},
         event : 0..MaxEvents, rest : Seq(Handlers)]

BusInit ==
    /\ started = FALSE
    /\ keys = <<>>
    /\ queues = [k \in Keys |-> <<>>] /\ handlers = [k \in Keys |-> <<>>]
    /\ tasks = <<>> /\ published = <<>> /\ ring = <<>>
    /\ stopping = [at |-> "no", next |-> 1, size |-> 0]
    /\ received = [k \in Keys |-> [h \in Handlers |-> <<>>]]
    /\ taken = [k \in Keys |-> <<>>] /\ refused = [k \in Keys |-> {}]

StartBus ==
    /\ ~started /\ stopping.at = "no"
    /\ started' = TRUE
    /\ UNCHANGED <<keys, queues, handlers, tasks, published, ring, stopping, logs>>

------------------------------------------------------------------------------
(* Publishing. *)

\* _match: equal, or as many parts and each a star or the same.
Match(pattern, subject) ==
    /\ Len(pattern) = Len(subject)
    /\ \A i \in DOMAIN subject : pattern[i] \in {"*", subject[i]}

MatchingQueues(subject) == {k \in Known : Match(k[1], subject)}

\* mutant: a full queue does not refuse
NeverFull(k) == FALSE

Full(k) == Len(queues[k]) >= Capacity

\* mutant: one too many
LastOfMore(s, n) == IF Len(s) > n + 1 THEN SubSeq(s, Len(s) - n, Len(s)) ELSE s

LastOf(s, n) == IF Len(s) > n THEN SubSeq(s, Len(s) - n + 1, Len(s)) ELSE s

\* Into the ring, then into each matching queue that has room.
Publish(subject) ==
    /\ started /\ Len(published) < MaxEvents
    /\ published' = Append(published, subject)
    /\ LET e  == Len(published) + 1
           to == MatchingQueues(subject)
       IN  /\ ring' = LastOf(Append(ring, e), RingSize)
           /\ queues' = [k \in Keys |-> IF k \in to /\ ~Full(k) THEN Append(queues[k], e)
                                        ELSE queues[k]]
           /\ refused' = [k \in Keys |-> IF k \in to /\ Full(k) THEN refused[k] \cup {e}
                                         ELSE refused[k]]
    /\ UNCHANGED <<started, keys, handlers, tasks, stopping, received, taken>>

------------------------------------------------------------------------------
(* Subscribing: the queue exists from the first subscriber of its group on. *)
(* Every service starts its bus first.                                      *)

AddKey(k) == keys' = IF k \in Known THEN keys ELSE Append(keys, k)

AddTask(k, h) ==
    /\ started /\ Len(tasks) < MaxTasks
    /\ tasks' = Append(tasks, [key |-> k, reader |-> h, stage |-> "new", event |-> 0, rest |-> <<>>])

Subscribe(k, h) ==
    /\ h \notin Iterators
    /\ AddKey(k) /\ AddTask(k, h)
    /\ handlers' = [handlers EXCEPT ![k] = Append(@, h)]
    /\ UNCHANGED <<started, queues, published, ring, stopping, logs>>

\* events(): a task of the caller's own, known to no handler list.
Iterate(k, h) ==
    /\ h \in Iterators
    /\ AddKey(k) /\ AddTask(k, h)
    /\ UNCHANGED <<started, queues, handlers, published, ring, stopping, logs>>

------------------------------------------------------------------------------
(* The tasks. *)

\* The test of the while loop.
Again == IF started THEN "get" ELSE "ended"

TaskStarts(i) ==
    /\ tasks[i].stage = "new"
    /\ tasks' = [tasks EXCEPT ![i].stage = Again]
    /\ UNCHANGED <<started, keys, queues, handlers, published, ring, stopping, logs>>

\* The handlers to call: all of the group's, as they are now.
ToCall(i) ==
    IF tasks[i].reader \in Iterators THEN <<tasks[i].reader>> ELSE handlers[tasks[i].key]

\* mutant: looks at the head and removes it after the handlers
TakeKeeping(i) ==
    /\ tasks[i].stage = "get" /\ queues[tasks[i].key] # <<>>
    /\ LET e == Head(queues[tasks[i].key])
       IN  tasks' = [tasks EXCEPT ![i] =
                       IF e = Pill THEN [@ EXCEPT !.stage = "ended"]
                       ELSE [@ EXCEPT !.stage = "call", !.event = e, !.rest = ToCall(i)]]
    /\ UNCHANGED <<started, keys, queues, handlers, published, ring, stopping, logs>>

\* An event or a pill is taken off the queue; a pill ends the task.
Get(i) ==
    LET k == tasks[i].key IN
    /\ tasks[i].stage = "get" /\ queues[k] # <<>>
    /\ LET e == Head(queues[k])
       IN  /\ tasks' = [tasks EXCEPT ![i] =
                          IF e = Pill THEN [@ EXCEPT !.stage = "ended"]
                          ELSE [@ EXCEPT !.stage = "call", !.event = e, !.rest = ToCall(i)]]
           /\ queues' = [queues EXCEPT ![k] = Tail(@)]
           /\ taken' = [taken EXCEPT ![k] = Append(@, e)]
    /\ UNCHANGED <<started, keys, handlers, published, ring, stopping, received, refused>>

\* One handler is called and may suspend; what it raises is logged only.
Call(i) ==
    LET t == tasks[i] IN
    /\ t.stage = "call"
    /\ tasks' = [tasks EXCEPT ![i] =
                   [t EXCEPT !.rest = Tail(t.rest),
                             !.stage = IF Len(t.rest) = 1 THEN Again ELSE "call"]]
    /\ received' = [received EXCEPT ![t.key][Head(t.rest)] = Append(@, t.event)]
    /\ UNCHANGED <<started, keys, queues, handlers, published, ring, stopping, taken, refused>>

------------------------------------------------------------------------------
(* Stopping. *)

\* mutant: stops the loops first
PutPillsLate(next) ==
    /\ started' = FALSE
    /\ queues' = queues
    /\ stopping' = [at |-> "done", next |-> 1, size |-> Len(keys)]

\* From the queue at position next on, pills go in until one is full; there the
\* call waits for room.
PutPills(next) ==
    \E first \in next..Len(keys) + 1 :
        /\ first <= Len(keys) => Full(keys[first])
        /\ \A m \in next..first - 1 : ~Full(keys[m])
        /\ LET filled == {keys[j] : j \in next..first - 1}
           IN  queues' = [k \in Keys |-> IF k \in filled THEN Append(queues[k], Pill)
                                         ELSE queues[k]]
        /\ stopping' = [at |-> IF first > Len(keys) THEN "done" ELSE "putting",
                        next |-> first, size |-> Len(keys)]
        /\ started' = (first <= Len(keys))

StopCalled ==
    /\ started /\ stopping.at = "no"
    /\ PutPills(1)
    /\ UNCHANGED <<keys, handlers, tasks, published, ring, logs>>

StopResumes ==
    /\ stopping.at = "putting" /\ Len(keys) = stopping.size
    /\ ~Full(keys[stopping.next])
    /\ PutPills(stopping.next)
    /\ UNCHANGED <<keys, handlers, tasks, published, ring, logs>>

\* The dictionary has grown while the call waited: once its queue has room the
\* pill goes in and the iteration raises.
StopRaises ==
    /\ stopping.at = "putting" /\ Len(keys) # stopping.size
    /\ LET k == keys[stopping.next]
       IN  /\ ~Full(k)
           /\ queues' = [queues EXCEPT ![k] = Append(@, Pill)]
    /\ stopping' = [stopping EXCEPT !.at = "failed"]
    /\ UNCHANGED <<started, keys, handlers, tasks, published, ring, logs>>

------------------------------------------------------------------------------
TaskStep(i) == TaskStarts(i) \/ Get(i) \/ Call(i)

RunTask(i) == i \in DOMAIN tasks /\ TaskStep(i)
StopGoesOn == StopResumes \/ StopRaises

BusNext ==
    \/ StartBus
    \/ \E s \in Subjects : Publish(s)
    \/ \E k \in Keys, h \in Handlers : Subscribe(k, h) \/ Iterate(k, h)
    \/ \E i \in DOMAIN tasks : TaskStep(i)
    \/ StopCalled \/ StopGoesOn

\* The event loop runs what is ready: every task and a stop under way go on.
BusSpec ==
    /\ BusInit /\ [][BusNext]_busState
    /\ \A i \in 1..MaxTasks : WF_busState(RunTask(i))
    /\ WF_busState(StopGoesOn)

------------------------------------------------------------------------------
(* Properties. *)

InSeq(s) == {s[j] : j \in DOMAIN s}

TasksOf(k) == {i \in DOMAIN tasks : tasks[i].key = k}

\* Type invariant: queues hold events and pills and never more than fit.
BusTypeOK ==
    /\ started \in BOOLEAN
    /\ keys \in Seq(Keys) /\ \A i, j \in DOMAIN keys : keys[i] = keys[j] => i = j
    /\ queues \in [Keys -> Seq({Pill} \cup Events)] /\ \A k \in Keys : Len(queues[k]) <= Capacity
    /\ handlers \in [Keys -> Seq(Handlers)]
    /\ tasks \in Seq(Task) /\ Len(tasks) <= MaxTasks
    /\ published \in Seq(Subjects) /\ Len(published) <= MaxEvents
    /\ ring \in Seq(Events) /\ Len(ring) <= RingSize
    /\ stopping.at \in {"no", "putting", "done", "failed"}

\* What a task has taken off its queue some handler has been called with or is
\* about to be, whichever task it was and whatever the handlers before it raised.
NoneLost ==
    \A k \in Keys : \A e \in InSeq(taken[k]) \ {Pill} :
        \/ \E h \in Handlers : e \in InSeq(received[k][h])
        \/ \E m \in TasksOf(k) : tasks[m].stage = "call" /\ tasks[m].event = e

\* What bus.py:54-55 promises of a group: replicas that share one share its events,
\* each of which reaches one of them at most.
AtMostOncePerGroup ==
    \A k \in Keys, e \in Events : Cardinality({h \in Handlers : e \in InSeq(received[k][h])}) <= 1

\* No handler is called twice with an event by its group, and a group with a
\* single task calls it in the order of publication, around full queues, late
\* subscribers and a stop.
OnceAndInOrder ==
    \A k \in Keys, h \in Handlers :
        LET got == received[k][h]
        IN  Cardinality({j \in DOMAIN handlers[k] : handlers[k][j] = h}) <= 1 =>
                /\ Cardinality(InSeq(got)) = Len(got)
                /\ Cardinality(TasksOf(k)) = 1 =>
                      \A i, j \in DOMAIN got : i < j => got[i] < got[j]

BQ == INSTANCE BoundedQueues
        WITH Key <- Keys, Item <- 0..MaxEvents, Bound <- Capacity, queue <- queues, taken <- taken

\* The bus implements the bounded queues it is made of: whatever tasks share a
\* queue and however a stop interleaves, every item accepted is taken once, in
\* order, and nothing is put into a full queue.
QueuesAsPromised == BQ!QSpec

\* Whatever the groups have accepted is taken in the end, unless the bus is stopped.
EventsTaken == []<>(stopping.at # "no" \/ \A k \in Keys : queues[k] = <<>>)

\* stop() returns or raises, although it waits at full queues, and then the task
\* of a group that has one ends, in whatever call it was.
StopStops ==
    /\ []<>(stopping.at # "putting")
    /\ []<>(stopping.at = "done" =>
              \A k \in Keys : Cardinality(TasksOf(k)) = 1 =>
                                \A i \in TasksOf(k) : tasks[i].stage = "ended")

\* Whatever tasks share a queue and whenever they come and go, no event that a
\* group takes is lost, and none comes twice or out of order to a handler. How many
\* handlers of a group get it is left open: AtMostOncePerGroup.
BusDelivers == NoneLost /\ OnceAndInOrder

\* Full queues hold up neither the events that were accepted nor a stop for ever.
BusGoesOn == EventsTaken /\ StopStops

=============================================================================
