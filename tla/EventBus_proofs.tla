--------------------------- MODULE EventBus_proofs ----------------------------
(***************************************************************************)
(* The event bus for any subjects, groups, handlers, capacities and number *)
(* of events: its types; that the queues it is made of are those of        *)
(* BoundedQueues, whatever tasks share one and however a stop interleaves; *)
(* and that nothing a group takes is lost, or comes twice or out of order  *)
(* to one of its handlers.                                                 *)
(***************************************************************************)
EXTENDS EventBus, SequenceTheorems, FiniteSetTheorems, TLAPS

\* What a stop under way relies on: its position is one of the keys'.
StopInv ==
    /\ stopping \in [at : {"no", "putting", "done", "failed"}, next : Nat \ {0}, size : Nat]
    /\ stopping.at = "putting" => stopping.next <= stopping.size /\ stopping.size <= Len(keys)

\* A task that calls has someone to call, and its own handler among those it
\* will call next time.
CallInv ==
    \A i \in DOMAIN tasks :
        /\ tasks[i].stage = "call" => tasks[i].rest # <<>>
        /\ tasks[i].reader \notin Iterators =>
              \E m \in DOMAIN handlers[tasks[i].key] : handlers[tasks[i].key][m] = tasks[i].reader

TakenInv == taken \in [Keys -> Seq(0..MaxEvents)]

Inductive == BusTypeOK /\ StopInv /\ CallInv /\ TakenInv

------------------------------------------------------------------------------
\* A queue that is not full has room for one more.
LEMMA Room ==
    ASSUME BusTypeOK, NEW k \in Keys, ~Full(k), NEW e \in {Pill} \cup Events
    PROVE  /\ Len(queues[k]) < Capacity
           /\ Append(queues[k], e) \in Seq({Pill} \cup Events)
           /\ Len(Append(queues[k], e)) <= Capacity
<1>1. queues[k] \in Seq({Pill} \cup Events)
  BY DEF BusTypeOK
<1>2. Len(queues[k]) \in Nat /\ Capacity \in Nat
  BY <1>1, LenProperties, BusAssumption
<1>3. Len(queues[k]) < Capacity
  BY <1>2 DEF Full
<1>4. Append(queues[k], e) \in Seq({Pill} \cup Events) /\ Len(Append(queues[k], e)) = Len(queues[k]) + 1
  BY <1>1, AppendProperties
<1> QED
  BY <1>2, <1>3, <1>4

\* The keys known are keys.
LEMMA KeyAt ==
    ASSUME BusTypeOK, NEW j \in 1..Len(keys)
    PROVE  keys[j] \in Keys
  BY ElementOfSeq DEF BusTypeOK

\* A key is added once.
LEMMA KeysStayDistinct ==
    ASSUME BusTypeOK, NEW k \in Keys, AddKey(k)
    PROVE  /\ keys' \in Seq(Keys) /\ Len(keys) <= Len(keys')
           /\ \A i, j \in DOMAIN keys' : keys'[i] = keys'[j] => i = j
<1>1. keys \in Seq(Keys) /\ Len(keys) \in Nat /\ DOMAIN keys = 1..Len(keys)
  BY LenProperties DEF BusTypeOK
<1>2. CASE k \in Known
  <2>1. keys' = keys
    BY <1>2 DEF AddKey
  <2> QED
    BY <1>1, <2>1 DEF BusTypeOK
<1>3. CASE k \notin Known
  <2>1. keys' = Append(keys, k)
    BY <1>3 DEF AddKey
  <2>2. keys' \in Seq(Keys) /\ Len(keys') = Len(keys) + 1
    BY <1>1, <2>1, AppendProperties
  <2>3. (\A i \in 1..Len(keys) : keys'[i] = keys[i]) /\ keys'[Len(keys) + 1] = k
    BY <1>1, <2>1, AppendProperties
  <2>4. DOMAIN keys' = 1..Len(keys) + 1
    BY <2>2, LenProperties
  <2>5. \A i \in 1..Len(keys) : keys[i] # k
    BY <1>1, <1>3 DEF Known
  <2>6. ASSUME NEW i \in DOMAIN keys', NEW j \in DOMAIN keys', keys'[i] = keys'[j] PROVE i = j
    <3>1. CASE i \in 1..Len(keys) /\ j \in 1..Len(keys)
      BY <1>1, <2>3, <2>6, <3>1 DEF BusTypeOK
    <3>2. CASE i \in 1..Len(keys) /\ j = Len(keys) + 1
      BY <2>3, <2>5, <2>6, <3>2
    <3>3. CASE i = Len(keys) + 1 /\ j \in 1..Len(keys)
      BY <2>3, <2>5, <2>6, <3>3
    <3>4. CASE i = Len(keys) + 1 /\ j = Len(keys) + 1
      BY <3>4
    <3> QED
      BY <1>1, <2>4, <3>1, <3>2, <3>3, <3>4
  <2> QED
    BY <1>1, <2>2, <2>6
<1> QED
  BY <1>2, <1>3

\* The last of a sequence, as the ring keeps them.
LEMMA LastOfFits ==
    ASSUME NEW S, NEW s \in Seq(S), NEW n \in Nat
    PROVE  LastOf(s, n) \in Seq(S) /\ Len(LastOf(s, n)) <= n
<1>1. Len(s) \in Nat /\ \A i \in 1..Len(s) : s[i] \in S
  BY LenProperties, ElementOfSeq
<1>2. CASE Len(s) > n
  <2> DEFINE m == Len(s) - n + 1
  <2>1. LastOf(s, n) = SubSeq(s, m, Len(s))
    BY <1>2 DEF LastOf
  <2>2. m \in Int /\ Len(s) \in Int /\ \A i \in m..Len(s) : s[i] \in S
    BY <1>1, <1>2
  <2>3. SubSeq(s, m, Len(s)) \in Seq(S) /\ Len(SubSeq(s, m, Len(s))) = IF m <= Len(s) THEN Len(s) - m + 1 ELSE 0
    BY <2>2, SubSeqProperties
  <2> QED
    BY <1>1, <2>1, <2>3
<1>3. CASE ~(Len(s) > n)
  <2>1. LastOf(s, n) = s
    BY <1>3 DEF LastOf
  <2> QED
    BY <1>1, <1>3, <2>1
<1> QED
  BY <1>2, <1>3

------------------------------------------------------------------------------
(* The invariant. *)

\* The initial state of the bus satisfies the invariant.
LEMMA InitInductive == BusInit => Inductive
<1> SUFFICES ASSUME BusInit PROVE Inductive
  OBVIOUS
<1>1. DOMAIN tasks = {} /\ DOMAIN keys = {} /\ Len(keys) = 0 /\ Len(tasks) = 0
      /\ Len(published) = 0 /\ Len(ring) = 0
  BY DEF BusInit
<1>2. /\ keys \in Seq(Keys) /\ tasks \in Seq(Task) /\ published \in Seq(Subjects) /\ ring \in Seq(Events)
      /\ queues \in [Keys -> Seq({Pill} \cup Events)] /\ handlers \in [Keys -> Seq(Handlers)]
      /\ taken \in [Keys -> Seq(0..MaxEvents)]
  BY EmptySeq DEF BusInit
<1>3. \A k \in Keys : Len(queues[k]) = 0
  BY DEF BusInit
<1>4. BusTypeOK
  <2>1. started \in BOOLEAN /\ stopping.at \in {"no", "putting", "done", "failed"}
    BY DEF BusInit
  <2>2. \A i, j \in DOMAIN keys : keys[i] = keys[j] => i = j
    BY <1>1
  <2>3. \A k \in Keys : Len(queues[k]) <= Capacity
    BY <1>3, BusAssumption
  <2> QED
    BY <1>1, <1>2, <2>1, <2>2, <2>3, BusAssumption DEF BusTypeOK
<1>5. StopInv
  BY DEF BusInit, StopInv
<1>6. CallInv
  BY <1>1 DEF CallInv
<1> QED
  BY <1>2, <1>4, <1>5, <1>6 DEF Inductive, TakenInv

\* A task goes on as t, which has the key and the reader it had.
LEMMA TaskReplaced ==
    ASSUME Inductive, NEW i \in DOMAIN tasks, NEW t \in Task,
           tasks' = [tasks EXCEPT ![i] = t], handlers' = handlers,
           t.key = tasks[i].key, t.reader = tasks[i].reader,
           t.stage = "call" => t.rest # <<>>
    PROVE  tasks' \in Seq(Task) /\ Len(tasks') <= MaxTasks /\ CallInv'
<1>1. tasks \in Seq(Task) /\ Len(tasks) \in Nat /\ DOMAIN tasks = 1..Len(tasks) /\ Len(tasks) <= MaxTasks
  BY LenProperties DEF Inductive, BusTypeOK
<1>2. /\ tasks' \in Seq(Task) /\ Len(tasks') = Len(tasks)
      /\ \A j \in 1..Len(tasks) : tasks'[j] = IF j = i THEN t ELSE tasks[j]
  BY <1>1, ExceptSeq
<1>3. DOMAIN tasks' = DOMAIN tasks
  OBVIOUS
<1>4. ASSUME NEW j \in DOMAIN tasks'
      PROVE  /\ tasks'[j].stage = "call" => tasks'[j].rest # <<>>
             /\ tasks'[j].key = tasks[j].key /\ tasks'[j].reader = tasks[j].reader
  <2>1. CASE j = i
    BY <1>1, <1>2, <1>3, <2>1
  <2>2. CASE j # i
    <3>1. tasks'[j] = tasks[j] /\ j \in DOMAIN tasks
      BY <1>1, <1>2, <1>3, <2>2
    <3> QED
      BY <3>1 DEF Inductive, CallInv
  <2> QED
    BY <2>1, <2>2
<1>5. CallInv'
  BY <1>3, <1>4 DEF Inductive, CallInv
<1> QED
  BY <1>1, <1>2, <1>5

\* publish, which refuses the event to every full matching queue, keeps the invariant.
LEMMA PublishKeeps ==
    ASSUME Inductive, NEW s \in Subjects, Publish(s)
    PROVE  Inductive'
<1> DEFINE e == Len(published) + 1
           to == MatchingQueues(s)
<1>1. published \in Seq(Subjects) /\ Len(published) \in Nat /\ Len(published) < MaxEvents
  BY LenProperties DEF Inductive, BusTypeOK, Publish
<1>2. published' \in Seq(Subjects) /\ Len(published') = e
  BY <1>1, AppendProperties DEF Publish
<1>3. e \in Events' /\ Events \subseteq Events' /\ e <= MaxEvents
  BY <1>1, <1>2, BusAssumption DEF Events
<1>4. ring' \in Seq(Events') /\ Len(ring') <= RingSize
  <2>1. ring \in Seq(Events')
    BY <1>3, SeqMonotonic DEF Inductive, BusTypeOK
  <2>2. Append(ring, e) \in Seq(Events')
    BY <1>3, <2>1, AppendProperties
  <2>3. ring' = LastOf(Append(ring, e), RingSize)
    BY DEF Publish
  <2> QED
    BY <2>2, <2>3, LastOfFits, BusAssumption
<1>5. ASSUME NEW k \in Keys PROVE queues'[k] \in Seq({Pill} \cup Events') /\ Len(queues'[k]) <= Capacity
  <2>1. queues[k] \in Seq({Pill} \cup Events')
    BY <1>3, SeqMonotonic DEF Inductive, BusTypeOK
  <2>2. queues'[k] = IF k \in to /\ ~Full(k) THEN Append(queues[k], e) ELSE queues[k]
    BY DEF Publish
  <2>3. CASE k \in to /\ ~Full(k)
    <3>1. Append(queues[k], e) \in Seq({Pill} \cup Events') /\ Len(Append(queues[k], e)) = Len(queues[k]) + 1
      BY <1>3, <2>1, AppendProperties
    <3>2. Len(queues[k]) \in Nat /\ Len(queues[k]) < Capacity
      BY <2>1, <2>3, LenProperties, BusAssumption DEF Full
    <3> QED
      BY <2>2, <2>3, <3>1, <3>2, BusAssumption
  <2>4. CASE ~(k \in to /\ ~Full(k))
    BY <2>1, <2>2, <2>4 DEF Inductive, BusTypeOK
  <2> QED
    BY <2>3, <2>4
<1>6. queues' \in [Keys -> Seq({Pill} \cup Events')]
  <2>1. queues' = [k \in Keys |-> queues'[k]]
    BY DEF Publish
  <2> QED
    BY <1>5, <2>1
<1>7. UNCHANGED <<started, keys, handlers, tasks, stopping, taken>>
  BY DEF Publish
<1>8. BusTypeOK'
  BY <1>1, <1>2, <1>3, <1>4, <1>5, <1>6, <1>7 DEF Inductive, BusTypeOK
<1>9. StopInv' /\ CallInv' /\ TakenInv'
  BY <1>7 DEF Inductive, StopInv, CallInv, TakenInv
<1> QED
  BY <1>8, <1>9 DEF Inductive

\* A subscription of either kind; hs are the handlers after it.
LEMMA TaskAdded ==
    ASSUME Inductive, NEW k \in Keys, NEW h \in Handlers, AddKey(k), AddTask(k, h),
           UNCHANGED <<started, queues, published, ring, stopping, logs>>,
           handlers' \in [Keys -> Seq(Handlers)],
           \A c \in Keys, g \in Handlers :
               (\E m \in DOMAIN handlers[c] : handlers[c][m] = g)
               => \E m \in DOMAIN handlers'[c] : handlers'[c][m] = g,
           h \in Iterators \/ \E m \in DOMAIN handlers'[k] : handlers'[k][m] = h
    PROVE  Inductive'
<1> DEFINE new == [key |-> k, reader |-> h, stage |-> "new", event |-> 0, rest |-> <<>>]
<1>1. tasks \in Seq(Task) /\ Len(tasks) \in Nat /\ DOMAIN tasks = 1..Len(tasks) /\ Len(tasks) < MaxTasks
  BY LenProperties DEF Inductive, BusTypeOK, AddTask
<1>2. new \in Task
  <2>1. Len(taken[k]) \in Nat
    BY LenProperties DEF Inductive, TakenInv
  <2>2. <<>> \in Seq(Handlers) /\ 0 \in 0..MaxEvents
    BY EmptySeq, BusAssumption
  <2> QED
    BY <2>1, <2>2 DEF Task
<1>3. tasks' = Append(tasks, new)
  BY DEF AddTask
<1>4. /\ tasks' \in Seq(Task) /\ Len(tasks') = Len(tasks) + 1
      /\ \A j \in 1..Len(tasks) : tasks'[j] = tasks[j]
      /\ tasks'[Len(tasks) + 1] = new
  <2> HIDE DEF new
  <2> QED
    BY <1>1, <1>2, <1>3, AppendProperties
<1>5. DOMAIN tasks' = 1..Len(tasks) + 1
  BY <1>4, LenProperties
<1>6. CallInv'
  <2> SUFFICES ASSUME NEW j \in DOMAIN tasks'
               PROVE  /\ tasks'[j].stage = "call" => tasks'[j].rest # <<>>
                      /\ tasks'[j].reader \notin Iterators =>
                            \E m \in DOMAIN handlers'[tasks'[j].key] : handlers'[tasks'[j].key][m] = tasks'[j].reader
    BY DEF CallInv
  <2>1. CASE j = Len(tasks) + 1
    BY <1>4, <2>1
  <2>2. CASE j \in 1..Len(tasks)
    <3>1. tasks'[j] = tasks[j] /\ tasks[j] \in Task /\ j \in DOMAIN tasks
      BY <1>1, <1>4, <2>2, ElementOfSeq
    <3>2. tasks[j].key \in Keys /\ tasks[j].reader \in Handlers
      BY <3>1 DEF Task
    <3> QED
      BY <3>1, <3>2 DEF Inductive, CallInv
  <2> QED
    BY <1>1, <1>5, <2>1, <2>2
<1>7. keys' \in Seq(Keys) /\ Len(keys) <= Len(keys') /\ \A i, j \in DOMAIN keys' : keys'[i] = keys'[j] => i = j
  BY KeysStayDistinct DEF Inductive
<1>8. BusTypeOK'
  BY <1>1, <1>4, <1>7, BusAssumption DEF Inductive, BusTypeOK, Events, logs
<1>9. StopInv'
  <2>1. Len(keys) \in Nat /\ Len(keys') \in Nat
    BY <1>7, LenProperties DEF Inductive, BusTypeOK
  <2> QED
    BY <1>7, <2>1 DEF Inductive, StopInv
<1>10. TakenInv'
  BY DEF Inductive, TakenInv, logs
<1> QED
  BY <1>6, <1>8, <1>9, <1>10 DEF Inductive

\* subscribe, which starts a dispatcher task, keeps the invariant.
LEMMA SubscribeKeeps ==
    ASSUME Inductive, NEW k \in Keys, NEW h \in Handlers, Subscribe(k, h)
    PROVE  Inductive'
<1>1. handlers \in [Keys -> Seq(Handlers)] /\ handlers' = [handlers EXCEPT ![k] = Append(handlers[k], h)]
  BY DEF Inductive, BusTypeOK, Subscribe
<1>2. ASSUME NEW c \in Keys, c # k PROVE handlers'[c] = handlers[c]
  BY <1>1, <1>2
<1>3. /\ handlers'[k] \in Seq(Handlers) /\ Len(handlers'[k]) = Len(handlers[k]) + 1
      /\ \A m \in 1..Len(handlers[k]) : handlers'[k][m] = handlers[k][m]
      /\ handlers'[k][Len(handlers[k]) + 1] = h
  <2>1. handlers[k] \in Seq(Handlers) /\ handlers'[k] = Append(handlers[k], h)
    BY <1>1
  <2> QED
    BY <2>1, AppendProperties
<1>4. /\ DOMAIN handlers[k] = 1..Len(handlers[k]) /\ Len(handlers[k]) \in Nat
      /\ DOMAIN handlers'[k] = 1..Len(handlers[k]) + 1
  BY <1>1, <1>3, LenProperties
<1>5. handlers' \in [Keys -> Seq(Handlers)]
  BY <1>1, <1>2, <1>3
<1>6. ASSUME NEW c \in Keys, NEW g \in Handlers, NEW m \in DOMAIN handlers[c], handlers[c][m] = g
      PROVE  \E n \in DOMAIN handlers'[c] : handlers'[c][n] = g
  BY <1>2, <1>3, <1>4, <1>6
<1>7. \E m \in DOMAIN handlers'[k] : handlers'[k][m] = h
  BY <1>3, <1>4
<1> QED
  BY <1>5, <1>6, <1>7, TaskAdded DEF Subscribe

\* Opening an iterator, which has a queue and a task of its own, keeps the invariant.
LEMMA IterateKeeps ==
    ASSUME Inductive, NEW k \in Keys, NEW h \in Handlers, Iterate(k, h)
    PROVE  Inductive'
<1>1. handlers' = handlers /\ handlers \in [Keys -> Seq(Handlers)]
  BY DEF Inductive, BusTypeOK, Iterate
<1> QED
  BY <1>1, TaskAdded DEF Iterate

\* What a step of a task leaves alone, but for the queues.
LEMMA OnlyTasks ==
    ASSUME Inductive, UNCHANGED <<started, keys, handlers, published, ring, stopping>>,
           tasks' \in Seq(Task), Len(tasks') <= MaxTasks, CallInv',
           queues' \in [Keys -> Seq({Pill} \cup Events)], \A k \in Keys : Len(queues'[k]) <= Capacity,
           TakenInv'
    PROVE  Inductive'
<1>1. BusTypeOK'
  BY DEF Inductive, BusTypeOK, Events
<1>2. StopInv'
  BY DEF Inductive, StopInv
<1> QED
  BY <1>1, <1>2 DEF Inductive

\* The fields of a task.
LEMMA TaskType ==
    ASSUME Inductive, NEW i \in DOMAIN tasks
    PROVE  tasks[i] \in Task /\ tasks[i].key \in Keys /\ tasks[i].reader \in Handlers
<1>1. tasks[i] \in Task
  BY ElementOfSeq, LenProperties DEF Inductive, BusTypeOK
<1> QED
  BY <1>1 DEF Task

\* The first run of a dispatcher task keeps the invariant.
LEMMA TaskStartsKeeps ==
    ASSUME Inductive, NEW i \in DOMAIN tasks, TaskStarts(i)
    PROVE  Inductive'
<1> DEFINE t == [tasks[i] EXCEPT !.stage = Again]
<1>1. tasks[i] \in Task
  BY TaskType
<1>2. Again \in {"get", "ended"}
  BY DEF Again
<1>3. t \in Task /\ t.key = tasks[i].key /\ t.reader = tasks[i].reader /\ t.stage # "call"
  BY <1>1, <1>2 DEF Task
<1>4. tasks' = [tasks EXCEPT ![i] = t] /\ handlers' = handlers
  BY DEF TaskStarts
<1>5. tasks' \in Seq(Task) /\ Len(tasks') <= MaxTasks /\ CallInv'
  <2> HIDE DEF t
  <2> QED
    BY <1>3, <1>4, TaskReplaced
<1>6. TakenInv'
  BY DEF TaskStarts, logs, Inductive, TakenInv
<1>7. queues' \in [Keys -> Seq({Pill} \cup Events)] /\ \A k \in Keys : Len(queues'[k]) <= Capacity
  BY DEF TaskStarts, Inductive, BusTypeOK
<1> QED
  BY <1>5, <1>6, <1>7, OnlyTasks DEF TaskStarts

\* The handlers to call are handlers, and there are some.
LEMMA SomeoneToCall ==
    ASSUME Inductive, NEW i \in DOMAIN tasks
    PROVE  ToCall(i) \in Seq(Handlers) /\ ToCall(i) # <<>>
<1>1. tasks[i].key \in Keys /\ tasks[i].reader \in Handlers
  BY TaskType
<1>2. CASE tasks[i].reader \in Iterators
  BY <1>1, <1>2 DEF ToCall
<1>3. CASE tasks[i].reader \notin Iterators
  <2>1. ToCall(i) = handlers[tasks[i].key] /\ ToCall(i) \in Seq(Handlers)
    BY <1>1, <1>3 DEF ToCall, Inductive, BusTypeOK
  <2>2. PICK m \in DOMAIN handlers[tasks[i].key] : handlers[tasks[i].key][m] = tasks[i].reader
    BY <1>3 DEF Inductive, CallInv
  <2>3. DOMAIN ToCall(i) # {}
    BY <2>1, <2>2
  <2> QED
    BY <2>1, <2>3
<1> QED
  BY <1>2, <1>3

\* The head of a queue that is not empty, and what is left of it.
LEMMA HeadOfQueue ==
    ASSUME Inductive, NEW k \in Keys, queues[k] # <<>>
    PROVE  /\ Head(queues[k]) \in {Pill} \cup Events /\ Head(queues[k]) \in 0..MaxEvents
           /\ Tail(queues[k]) \in Seq({Pill} \cup Events) /\ Len(Tail(queues[k])) <= Capacity
<1>1. queues[k] \in Seq({Pill} \cup Events) /\ Len(queues[k]) <= Capacity
  BY DEF Inductive, BusTypeOK
<1>2. Len(queues[k]) \in Nat /\ Capacity \in Nat
  BY <1>1, LenProperties, BusAssumption
<1>3. Head(queues[k]) \in {Pill} \cup Events /\ Tail(queues[k]) \in Seq({Pill} \cup Events)
      /\ Len(Tail(queues[k])) = Len(queues[k]) - 1
  BY <1>1, HeadTailProperties
<1>4. Len(published) \in Nat /\ Len(published) <= MaxEvents
  BY LenProperties DEF Inductive, BusTypeOK
<1>5. \A e \in {Pill} \cup Events : e \in 0..MaxEvents
  BY <1>4, BusAssumption DEF Pill, Events
<1> QED
  BY <1>1, <1>2, <1>3, <1>5

\* A dispatcher taking an event or a pill off its queue keeps the invariant.
LEMMA GetKeeps ==
    ASSUME Inductive, NEW i \in DOMAIN tasks, Get(i)
    PROVE  Inductive'
<1> DEFINE k == tasks[i].key
           e == Head(queues[k])
           t == IF e = Pill THEN [tasks[i] EXCEPT !.stage = "ended"]
                ELSE [tasks[i] EXCEPT !.stage = "call", !.event = e, !.rest = ToCall(i)]
<1>1. tasks[i] \in Task /\ k \in Keys
  BY TaskType
<1>2. queues[k] # <<>> /\ e \in 0..MaxEvents
      /\ Tail(queues[k]) \in Seq({Pill} \cup Events) /\ Len(Tail(queues[k])) <= Capacity
  BY <1>1, HeadOfQueue DEF Get
<1>3. t \in Task /\ t.key = tasks[i].key /\ t.reader = tasks[i].reader /\ (t.stage = "call" => t.rest # <<>>)
  <2>1. CASE e = Pill
    BY <1>1, <2>1 DEF Task
  <2>2. CASE e # Pill
    <3>1. ToCall(i) \in Seq(Handlers) /\ ToCall(i) # <<>>
      BY SomeoneToCall
    <3>2. t = [tasks[i] EXCEPT !.stage = "call", !.event = e, !.rest = ToCall(i)]
      BY <2>2
    <3> HIDE DEF t, e, k
    <3> QED
      BY <1>1, <1>2, <3>1, <3>2 DEF Task
  <2> QED
    BY <2>1, <2>2
<1>4. tasks' = [tasks EXCEPT ![i] = t] /\ handlers' = handlers
  BY DEF Get
<1>5. tasks' \in Seq(Task) /\ Len(tasks') <= MaxTasks /\ CallInv'
  <2> HIDE DEF t
  <2> QED
    BY <1>3, <1>4, TaskReplaced
<1>6. queues' = [queues EXCEPT ![k] = Tail(queues[k])]
  BY DEF Get
<1>7. queues' \in [Keys -> Seq({Pill} \cup Events)] /\ \A c \in Keys : Len(queues'[c]) <= Capacity
  <2>1. queues \in [Keys -> Seq({Pill} \cup Events)] /\ \A c \in Keys : Len(queues[c]) <= Capacity
    BY DEF Inductive, BusTypeOK
  <2> HIDE DEF k
  <2> QED
    BY <1>1, <1>2, <1>6, <2>1
<1>8. TakenInv'
  <2>1. taken' = [taken EXCEPT ![k] = Append(taken[k], e)] /\ taken \in [Keys -> Seq(0..MaxEvents)]
    BY DEF Get, Inductive, TakenInv
  <2>2. Append(taken[k], e) \in Seq(0..MaxEvents)
    <3>1. taken[k] \in Seq(0..MaxEvents)
      BY <1>1, <2>1
    <3> HIDE DEF e, k
    <3> QED
      BY <1>2, <3>1, AppendProperties
  <2> HIDE DEF e, k
  <2> QED
    BY <1>1, <2>1, <2>2 DEF TakenInv
<1> QED
  BY <1>5, <1>7, <1>8, OnlyTasks DEF Get

\* One handler called, raising or not, keeps the invariant.
LEMMA CallKeeps ==
    ASSUME Inductive, NEW i \in DOMAIN tasks, Call(i)
    PROVE  Inductive'
<1> DEFINE rest == tasks[i].rest
           left == Tail(rest)
           n == Len(rest)
           stage == IF n = 1 THEN Again ELSE "call"
           t == [tasks[i] EXCEPT !.rest = left, !.stage = stage]
<1>1. tasks[i] \in Task
  BY TaskType
<1>2. rest \in Seq(Handlers) /\ rest # <<>>
  BY <1>1 DEF Call, Task, Inductive, CallInv
<1>3. n \in Nat \ {0} /\ left \in Seq(Handlers) /\ Len(left) = n - 1
  <2> HIDE DEF rest
  <2> QED
    BY <1>2, HeadTailProperties, EmptySeq
<1>4. n # 1 => left # <<>>
  <2> SUFFICES ASSUME left = <<>> PROVE n = 1
    OBVIOUS
  <2>1. Len(left) = 0
    BY EmptySeq
  <2> HIDE DEF left, n
  <2> QED
    BY <1>3, <2>1
<1>5. t \in Task /\ t.key = tasks[i].key /\ t.reader = tasks[i].reader /\ (t.stage = "call" => t.rest # <<>>)
  <2>1. Again \in {"get", "ended"}
    BY DEF Again
  <2>2. stage \in {"get", "call", "ended"} /\ (stage = "call" => n # 1)
    <3> HIDE DEF n
    <3> QED
      BY <2>1
  <2>3. t = [tasks[i] EXCEPT !.rest = left, !.stage = stage]
    OBVIOUS
  <2> HIDE DEF n, rest, stage, left, t
  <2>4. t \in Task
    BY <1>1, <1>3, <2>2, <2>3 DEF Task
  <2>5. t.key = tasks[i].key /\ t.reader = tasks[i].reader /\ t.stage = stage /\ t.rest = left
    BY <1>1, <2>3 DEF Task
  <2> QED
    BY <1>4, <2>2, <2>4, <2>5
<1>6. tasks' = [tasks EXCEPT ![i] = t] /\ handlers' = handlers
  BY DEF Call
<1>7. tasks' \in Seq(Task) /\ Len(tasks') <= MaxTasks /\ CallInv'
  <2> HIDE DEF t
  <2> QED
    BY <1>5, <1>6, TaskReplaced
<1>8. TakenInv'
  BY DEF Call, Inductive, TakenInv
<1>9. queues' \in [Keys -> Seq({Pill} \cup Events)] /\ \A k \in Keys : Len(queues'[k]) <= Capacity
  BY DEF Call, Inductive, BusTypeOK
<1> QED
  BY <1>7, <1>8, <1>9, OnlyTasks DEF Call

\* Pills go into queues that have room, as one put of BoundedQueues.
LEMMA PillsFit ==
    ASSUME Inductive, NEW next \in Nat \ {0}, PutPills(next), UNCHANGED taken
    PROVE  /\ queues' \in [Keys -> Seq({Pill} \cup Events)]
           /\ \A k \in Keys : Len(queues'[k]) <= Capacity
           /\ StopInv' \/ keys' # keys
           /\ stopping'.at \in {"putting", "done"} /\ started' \in BOOLEAN
           /\ BQ!QNext
<1>1. keys \in Seq(Keys) /\ Len(keys) \in Nat
  BY LenProperties DEF Inductive, BusTypeOK
<1>2. PICK first \in next..Len(keys) + 1 :
        /\ \A m \in next..first - 1 : ~Full(keys[m])
        /\ queues' = [k \in Keys |-> IF k \in {keys[j] : j \in next..first - 1} THEN Append(queues[k], Pill)
                                     ELSE queues[k]]
        /\ stopping' = [at |-> IF first > Len(keys) THEN "done" ELSE "putting",
                        next |-> first, size |-> Len(keys)]
        /\ started' = (first <= Len(keys))
  BY DEF PutPills
<1> DEFINE filled == {keys[j] : j \in next..first - 1}
<1>3. filled \subseteq Keys /\ \A k \in filled : ~Full(k)
  <2> SUFFICES ASSUME NEW j \in next..first - 1 PROVE keys[j] \in Keys /\ ~Full(keys[j])
    OBVIOUS
  <2>1. j \in 1..Len(keys)
    BY <1>1, <1>2
  <2> QED
    BY <1>2, <2>1, KeyAt DEF Inductive
<1>4. ASSUME NEW k \in Keys
      PROVE  /\ queues'[k] \in Seq({Pill} \cup Events) /\ Len(queues'[k]) <= Capacity
             /\ k \in filled => Len(queues[k]) < Capacity
  <2>1. queues'[k] = IF k \in filled THEN Append(queues[k], Pill) ELSE queues[k]
    BY <1>2
  <2> HIDE DEF filled
  <2>2. CASE k \in filled
    <3>1. BusTypeOK /\ ~Full(k) /\ Pill \in {Pill} \cup Events
      BY <1>3, <2>2 DEF Inductive
    <3>2. Len(queues[k]) < Capacity /\ Append(queues[k], Pill) \in Seq({Pill} \cup Events)
          /\ Len(Append(queues[k], Pill)) <= Capacity
      BY <3>1, Room
    <3> QED
      BY <2>1, <2>2, <3>2
  <2>3. CASE k \notin filled
    BY <2>1, <2>3 DEF Inductive, BusTypeOK
  <2> QED
    BY <2>2, <2>3
<1>5. queues' = [k \in Keys |-> IF k \in filled THEN Append(queues[k], Pill) ELSE queues[k]]
  BY <1>2
<1>6. BQ!Put(filled, Pill)
  <2> HIDE DEF filled
  <2> QED
    BY <1>3, <1>4, <1>5 DEF BQ!Put
<1>7. Pill \in 0..MaxEvents
  BY BusAssumption DEF Pill
<1>8. BQ!QNext
  <2> HIDE DEF filled
  <2> QED
    BY <1>3, <1>6, <1>7 DEF BQ!QNext
<1>9. queues' \in [Keys -> Seq({Pill} \cup Events)]
  <2>1. queues' = [k \in Keys |-> queues'[k]]
    BY <1>2
  <2> QED
    BY <1>4, <2>1
<1>10. first \in Nat \ {0}
  BY <1>1, <1>2
<1>11. stopping'.at \in {"putting", "done"} /\ (StopInv' \/ keys' # keys)
  <2> SUFFICES ASSUME keys' = keys PROVE stopping'.at \in {"putting", "done"} /\ StopInv'
    BY <1>2
  <2>1. stopping'.at = IF first > Len(keys) THEN "done" ELSE "putting"
    BY <1>2
  <2>2. stopping'.next = first /\ stopping'.size = Len(keys)
    BY <1>2
  <2>3. stopping' \in [at : {"no", "putting", "done", "failed"}, next : Nat \ {0}, size : Nat]
    BY <1>1, <1>2, <1>10
  <2>4. stopping'.at = "putting" => first <= Len(keys)
    BY <1>1, <1>10, <2>1
  <2> QED
    BY <1>1, <2>1, <2>2, <2>3, <2>4 DEF StopInv
<1> QED
  BY <1>2, <1>4, <1>8, <1>9, <1>10, <1>11

\* Pills put on the queues keep the invariant, and are a step of the bounded queues.
LEMMA StopKeeps ==
    ASSUME Inductive, NEW next \in Nat \ {0}, PutPills(next),
           UNCHANGED <<keys, handlers, tasks, published, ring, logs>>
    PROVE  Inductive' /\ BQ!QNext
<1>1. UNCHANGED <<keys, handlers, tasks, published, ring, taken>>
  BY DEF logs
<1>2. /\ queues' \in [Keys -> Seq({Pill} \cup Events)] /\ \A k \in Keys : Len(queues'[k]) <= Capacity
      /\ StopInv' \/ keys' # keys
      /\ stopping'.at \in {"putting", "done"} /\ started' \in BOOLEAN
      /\ BQ!QNext
  BY <1>1, PillsFit
<1>4. BusTypeOK'
  BY <1>1, <1>2 DEF Inductive, BusTypeOK, Events
<1>5. StopInv'
  BY <1>1, <1>2
<1>6. CallInv' /\ TakenInv'
  BY <1>1 DEF Inductive, CallInv, TakenInv
<1> QED
  BY <1>2, <1>4, <1>5, <1>6 DEF Inductive

\* A stop that raises at a full queue keeps the invariant, and is a step of the
\* bounded queues.
LEMMA StopRaisesKeeps ==
    ASSUME Inductive, StopRaises
    PROVE  Inductive' /\ BQ!QNext
<1> DEFINE k == keys[stopping.next]
<1>1. UNCHANGED <<started, keys, handlers, tasks, published, ring, taken>>
  BY DEF StopRaises, logs
<1>2. k \in Keys /\ ~Full(k) /\ queues' = [queues EXCEPT ![k] = Append(queues[k], Pill)]
  <2>1. stopping.next \in 1..Len(keys)
    <3>1. Len(keys) \in Nat
      BY LenProperties DEF Inductive, BusTypeOK
    <3> QED
      BY <3>1 DEF StopRaises, Inductive, StopInv
  <2> QED
    BY <2>1, KeyAt DEF StopRaises, Inductive
<1>3. Len(queues[k]) < Capacity /\ Append(queues[k], Pill) \in Seq({Pill} \cup Events)
      /\ Len(Append(queues[k], Pill)) <= Capacity
  <2>1. BusTypeOK /\ Pill \in {Pill} \cup Events
    BY DEF Inductive
  <2> HIDE DEF k
  <2> QED
    BY <1>2, <2>1, Room
<1>4. queues \in [Keys -> Seq({Pill} \cup Events)] /\ \A c \in Keys : Len(queues[c]) <= Capacity
  BY DEF Inductive, BusTypeOK
<1>5. queues' \in [Keys -> Seq({Pill} \cup Events)] /\ \A c \in Keys : Len(queues'[c]) <= Capacity
  <2> HIDE DEF k
  <2> QED
    BY <1>2, <1>3, <1>4
<1>6. BQ!QNext
  <2>1. Pill \in 0..MaxEvents
    BY BusAssumption DEF Pill
  <2> HIDE DEF k
  <2>2. queues' = [c \in Keys |-> IF c \in {k} THEN Append(queues[c], Pill) ELSE queues[c]]
    BY <1>2, <1>4
  <2>3. BQ!Put({k}, Pill)
    BY <1>1, <1>2, <1>3, <2>2 DEF BQ!Put
  <2> QED
    BY <1>2, <2>1, <2>3 DEF BQ!QNext
<1>7. stopping' = [stopping EXCEPT !.at = "failed"]
  BY DEF StopRaises
<1>8. StopInv' /\ stopping'.at = "failed"
  BY <1>7 DEF Inductive, StopInv
<1>9. BusTypeOK'
  BY <1>1, <1>5, <1>8 DEF Inductive, BusTypeOK, Events
<1>10. CallInv' /\ TakenInv'
  BY <1>1 DEF Inductive, CallInv, TakenInv
<1> QED
  BY <1>6, <1>8, <1>9, <1>10 DEF Inductive

------------------------------------------------------------------------------
(* The steps, and what each is for the queues. *)

\* start keeps the invariant.
LEMMA StartKeeps == ASSUME Inductive, StartBus PROVE Inductive'
<1>1. BusTypeOK'
  BY DEF StartBus, Inductive, BusTypeOK, Events, logs
<1>2. StopInv' /\ CallInv' /\ TakenInv'
  BY DEF StartBus, Inductive, StopInv, CallInv, TakenInv, logs
<1> QED
  BY <1>1, <1>2 DEF Inductive

\* A step that changes nothing keeps the invariant.
LEMMA StutterKeeps == ASSUME Inductive, UNCHANGED busState PROVE Inductive'
<1>1. UNCHANGED <<started, keys, queues, handlers, tasks, published, ring, stopping, taken>>
  BY DEF busState, busVars, logs
<1>2. BusTypeOK'
  BY <1>1 DEF Inductive, BusTypeOK, Events
<1>3. StopInv' /\ CallInv' /\ TakenInv'
  BY <1>1 DEF Inductive, StopInv, CallInv, TakenInv
<1> QED
  BY <1>2, <1>3 DEF Inductive

\* Every step of the bus keeps the invariant.
LEMMA NextInductive == Inductive /\ [BusNext]_busState => Inductive'
<1> SUFFICES ASSUME Inductive, [BusNext]_busState PROVE Inductive'
  OBVIOUS
<1>1. CASE StartBus
  BY <1>1, StartKeeps
<1>2. CASE \E s \in Subjects : Publish(s)
  BY <1>2, PublishKeeps
<1>3. CASE \E k \in Keys, h \in Handlers : Subscribe(k, h) \/ Iterate(k, h)
  BY <1>3, SubscribeKeeps, IterateKeeps
<1>4. CASE \E i \in DOMAIN tasks : TaskStep(i)
  BY <1>4, TaskStartsKeeps, GetKeeps, CallKeeps DEF TaskStep
<1>5. CASE StopCalled
  <2>1. 1 \in Nat \ {0} /\ PutPills(1)
    BY <1>5 DEF StopCalled
  <2> QED
    BY <1>5, <2>1, StopKeeps DEF StopCalled
<1>6. CASE StopResumes
  <2>1. stopping.next \in Nat \ {0} /\ PutPills(stopping.next)
    BY <1>6 DEF StopResumes, Inductive, StopInv
  <2> QED
    BY <1>6, <2>1, StopKeeps DEF StopResumes
<1>7. CASE StopRaises
  BY <1>7, StopRaisesKeeps
<1>8. CASE UNCHANGED busState
  BY <1>8, StutterKeeps
<1> QED
  BY <1>1, <1>2, <1>3, <1>4, <1>5, <1>6, <1>7, <1>8 DEF BusNext, StopGoesOn

\* Every state of the bus satisfies the invariant.
THEOREM AlwaysInductive == BusSpec => []Inductive
<1> QED
  BY InitInductive, NextInductive, PTL DEF BusSpec

\* Type correctness of the bus (services/contracts/bus.py): no queue ever holds
\* more than its capacity, nor the ring more than its size, for any of them.
THEOREM TypeCorrect == BusSpec => []BusTypeOK
<1>1. Inductive => BusTypeOK
  BY DEF Inductive
<1> QED
  BY <1>1, AlwaysInductive, PTL

\* A publication puts the event into the matching queues that have room.
LEMMA PublishPuts ==
    ASSUME Inductive, NEW s \in Subjects, Publish(s)
    PROVE  BQ!QNext
<1> DEFINE e == Len(published) + 1
           ks == {k \in Keys : k \in MatchingQueues(s) /\ ~Full(k)}
<1>1. e \in 0..MaxEvents
  <2>1. Len(published) \in Nat /\ Len(published) < MaxEvents
    BY LenProperties DEF Inductive, BusTypeOK, Publish
  <2> QED
    BY <2>1, BusAssumption
<1>2. \A k \in ks : Len(queues[k]) < Capacity
  <2> SUFFICES ASSUME NEW k \in ks PROVE Len(queues[k]) < Capacity
    OBVIOUS
  <2>1. Len(queues[k]) \in Nat /\ ~Full(k)
    BY LenProperties DEF Inductive, BusTypeOK
  <2> QED
    BY <2>1, BusAssumption DEF Full
<1>3. queues' = [k \in Keys |-> IF k \in ks THEN Append(queues[k], e) ELSE queues[k]]
  BY DEF Publish
<1>4. BQ!Put(ks, e)
  <2>1. taken' = taken
    BY DEF Publish
  <2> HIDE DEF ks, e
  <2> QED
    BY <1>2, <1>3, <2>1 DEF BQ!Put
<1>5. ks \in SUBSET Keys
  OBVIOUS
<1> HIDE DEF ks, e
<1> QED
  BY <1>1, <1>4, <1>5 DEF BQ!QNext

\* What a dispatcher takes off its queue is a step of the bounded queues.
LEMMA GetTakes ==
    ASSUME Inductive, NEW i \in DOMAIN tasks, Get(i)
    PROVE  BQ!QNext
<1> DEFINE k == tasks[i].key
<1>1. k \in Keys
  BY TaskType
<1>2. /\ queues[k] # <<>>
      /\ queues' = [queues EXCEPT ![k] = Tail(queues[k])]
      /\ taken' = [taken EXCEPT ![k] = Append(taken[k], Head(queues[k]))]
  BY DEF Get
<1>3. BQ!Take(k)
  BY <1>2 DEF BQ!Take
<1> QED
  BY <1>1, <1>3 DEF BQ!QNext

\* Every step of the bus is a step of the bounded queues, or leaves them alone.
LEMMA StepOfQueues == Inductive /\ [BusNext]_busState => [BQ!QNext]_<<queues, taken>>
<1> SUFFICES ASSUME Inductive, [BusNext]_busState PROVE BQ!QNext \/ UNCHANGED <<queues, taken>>
  OBVIOUS
<1>1. CASE \E s \in Subjects : Publish(s)
  BY <1>1, PublishPuts
<1>2. CASE StartBus \/ \E k \in Keys, h \in Handlers : Subscribe(k, h) \/ Iterate(k, h)
  BY <1>2 DEF StartBus, Subscribe, Iterate, logs
<1>3. CASE \E i \in DOMAIN tasks : TaskStep(i)
  <2>1. PICK i \in DOMAIN tasks : TaskStep(i)
    BY <1>3
  <2>2. CASE TaskStarts(i)
    BY <2>2 DEF TaskStarts, logs
  <2>3. CASE Get(i)
    BY <2>3, GetTakes
  <2>4. CASE Call(i)
    BY <2>4 DEF Call
  <2> QED
    BY <2>1, <2>2, <2>3, <2>4 DEF TaskStep
<1>4. CASE StopCalled
  <2>1. 1 \in Nat \ {0} /\ PutPills(1)
    BY <1>4 DEF StopCalled
  <2> QED
    BY <1>4, <2>1, StopKeeps DEF StopCalled
<1>5. CASE StopResumes
  <2>1. stopping.next \in Nat \ {0} /\ PutPills(stopping.next)
    BY <1>5 DEF StopResumes, Inductive, StopInv
  <2> QED
    BY <1>5, <2>1, StopKeeps DEF StopResumes
<1>6. CASE StopRaises
  BY <1>6, StopRaisesKeeps
<1>7. CASE UNCHANGED busState
  BY <1>7 DEF busState, busVars, logs
<1> QED
  BY <1>1, <1>2, <1>3, <1>4, <1>5, <1>6, <1>7 DEF BusNext, StopGoesOn

\* The bus implements the bounded queues it is made of: whatever tasks share a
\* queue, whoever joins late and wherever a stop is, an accepted item is taken
\* once and in order, and nothing goes into a full queue.
THEOREM BusImplementsQueues == BusSpec => QueuesAsPromised
<1>1. BusInit => BQ!QInit
  BY DEF BusInit, BQ!QInit
<1> QED
  BY <1>1, StepOfQueues, AlwaysInductive, PTL DEF BusSpec, QueuesAsPromised, BQ!QSpec, BQ!qvars

------------------------------------------------------------------------------
(* What a group takes is not lost. *)

ReceivedInv == received \in [Keys -> [Handlers -> Seq(0..MaxEvents)]]

Waiting(k, h, e) ==
    \E m \in TasksOf(k) : tasks[m].stage = "call" /\ tasks[m].event = e /\ h \in InSeq(tasks[m].rest)

Got(k, h, e) == e = Pill \/ e \in InSeq(received[k][h]) \/ Waiting(k, h, e)

\* What was taken is a pill, or some handler has got it or is about to.
HandledInv ==
    \A k \in Keys : \A j \in 1..Len(taken[k]) : \E h \in Handlers : Got(k, h, taken[k][j])

\* What a handler has received it keeps.
LEMMA ReceivedGrows ==
    ASSUME Inductive, ReceivedInv, [BusNext]_busState
    PROVE  /\ ReceivedInv'
           /\ \A k \in Keys, h \in Handlers : InSeq(received[k][h]) \subseteq InSeq(received'[k][h])
<1>1. CASE \E i \in DOMAIN tasks : Call(i)
  <2>1. PICK i \in DOMAIN tasks : Call(i)
    BY <1>1
  <2> DEFINE k == tasks[i].key
             h == Head(tasks[i].rest)
             e == tasks[i].event
             more == Append(received[k][h], e)
  <2>2. tasks[i] \in Task /\ k \in Keys /\ tasks[i].rest # <<>>
    BY <2>1, TaskType DEF Call, Inductive, CallInv
  <2>3. h \in Handlers /\ e \in 0..MaxEvents
    BY <2>2, HeadTailProperties DEF Task
  <2>4. received[k][h] \in Seq(0..MaxEvents)
    BY <2>2, <2>3 DEF ReceivedInv
  <2>5. received' = [received EXCEPT ![k][h] = more]
    BY <2>1 DEF Call
  <2>6. /\ more \in Seq(0..MaxEvents) /\ Len(more) = Len(received[k][h]) + 1
        /\ \A n \in 1..Len(received[k][h]) : more[n] = received[k][h][n]
    <3> HIDE DEF k, h, e
    <3> QED
      BY <2>3, <2>4, AppendProperties
  <2>7. DOMAIN received[k][h] = 1..Len(received[k][h]) /\ DOMAIN more = 1..Len(received[k][h]) + 1
        /\ Len(received[k][h]) \in Nat
    <3> HIDE DEF more, k, h
    <3> QED
      BY <2>4, <2>6, LenProperties
  <2>8. InSeq(received[k][h]) \subseteq InSeq(more)
    <3> HIDE DEF more, k, h
    <3>1. \A n \in DOMAIN received[k][h] : n \in DOMAIN more /\ more[n] = received[k][h][n]
      BY <2>6, <2>7
    <3> QED
      BY <3>1 DEF InSeq
  <2>9. ReceivedInv'
    <3> HIDE DEF more, k, h
    <3> QED
      BY <2>2, <2>3, <2>5, <2>6 DEF ReceivedInv
  <2>10. ASSUME NEW c \in Keys, NEW g \in Handlers
         PROVE  InSeq(received[c][g]) \subseteq InSeq(received'[c][g])
    <3> HIDE DEF more, k, h
    <3>1. CASE c = k /\ g = h
      <4>1. received'[c][g] = more
        BY <2>5, <3>1 DEF ReceivedInv
      <4> QED
        BY <2>8, <3>1, <4>1
    <3>2. CASE ~(c = k /\ g = h)
      <4>1. received'[c][g] = received[c][g]
        BY <2>5, <3>2 DEF ReceivedInv
      <4> QED
        BY <4>1
    <3> QED
      BY <3>1, <3>2
  <2> QED
    BY <2>9, <2>10
<1>2. CASE ~(\E i \in DOMAIN tasks : Call(i))
  <2>1. received' = received
    BY <1>2 DEF BusNext, busState, logs, StartBus, Publish, Subscribe, Iterate, TaskStep, TaskStarts, Get,
                StopCalled, StopGoesOn, StopResumes, StopRaises
  <2> QED
    BY <2>1 DEF ReceivedInv
<1> QED
  BY <1>1, <1>2

\* A task keeps its group and its reader, and changes by a step of its own.
LEMMA TasksGrow ==
    ASSUME Inductive, [BusNext]_busState
    PROVE  /\ \A i \in DOMAIN tasks :
                /\ i \in DOMAIN tasks' /\ tasks'[i].key = tasks[i].key
                /\ tasks'[i].reader = tasks[i].reader
           /\ \A i \in DOMAIN tasks :
                tasks'[i] # tasks[i] => TaskStep(i)
<1>1. tasks \in Seq(Task) /\ Len(tasks) \in Nat /\ DOMAIN tasks = 1..Len(tasks)
  BY LenProperties DEF Inductive, BusTypeOK
<1>2. CASE \E i \in DOMAIN tasks : TaskStep(i)
  <2>1. PICK i \in DOMAIN tasks : TaskStep(i)
    BY <1>2
  <2>2. tasks[i] \in Task
    BY TaskType
  <2>3. \E t : tasks' = [tasks EXCEPT ![i] = t]
    <3>1. CASE TaskStarts(i)
      BY <3>1 DEF TaskStarts
    <3>2. CASE Get(i)
      BY <3>2 DEF Get
    <3>3. CASE Call(i)
      BY <3>3 DEF Call
    <3> QED
      BY <2>1, <3>1, <3>2, <3>3 DEF TaskStep
  <2>4. DOMAIN tasks' = DOMAIN tasks /\ \A j \in DOMAIN tasks : j # i => tasks'[j] = tasks[j]
    BY <2>3
  <2>5. tasks'[i].key = tasks[i].key /\ tasks'[i].reader = tasks[i].reader
    <3>1. CASE TaskStarts(i)
      <4>1. tasks'[i] = [tasks[i] EXCEPT !.stage = Again]
        BY <3>1 DEF TaskStarts
      <4> QED
        BY <2>2, <4>1 DEF Task
    <3>2. CASE Get(i)
      <4> DEFINE e == Head(queues[tasks[i].key])
      <4>1. tasks'[i] = IF e = Pill THEN [tasks[i] EXCEPT !.stage = "ended"]
                        ELSE [tasks[i] EXCEPT !.stage = "call", !.event = e, !.rest = ToCall(i)]
        BY <3>2 DEF Get
      <4> HIDE DEF e
      <4> QED
        BY <2>2, <4>1 DEF Task
    <3>3. CASE Call(i)
      <4>1. tasks'[i] = [tasks[i] EXCEPT !.rest = Tail(tasks[i].rest),
                                         !.stage = IF Len(tasks[i].rest) = 1 THEN Again ELSE "call"]
        BY <3>3 DEF Call
      <4> QED
        BY <2>2, <4>1 DEF Task
    <3> QED
      BY <2>1, <3>1, <3>2, <3>3 DEF TaskStep
  <2> QED
    BY <2>1, <2>4, <2>5
<1>3. CASE \E k \in Keys, h \in Handlers : Subscribe(k, h) \/ Iterate(k, h)
  <2>1. PICK k \in Keys, h \in Handlers : AddTask(k, h) /\ taken' = taken
    BY <1>3 DEF Subscribe, Iterate, logs
  <2> DEFINE new == [key |-> k, reader |-> h, stage |-> "new", event |-> 0, rest |-> <<>>]
  <2>2. tasks' = Append(tasks, new)
    BY <2>1 DEF AddTask
  <2>3. /\ tasks' \in Seq(Task \cup {new}) /\ Len(tasks') = Len(tasks) + 1
        /\ \A j \in 1..Len(tasks) : tasks'[j] = tasks[j]
        /\ tasks'[Len(tasks) + 1] = new
    <3>1. tasks \in Seq(Task \cup {new}) /\ new \in Task \cup {new}
      BY <1>1, SeqMonotonic
    <3> HIDE DEF new
    <3> QED
      BY <2>2, <3>1, AppendProperties
  <2>4. DOMAIN tasks' = 1..Len(tasks) + 1
    BY <2>3, LenProperties
  <2> HIDE DEF new
  <2> QED
    BY <1>1, <2>3, <2>4
<1>4. CASE ~(\E i \in DOMAIN tasks : TaskStep(i)) /\ ~(\E k \in Keys, h \in Handlers : Subscribe(k, h) \/ Iterate(k, h))
  <2>1. tasks' = tasks
    BY <1>4 DEF BusNext, busState, busVars, StartBus, Publish, StopCalled, StopGoesOn, StopResumes, StopRaises
  <2> QED
    BY <2>1
<1> QED
  BY <1>2, <1>3, <1>4

\* What a handler has got, or is about to, it still has after any step.
LEMMA GotKept ==
    ASSUME Inductive, ReceivedInv, [BusNext]_busState,
           NEW k \in Keys, NEW h \in Handlers, NEW e \in 0..MaxEvents, Got(k, h, e)
    PROVE  Got(k, h, e)'
<1>1. CASE e = Pill
  BY <1>1 DEF Got, Pill
<1>2. CASE e \in InSeq(received[k][h])
  <2>1. e \in InSeq(received'[k][h])
    BY <1>2, ReceivedGrows
  <2> QED
    BY <2>1 DEF Got, InSeq
<1>3. CASE Waiting(k, h, e)
  <2>1. PICK m \in DOMAIN tasks :
           tasks[m].key = k /\ tasks[m].stage = "call" /\ tasks[m].event = e /\ h \in InSeq(tasks[m].rest)
    BY <1>3 DEF Waiting, TasksOf
  <2>2. m \in DOMAIN tasks' /\ tasks'[m].key = k
    BY <2>1, TasksGrow
  <2>3. CASE tasks'[m] = tasks[m]
    <3>1. tasks'[m].stage = "call" /\ tasks'[m].event = e /\ h \in InSeq(tasks'[m].rest)
      BY <2>1, <2>3
    <3> QED
      BY <2>2, <3>1 DEF Got, Waiting, TasksOf, InSeq
  <2>4. CASE tasks'[m] # tasks[m]
    <3> DEFINE rest == tasks[m].rest
    <3>1. Call(m)
      BY <2>1, <2>4, TasksGrow DEF TaskStep, TaskStarts, Get
    <3>2. tasks[m] \in Task /\ rest \in Seq(Handlers) /\ rest # <<>>
      BY <2>1, TaskType DEF Task, Inductive, CallInv
    <3>3. /\ Len(rest) \in Nat \ {0} /\ DOMAIN rest = 1..Len(rest) /\ Head(rest) = rest[1]
          /\ Tail(rest) \in Seq(Handlers) /\ Len(Tail(rest)) = Len(rest) - 1
          /\ \A n \in 1..Len(Tail(rest)) : Tail(rest)[n] = rest[n + 1]
      <4> HIDE DEF rest
      <4> QED
        BY <3>2, HeadTailProperties, LenProperties, EmptySeq
    <3>4. PICK n \in DOMAIN rest : rest[n] = h
      BY <2>1 DEF InSeq
    <3>5. CASE n = 1
      <4>1. Head(rest) = h
        BY <3>3, <3>4, <3>5
      <4>2. received' = [received EXCEPT ![k][h] = Append(received[k][h], e)]
        BY <2>1, <3>1, <4>1 DEF Call
      <4>3. received'[k][h] = Append(received[k][h], e) /\ received[k][h] \in Seq(0..MaxEvents)
        BY <4>2 DEF ReceivedInv
      <4>4. Len(received[k][h]) + 1 \in DOMAIN received'[k][h]
            /\ received'[k][h][Len(received[k][h]) + 1] = e
        <5>1. /\ received'[k][h] \in Seq(0..MaxEvents) /\ Len(received'[k][h]) = Len(received[k][h]) + 1
              /\ received'[k][h][Len(received[k][h]) + 1] = e
          BY <4>3, AppendProperties
        <5>2. DOMAIN received'[k][h] = 1..Len(received'[k][h]) /\ Len(received[k][h]) \in Nat
          BY <4>3, <5>1, LenProperties
        <5> QED
          BY <5>1, <5>2
      <4>5. e \in InSeq(received'[k][h])
        BY <4>4 DEF InSeq
      <4> QED
        BY <4>5 DEF Got, InSeq
    <3>6. CASE n # 1
      <4> DEFINE left == Tail(rest)
      <4>1. tasks'[m] = [tasks[m] EXCEPT !.rest = left, !.stage = IF Len(rest) = 1 THEN Again ELSE "call"]
        BY <2>1, <3>1 DEF Call
      <4>2. Len(rest) # 1 /\ n - 1 \in 1..Len(left) /\ left[n - 1] = h
        <5> HIDE DEF rest
        <5> QED
          BY <3>3, <3>4, <3>6
      <4>3. DOMAIN left = 1..Len(left)
        <5> HIDE DEF rest, left
        <5>1. left \in Seq(Handlers)
          BY <3>3 DEF left
        <5> QED
          BY <5>1, LenProperties
      <4>4. h \in InSeq(left)
        <5> HIDE DEF rest, left
        <5> QED
          BY <4>2, <4>3 DEF InSeq
      <4>5. tasks'[m].stage = "call" /\ tasks'[m].event = e /\ tasks'[m].rest = left
        <5> HIDE DEF rest, left
        <5> QED
          BY <2>1, <3>2, <4>1, <4>2 DEF Task
      <4>6. h \in InSeq(tasks'[m].rest)
        BY <4>4, <4>5
      <4> QED
        BY <2>2, <4>5, <4>6 DEF Got, Waiting, TasksOf, InSeq
    <3> QED
      BY <3>5, <3>6
  <2> QED
    BY <2>3, <2>4
<1> QED
  BY <1>1, <1>2, <1>3 DEF Got

\* What a task takes is a pill, or some handler is about to get it.
LEMMA TakenIsGot ==
    ASSUME Inductive, NEW m \in DOMAIN tasks, Get(m), NEW k, NEW e, k = tasks[m].key, e = Head(queues[k])
    PROVE  \E h \in Handlers : Got(k, h, e)'
<1>1. tasks[m] \in Task /\ tasks[m].reader \in Handlers /\ k \in Keys
  BY TaskType DEF Task
<1>2. CASE e = Pill
  BY <1>1, <1>2 DEF Got, Pill
<1>3. CASE e # Pill
  <2>1. tasks'[m] = [tasks[m] EXCEPT !.stage = "call", !.event = e, !.rest = ToCall(m)]
    BY <1>1, <1>3 DEF Get
  <2>2. tasks'[m].stage = "call" /\ tasks'[m].event = e /\ tasks'[m].rest = ToCall(m) /\ tasks'[m].key = k
    BY <1>1, <2>1 DEF Task
  <2>3. ToCall(m) \in Seq(Handlers) /\ ToCall(m) # <<>>
    BY SomeoneToCall
  <2>4. 1 \in DOMAIN ToCall(m) /\ ToCall(m)[1] \in Handlers
    BY <2>3, EmptySeq, LenProperties, ElementOfSeq
  <2>5. m \in DOMAIN tasks'
    BY DEF Get
  <2>6. ToCall(m)[1] \in InSeq(tasks'[m].rest)
    BY <2>2, <2>4 DEF InSeq
  <2> QED
    BY <2>2, <2>4, <2>5, <2>6 DEF Got, Waiting, TasksOf, InSeq
<1> QED
  BY <1>2, <1>3

\* What was taken stays; one item more is taken only by a task that gets it.
LEMMA TakenGrows ==
    ASSUME Inductive, [BusNext]_busState, NEW k \in Keys, NEW j \in 1..Len(taken'[k])
    PROVE  \/ j \in 1..Len(taken[k]) /\ taken'[k][j] = taken[k][j]
           \/ \E m \in DOMAIN tasks : /\ Get(m) /\ tasks[m].key = k
                                      /\ taken'[k][j] = Head(queues[k])
<1>1. CASE \E m \in DOMAIN tasks : Get(m) /\ tasks[m].key = k
  <2>1. PICK m \in DOMAIN tasks : Get(m) /\ tasks[m].key = k
    BY <1>1
  <2> DEFINE e == Head(queues[k])
  <2>2. taken'[k] = Append(taken[k], e) /\ taken[k] \in Seq(0..MaxEvents)
    BY <2>1 DEF Get, Inductive, TakenInv
  <2>3. e \in 0..MaxEvents
    BY <2>1, HeadOfQueue DEF Get
  <2> HIDE DEF e
  <2>4. /\ Len(taken'[k]) = Len(taken[k]) + 1 /\ taken'[k][Len(taken[k]) + 1] = e
        /\ \A n \in 1..Len(taken[k]) : taken'[k][n] = taken[k][n]
    BY <2>2, <2>3, AppendProperties
  <2>5. Len(taken[k]) \in Nat
    BY <2>2, LenProperties
  <2>6. j \in 1..Len(taken[k]) \/ j = Len(taken[k]) + 1
    BY <2>4, <2>5
  <2> QED
    BY <2>1, <2>4, <2>6 DEF e
<1>2. CASE ~(\E m \in DOMAIN tasks : Get(m) /\ tasks[m].key = k)
  <2>1. taken'[k] = taken[k]
    <3>1. CASE \E m \in DOMAIN tasks : Get(m)
      BY <1>2, <3>1 DEF Get, Inductive, TakenInv
    <3>2. CASE ~(\E m \in DOMAIN tasks : Get(m))
      BY <3>2 DEF BusNext, busState, logs, StartBus, Publish, Subscribe, Iterate, TaskStep, TaskStarts, Call,
                  StopCalled, StopGoesOn, StopResumes, StopRaises
    <3> QED
      BY <3>1, <3>2
  <2> QED
    BY <2>1
<1> QED
  BY <1>1, <1>2

\* Every step keeps what was taken handled.
LEMMA HandledNext ==
    ASSUME Inductive, ReceivedInv, HandledInv, [BusNext]_busState
    PROVE  HandledInv'
<1> SUFFICES ASSUME NEW k \in Keys, NEW j, NEW e, j \in 1..Len(taken'[k]), e = taken'[k][j]
             PROVE  \E h \in Handlers : Got(k, h, e)'
  BY DEF HandledInv, Got, Waiting
<1>1. CASE j \in 1..Len(taken[k]) /\ taken'[k][j] = taken[k][j]
  <2>1. e \in 0..MaxEvents
    BY <1>1, ElementOfSeq DEF Inductive, TakenInv
  <2>2. PICK h \in Handlers : Got(k, h, e)
    BY <1>1 DEF HandledInv
  <2> QED
    BY <2>1, <2>2, GotKept
<1>2. CASE \E m \in DOMAIN tasks : Get(m) /\ tasks[m].key = k /\ taken'[k][j] = Head(queues[k])
  BY <1>2, TakenIsGot
<1> QED
  BY <1>1, <1>2, TakenGrows

\* No event that a task takes off the queue of its group is lost: some handler was
\* called with it or is about to be, for any number of subscribers, groups, events
\* and capacities, and wherever a stop is (the tasks in services/contracts/bus.py).
THEOREM NothingTakenLost == BusSpec => []NoneLost
<1> DEFINE Handling == Inductive /\ ReceivedInv /\ HandledInv
<1>1. BusInit => Handling
  <2> SUFFICES ASSUME BusInit PROVE Handling
    OBVIOUS
  <2>1. ReceivedInv
    <3>1. <<>> \in Seq(0..MaxEvents)
      BY EmptySeq
    <3> QED
      BY <3>1 DEF BusInit, ReceivedInv
  <2>2. \A k \in Keys : 1..Len(taken[k]) = {}
    BY DEF BusInit
  <2> QED
    BY <2>1, <2>2, InitInductive DEF HandledInv
<1>2. Handling /\ [BusNext]_busState => Handling'
  BY NextInductive, ReceivedGrows, HandledNext
<1>3. Handling => NoneLost
  <2> SUFFICES ASSUME Handling, NEW k \in Keys, NEW e \in InSeq(taken[k]), e # Pill
               PROVE  \/ \E h \in Handlers : e \in InSeq(received[k][h])
                      \/ \E m \in TasksOf(k) : tasks[m].stage = "call" /\ tasks[m].event = e
    BY DEF NoneLost
  <2>1. PICK j \in DOMAIN taken[k] : taken[k][j] = e
    BY DEF InSeq
  <2>2. j \in 1..Len(taken[k])
    BY LenProperties DEF Inductive, TakenInv
  <2>3. PICK h \in Handlers : Got(k, h, e)
    BY <2>1, <2>2 DEF HandledInv
  <2> QED
    BY <2>3 DEF Got, Waiting
<1> QED
  BY <1>1, <1>2, <1>3, PTL DEF BusSpec

------------------------------------------------------------------------------
(* No handler is called twice with an event, and by a single task in order. *)

\* x is in s at most once.
Once(s, x) == \A i, j \in DOMAIN s : s[i] = x /\ s[j] = x => i = j

Ascending(s) == \A i, j \in DOMAIN s : i < j => s[i] < s[j]

Callers(k) == {m \in TasksOf(k) : tasks[m].stage = "call"}

OneTask(k) == \A i, j \in TasksOf(k) : i = j

\* The events of a group are taken in the order of their publication, and those
\* still in its queue are newer.
FifoInv ==
    \A k \in Keys :
        /\ \A e \in InSeq(taken[k]) : e <= Len(published)
        /\ \A i, j \in DOMAIN queues[k] : i < j /\ queues[k][j] # Pill => queues[k][i] < queues[k][j]
        /\ \A d \in InSeq(taken[k]), e \in InSeq(queues[k]) : e # Pill => d < e

\* Whoever calls has an event of its own, taken for the group, ...
OwnEvent(k) ==
    /\ \A m \in Callers(k) : tasks[m].event \in InSeq(taken[k])
    /\ \A m, n \in Callers(k) : tasks[m].event = tasks[n].event => m = n

\* ... which a handler it is still to call has not had, ...
StillToHave(k, h) ==
    \A m \in Callers(k) :
        /\ Once(tasks[m].rest, h)
        /\ h \in InSeq(tasks[m].rest) => tasks[m].event \notin InSeq(received[k][h])

\* ... and which is the group's last if there is one task only.
LastTaken(k) == \A m \in Callers(k) : \A e \in InSeq(taken[k]) : e <= tasks[m].event

OnceInv ==
    \A k \in Keys :
        /\ \A h \in Handlers : InSeq(received[k][h]) \subseteq InSeq(taken[k])
        /\ OwnEvent(k)
        /\ \A h \in Handlers : Once(handlers[k], h) => IsInjective(received[k][h]) /\ StillToHave(k, h)
        /\ OneTask(k) => /\ LastTaken(k)
                         /\ \A h \in Handlers : Once(handlers[k], h) => Ascending(received[k][h])

\* The elements of a sequence, and of one with an element more or less.
LEMMA InSequence ==
    ASSUME NEW S, NEW s \in Seq(S)
    PROVE  /\ InSeq(s) \subseteq S
           /\ \A x \in S : InSeq(Append(s, x)) = InSeq(s) \cup {x}
           /\ s # <<>> => Head(s) \in InSeq(s) /\ InSeq(Tail(s)) \subseteq InSeq(s)
<1>1. Len(s) \in Nat /\ DOMAIN s = 1..Len(s) /\ \A i \in 1..Len(s) : s[i] \in S
  BY LenProperties, ElementOfSeq
<1>2. InSeq(s) \subseteq S
  BY <1>1 DEF InSeq
<1>3. ASSUME NEW x \in S PROVE InSeq(Append(s, x)) = InSeq(s) \cup {x}
  <2> DEFINE t == Append(s, x)
  <2>1. /\ t \in Seq(S) /\ Len(t) = Len(s) + 1
        /\ \A i \in 1..Len(s) : t[i] = s[i]
        /\ t[Len(s) + 1] = x
    BY AppendProperties
  <2> HIDE DEF t
  <2>2. DOMAIN t = 1..Len(s) + 1
    BY <2>1, LenProperties
  <2>3. DOMAIN t = (DOMAIN s) \cup {Len(s) + 1}
    BY <1>1, <2>2
  <2>4. InSeq(t) = InSeq(s) \cup {x}
    BY <1>1, <2>1, <2>3 DEF InSeq
  <2> QED
    BY <2>4 DEF t
<1>4. ASSUME s # <<>> PROVE Head(s) \in InSeq(s) /\ InSeq(Tail(s)) \subseteq InSeq(s)
  <2>1. /\ Tail(s) \in Seq(S) /\ Len(Tail(s)) = Len(s) - 1
        /\ \A i \in 1..Len(Tail(s)) : Tail(s)[i] = s[i + 1]
    BY <1>4, HeadTailProperties
  <2>2. Len(s) \in Nat \ {0}
    BY <1>4, EmptySeq
  <2>3. DOMAIN Tail(s) = 1..Len(Tail(s))
    BY <2>1, LenProperties
  <2>4. \A i \in DOMAIN Tail(s) : i + 1 \in DOMAIN s /\ Tail(s)[i] = s[i + 1]
    BY <1>1, <2>1, <2>2, <2>3
  <2>5. 1 \in DOMAIN s /\ Head(s) = s[1]
    BY <1>1, <2>2
  <2> QED
    BY <2>4, <2>5 DEF InSeq
<1> QED
  BY <1>2, <1>3, <1>4

\* What has been appended last.
LEMMA AppendedTo ==
    ASSUME NEW S, NEW s \in Seq(S), NEW x \in S
    PROVE  /\ Append(s, x) \in Seq(S)
           /\ DOMAIN s = 1..Len(s) /\ Len(s) \in Nat
           /\ DOMAIN Append(s, x) = 1..Len(s) + 1
           /\ \A i \in 1..Len(s) : Append(s, x)[i] = s[i]
           /\ Append(s, x)[Len(s) + 1] = x
<1> DEFINE t == Append(s, x)
<1>1. t \in Seq(S) /\ Len(t) = Len(s) + 1 /\ (\A i \in 1..Len(s) : t[i] = s[i]) /\ t[Len(s) + 1] = x
  BY AppendProperties
<1>2. Len(s) \in Nat /\ DOMAIN s = 1..Len(s)
  BY LenProperties
<1>3. DOMAIN t = 1..Len(t)
  BY <1>1, LenProperties
<1> QED
  BY <1>1, <1>2, <1>3

\* A new element leaves a sequence without duplicates, and one above all leaves it
\* ascending.
LEMMA NewElement ==
    ASSUME NEW S, NEW s \in Seq(S), NEW x \in S, x \notin InSeq(s)
    PROVE  /\ IsInjective(s) => IsInjective(Append(s, x))
           /\ (\A y \in InSeq(s) : y < x) /\ Ascending(s) => Ascending(Append(s, x))
<1> DEFINE t == Append(s, x)
           n == Len(s)
<1>1. DOMAIN s = 1..n /\ n \in Nat /\ DOMAIN t = 1..n + 1 /\ (\A i \in 1..n : t[i] = s[i]) /\ t[n + 1] = x
  BY AppendedTo
<1>2. \A i \in 1..n : s[i] \in InSeq(s)
  BY <1>1 DEF InSeq
<1> HIDE DEF t, n
<1>3. \A i \in 1..n + 1 : i \in 1..n \/ i = n + 1
  BY <1>1
<1>4. ASSUME IsInjective(s) PROVE IsInjective(t)
  <2> SUFFICES ASSUME NEW a \in DOMAIN t, NEW b \in DOMAIN t, t[a] = t[b] PROVE a = b
    BY DEF IsInjective
  <2>1. CASE a \in 1..n /\ b \in 1..n
    BY <1>1, <1>4, <2>1 DEF IsInjective
  <2> QED
    BY <1>1, <1>2, <1>3, <2>1
<1>5. ASSUME \A y \in InSeq(s) : y < x, Ascending(s) PROVE Ascending(t)
  <2> SUFFICES ASSUME NEW a \in DOMAIN t, NEW b \in DOMAIN t, a < b PROVE t[a] < t[b]
    BY DEF Ascending
  <2>1. CASE a \in 1..n /\ b \in 1..n
    BY <1>1, <1>5, <2>1 DEF Ascending
  <2>2. CASE a \in 1..n /\ b = n + 1
    BY <1>1, <1>2, <1>5, <2>2
  <2>3. CASE a = n + 1
    BY <1>1, <2>3
  <2> QED
    BY <1>1, <1>3, <2>1, <2>2, <2>3
<1> QED
  BY <1>4, <1>5 DEF t

\* An element that occurs once is not in the tail if it is the head.
LEMMA OnceInTail ==
    ASSUME NEW S, NEW s \in Seq(S), s # <<>>, NEW x, Once(s, x)
    PROVE  Once(Tail(s), x) /\ (x = Head(s) => x \notin InSeq(Tail(s)))
<1>1. /\ Tail(s) \in Seq(S) /\ Len(Tail(s)) = Len(s) - 1 /\ Len(s) \in Nat \ {0}
      /\ \A i \in 1..Len(Tail(s)) : Tail(s)[i] = s[i + 1]
  BY HeadTailProperties, EmptySeq
<1>2. DOMAIN s = 1..Len(s) /\ DOMAIN Tail(s) = 1..Len(s) - 1
  BY <1>1, LenProperties
<1>3. \A i \in DOMAIN Tail(s) : i \in Nat /\ i + 1 \in DOMAIN s /\ Tail(s)[i] = s[i + 1] /\ i + 1 # 1
  BY <1>1, <1>2
<1>4. 1 \in DOMAIN s /\ Head(s) = s[1]
  BY <1>1, <1>2
<1>5. Once(Tail(s), x)
  <2> SUFFICES ASSUME NEW i \in DOMAIN Tail(s), NEW j \in DOMAIN Tail(s), Tail(s)[i] = x, Tail(s)[j] = x
               PROVE  i = j
    BY DEF Once
  <2>1. i + 1 = j + 1
    BY <1>3 DEF Once
  <2> QED
    BY <1>3, <2>1
<1>6. x = Head(s) => x \notin InSeq(Tail(s))
  BY <1>3, <1>4 DEF Once, InSeq
<1> QED
  BY <1>5, <1>6

\* The types of what is in a queue, was taken from it or received.
LEMMA QueueTypes ==
    ASSUME Inductive, NEW k \in Keys
    PROVE  /\ queues[k] \in Seq(0..MaxEvents) /\ taken[k] \in Seq(0..MaxEvents)
           /\ Len(published) \in Nat
           /\ \A e \in InSeq(queues[k]) : e \in 0..Len(published)
           /\ ReceivedInv => \A h \in Handlers : received[k][h] \in Seq(0..MaxEvents)
<1>1. Len(published) \in Nat /\ Len(published) <= MaxEvents /\ MaxEvents \in Nat
  BY LenProperties, BusAssumption DEF Inductive, BusTypeOK
<1>2. queues[k] \in Seq({Pill} \cup Events)
  BY DEF Inductive, BusTypeOK
<1>3. {Pill} \cup Events \subseteq 0..Len(published) /\ 0..Len(published) \subseteq 0..MaxEvents
  BY <1>1 DEF Pill, Events
<1>4. queues[k] \in Seq(0..MaxEvents)
  <2>1. {Pill} \cup Events \subseteq 0..MaxEvents
    BY <1>3
  <2> QED
    BY <1>2, <2>1, SeqMonotonic
<1>5. InSeq(queues[k]) \subseteq {Pill} \cup Events
  BY <1>2, InSequence
<1> QED
  BY <1>1, <1>3, <1>4, <1>5 DEF Inductive, TakenInv, ReceivedInv

\* A pill or the next event, put into some queues, stays behind what is older.
LEMMA FifoPut ==
    ASSUME Inductive, FifoInv, taken' = taken, NEW x \in 0..MaxEvents,
           x = Pill \/ x = Len(published) + 1,
           Len(published') \in Nat, Len(published) <= Len(published'),
           \A k \in Keys : queues'[k] = queues[k] \/ queues'[k] = Append(queues[k], x)
    PROVE  FifoInv'
<1> SUFFICES ASSUME NEW k \in Keys
             PROVE  /\ \A e \in InSeq(taken[k]) : e <= Len(published')
                    /\ \A i, j \in DOMAIN queues'[k] :
                          i < j /\ queues'[k][j] # Pill => queues'[k][i] < queues'[k][j]
                    /\ \A d \in InSeq(taken[k]), e \in InSeq(queues'[k]) : e # Pill => d < e
  BY DEF FifoInv, InSeq
<1> DEFINE q == queues[k]
           n == Len(published)
<1>1. q \in Seq(0..MaxEvents) /\ n \in Nat /\ (\A e \in InSeq(q) : e \in 0..n)
      /\ taken[k] \in Seq(0..MaxEvents)
  BY QueueTypes
<1>2. \A d \in InSeq(taken[k]) : d \in 0..MaxEvents
  BY <1>1, InSequence
<1>3. /\ \A e \in InSeq(taken[k]) : e <= n
      /\ \A i, j \in DOMAIN q : i < j /\ q[j] # Pill => q[i] < q[j]
      /\ \A d \in InSeq(taken[k]), e \in InSeq(q) : e # Pill => d < e
  BY DEF FifoInv
<1> HIDE DEF q, n
<1>4. \A e \in InSeq(taken[k]) : e <= Len(published')
  BY <1>1, <1>2, <1>3, BusAssumption DEF n
<1>5. CASE queues'[k] = q
  BY <1>3, <1>4, <1>5
<1>6. CASE queues'[k] = Append(q, x)
  <2> DEFINE t == Append(q, x)
  <2>a. InSeq(t) = InSeq(q) \cup {x}
    BY <1>1, InSequence
  <2>b. /\ DOMAIN q = 1..Len(q) /\ Len(q) \in Nat /\ DOMAIN t = 1..Len(q) + 1
        /\ \A i \in 1..Len(q) : t[i] = q[i]
        /\ t[Len(q) + 1] = x
    BY <1>1, AppendedTo
  <2> HIDE DEF t
  <2>1. /\ DOMAIN q = 1..Len(q) /\ Len(q) \in Nat /\ DOMAIN t = 1..Len(q) + 1
        /\ \A i \in 1..Len(q) : t[i] = q[i]
        /\ t[Len(q) + 1] = x
        /\ InSeq(t) = InSeq(q) \cup {x}
    BY <2>a, <2>b
  <2>2. \A d \in InSeq(taken[k]), e \in InSeq(t) : e # Pill => d < e
    BY <1>1, <1>2, <1>3, <2>1, BusAssumption DEF n
  <2>3. ASSUME NEW i \in DOMAIN t, NEW j \in DOMAIN t, i < j, t[j] # Pill PROVE t[i] < t[j]
    <3>1. i \in 1..Len(q) /\ t[i] = q[i] /\ q[i] \in InSeq(q)
      BY <2>1, <2>3 DEF InSeq
    <3>2. CASE j \in 1..Len(q)
      BY <1>3, <2>1, <2>3, <3>1, <3>2
    <3>3. CASE j = Len(q) + 1
      BY <1>1, <2>1, <2>3, <3>1, <3>3 DEF n
    <3> QED
      BY <2>1, <3>2, <3>3
  <2> QED
    BY <1>4, <1>6, <2>2, <2>3 DEF t
<1> QED
  BY <1>5, <1>6 DEF q

\* What is taken is older than what stays.
LEMMA FifoTake ==
    ASSUME Inductive, FifoInv, NEW i \in DOMAIN tasks, Get(i)
    PROVE  FifoInv'
<1> DEFINE c == tasks[i].key
           x == Head(queues[c])
<1>1. c \in Keys /\ queues[c] # <<>> /\ UNCHANGED published
      /\ queues' = [queues EXCEPT ![c] = Tail(queues[c])] /\ taken' = [taken EXCEPT ![c] = Append(taken[c], x)]
  BY TaskType DEF Get
<1>2. DOMAIN queues = Keys /\ DOMAIN taken = Keys
  BY DEF Inductive, BusTypeOK, TakenInv
<1> SUFFICES ASSUME NEW k \in Keys
             PROVE  /\ \A e \in InSeq(taken'[k]) : e <= Len(published)
                    /\ \A m, j \in DOMAIN queues'[k] :
                          m < j /\ queues'[k][j] # Pill => queues'[k][m] < queues'[k][j]
                    /\ \A d \in InSeq(taken'[k]), e \in InSeq(queues'[k]) : e # Pill => d < e
  BY <1>1 DEF FifoInv, InSeq
<1> HIDE DEF c, x
<1>3. /\ \A e \in InSeq(taken[k]) : e <= Len(published)
      /\ \A m, j \in DOMAIN queues[k] : m < j /\ queues[k][j] # Pill => queues[k][m] < queues[k][j]
      /\ \A d \in InSeq(taken[k]), e \in InSeq(queues[k]) : e # Pill => d < e
  BY DEF FifoInv
<1>4. CASE k # c
  <2>1. queues'[k] = queues[k] /\ taken'[k] = taken[k]
    BY <1>1, <1>2, <1>4
  <2> QED
    BY <1>3, <2>1
<1>5. CASE k = c
  <2> DEFINE q == queues[k]
             t == Tail(q)
             s == taken[k]
  <2>1. queues'[k] = t /\ taken'[k] = Append(s, x) /\ q # <<>> /\ x = Head(q)
    BY <1>1, <1>2, <1>5 DEF x
  <2>2. q \in Seq(0..MaxEvents) /\ s \in Seq(0..MaxEvents) /\ (\A e \in InSeq(q) : e \in 0..Len(published))
        /\ Len(published) \in Nat
    BY QueueTypes
  <2> HIDE DEF q, t, s
  <2>3. /\ t \in Seq(0..MaxEvents) /\ Len(t) = Len(q) - 1 /\ x \in 0..MaxEvents
        /\ \A m \in 1..Len(t) : t[m] = q[m + 1]
        /\ Len(q) \in Nat \ {0}
    BY <2>1, <2>2, HeadTailProperties, EmptySeq DEF t
  <2>4. DOMAIN q = 1..Len(q) /\ DOMAIN t = 1..Len(q) - 1
    BY <2>2, <2>3, LenProperties
  <2>5. x = q[1] /\ x \in InSeq(q) /\ InSeq(Append(s, x)) = InSeq(s) \cup {x} /\ InSeq(t) \subseteq InSeq(q)
    BY <2>1, <2>2, <2>3, <2>4, InSequence DEF t
  <2>6. \A m \in DOMAIN t : m \in Nat /\ m + 1 \in DOMAIN q /\ t[m] = q[m + 1] /\ 1 < m + 1
    BY <2>3, <2>4
  <2>7. /\ \A e \in InSeq(s) : e <= Len(published)
        /\ \A m, j \in DOMAIN q : m < j /\ q[j] # Pill => q[m] < q[j]
        /\ \A d \in InSeq(s), e \in InSeq(q) : e # Pill => d < e
    BY <1>3 DEF q, s
  <2>8. \A m, j \in DOMAIN t : m < j /\ t[j] # Pill => t[m] < t[j]
    <3> SUFFICES ASSUME NEW m \in DOMAIN t, NEW j \in DOMAIN t, m < j, t[j] # Pill PROVE t[m] < t[j]
      OBVIOUS
    <3>1. m + 1 < j + 1
      BY <2>6
    <3> QED
      BY <2>6, <2>7, <3>1
  <2>9. \A e \in InSeq(t) : e # Pill => x < e
    <3> SUFFICES ASSUME NEW m \in DOMAIN t, t[m] # Pill PROVE x < t[m]
      BY DEF InSeq
    <3> QED
      BY <2>3, <2>4, <2>5, <2>6, <2>7
  <2>10. \A e \in InSeq(Append(s, x)) : e <= Len(published)
    BY <2>2, <2>5, <2>7
  <2> QED
    BY <2>1, <2>5, <2>7, <2>8, <2>9, <2>10
<1> QED
  BY <1>4, <1>5

\* A stop puts a pill or nothing into each queue.
LEMMA PillsOrNot ==
    ASSUME NEW next, PutPills(next)
    PROVE  \A k \in Keys : queues'[k] = queues[k] \/ queues'[k] = Append(queues[k], Pill)
<1>1. PICK first \in next..Len(keys) + 1 :
        queues' = [k \in Keys |-> IF k \in {keys[j] : j \in next..first - 1} THEN Append(queues[k], Pill)
                                  ELSE queues[k]]
  BY DEF PutPills
<1> DEFINE filled == {keys[j] : j \in next..first - 1}
<1>2. queues' = [k \in Keys |-> IF k \in filled THEN Append(queues[k], Pill) ELSE queues[k]]
  BY <1>1
<1> HIDE DEF filled
<1> QED
  BY <1>2

\* Every step leaves the queues first in, first out.
LEMMA FifoNext ==
    ASSUME Inductive, FifoInv, [BusNext]_busState
    PROVE  FifoInv'
<1>1. Len(published) \in Nat /\ Pill \in 0..MaxEvents /\ queues \in [Keys -> Seq({Pill} \cup Events)]
  BY LenProperties, BusAssumption DEF Inductive, BusTypeOK, Pill
<1>2. CASE \E s \in Subjects : Publish(s)
  <2>1. PICK s \in Subjects : Publish(s)
    BY <1>2
  <2> DEFINE x == Len(published) + 1
  <2>2. taken' = taken /\ Len(published) < MaxEvents
        /\ \A k \in Keys : queues'[k] = queues[k] \/ queues'[k] = Append(queues[k], x)
    BY <2>1 DEF Publish
  <2>3. Len(published') = x
    <3>1. published \in Seq(Subjects) /\ published' = Append(published, s)
      BY <2>1 DEF Publish, Inductive, BusTypeOK
    <3> QED
      BY <3>1, AppendProperties
  <2>4. x \in 0..MaxEvents /\ Len(published') \in Nat /\ Len(published) <= Len(published')
    BY <1>1, <2>2, <2>3, BusAssumption
  <2> QED
    BY <2>2, <2>4, FifoPut
<1>3. CASE \E i \in DOMAIN tasks : Get(i)
  BY <1>3, FifoTake
<1>4. CASE ~(\E s \in Subjects : Publish(s)) /\ ~(\E i \in DOMAIN tasks : Get(i))
  <2>1. taken' = taken /\ published' = published
    BY <1>4 DEF BusNext, busState, busVars, logs, StartBus, Subscribe, Iterate, TaskStep, TaskStarts, Call,
                StopCalled, StopGoesOn, StopResumes, StopRaises
  <2>2. \A k \in Keys : queues'[k] = queues[k] \/ queues'[k] = Append(queues[k], Pill)
    <3>1. CASE StopCalled
      BY <3>1, PillsOrNot DEF StopCalled
    <3>2. CASE StopResumes
      BY <3>2, PillsOrNot DEF StopResumes
    <3>3. CASE StopRaises
      BY <1>1, <3>3 DEF StopRaises
    <3>4. CASE ~StopCalled /\ ~StopResumes /\ ~StopRaises
      <4>1. queues' = queues
        BY <1>4, <3>4 DEF BusNext, busState, busVars, StartBus, Subscribe, Iterate, TaskStep, TaskStarts, Call,
                          StopGoesOn
      <4> QED
        BY <4>1
    <3> QED
      BY <3>1, <3>2, <3>3, <3>4
  <2>3. Len(published') \in Nat /\ Len(published) <= Len(published')
    BY <1>1, <2>1
  <2> QED
    BY <1>1, <2>1, <2>2, <2>3, FifoPut
<1> QED
  BY <1>2, <1>3, <1>4

\* A group never has fewer tasks than before, nor a handler fewer times.
LEMMA OnceBefore ==
    ASSUME Inductive, [BusNext]_busState, NEW k \in Keys
    PROVE  /\ OneTask(k)' => OneTask(k)
           /\ \A h \in Handlers : Once(handlers'[k], h) => Once(handlers[k], h)
<1>1. OneTask(k)' => OneTask(k)
  BY TasksGrow DEF OneTask, TasksOf
<1>2. ASSUME NEW h \in Handlers, Once(handlers'[k], h) PROVE Once(handlers[k], h)
  <2>1. handlers \in [Keys -> Seq(Handlers)]
    BY DEF Inductive, BusTypeOK
  <2>2. CASE \E g \in Handlers : handlers' = [handlers EXCEPT ![k] = Append(@, g)]
    <3>1. PICK g \in Handlers : handlers'[k] = Append(handlers[k], g)
      BY <2>1, <2>2
    <3> DEFINE s == handlers[k]
               t == Append(s, g)
    <3>2. s \in Seq(Handlers) /\ Once(t, h)
      BY <1>2, <2>1, <3>1
    <3>3. DOMAIN s = 1..Len(s) /\ Len(s) \in Nat /\ DOMAIN t = 1..Len(s) + 1 /\ \A i \in 1..Len(s) : t[i] = s[i]
      BY <3>2, AppendedTo
    <3> HIDE DEF s, t
    <3>4. \A i \in DOMAIN s : i \in DOMAIN t /\ t[i] = s[i]
      BY <3>3
    <3>5. Once(s, h)
      BY <3>2, <3>4 DEF Once
    <3> QED
      BY <3>5 DEF s
  <2>3. CASE handlers'[k] = handlers[k]
    BY <1>2, <2>3
  <2>4. CASE \E c \in Keys, g \in Handlers : Subscribe(c, g)
    <3>1. PICK c \in Keys, g \in Handlers : handlers' = [handlers EXCEPT ![c] = Append(@, g)]
      BY <2>4 DEF Subscribe
    <3> QED
      BY <2>1, <2>2, <2>3, <3>1
  <2>5. CASE ~(\E c \in Keys, g \in Handlers : Subscribe(c, g))
    <3>1. handlers' = handlers
      BY <2>5 DEF BusNext, busState, busVars, StartBus, Publish, Iterate, TaskStep, TaskStarts, Get, Call,
                  StopCalled, StopGoesOn, StopResumes, StopRaises
    <3> QED
      BY <2>3, <3>1
  <2> QED
    BY <2>4, <2>5
<1> QED
  BY <1>1, <1>2

\* A step in which nobody takes, calls or is called.
LEMMA OnceStays ==
    ASSUME Inductive, OnceInv, [BusNext]_busState, taken' = taken, received' = received,
           \A k \in Keys : \A m \in Callers(k)' : m \in Callers(k) /\ tasks'[m] = tasks[m]
    PROVE  OnceInv'
<1> SUFFICES ASSUME NEW k \in Keys
             PROVE  /\ \A h \in Handlers : InSeq(received[k][h]) \subseteq InSeq(taken[k])
                    /\ OwnEvent(k)'
                    /\ \A h \in Handlers : Once(handlers'[k], h) => IsInjective(received[k][h]) /\ StillToHave(k, h)'
                    /\ OneTask(k)' =>
                          /\ LastTaken(k)'
                          /\ \A h \in Handlers : Once(handlers'[k], h) => Ascending(received[k][h])
  BY DEF OnceInv
<1>1. /\ \A h \in Handlers : InSeq(received[k][h]) \subseteq InSeq(taken[k])
      /\ OwnEvent(k)
      /\ \A h \in Handlers : Once(handlers[k], h) => IsInjective(received[k][h]) /\ StillToHave(k, h)
      /\ OneTask(k) => LastTaken(k) /\ \A h \in Handlers : Once(handlers[k], h) => Ascending(received[k][h])
  BY DEF OnceInv
<1>2. \A m \in Callers(k)' : m \in Callers(k) /\ tasks'[m] = tasks[m]
  OBVIOUS
<1>3. (OneTask(k)' => OneTask(k)) /\ \A h \in Handlers : Once(handlers'[k], h) => Once(handlers[k], h)
  BY OnceBefore
<1>4. OwnEvent(k)'
  BY <1>1, <1>2 DEF OwnEvent
<1>5. ASSUME NEW h \in Handlers, StillToHave(k, h) PROVE StillToHave(k, h)'
  BY <1>2, <1>5 DEF StillToHave
<1>6. LastTaken(k) => LastTaken(k)'
  BY <1>2 DEF LastTaken
<1> QED
  BY <1>1, <1>3, <1>4, <1>5, <1>6

\* A task of a group that is called for, and what its fields are.
LEMMA CallerType ==
    ASSUME Inductive, NEW k \in Keys, NEW m \in Callers(k)
    PROVE  /\ m \in DOMAIN tasks /\ tasks[m] \in Task /\ tasks[m].key = k /\ tasks[m].stage = "call"
           /\ tasks[m].event \in 0..MaxEvents /\ tasks[m].rest \in Seq(Handlers) /\ tasks[m].rest # <<>>
<1>1. m \in DOMAIN tasks /\ tasks[m].key = k /\ tasks[m].stage = "call"
  BY DEF Callers, TasksOf
<1>2. tasks[m] \in Task /\ tasks[m].rest # <<>>
  BY <1>1, TaskType DEF Inductive, CallInv
<1> QED
  BY <1>1, <1>2 DEF Task

\* Whoever is to be called with a new event is to be called once.
LEMMA ToCallOnce ==
    ASSUME Inductive, NEW i \in DOMAIN tasks, NEW h, Once(handlers[tasks[i].key], h)
    PROVE  Once(ToCall(i), h)
<1>1. CASE tasks[i].reader \in Iterators
  <2>1. ToCall(i) = <<tasks[i].reader>>
    BY <1>1 DEF ToCall
  <2> QED
    BY <2>1 DEF Once
<1>2. CASE tasks[i].reader \notin Iterators
  BY <1>2 DEF ToCall
<1> QED
  BY <1>1, <1>2

\* What a task takes is new to the whole group.
LEMMA OnceGet ==
    ASSUME Inductive, ReceivedInv, FifoInv, OnceInv, [BusNext]_busState,
           NEW i \in DOMAIN tasks, Get(i)
    PROVE  OnceInv'
<1> DEFINE c == tasks[i].key
           x == Head(queues[c])
           new == IF x = Pill THEN [tasks[i] EXCEPT !.stage = "ended"]
                  ELSE [tasks[i] EXCEPT !.stage = "call", !.event = x, !.rest = ToCall(i)]
<1>1. /\ c \in Keys /\ queues[c] # <<>> /\ tasks[i] \in Task /\ tasks[i].stage = "get"
      /\ received' = received /\ handlers' = handlers
      /\ tasks' = [tasks EXCEPT ![i] = new]
      /\ taken' = [taken EXCEPT ![c] = Append(taken[c], x)]
  BY TaskType DEF Get
<1>2. /\ x \in InSeq(queues[c]) /\ x \in 0..MaxEvents
      /\ \A d \in InSeq(taken[c]) : d \in 0..MaxEvents /\ (x # Pill => d < x)
      /\ InSeq(Append(taken[c], x)) = InSeq(taken[c]) \cup {x}
  <2>1. queues[c] \in Seq(0..MaxEvents) /\ taken[c] \in Seq(0..MaxEvents)
    BY <1>1, QueueTypes
  <2>2. x \in InSeq(queues[c]) /\ x \in 0..MaxEvents
    BY <1>1, <2>1, InSequence, HeadTailProperties
  <2> HIDE DEF x, c
  <2>3. InSeq(Append(taken[c], x)) = InSeq(taken[c]) \cup {x} /\ InSeq(taken[c]) \subseteq 0..MaxEvents
    BY <2>1, <2>2, InSequence
  <2>4. \A d \in InSeq(taken[c]) : x # Pill => d < x
    BY <1>1, <2>2 DEF FifoInv
  <2> QED
    BY <2>2, <2>3, <2>4
<1>3. /\ new.key = c
      /\ x = Pill => new.stage = "ended"
      /\ x # Pill => new.stage = "call" /\ new.event = x /\ new.rest = ToCall(i)
  <2> HIDE DEF x, c
  <2>1. CASE x = Pill
    BY <1>1, <2>1 DEF Task, c
  <2>2. CASE x # Pill
    BY <1>1, <2>2 DEF Task, c
  <2> QED
    BY <2>1, <2>2
<1> HIDE DEF new, x
<1>4. /\ DOMAIN tasks' = DOMAIN tasks /\ tasks'[i] = new
      /\ \A m \in DOMAIN tasks : m # i => tasks'[m] = tasks[m]
  BY <1>1
<1>5. InSeq(taken'[c]) = InSeq(taken[c]) \cup {x} /\ \A k \in Keys : k # c => taken'[k] = taken[k]
  <2>1. DOMAIN taken = Keys
    BY DEF Inductive, TakenInv
  <2> HIDE DEF c
  <2> QED
    BY <1>1, <1>2, <2>1
<1> HIDE DEF c
<1>6. \A k \in Keys : \A m \in Callers(k)' :
         \/ m \in Callers(k) /\ tasks'[m] = tasks[m]
         \/ m = i /\ k = c /\ x # Pill /\ tasks'[m].event = x /\ tasks'[m].rest = ToCall(i)
  <2> SUFFICES ASSUME NEW k \in Keys, NEW m \in DOMAIN tasks', tasks'[m].key = k, tasks'[m].stage = "call"
               PROVE  \/ m \in Callers(k) /\ tasks'[m] = tasks[m]
                      \/ m = i /\ k = c /\ x # Pill /\ tasks'[m].event = x /\ tasks'[m].rest = ToCall(i)
    BY DEF Callers, TasksOf
  <2> QED
    BY <1>3, <1>4 DEF Callers, TasksOf
<1> SUFFICES ASSUME NEW k \in Keys
             PROVE  /\ \A h \in Handlers : InSeq(received[k][h]) \subseteq InSeq(taken'[k])
                    /\ OwnEvent(k)'
                    /\ \A h \in Handlers : Once(handlers[k], h) => IsInjective(received[k][h]) /\ StillToHave(k, h)'
                    /\ OneTask(k)' =>
                          /\ LastTaken(k)'
                          /\ \A h \in Handlers : Once(handlers[k], h) => Ascending(received[k][h])
  BY <1>1 DEF OnceInv
<1>7. /\ \A h \in Handlers : InSeq(received[k][h]) \subseteq InSeq(taken[k])
      /\ OwnEvent(k)
      /\ \A h \in Handlers : Once(handlers[k], h) => IsInjective(received[k][h]) /\ StillToHave(k, h)
      /\ OneTask(k) => LastTaken(k) /\ \A h \in Handlers : Once(handlers[k], h) => Ascending(received[k][h])
  BY DEF OnceInv
<1>8. OneTask(k)' => OneTask(k)
  BY OnceBefore
<1>9. CASE k # c
  <2>1. \A m \in Callers(k)' : m \in Callers(k) /\ tasks'[m] = tasks[m]
    BY <1>6, <1>9
  <2>2. taken'[k] = taken[k]
    BY <1>5, <1>9
  <2>3. OwnEvent(k)'
    BY <1>7, <2>1, <2>2 DEF OwnEvent, InSeq
  <2>4. ASSUME NEW h \in Handlers, StillToHave(k, h) PROVE StillToHave(k, h)'
    BY <1>1, <2>1, <2>4 DEF StillToHave, InSeq
  <2>5. LastTaken(k) => LastTaken(k)'
    BY <2>1, <2>2 DEF LastTaken, InSeq
  <2> QED
    BY <1>7, <1>8, <2>2, <2>3, <2>4, <2>5
<1>10. CASE k = c
  <2>0. x # Pill => x \notin InSeq(taken[c])
    BY <1>2
  <2>1. \A h \in Handlers : InSeq(received[k][h]) \subseteq InSeq(taken'[k])
    BY <1>5, <1>7, <1>10
  <2>2. \A m \in Callers(k)' : tasks'[m].event \in InSeq(taken'[k])
    BY <1>5, <1>6, <1>7, <1>10 DEF OwnEvent
  <2>3. ASSUME NEW m \in Callers(k)', NEW n \in Callers(k)', tasks'[m].event = tasks'[n].event
        PROVE  m = n
    BY <1>6, <1>7, <1>10, <2>0, <2>3 DEF OwnEvent
  <2>4. OwnEvent(k)'
    BY <2>2, <2>3 DEF OwnEvent, InSeq
  <2>5. ASSUME NEW h \in Handlers, Once(handlers[k], h) PROVE StillToHave(k, h)'
    <3>1. ASSUME NEW m \in Callers(k)'
          PROVE  /\ Once(tasks'[m].rest, h)
                 /\ h \in InSeq(tasks'[m].rest) => tasks'[m].event \notin InSeq(received[k][h])
      <4>1. CASE m \in Callers(k) /\ tasks'[m] = tasks[m]
        BY <1>7, <2>5, <4>1 DEF StillToHave
      <4>2. CASE m = i /\ x # Pill /\ tasks'[m].event = x /\ tasks'[m].rest = ToCall(i)
        <5>1. Once(ToCall(i), h)
          BY <1>10, <2>5, ToCallOnce DEF c
        <5>2. x \notin InSeq(received[k][h])
          BY <1>7, <1>10, <2>0, <4>2
        <5> QED
          BY <4>2, <5>1, <5>2
      <4> QED
        BY <1>6, <4>1, <4>2
    <3> QED
      BY <1>1, <3>1 DEF StillToHave, InSeq, Once
  <2>6. OneTask(k)' => LastTaken(k)'
    <3> SUFFICES ASSUME OneTask(k)', NEW m \in Callers(k)', NEW e \in InSeq(taken'[k])
                 PROVE  e <= tasks'[m].event
      BY DEF LastTaken, InSeq
    <3>1. i \in TasksOf(k)' /\ m \in TasksOf(k)'
      BY <1>3, <1>4, <1>10 DEF TasksOf, Callers
    <3>2. m = i
      BY <3>1 DEF OneTask
    <3>3. i \notin Callers(k)
      BY <1>1 DEF Callers
    <3>4. x # Pill /\ tasks'[m].event = x
      BY <1>6, <3>2, <3>3
    <3>5. e = x \/ (e \in 0..MaxEvents /\ e < x)
      BY <1>2, <1>5, <1>10, <3>4
    <3>6. x \in Nat
      BY <1>2, BusAssumption
    <3> QED
      BY <3>4, <3>5, <3>6
  <2> QED
    BY <1>7, <1>8, <2>1, <2>4, <2>5, <2>6
<1> QED
  BY <1>9, <1>10

\* What a handler is called with is new to it.
LEMMA OnceCall ==
    ASSUME Inductive, ReceivedInv, OnceInv, [BusNext]_busState,
           NEW i \in DOMAIN tasks, Call(i)
    PROVE  OnceInv'
<1> DEFINE c == tasks[i].key
           rest == tasks[i].rest
           g == Head(rest)
           x == tasks[i].event
           stage == IF Len(rest) = 1 THEN Again ELSE "call"
           new == [tasks[i] EXCEPT !.rest = Tail(rest), !.stage = stage]
<1>1. /\ c \in Keys /\ i \in Callers(c) /\ tasks[i] \in Task
      /\ taken' = taken /\ handlers' = handlers
      /\ tasks' = [tasks EXCEPT ![i] = new]
      /\ received' = [received EXCEPT ![c][g] = Append(received[c][g], x)]
  BY TaskType DEF Call, Callers, TasksOf
<1>2. rest \in Seq(Handlers) /\ rest # <<>> /\ x \in 0..MaxEvents
  BY <1>1, CallerType
<1> HIDE DEF stage
<1>3. new.key = c /\ new.event = x /\ new.rest = Tail(rest)
  BY <1>1 DEF Task
<1> HIDE DEF new, rest
<1>4. g \in InSeq(rest) /\ InSeq(Tail(rest)) \subseteq InSeq(rest) /\ g \in Handlers
  BY <1>2, InSequence, HeadTailProperties
<1>5. /\ DOMAIN tasks' = DOMAIN tasks /\ tasks'[i] = new
      /\ \A m \in DOMAIN tasks : m # i => tasks'[m] = tasks[m]
  BY <1>1
<1> HIDE DEF g, x, c
<1>6. /\ received'[c][g] = Append(received[c][g], x) /\ received[c][g] \in Seq(0..MaxEvents)
      /\ \A k \in Keys, h \in Handlers : ~(k = c /\ h = g) => received'[k][h] = received[k][h]
  BY <1>1, <1>4 DEF ReceivedInv
<1>7. InSeq(received'[c][g]) = InSeq(received[c][g]) \cup {x}
  BY <1>2, <1>6, InSequence
<1>8. \A k \in Keys : \A m \in Callers(k)' :
         /\ m \in Callers(k) /\ tasks'[m].event = tasks[m].event
         /\ IF m = i THEN tasks[m].rest = rest /\ tasks'[m].rest = Tail(rest) ELSE tasks'[m].rest = tasks[m].rest
  <2> SUFFICES ASSUME NEW k \in Keys, NEW m \in DOMAIN tasks', tasks'[m].key = k, tasks'[m].stage = "call"
               PROVE  /\ m \in Callers(k) /\ tasks'[m].event = tasks[m].event
                      /\ IF m = i THEN tasks[m].rest = rest /\ tasks'[m].rest = Tail(rest)
                         ELSE tasks'[m].rest = tasks[m].rest
    BY DEF Callers, TasksOf
  <2> QED
    BY <1>1, <1>3, <1>5 DEF Callers, TasksOf, rest, x
<1> SUFFICES ASSUME NEW k \in Keys
             PROVE  /\ \A h \in Handlers : InSeq(received'[k][h]) \subseteq InSeq(taken[k])
                    /\ OwnEvent(k)'
                    /\ \A h \in Handlers : Once(handlers[k], h) => IsInjective(received'[k][h]) /\ StillToHave(k, h)'
                    /\ OneTask(k)' =>
                          /\ LastTaken(k)'
                          /\ \A h \in Handlers : Once(handlers[k], h) => Ascending(received'[k][h])
  BY <1>1 DEF OnceInv
<1>9. /\ \A h \in Handlers : InSeq(received[k][h]) \subseteq InSeq(taken[k])
      /\ OwnEvent(k)
      /\ \A h \in Handlers : Once(handlers[k], h) => IsInjective(received[k][h]) /\ StillToHave(k, h)
      /\ OneTask(k) => LastTaken(k) /\ \A h \in Handlers : Once(handlers[k], h) => Ascending(received[k][h])
  BY DEF OnceInv
<1>10. OneTask(k)' => OneTask(k)
  BY OnceBefore
<1>11. x = tasks[i].event /\ (k = c => x \in InSeq(taken[k]))
  BY <1>1, <1>9 DEF OwnEvent, x
<1>12. \A h \in Handlers : InSeq(received'[k][h]) \subseteq InSeq(taken[k])
  BY <1>6, <1>7, <1>9, <1>11
<1>13. OwnEvent(k)'
  BY <1>1, <1>8, <1>9 DEF OwnEvent
<1>14. LastTaken(k) => LastTaken(k)'
  BY <1>1, <1>8 DEF LastTaken
<1>15. k = c /\ Once(handlers[k], g) => x \notin InSeq(received[k][g])
  BY <1>1, <1>4, <1>9, <1>11 DEF StillToHave, rest
<1>16. ASSUME NEW h \in Handlers, Once(handlers[k], h) PROVE IsInjective(received'[k][h])
  <2>1. CASE k = c /\ h = g
    <3>1. x \notin InSeq(received[c][g]) /\ IsInjective(received[c][g]) /\ x \in 0..MaxEvents
      BY <1>2, <1>9, <1>15, <1>16, <2>1
    <3>2. IsInjective(Append(received[c][g], x))
      BY <1>6, <3>1, NewElement
    <3> QED
      BY <1>6, <2>1, <3>2
  <2>2. CASE ~(k = c /\ h = g)
    BY <1>6, <1>9, <1>16, <2>2
  <2> QED
    BY <2>1, <2>2
<1>17. ASSUME NEW h \in Handlers, Once(handlers[k], h) PROVE StillToHave(k, h)'
  <2>1. StillToHave(k, h)
    BY <1>9, <1>17
  <2>2. ASSUME NEW m \in Callers(k)'
        PROVE  /\ Once(tasks'[m].rest, h)
               /\ h \in InSeq(tasks'[m].rest) => tasks'[m].event \notin InSeq(received'[k][h])
    <3>1. /\ m \in Callers(k) /\ tasks'[m].event = tasks[m].event
          /\ Once(tasks[m].rest, h)
          /\ h \in InSeq(tasks[m].rest) => tasks[m].event \notin InSeq(received[k][h])
      BY <1>8, <2>1 DEF StillToHave
    <3>2. CASE m = i
      <4>1. tasks[m].rest = rest /\ tasks'[m].rest = Tail(rest) /\ k = c
        BY <1>1, <1>8, <3>1, <3>2 DEF Callers, TasksOf, c
      <4>2. Once(Tail(rest), h) /\ (h = g => h \notin InSeq(Tail(rest)))
        BY <1>2, <3>1, <4>1, OnceInTail DEF g
      <4>3. h # g => received'[k][h] = received[k][h]
        BY <1>6
      <4> QED
        BY <1>4, <3>1, <4>1, <4>2, <4>3
    <3>3. CASE m # i
      <4>1. tasks'[m].rest = tasks[m].rest
        BY <1>8, <3>3
      <4>2. k = c => tasks[m].event # x
        BY <1>1, <1>9, <1>11, <3>1, <3>3 DEF OwnEvent
      <4>3. tasks[m].event \in InSeq(received'[k][h]) => tasks[m].event \in InSeq(received[k][h])
        BY <1>6, <1>7, <4>2
      <4> QED
        BY <3>1, <4>1, <4>3
    <3> QED
      BY <3>2, <3>3
  <2> QED
    BY <2>2 DEF StillToHave, InSeq, Once
<1>18. ASSUME OneTask(k), NEW h \in Handlers, Once(handlers[k], h) PROVE Ascending(received'[k][h])
  <2>1. Ascending(received[k][h]) /\ LastTaken(k)
    BY <1>9, <1>18
  <2>2. CASE k = c /\ h = g
    <3>1. \A y \in InSeq(received[k][h]) : y \in 0..MaxEvents /\ y <= x /\ y # x
      <4>1. InSeq(received[k][h]) \subseteq 0..MaxEvents
        BY <1>6, <2>2, InSequence
      <4> QED
        BY <1>1, <1>9, <1>11, <1>15, <1>18, <2>1, <2>2, <4>1 DEF LastTaken
    <3>2. \A y \in InSeq(received[k][h]) : y < x
      BY <1>2, <3>1, BusAssumption DEF x
    <3>3. x \in 0..MaxEvents /\ x \notin InSeq(received[c][g]) /\ Ascending(received[c][g])
          /\ \A y \in InSeq(received[c][g]) : y < x
      BY <1>2, <2>1, <2>2, <3>1, <3>2
    <3>4. Ascending(Append(received[c][g], x))
      BY <1>6, <3>3, NewElement
    <3> QED
      BY <1>6, <2>2, <3>4
  <2>3. CASE ~(k = c /\ h = g)
    BY <1>6, <2>1, <2>3
  <2> QED
    BY <2>2, <2>3
<1> QED
  BY <1>9, <1>10, <1>12, <1>13, <1>14, <1>16, <1>17, <1>18

\* Every step keeps what makes the events of a handler come once and in order.
LEMMA OnceNext ==
    ASSUME Inductive, ReceivedInv, FifoInv, OnceInv, [BusNext]_busState
    PROVE  OnceInv'
<1>1. CASE \E i \in DOMAIN tasks : Get(i)
  BY <1>1, OnceGet
<1>2. CASE \E i \in DOMAIN tasks : Call(i)
  BY <1>2, OnceCall
<1>3. CASE ~(\E i \in DOMAIN tasks : Get(i)) /\ ~(\E i \in DOMAIN tasks : Call(i))
  <2>1. taken' = taken /\ received' = received
    BY <1>3 DEF BusNext, busState, logs, StartBus, Publish, Subscribe, Iterate, TaskStep, TaskStarts,
                StopCalled, StopGoesOn, StopResumes, StopRaises
  <2>2. ASSUME NEW k \in Keys, NEW m \in DOMAIN tasks', tasks'[m].key = k, tasks'[m].stage = "call"
        PROVE  m \in Callers(k) /\ tasks'[m] = tasks[m]
    <3>1. m \in DOMAIN tasks
      <4>1. CASE \E c \in Keys, h \in Handlers : AddTask(c, h)
        <5>1. PICK c \in Keys, h \in Handlers : AddTask(c, h)
          BY <4>1
        <5> DEFINE new == [key |-> c, reader |-> h, stage |-> "new", event |-> 0, rest |-> <<>>]
        <5>2. tasks' = Append(tasks, new) /\ new.stage = "new"
          BY <5>1 DEF AddTask
        <5>3. tasks \in Seq(Task \cup {new}) /\ new \in Task \cup {new}
          BY SeqMonotonic DEF Inductive, BusTypeOK
        <5> HIDE DEF new
        <5>4. /\ DOMAIN tasks = 1..Len(tasks) /\ Len(tasks) \in Nat
              /\ DOMAIN tasks' = 1..Len(tasks) + 1 /\ tasks'[Len(tasks) + 1] = new
          BY <5>2, <5>3, AppendedTo
        <5> QED
          BY <2>2, <5>2, <5>4
      <4>2. CASE ~(\E c \in Keys, h \in Handlers : AddTask(c, h))
        <5>1. DOMAIN tasks' = DOMAIN tasks
          BY <1>3, <4>2 DEF BusNext, busState, busVars, StartBus, Publish, Subscribe, Iterate, TaskStep,
                            TaskStarts, StopCalled, StopGoesOn, StopResumes, StopRaises
        <5> QED
          BY <2>2, <5>1
      <4> QED
        BY <4>1, <4>2
    <3>2. tasks'[m] = tasks[m]
      <4> SUFFICES ASSUME tasks'[m] # tasks[m] PROVE FALSE
        OBVIOUS
      <4>1. TaskStarts(m)
        BY <1>3, <3>1, TasksGrow DEF TaskStep
      <4>2. tasks'[m] = [tasks[m] EXCEPT !.stage = Again] /\ tasks[m] \in Task
        BY <3>1, <4>1, TaskType DEF TaskStarts
      <4> QED
        BY <2>2, <4>2 DEF Task, Again
    <3> QED
      BY <2>2, <3>1, <3>2 DEF Callers, TasksOf
  <2>3. \A k \in Keys : \A m \in Callers(k)' : m \in Callers(k) /\ tasks'[m] = tasks[m]
    BY <2>2 DEF Callers, TasksOf
  <2> QED
    BY <2>1, <2>3, OnceStays
<1> QED
  BY <1>1, <1>2, <1>3

\* A set of at most one element, as a count says it.
LEMMA AtMostOne ==
    ASSUME NEW S, IsFiniteSet(S), Cardinality(S) <= 1
    PROVE  \A x, y \in S : x = y
<1>1. Cardinality(S) \in Nat
  BY FS_CardinalityType
<1>2. CASE Cardinality(S) = 0
  BY <1>2, FS_EmptySet
<1>3. CASE Cardinality(S) = 1
  BY <1>3, FS_Singleton
<1> QED
  BY <1>1, <1>2, <1>3

\* A sequence without duplicates has as many elements as places.
LEMMA AsManyAsPlaces ==
    ASSUME NEW S, NEW s \in Seq(S), IsInjective(s)
    PROVE  Cardinality(InSeq(s)) = Len(s)
<1>1. Len(s) \in Nat /\ DOMAIN s = 1..Len(s) /\ s \in [1..Len(s) -> S]
  BY LenProperties
<1>2. IsFiniteSet(1..Len(s)) /\ Cardinality(1..Len(s)) = Len(s)
  <2>1. 1 \in Int /\ Len(s) \in Int
    BY <1>1
  <2> QED
    BY <1>1, <2>1, FS_Interval
<1>3. s \in Surjection(1..Len(s), InSeq(s))
  BY <1>1 DEF Surjection, InSeq
<1>4. s \in Injection(1..Len(s), InSeq(s))
  BY <1>1, <1>3 DEF Injection, Surjection
<1> QED
  BY <1>2, <1>3, <1>4, FS_Surjection

\* What the run checks with counts follows.
LEMMA OnceMeans == ASSUME Inductive, ReceivedInv, OnceInv PROVE OnceAndInOrder
<1> SUFFICES ASSUME NEW k \in Keys, NEW h \in Handlers,
                    Cardinality({j \in DOMAIN handlers[k] : handlers[k][j] = h}) <= 1
             PROVE  /\ Cardinality(InSeq(received[k][h])) = Len(received[k][h])
                    /\ Cardinality(TasksOf(k)) = 1 =>
                          \A i, j \in DOMAIN received[k][h] : i < j => received[k][h][i] < received[k][h][j]
  BY DEF OnceAndInOrder
<1>1. Once(handlers[k], h)
  <2> DEFINE places == {j \in DOMAIN handlers[k] : handlers[k][j] = h}
  <2>1. DOMAIN handlers[k] = 1..Len(handlers[k]) /\ Len(handlers[k]) \in Nat
    <3>1. handlers[k] \in Seq(Handlers)
      BY DEF Inductive, BusTypeOK
    <3> QED
      BY <3>1, LenProperties
  <2>2. IsFiniteSet(1..Len(handlers[k]))
    <3>1. 1 \in Int /\ Len(handlers[k]) \in Int
      BY <2>1
    <3> QED
      BY <3>1, FS_Interval
  <2>3. IsFiniteSet(places)
    BY <2>1, <2>2, FS_Subset
  <2>4. \A i, j \in places : i = j
    <3> HIDE DEF places
    <3>1. Cardinality(places) <= 1
      BY DEF places
    <3> QED
      BY <2>3, <3>1, AtMostOne
  <2> QED
    BY <2>4 DEF Once
<1>2. received[k][h] \in Seq(0..MaxEvents)
  BY DEF ReceivedInv
<1>3. IsInjective(received[k][h]) /\ (OneTask(k) => Ascending(received[k][h]))
  BY <1>1 DEF OnceInv
<1>4. Cardinality(TasksOf(k)) = 1 => OneTask(k)
  <2>1. DOMAIN tasks = 1..Len(tasks) /\ Len(tasks) \in Nat
    BY LenProperties DEF Inductive, BusTypeOK
  <2>2. IsFiniteSet(1..Len(tasks))
    <3>1. 1 \in Int /\ Len(tasks) \in Int
      BY <2>1
    <3> QED
      BY <3>1, FS_Interval
  <2>3. TasksOf(k) \subseteq 1..Len(tasks)
    BY <2>1 DEF TasksOf
  <2>4. IsFiniteSet(TasksOf(k))
    BY <2>2, <2>3, FS_Subset
  <2> SUFFICES ASSUME Cardinality(TasksOf(k)) = 1 PROVE \A i, j \in TasksOf(k) : i = j
    BY DEF OneTask
  <2> QED
    BY <2>4, AtMostOne
<1> QED
  BY <1>2, <1>3, <1>4, AsManyAsPlaces DEF Ascending

\* No handler that is in its group once gets an event twice, whatever tasks share
\* the queue, and a single task calls it in the order of publication: for any number
\* of subscribers, capacities and events (the tasks of subscribe and events in
\* services/contracts/bus.py).
THEOREM AlwaysOnceAndInOrder == BusSpec => []OnceAndInOrder
<1> DEFINE Delivering == Inductive /\ ReceivedInv /\ FifoInv /\ OnceInv
<1>1. BusInit => Delivering
  <2> SUFFICES ASSUME BusInit PROVE Delivering
    OBVIOUS
  <2>1. ReceivedInv
    <3>1. <<>> \in Seq(0..MaxEvents)
      BY EmptySeq
    <3> QED
      BY <3>1 DEF BusInit, ReceivedInv
  <2>2. \A k \in Keys : taken[k] = <<>> /\ queues[k] = <<>> /\ TasksOf(k) = {}
                        /\ \A h \in Handlers : received[k][h] = <<>>
    BY DEF BusInit, TasksOf
  <2>3. InSeq(<<>>) = {} /\ IsInjective(<<>>) /\ Ascending(<<>>)
    BY DEF InSeq, IsInjective, Ascending
  <2>4. FifoInv
    BY <2>2, <2>3 DEF FifoInv
  <2>5. OnceInv
    BY <2>2, <2>3 DEF OnceInv, OwnEvent, StillToHave, LastTaken, Callers
  <2> QED
    BY <2>1, <2>4, <2>5, InitInductive
<1>2. Delivering /\ [BusNext]_busState => Delivering'
  BY NextInductive, ReceivedGrows, FifoNext, OnceNext
<1>3. Delivering => OnceAndInOrder
  BY OnceMeans
<1> QED
  BY <1>1, <1>2, <1>3, PTL DEF BusSpec

\* What a group takes is not lost, and does not come twice or out of order to one of
\* its handlers.
THEOREM BusAlwaysDelivers == BusSpec => []BusDelivers
  BY NothingTakenLost, AlwaysOnceAndInOrder, PTL DEF BusDelivers
==============================================================================
