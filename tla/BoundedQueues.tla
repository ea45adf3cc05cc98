---------------------------- MODULE BoundedQueues ----------------------------
(***************************************************************************)
(* What the event bus promises each queue group: a first-in first-out      *)
(* queue of bounded size that may refuse an item when it is full, and      *)
(* hands every item it has accepted to one taker at most.                  *)
(***************************************************************************)
EXTENDS Naturals, Sequences

CONSTANTS
    Key,       \* names of the queues
    Item,      \* what may be put
    Bound      \* the size of a queue

VARIABLES
    queue,     \* what was accepted and not taken, of each queue
    taken      \* what was taken from each queue, in order

qvars == <<queue, taken>>

QInit == queue = [k \in Key |-> <<>>] /\ taken = [k \in Key |-> <<>>]

\* One call may put several items, into different queues.
Put(ks, x) ==
    /\ \A k \in ks : Len(queue[k]) < Bound
    /\ queue' = [k \in Key |-> IF k \in ks THEN Append(queue[k], x) ELSE queue[k]]
    /\ UNCHANGED taken

Take(k) ==
    /\ queue[k] # <<>>
    /\ queue' = [queue EXCEPT ![k] = Tail(@)]
    /\ taken' = [taken EXCEPT ![k] = Append(@, Head(queue[k]))]

QNext ==
    \/ \E ks \in SUBSET Key, x \in Item : Put(ks, x)
    \/ \E k \in Key : Take(k)

QSpec == QInit /\ [][QNext]_qvars
=============================================================================
