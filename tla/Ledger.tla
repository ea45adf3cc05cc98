------------------------------- MODULE Ledger -------------------------------
(***************************************************************************)
(* What the paper broker is to those who use it, prices left out: orders   *)
(* that rest, fill or are cancelled, the quantities held, and a file that  *)
(* a restart goes on from.  PaperBroker and the broker inside TradeBook,   *)
(* each with its own detail, are shown to implement it.                    *)
(*                                                                         *)
(* A book is the orders by number, each with its signed quantity, and the  *)
(* signed quantity held of every symbol.                                   *)
(***************************************************************************)
EXTENDS Integers, Functions

CONSTANT Symbols

VARIABLES
    book,  \* _orders and _positions
    file   \* paper_state.json, or the empty book where there is none

Entry == [symbol : Symbols, qty : Int \ {0}, status : {"open", "complete", "cancelled"}]

Nothing == [s \in Symbols |-> 0]
NoBook  == [orders |-> [k \in {} |-> 0], pos |-> Nothing]

Init == book = NoBook /\ file = NoBook

------------------------------------------------------------------------------
(* What may happen to a book. *)

Open(b)    == {k \in DOMAIN b.orders : b.orders[k].status = "open"}
Pending(b) == {k \in DOMAIN b.orders : b.orders[k].status # "complete"}

Marked(b, ks, status) ==
    [k \in DOMAIN b.orders |->
        IF k \in ks THEN [b.orders[k] EXCEPT !.status = status] ELSE b.orders[k]]

\* What some orders of a book add up to.
Total(b, ks) == SumFunctionOnSet([k \in ks |-> b.orders[k].qty], ks)

\* The positions move by the orders that fill, and by nothing else.
Filled(b, ks) ==
    [orders |-> Marked(b, ks, "complete"),
     pos |-> [s \in Symbols |-> b.pos[s] + Total(b, {k \in ks : b.orders[k].symbol = s})]]

Cancelled(b, ks) == [orders |-> Marked(b, ks, "cancelled"), pos |-> b.pos]

Flattened(b, ss) ==
    [orders |-> b.orders, pos |-> [s \in Symbols |-> IF s \in ss THEN 0 ELSE b.pos[s]]]

With(b, k, o) ==
    [orders |-> [j \in DOMAIN b.orders \cup {k} |-> IF j = k THEN o ELSE b.orders[j]],
     pos |-> b.pos]

------------------------------------------------------------------------------
\* An order is entered, and may fill at once.
Enter(k) ==
    LET entered == With(book, k, [book'.orders[k] EXCEPT !.status = "open"]) IN
    /\ k \notin DOMAIN book.orders
    /\ book'.orders[k] \in Entry
    /\ book' = entered \/ book' = Filled(entered, {k})

Fill    == \E ks \in SUBSET Open(book) : book' = Filled(book, ks)
Cancel  == \E ks \in SUBSET Pending(book) : book' = Cancelled(book, ks)
Flatten == \E ss \in SUBSET Symbols : book' = Flattened(book, ss)

\* The file is written with the state after a step, or it is not.
Work ==
    /\ \/ UNCHANGED book
       \/ \E k \in DOMAIN book'.orders : Enter(k)
       \/ Fill \/ Cancel \/ Flatten
    /\ UNCHANGED file \/ file' = book'

\* The positions are set by hand, and saved.
Restate ==
    /\ book'.pos \in [Symbols -> Int]
    /\ book' = [orders |-> book.orders, pos |-> book'.pos]
    /\ file' = book'

\* A stop takes the memory; a start has the file's, some orders cancelled.
Restart ==
    /\ \E ks \in SUBSET Open(file) : book' = Cancelled(file, ks)
    /\ UNCHANGED file

Wipe == book' = NoBook /\ file' = NoBook

Next == Work \/ Restate \/ Restart \/ Wipe

Spec == Init /\ [][Next]_<<book, file>>
=============================================================================
