------------------------------ MODULE PageList ------------------------------
(***************************************************************************)
(* What the page queues of a thread promise: sequences of distinct pages,  *)
(* in which a page appears at the front, and from which it goes, in one    *)
(* step, for the thread and for whoever reads them after it has stopped.   *)
(***************************************************************************)
EXTENDS Naturals, Sequences, SequencesExt

CONSTANTS Queues, Pages

VARIABLES order,   \* the pages of a queue, first to last
          up       \* whether the thread runs

lvars == <<order, up>>

Listed == UNION {ToSet(order[q]) : q \in Queues}

Init == order = [q \in Queues |-> <<>>] /\ up = TRUE

Prepend(q, p) == /\ up /\ p \notin Listed
                 /\ order' = [order EXCEPT ![q] = <<p>> \o @]
                 /\ UNCHANGED up

Delete(q, i) == /\ up /\ i \in DOMAIN order[q]
                /\ order' = [order EXCEPT ![q] = RemoveAt(@, i)]
                /\ UNCHANGED up

Stop == up /\ up' = FALSE /\ UNCHANGED order

(* The monitor takes the queues of a thread that has stopped to pieces.    *)
Collect == ~up /\ ~up'

Next == \/ Stop \/ Collect
        \/ \E q \in Queues : \/ \E p \in Pages : Prepend(q, p)
                            \/ \E i \in DOMAIN order[q] : Delete(q, i)

Spec == Init /\ [][Next]_lvars
=============================================================================
