----------------------------- MODULE MsgChannel -----------------------------
(***************************************************************************)
(* What a message queue promises to its two ends: a channel of bounded     *)
(* length that keeps the order of the messages, loses none, delivers each  *)
(* one once and keeps the object of a message alive on the way, although   *)
(* either end may stop at any moment.                                      *)
(***************************************************************************)
EXTENDS Naturals, Sequences

CONSTANTS Threads, Queues, Sender, Receiver, Objs, Home, Capacity

VARIABLES chan,    \* the messages of a queue, oldest first
          own,     \* references a thread owns
          up       \* threads that run

cvars == <<chan, own, up>>

InTransit(o) == \E q \in Queues : \E i \in DOMAIN chan[q] : chan[q][i] = o
Unused(o)    == ~InTransit(o) /\ \A t \in Threads : own[t][o] = 0

Init == /\ chan = [q \in Queues |-> <<>>]
        /\ own  = [t \in Threads |-> [o \in Objs |-> 0]]
        /\ up   = Threads

New(t, o) == /\ t \in up /\ Home[o] = t /\ Unused(o)
             /\ own' = [own EXCEPT ![t][o] = 1]
             /\ UNCHANGED <<chan, up>>

Let(t, o) == /\ t \in up /\ own[t][o] > 0
             /\ own' = [own EXCEPT ![t][o] = @ - 1]
             /\ UNCHANGED <<chan, up>>

Send(q, o) == /\ Sender[q] \in up /\ own[Sender[q]][o] > 0
              /\ Len(chan[q]) < Capacity
              /\ chan' = [chan EXCEPT ![q] = Append(@, o)]
              /\ UNCHANGED <<own, up>>

Receive(q) == /\ Receiver[q] \in up /\ chan[q] # <<>>
              /\ chan' = [chan EXCEPT ![q] = Tail(@)]
              /\ own'  = [own EXCEPT ![Receiver[q]][Head(chan[q])] = @ + 1]
              /\ UNCHANGED up

Stop(t) == t \in up /\ up' = up \ {t} /\ UNCHANGED <<chan, own>>

Next == \/ \E t \in Threads : Stop(t) \/ \E o \in Objs : New(t, o) \/ Let(t, o)
        \/ \E q \in Queues : Receive(q) \/ \E o \in Objs : Send(q, o)

Spec == Init /\ [][Next]_cvars
=============================================================================
