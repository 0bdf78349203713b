--------------------------- MODULE TransferRefines ---------------------------
(***************************************************************************)
(* Transfer implements MsgChannel: a message is in the channel once end    *)
(* has moved past its cell, and leaves it when start does.                 *)
(***************************************************************************)
EXTENDS Transfer, Sequences

(* A receiver that has made its RootRef and not yet advanced start has not *)
(* received: its RootRef does not count, its cell still holds the message. *)
Unwrapping(t) == loc[t].op = "recv" /\ loc[t].func = "unlink"

Length(q) == (end[q] - start[q]) % N
CellAt(q, i) ==
  LET k == (start[q] + i - 1) % N
      r == Receiver[q]
  IN IF i = 1 /\ Unwrapping(r) /\ loc[r].queue = q THEN loc[r].obj ELSE buf[q][k]

chan == [q \in Queues |-> [i \in 1..Length(q) |-> CellAt(q, i)]]
own  == [t \in Threads |-> [o \in Objs |->
           held[t][o] - (IF Unwrapping(t) /\ loc[t].obj = o THEN 1 ELSE 0)]]
up   == {t \in Threads : mode[t] = "live"}

Channel == INSTANCE MsgChannel WITH Capacity <- N - 1

(* A queue is a bounded channel: first in first out, each message once,    *)
(* no message lost or made up, whatever the two ends do and wherever they  *)
(* stop (sent_to, cxl_unwrap).                                             *)
ImplementsMsgChannel == Channel!Spec
=============================================================================
