----------------------------- MODULE TransferInv -----------------------------
(***************************************************************************)
(* The inductive invariant behind TransferProofs: what the registers, the  *)
(* log and the queues of a thread say in every state, and how the counts   *)
(* follow from it before a recovery and bound what it has to drop.         *)
(***************************************************************************)
EXTENDS Transfer

Up(t)   == mode[t] \in {"live", "crashed"}
Busy(t) == pc[t] \in {"log", "swap", "store"}

(* The registers of a call under way.                                      *)
Dropping(t) == /\ loc[t].op = "drop" /\ loc[t].func = "unlink" /\ loc[t].place = Root
               /\ held[t][loc[t].obj] > 0
Sending(t)  == loc[t].op = "send" /\ loc[t].queue \in Queues /\ Sender[loc[t].queue] = t
Taking(t)   == loc[t].op = "recv" /\ loc[t].queue \in Queues /\ Receiver[loc[t].queue] = t
LocOK(t) ==
  LET l == loc[t]
      q == loc[t].queue
  IN /\ pc[t] = "made" => q \in Queues /\ Sender[q] = t
     /\ pc[t] \in {"attach", "attached", "test", "advance"} => Taking(t)
     /\ pc[t] = "attached" => q \in recvList[t]
     /\ pc[t] = "publish" => Sending(t)
     /\ Busy(t) =>
          /\ l.obj \in Objs
          /\ \/ Dropping(t)
             \/ Sending(t) /\ l.func = "link" /\ l.place = <<q, end[q]>>
             \/ Taking(t) /\ l.func = "link" /\ l.place = Root
             \/ Taking(t) /\ l.func = "unlink" /\ l.place = <<q, start[q]>>
LocInv == \A t \in Threads : LocOK(t)

(* The monitor starts when nobody runs, and leaves nothing of a thread.    *)
PhaseOK(t) ==
  /\ mode[t] = "live" => Undisturbed
  /\ ~Up(t) => pc[t] = "idle"
  /\ mode[t] = "gone" => NoRoots(t) /\ sendList[t] = {} /\ recvList[t] = {}
  /\ seg[t] # "normal" => ~Up(t)
  /\ seg[t] = "free" => mode[t] = "gone"
PhaseInv == \A t \in Threads : PhaseOK(t)

(* The last record of the log, of the operation under way or of an older   *)
(* one.  A message the record put into a cell is there or received; a cell *)
(* the record emptied is the first of the ring or the one before it.       *)
LogOK(t) ==
  LET e == log[t]
      q == log[t].place[1]
      k == log[t].place[2]
  IN /\ pc[t] \in {"swap", "store"} =>
          /\ e.func = loc[t].func /\ e.place = loc[t].place /\ e.obj = loc[t].obj
          /\ e.done = (pc[t] = "store")
     /\ e.done => e.func # "none"
     /\ e.func # "none" => e.obj \in Objs
     /\ e.func = "link" /\ e.place # Root =>
          Sender[q] = t /\ buf[q][k] \in {Null, e.obj}
     /\ e.func = "unlink" /\ e.place # Root =>
          /\ Receiver[q] = t
          /\ Up(t) /\ e.done => \/ pc[t] = "store"
                                \/ k = start[q] /\ Working(t, q, "advance")
                                \/ Succ(k) = start[q] /\ ~Working(t, q, "advance")
LogInv == \A t \in Threads : LogOK(t)

(* Until the monitor starts: the two ends of a ring, and what an operation *)
(* of one of them takes for granted although the other goes on.            *)
EndsOK(t) ==
  LET l == loc[t]
      q == loc[t].queue
  IN /\ (Busy(t) \/ pc[t] = "publish") /\ l.op = "send" =>
          q \in sendList[t] /\ Succ(end[q]) # start[q]
     /\ Busy(t) /\ l.op = "recv" => start[q] # end[q] /\ buf[q][start[q]] = l.obj
     /\ pc[t] = "advance" => start[q] # end[q]
Known(q) == \A k \in Cells : buf[q][k] # Null => q \in sendList[Sender[q]]
RingInv == Undisturbed => (\A t \in Threads : EndsOK(t)) /\ (\A q \in Queues : Known(q))

(* What the calls of a running client hold: the sender still has the       *)
(* reference it sends when it publishes it, the receiver has emptied the   *)
(* cell when it gives it back.  TransferProofs needs it for MsgChannel.    *)
CallOK(t) ==
  LET l == loc[t]
      q == loc[t].queue
  IN /\ pc[t] \in {"idle", "made", "attach", "attached", "test"} => l.func = "none"
     /\ (Busy(t) \/ pc[t] = "publish") /\ l.op = "send" => held[t][l.obj] > 0
     /\ pc[t] = "publish" => l.obj \in Objs /\ buf[q][end[q]] = l.obj
     /\ pc[t] = "advance" => l.obj \in Objs /\ l.func = "unlink"
CallInv == \A t \in Threads : CallOK(t)

(* The lists, and the segment that keeps a queue on one of them.           *)
Keeps(q) == q \in sendList[Sender[q]] \/ seg[Sender[q]] = "abandon"
QueueOK(q) ==
  /\ rid[q] # 0 => q \in recvList[Receiver[q]]
  /\ \A t \in Threads : /\ q \in recvList[t] => Receiver[q] = t /\ Keeps(q)
                        /\ q \in sendList[t] => Sender[q] = t
                        /\ Working(t, q, "attach") => Keeps(q)
QueueInv == \A q \in Queues : QueueOK(q)

(* While the monitor is at work counts may be above the references, never  *)
(* above those a recovery to come will find: a cell that a record not yet  *)
(* redone empties is not one of them.                                      *)
Void(c) == \E t \in Threads : /\ Up(t) /\ log[t].done
                              /\ log[t].func = "unlink" /\ log[t].place = c
Kept(o) == {c \in Queues \X Cells :
              /\ buf[c[1]][c[2]] = o \/ \E t \in Threads : Pending(t, "link", c, o)
              /\ ~Void(c)
              /\ \E t \in Threads : Answers(t, c[1], c[2])}
Bounded  == \A o \in Objs : count[o] <= Total(OwnedBy(o)) + Cardinality(Kept(o))
CoverInv == ~Undisturbed => Bounded

IInv == /\ TypeOK /\ LocInv /\ PhaseInv /\ LogInv
        /\ RingSound /\ RingInv /\ CountExact
        /\ QueueInv /\ FreedEmpty /\ CoverInv
=============================================================================
