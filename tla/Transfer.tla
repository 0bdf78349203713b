------------------------------ MODULE Transfer ------------------------------
(***************************************************************************)
(* Message queues of cxl-shm (src/src/transfer.cpp): create_msg_queue,     *)
(* sent_to and cxl_unwrap by a sender and a receiver that share a ring of  *)
(* references and nothing else, their crash between two steps, and what    *)
(* recovery_garbage_collection and the segment pass make of the queues of  *)
(* a crashed thread (src/src/recovery.cpp).                                *)
(*                                                                         *)
(* Abstractions.  link_reference and unlink_reference are three steps: the *)
(* redo log, the swap of the header, the store of the reference; that the  *)
(* monitor can tell whether the swap happened is what EraProofs proves of  *)
(* EraRefCount, so here the log carries that bit (done).  The RootRefs of  *)
(* a thread are counted per object, not listed.  The memory of a thread is *)
(* one segment that holds its objects and the queues it created.           *)
(***************************************************************************)
EXTENDS Integers, FiniteSets

CONSTANTS Threads,    \* thread ids
          Queues,     \* message queues that may be created
          Sender,     \* the thread that creates and fills a queue
          Receiver,   \* the thread that empties it
          Objs,       \* objects without embedded references
          Home,       \* the thread in whose segment an object lies
          N,          \* MESSAGE_BUFFER_SIZE
          MaxCount,   \* bound: no message is sent at this count
          FaultInCreate,  \* may a client stop inside create_msg_queue
          Concurrent,     \* does the monitor run beside survivors
          Root,       \* the place of a reference that is a RootRef
          Null

ASSUME RingAssumption  == N \in Nat /\ N > 1
ASSUME IdsAssumption   == Threads \subseteq Nat \ {0} /\ IsFiniteSet(Threads)
ASSUME DataAssumption  == /\ IsFiniteSet(Objs) /\ IsFiniteSet(Queues)
                          /\ Null \notin Objs /\ Root \notin Queues \X (0..(N-1))
ASSUME EndsAssumption  == /\ Sender \in [Queues -> Threads]
                          /\ Receiver \in [Queues -> Threads]
                          /\ Home \in [Objs -> Threads]
ASSUME FlagsAssumption == /\ MaxCount \in Nat
                          /\ FaultInCreate \in BOOLEAN /\ Concurrent \in BOOLEAN

VARIABLES start, end, buf,      \* the ring of a queue
          sid, rid,             \* sender_id, receiver_id: 0 or a thread
          sendList, recvList,   \* queues on tls->sender_queue, receiver_queue
          count,                \* the count in the header of an object
          held,                 \* RootRefs of a thread that lead to an object
          log,                  \* the last record of a thread's redo log
          seg,                  \* state of a thread's segment
          pc, loc, mode

queue == <<start, end, buf, sid, rid>>
lists == <<sendList, recvList>>
refs  == <<count, held>>
vars  == <<queue, lists, refs, log, seg, pc, loc, mode>>

-----------------------------------------------------------------------------
Cells   == 0..(N - 1)
Places  == (Queues \X Cells) \cup {Root}
Succ(k) == (k + 1) % N

NoLog    == [func |-> "none", place |-> Root, obj |-> Null, done |-> FALSE]
NoLocals == [op |-> "none", queue |-> Null, func |-> "none", place |-> Root,
             obj |-> Null]

Init == /\ start = [q \in Queues |-> 0] /\ end = [q \in Queues |-> 0]
        /\ buf = [q \in Queues |-> [k \in Cells |-> Null]]
        /\ sid = [q \in Queues |-> 0] /\ rid = [q \in Queues |-> 0]
        /\ sendList = [t \in Threads |-> {}] /\ recvList = [t \in Threads |-> {}]
        /\ count = [o \in Objs |-> 0]
        /\ held = [t \in Threads |-> [o \in Objs |-> 0]]
        /\ log  = [t \in Threads |-> NoLog]
        /\ seg  = [t \in Threads |-> "normal"]
        /\ pc   = [t \in Threads |-> "idle"]
        /\ loc  = [t \in Threads |-> NoLocals]
        /\ mode = [t \in Threads |-> "live"]

At(t, p)   == mode[t] = "live" /\ pc[t] = p
Goto(t, p) == pc' = [pc EXCEPT ![t] = p]
Return(t)  == Goto(t, "idle") /\ loc' = [loc EXCEPT ![t] = NoLocals]

(* Cells from i up to, not including, j, round the ring.                   *)
Between(i, j) == IF i <= j THEN i..(j - 1) ELSE Cells \ (j..(i - 1))

(* A call that takes the slow path of the allocator clears the log.        *)
MaybeClear(t) == log' \in {log, [log EXCEPT ![t] = NoLog]}

-----------------------------------------------------------------------------
(* Objects come and go: cxl_malloc as one step, the drop of a RootRef.     *)

Alloc(t, o) ==
  /\ At(t, "idle") /\ Home[o] = t
  /\ count[o] = 0 /\ \A u \in Threads : loc[u].obj # o
  /\ count' = [count EXCEPT ![o] = 1]
  /\ held'  = [held EXCEPT ![t][o] = @ + 1]
  /\ MaybeClear(t)
  /\ UNCHANGED <<queue, lists, seg, pc, loc, mode>>

Begin(t, op, q, f, p, o) ==
  /\ loc' = [loc EXCEPT ![t] = [op |-> op, queue |-> q, func |-> f,
                                place |-> p, obj |-> o]]
  /\ Goto(t, "log")

Drop(t, o) ==
  /\ At(t, "idle") /\ held[t][o] > 0
  /\ Begin(t, "drop", Null, "unlink", Root, o)
  /\ UNCHANGED <<queue, lists, refs, log, seg, mode>>

-----------------------------------------------------------------------------
(* create_msg_queue: block_to_msg_queue, then the sender's list; only then *)
(* does the caller tell the receiver where the queue is.                   *)

Create(t, q) ==
  /\ At(t, "idle") /\ Sender[q] = t /\ sid[q] = 0
  /\ sid' = [sid EXCEPT ![q] = t]
  /\ MaybeClear(t)
  /\ loc' = [loc EXCEPT ![t].op = "create", ![t].queue = q]
  /\ Goto(t, "made")
  /\ UNCHANGED <<start, end, buf, rid, lists, refs, seg, mode>>

LinkQueue(t) ==
  /\ At(t, "made")
  /\ sendList' = [sendList EXCEPT ![t] = @ \cup {loc[t].queue}]
  /\ Return(t)
  /\ UNCHANGED <<queue, recvList, refs, log, seg, mode>>

-----------------------------------------------------------------------------
(* sent_to.  The differences are unsigned, so the second one is N - 1 only *)
(* when end is the last cell and start the first.                          *)

MutFull(q) == end[q] + 1 = start[q]      \* mutant: the wrap is forgotten
Full(q) == end[q] + 1 = start[q] \/ end[q] - start[q] = N - 1

Send(t, q, o) ==
  /\ At(t, "idle") /\ q \in sendList[t] /\ held[t][o] > 0
  /\ ~Full(q) /\ count[o] < MaxCount
  /\ Begin(t, "send", q, "link", <<q, end[q]>>, o)
  /\ UNCHANGED <<queue, lists, refs, log, seg, mode>>

Publish(t) ==
  /\ At(t, "publish")
  /\ end' = [end EXCEPT ![loc[t].queue] = Succ(@)]
  /\ Return(t)
  /\ UNCHANGED <<start, buf, sid, rid, lists, refs, log, seg, mode>>

-----------------------------------------------------------------------------
(* cxl_unwrap.  A receiver enters the queue in its list before it enters   *)
(* itself in the queue.                                                    *)

Unwrap(t, q) ==
  /\ At(t, "idle") /\ Receiver[q] = t
  /\ \E s \in Threads : q \in sendList[s]
  /\ loc' = [loc EXCEPT ![t].op = "recv", ![t].queue = q]
  /\ Goto(t, IF rid[q] = 0 THEN "attach" ELSE "test")
  /\ UNCHANGED <<queue, lists, refs, log, seg, mode>>

(* mutant: the queue is never entered in the receiver's list               *)
MutAttachList(t) ==
  /\ At(t, "attach")
  /\ Goto(t, "attached")
  /\ UNCHANGED <<queue, lists, refs, log, seg, loc, mode>>

AttachList(t) ==
  /\ At(t, "attach")
  /\ recvList' = [recvList EXCEPT ![t] = @ \cup {loc[t].queue}]
  /\ Goto(t, "attached")
  /\ UNCHANGED <<queue, sendList, refs, log, seg, loc, mode>>

AttachId(t) ==
  /\ At(t, "attached")
  /\ rid' = [rid EXCEPT ![loc[t].queue] = t]
  /\ Goto(t, "test")
  /\ UNCHANGED <<start, end, buf, sid, lists, refs, log, seg, loc, mode>>

Empty(q) == start[q] = end[q] \/ buf[q][start[q]] = Null

NoMessage(t) ==
  /\ At(t, "test") /\ Empty(loc[t].queue)
  /\ Return(t)
  /\ UNCHANGED <<queue, lists, refs, log, seg, mode>>

(* R1: a new RootRef is linked to what the first cell refers to ...        *)
Message(t) ==
  /\ At(t, "test") /\ ~Empty(loc[t].queue)
  /\ LET q == loc[t].queue
     IN Begin(t, "recv", q, "link", Root, buf[q][start[q]])
  /\ MaybeClear(t)
  /\ UNCHANGED <<queue, lists, refs, seg, mode>>

(* ... R3: the cell, unlinked in between (R2, see Store), is given back.   *)
Advance(t) ==
  /\ At(t, "advance")
  /\ start' = [start EXCEPT ![loc[t].queue] = Succ(@)]
  /\ Return(t)
  /\ UNCHANGED <<end, buf, sid, rid, lists, refs, log, seg, mode>>

-----------------------------------------------------------------------------
(* link_reference and unlink_reference of loc[t].                          *)

Log(t) ==
  /\ At(t, "log")
  /\ log' = [log EXCEPT ![t] = [func |-> loc[t].func, place |-> loc[t].place,
                                obj |-> loc[t].obj, done |-> FALSE]]
  /\ Goto(t, "swap")
  /\ UNCHANGED <<queue, lists, refs, seg, loc, mode>>

Swap(t) ==
  /\ At(t, "swap")
  /\ count' = [count EXCEPT ![loc[t].obj] =
                 IF loc[t].func = "link" THEN @ + 1 ELSE @ - 1]
  /\ log' = [log EXCEPT ![t].done = TRUE]
  /\ Goto(t, "store")
  /\ UNCHANGED <<queue, lists, held, seg, loc, mode>>

Put(f, p, o) ==
  buf' = [buf EXCEPT ![p[1]][p[2]] = IF f = "link" THEN o ELSE Null]
PutRoot(t, f, o) ==
  held' = [held EXCEPT ![t][o] = IF f = "link" THEN @ + 1 ELSE @ - 1]

Store(t) ==
  LET l == loc[t]
  IN /\ At(t, "store")
     /\ IF l.place = Root THEN PutRoot(t, l.func, l.obj) /\ UNCHANGED buf
                          ELSE Put(l.func, l.place, l.obj) /\ UNCHANGED held
     /\ \/ l.op = "drop" /\ Return(t)
        \/ l.op = "send" /\ Goto(t, "publish") /\ UNCHANGED loc
        \/ /\ l.op = "recv" /\ l.func = "link"
           /\ Begin(t, "recv", l.queue, "unlink", <<l.queue, start[l.queue]>>, l.obj)
        \/ l.op = "recv" /\ l.func = "unlink" /\ Goto(t, "advance") /\ UNCHANGED loc
     /\ UNCHANGED <<start, end, sid, rid, lists, count, log, seg, mode>>

Crash(t) ==
  /\ mode[t] = "live" /\ (pc[t] = "made" => FaultInCreate)
  /\ mode' = [mode EXCEPT ![t] = "crashed"]
  /\ UNCHANGED <<queue, lists, refs, log, seg, pc, loc>>

-----------------------------------------------------------------------------
(* The monitor: redo_ref_cnt, then recovery_garbage_collection.            *)

Turn(t) ==
  /\ \A u \in Threads : mode[u] # "recover"
  /\ \/ Concurrent
     \/ \A u \in Threads : /\ mode[u] # "live"
                           /\ mode[u] = "crashed" => t <= u

(* A swap that happened is evidence for good: the last record is redone    *)
(* even when its operation was over.  For a RootRef that changes nothing;  *)
(* for a cell it is one more store.                                        *)
Redo(t) ==
  LET e == log[t]
  IN /\ mode[t] = "crashed" /\ Turn(t)
     /\ IF e.done /\ e.place # Root THEN Put(e.func, e.place, e.obj)
                                    ELSE UNCHANGED buf
     /\ IF e.done /\ e.place = Root /\ pc[t] = "store"
        THEN PutRoot(t, e.func, e.obj) ELSE UNCHANGED held
     /\ mode' = [mode EXCEPT ![t] = "recover"]
     /\ Goto(t, "idle") /\ loc' = [loc EXCEPT ![t] = NoLocals]
     /\ UNCHANGED <<start, end, sid, rid, lists, count, log, seg>>

(* recovery_test_free of one reference leaves a zero count alone.          *)
Release(o) == count' = [count EXCEPT ![o] = IF @ = 0 THEN 0 ELSE @ - 1]
NoRoots(t) == \A o \in Objs : held[t][o] = 0

DropRoot(t, o) ==
  /\ mode[t] = "recover" /\ held[t][o] > 0
  /\ held' = [held EXCEPT ![t][o] = @ - 1]
  /\ Release(o)
  /\ UNCHANGED <<queue, lists, log, seg, pc, loc, mode>>

(* The cells a dead sender, a dead receiver answers for.  The first range  *)
(* is walked by a do-while: the whole ring when it starts where it ends.   *)
MutSenderCells(q) ==              \* mutant: a while loop from end + 1
  Between(Succ(end[q]), start[q])
  \cup (IF rid[q] = 0 THEN Between(start[q], end[q]) ELSE {})
SenderCells(q) ==
  (IF end[q] = start[q] THEN Cells ELSE Between(end[q], start[q]))
  \cup (IF rid[q] = 0 THEN Between(start[q], end[q]) ELSE {})
ReceiverCells(q) == Between(start[q], end[q])

Referring(q) == {k \in Cells : buf[q][k] # Null /\ count[buf[q][k]] # 0}

DropCell(t, q, k) ==
  /\ mode[t] = "recover" /\ NoRoots(t)
  /\ \/ q \in sendList[t] /\ k \in SenderCells(q)
     \/ q \in recvList[t] /\ k \in ReceiverCells(q) /\ sendList[t] = {}
  /\ k \in Referring(q)
  /\ Release(buf[q][k])
  /\ buf' = [buf EXCEPT ![q][k] = Null]
  /\ UNCHANGED <<start, end, sid, rid, lists, held, log, seg, pc, loc, mode>>

MutEndSender(t, q) ==             \* mutant: the segment is not kept
  /\ mode[t] = "recover" /\ NoRoots(t) /\ q \in sendList[t]
  /\ SenderCells(q) \cap Referring(q) = {}
  /\ sid' = [sid EXCEPT ![q] = 0]
  /\ sendList' = [sendList EXCEPT ![t] = @ \ {q}]
  /\ UNCHANGED <<start, end, buf, rid, recvList, refs, log, seg, pc, loc, mode>>

EndSender(t, q) ==
  /\ mode[t] = "recover" /\ NoRoots(t) /\ q \in sendList[t]
  /\ SenderCells(q) \cap Referring(q) = {}
  /\ sid' = [sid EXCEPT ![q] = 0]
  /\ sendList' = [sendList EXCEPT ![t] = @ \ {q}]
  /\ seg' = [seg EXCEPT ![t] = "abandon"]
  /\ UNCHANGED <<start, end, buf, rid, recvList, refs, log, pc, loc, mode>>

MutEndReceiver(t, q) ==           \* mutant: the receiver stays in the queue
  /\ mode[t] = "recover" /\ NoRoots(t) /\ q \in recvList[t] /\ sendList[t] = {}
  /\ ReceiverCells(q) \cap Referring(q) = {}
  /\ recvList' = [recvList EXCEPT ![t] = @ \ {q}]
  /\ UNCHANGED <<queue, sendList, refs, log, seg, pc, loc, mode>>

EndReceiver(t, q) ==
  /\ mode[t] = "recover" /\ NoRoots(t) /\ q \in recvList[t] /\ sendList[t] = {}
  /\ ReceiverCells(q) \cap Referring(q) = {}
  /\ rid' = [rid EXCEPT ![q] = 0]
  /\ recvList' = [recvList EXCEPT ![t] = @ \ {q}]
  /\ UNCHANGED <<start, end, buf, sid, sendList, refs, log, seg, pc, loc, mode>>

(* Object pages, then the segment: kept while one of its objects counts or *)
(* one of its queues was on the sender's list.                             *)
LiveObject(t) == \E o \in Objs : Home[o] = t /\ count[o] > 0

Finish(t) ==
  /\ mode[t] = "recover" /\ NoRoots(t)
  /\ sendList[t] = {} /\ recvList[t] = {}
  /\ seg' = [seg EXCEPT ![t] = IF seg[t] = "abandon" \/ LiveObject(t)
                               THEN "abandon" ELSE "free"]
  /\ mode' = [mode EXCEPT ![t] = "gone"]
  /\ UNCHANGED <<queue, lists, refs, log, pc, loc>>

(* The segment pass of single_recovery_loop, for the segment of t.         *)
Attached(q) == sid[q] # 0 \/ rid[q] # 0
Sweep(t) ==
  /\ seg[t] = "abandon"
  /\ \A u \in Threads : mode[u] # "recover" /\ (~Concurrent => mode[u] = "gone")
  /\ ~LiveObject(t) /\ \A q \in Queues : Sender[q] = t => ~Attached(q)
  /\ seg' = [seg EXCEPT ![t] = "free"]
  /\ UNCHANGED <<queue, lists, refs, log, pc, loc, mode>>

-----------------------------------------------------------------------------
StartOp(t) ==
  \/ \E o \in Objs : Alloc(t, o) \/ Drop(t, o)
  \/ \E q \in Queues : Create(t, q) \/ Unwrap(t, q) \/ \E o \in Objs : Send(t, q, o)

ClientStep(t) ==
  \/ LinkQueue(t) \/ Publish(t) \/ AttachList(t) \/ AttachId(t)
  \/ NoMessage(t) \/ Message(t) \/ Advance(t) \/ Log(t) \/ Swap(t) \/ Store(t)

MonitorStep(t) ==
  \/ Redo(t) \/ Finish(t) \/ Sweep(t)
  \/ \E o \in Objs : DropRoot(t, o)
  \/ \E q \in Queues : EndSender(t, q) \/ EndReceiver(t, q)
  \/ \E q \in Queues, k \in Cells : DropCell(t, q, k)

ClientNext == \E t \in Threads : StartOp(t) \/ ClientStep(t) \/ Crash(t)
Next == ClientNext \/ \E t \in Threads : MonitorStep(t)

ClientSpec == Init /\ [][ClientNext]_vars
Spec       == Init /\ [][Next]_vars

(* The monitor never stops; nothing makes a client go on or crash.         *)
FairSpec   == Spec /\ \A t \in Threads : WF_vars(MonitorStep(t))

-----------------------------------------------------------------------------
(* Type correctness of the state.                                          *)
TypeOK ==
  /\ start \in [Queues -> Cells] /\ end \in [Queues -> Cells]
  /\ buf \in [Queues -> [Cells -> Objs \cup {Null}]]
  /\ sid \in [Queues -> Threads \cup {0}] /\ rid \in [Queues -> Threads \cup {0}]
  /\ sendList \in [Threads -> SUBSET Queues] /\ recvList \in [Threads -> SUBSET Queues]
  /\ count \in [Objs -> Nat] /\ held \in [Threads -> [Objs -> Nat]]
  /\ log \in [Threads -> [func : {"none", "link", "unlink"}, place : Places,
                          obj : Objs \cup {Null}, done : BOOLEAN]]
  /\ seg \in [Threads -> {"normal", "abandon", "free"}]
  /\ pc \in [Threads -> {"idle", "made", "attach", "attached", "test", "log",
                         "swap", "store", "publish", "advance"}]
  /\ loc \in [Threads -> [op : {"none", "drop", "create", "send", "recv"},
                          queue : Queues \cup {Null},
                          func : {"none", "link", "unlink"}, place : Places,
                          obj : Objs \cup {Null}]]
  /\ mode \in [Threads -> {"live", "crashed", "recover", "gone"}]

(* Until the monitor starts, a cell of a ring refers to an object exactly  *)
(* if its message has been sent and not received; the last cell, filled    *)
(* and not yet published, and the first, emptied and not yet given back,   *)
(* are the exceptions (sent_to, cxl_unwrap).  No message is overwritten,   *)
(* none is skipped, no reference stays behind in the ring.                 *)
Undisturbed == \A t \in Threads : mode[t] \in {"live", "crashed"}
Working(t, q, p) == pc[t] = p /\ loc[t].queue = q
IsMessage(q, k) == /\ k \in Between(start[q], end[q])
                   /\ ~(k = start[q] /\ Working(Receiver[q], q, "advance"))
RingSound ==
  Undisturbed =>
    \A q \in Queues, k \in Cells :
      buf[q][k] # Null <=> IsMessage(q, k) \/ (k = end[q] /\ Working(Sender[q], q, "publish"))

(* A message is a counted reference from sent_to to cxl_unwrap: until the  *)
(* monitor starts, the count of an object is the number of RootRefs and    *)
(* cells that refer to it, an operation counting from its swap on.         *)
Pending(t, f, p, o) ==
  pc[t] = "store" /\ loc[t].func = f /\ loc[t].place = p /\ loc[t].obj = o
Owned(t, o) == held[t][o] + (IF Pending(t, "link", Root, o) THEN 1 ELSE 0)
                          - (IF Pending(t, "unlink", Root, o) THEN 1 ELSE 0)
CellRefs(o) == {c \in Queues \X Cells :
                  /\ \/ buf[c[1]][c[2]] = o
                     \/ \E t \in Threads : Pending(t, "link", c, o)
                  /\ \A t \in Threads : ~Pending(t, "unlink", c, o)}
Total(f) == Cardinality(UNION {{t} \X (1..f[t]) : t \in DOMAIN f})   \* the sum of f
OwnedBy(o) == [t \in Threads |-> Owned(t, o)]
CountExact == Undisturbed => \A o \in Objs : count[o] = Total(OwnedBy(o)) + Cardinality(CellRefs(o))

(* However the recoveries of sender and receiver follow one another, a     *)
(* cell that holds a count is one that a recovery still to come visits:    *)
(* whoever dies last, its list leads to the queue and its range to the     *)
(* cell (recovery_garbage_collection).                                     *)
Answers(t, q, k) ==
  /\ mode[t] # "gone"
  /\ \/ q \in sendList[t] /\ k \in SenderCells(q)
     \/ q \in recvList[t] /\ k \in ReceiverCells(q)
Linking(t, o) == pc[t] = "store" /\ loc[t].func = "link" /\ loc[t].obj = o
Covered ==
  \A o \in Objs : count[o] > 0 =>
    \/ \E t \in Threads : mode[t] # "gone" /\ (held[t][o] > 0 \/ Linking(t, o))
    \/ \E q \in Queues, k \in Cells : buf[q][k] = o /\ \E t \in Threads : Answers(t, q, k)

(* A segment is given back only when no object in it counts and no thread  *)
(* that may still run or be recovered has one of its queues on a list.     *)
FreedEmpty ==
  \A t \in Threads : seg[t] = "free" =>
    /\ ~LiveObject(t)
    /\ \A q \in Queues : Sender[q] = t => \A u \in Threads : q \notin recvList[u]

(* README: no wild pointer, even if some clients unexpectedly fail.  What  *)
(* a running client holds is counted.                                      *)
NoWildPointer ==
  \A t \in Threads, o \in Objs :
    mode[t] = "live" /\ held[t][o] > 0 /\ loc[t].obj # o => count[o] > 0

(* When every client has stopped the monitor gets every segment back       *)
(* (check_recovery), with whatever was left in the queues.                 *)
AllReclaimed ==
  (\A t \in Threads : mode[t] # "live") ~> (\A t \in Threads : seg[t] = "free")
=============================================================================
