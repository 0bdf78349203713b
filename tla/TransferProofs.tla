---------------------------- MODULE TransferProofs ----------------------------
(***************************************************************************)
(* Proofs about Transfer: the messages of a ring, the counts, that the     *)
(* recoveries of the two ends leave no counted cell out, and that a queue  *)
(* is a channel.                                                           *)
(***************************************************************************)
EXTENDS TransferInv, TransferRefines, FiniteSetTheorems, TLAPS

-----------------------------------------------------------------------------
(* The ring (sent_to, cxl_unwrap).                                         *)

(* The next cell.                                                          *)
LEMMA SuccIs ==
  ASSUME NEW k \in Cells
  PROVE  Succ(k) = IF k = N - 1 THEN 0 ELSE k + 1
BY RingAssumption DEF Cells, Succ

(* It is another cell, and no two cells have the same next one.            *)
LEMMA SuccMoves ==
  ASSUME NEW j \in Cells, NEW k \in Cells
  PROVE  Succ(k) \in Cells /\ Succ(k) # k /\ (Succ(j) = Succ(k) => j = k)
BY SuccIs, RingAssumption DEF Cells

(* What a message more, and one less, do to the range of the messages.     *)
LEMMA BetweenMoves ==
  ASSUME NEW i \in Cells, NEW j \in Cells, NEW k \in Cells
  PROVE  /\ k \in Between(i, j) => k # j /\ i # j
         /\ i # j => i \in Between(i, j)
         /\ Succ(j) # i => (k \in Between(i, Succ(j)) <=> k \in Between(i, j) \/ k = j)
         /\ i # j => (k \in Between(Succ(i), j) <=> k \in Between(i, j) /\ k # i)
         /\ Succ(k) = i => k \notin Between(i, j)
BY SuccIs, RingAssumption DEF Cells, Between

-----------------------------------------------------------------------------
(* Sums.                                                                   *)

Pairs(f) == UNION {{t} \X (1..f[t]) : t \in DOMAIN f}

(* The set whose size is the sum is finite, and what is in it.             *)
LEMMA PairsFinite ==
  ASSUME NEW f \in [Threads -> Nat]
  PROVE  /\ IsFiniteSet(Pairs(f))
         /\ \A p : p \in Pairs(f) <=> (\E t \in Threads : \E i \in 1..f[t] : p = <<t, i>>)
<1> DEFINE g == [t \in Threads |-> {t} \X (1..f[t])]
           R == {{t} \X (1..f[t]) : t \in Threads}
<1>1. g \in Surjection(Threads, R)
  BY DEF Surjection
<1>2. IsFiniteSet(R)
  BY <1>1, FS_Surjection, IdsAssumption
<1>3. \A T \in R : IsFiniteSet(T)
  <2> TAKE T \in R
  <2>1. PICK t \in Threads : T = {t} \X (1..f[t])
    OBVIOUS
  <2>2. IsFiniteSet({t}) /\ IsFiniteSet(1..f[t])
    <3>1. IsFiniteSet({t})
      BY FS_Singleton
    <3>2. 0 \in Int /\ f[t] \in Int
      OBVIOUS
    <3> QED
      BY <3>1, <3>2, FS_Interval
  <2>3. QED
    BY <2>1, <2>2, FS_Product
<1>4. Pairs(f) = UNION R
  BY DEF Pairs
<1>5. IsFiniteSet(Pairs(f))
  BY <1>2, <1>3, <1>4, FS_UNION
<1>6. \A p : p \in Pairs(f) <=> \E t \in Threads : \E i \in 1..f[t] : p = <<t, i>>
  BY <1>4
<1> QED
  BY <1>5, <1>6

(* A sum of natural numbers is one, at least each of them; it grows with   *)
(* them.                                                                   *)
LEMMA TotalType ==
  ASSUME NEW f \in [Threads -> Nat]
  PROVE  /\ Total(f) \in Nat
         /\ Total(f) > 0 <=> \E t \in Threads : f[t] > 0
<1>1. Total(f) = Cardinality(Pairs(f))
  BY DEF Total, Pairs
<1>2. Total(f) \in Nat
  BY <1>1, PairsFinite, FS_CardinalityType
<1>3. Cardinality(Pairs(f)) = 0 <=> Pairs(f) = {}
  BY PairsFinite, FS_EmptySet
<1>4. Pairs(f) # {} <=> \E t \in Threads : f[t] > 0
  <2>1. \A t \in Threads : (1..f[t] # {}) <=> f[t] > 0
    OBVIOUS
  <2>2. ASSUME NEW p \in Pairs(f) PROVE \E t \in Threads : f[t] > 0
    <3>1. PICK t \in Threads : \E i \in 1..f[t] : p = <<t, i>>
      BY PairsFinite
    <3> QED
      BY <2>1, <3>1
  <2>3. ASSUME NEW t \in Threads, f[t] > 0 PROVE <<t, 1>> \in Pairs(f)
    <3>1. 1 \in 1..f[t]
      BY <2>3
    <3> QED
      BY <3>1 DEF Pairs
  <2> QED
    BY <2>2, <2>3
<1> QED
  BY <1>1, <1>2, <1>3, <1>4

LEMMA TotalUp ==
  ASSUME NEW f \in [Threads -> Nat], NEW t \in Threads
  PROVE  Total([f EXCEPT ![t] = @ + 1]) = Total(f) + 1
<1> DEFINE g == [f EXCEPT ![t] = @ + 1]
           x == <<t, f[t] + 1>>
<1>0. g \in [Threads -> Nat]
  OBVIOUS
<1>1. x \notin Pairs(f)
  BY PairsFinite
<1>2. Pairs(g) = Pairs(f) \cup {x}
  <2>1. \A p : p \in Pairs(g) <=> \E u \in Threads : \E i \in 1..g[u] : p = <<u, i>>
    BY <1>0, PairsFinite
  <2>2. \A p : p \in Pairs(f) <=> \E u \in Threads : \E i \in 1..f[u] : p = <<u, i>>
    BY PairsFinite
  <2>3. \A u \in Threads : \A i : i \in 1..g[u] <=> i \in 1..f[u] \/ (u = t /\ i = f[t] + 1)
    OBVIOUS
  <2>4. ASSUME NEW p
        PROVE  p \in Pairs(g) <=> p \in Pairs(f) \cup {x}
    <3> HIDE DEF g
    <3> QED
      BY <2>1, <2>2, <2>3
  <2> QED
    BY <2>4
<1>3. Cardinality(Pairs(f) \cup {x}) = Cardinality(Pairs(f)) + 1
  BY <1>1, PairsFinite, FS_AddElement
<1> QED
  BY <1>2, <1>3 DEF Total, Pairs

(* One thread has one less.                                                *)
LEMMA TotalDown ==
  ASSUME NEW f \in [Threads -> Nat], NEW t \in Threads, f[t] > 0
  PROVE  Total([f EXCEPT ![t] = @ - 1]) = Total(f) - 1
<1> DEFINE g == [f EXCEPT ![t] = @ - 1]
<1>1. g \in [Threads -> Nat]
  OBVIOUS
<1>3. f = [g EXCEPT ![t] = @ + 1]
  <2> DEFINE h == [g EXCEPT ![t] = @ + 1]
  <2>1. h \in [Threads -> Int] /\ f \in [Threads -> Int]
    BY <1>1
  <2>2. \A u \in Threads : h[u] = f[u]
    OBVIOUS
  <2> QED
    BY <2>1, <2>2
<1>2. Total(f) = Total(g) + 1
  BY <1>1, <1>3, TotalUp
<1>4. Total(g) \in Nat
  BY <1>1, TotalType
<1> QED
  BY <1>2, <1>4
-----------------------------------------------------------------------------
(* What an action of one thread leaves alone.                              *)

(* Only t acts, and only t moves its ends of the rings.                    *)
Alone(t) ==
  /\ \A u \in Threads \ {t} :
       /\ pc'[u] = pc[u] /\ loc'[u] = loc[u] /\ held'[u] = held[u] /\ log'[u] = log[u]
       /\ mode'[u] = mode[u] /\ seg'[u] = seg[u]
       /\ sendList'[u] = sendList[u] /\ recvList'[u] = recvList[u]
  /\ \A q \in Queues : /\ Sender[q] # t => end'[q] = end[q]
                       /\ Receiver[q] # t => start'[q] = start[q]

(* The registers of the others keep their meaning.                         *)
LEMMA LocFrame ==
  ASSUME LocInv, NEW t \in Threads, Alone(t), LocOK(t)'
  PROVE  LocInv'
<1>1. ASSUME NEW u \in Threads \ {t} PROVE LocOK(u)'
  <2>1. LocOK(u)
    BY DEF LocInv
  <2> QED
    BY <2>1 DEF LocOK, Alone, Taking, Sending, Dropping, Busy
<1> QED
  BY <1>1 DEF LocInv

(* So do their records, if only their sender fills cells.                  *)
LEMMA LogFrame ==
  ASSUME TypeOK, LogInv, NEW t \in Threads, Alone(t), LogOK(t)',
         \A q \in Queues, k \in Cells :
           Sender[q] = t \/ buf'[q][k] \in {buf[q][k], Null}
  PROVE  LogInv'
<1>1. ASSUME NEW u \in Threads \ {t} PROVE LogOK(u)'
  <2>1. LogOK(u)
    BY DEF LogInv
  <2>2. log[u].place \in Places /\ log'[u] = log[u]
    BY DEF TypeOK, Alone
  <2>3. log[u].place # Root => log[u].place[1] \in Queues /\ log[u].place[2] \in Cells
    BY <2>2 DEF Places
  <2> QED
    BY <2>1, <2>2, <2>3 DEF LogOK, Alone, Up, Working
<1> QED
  BY <1>1 DEF LogInv

(* A step of a running client is one before any recovery.                  *)
LEMMA Calm ==
  ASSUME IInv, NEW t \in Threads, mode[t] = "live", mode' = mode
  PROVE  /\ Undisturbed /\ Undisturbed' /\ CoverInv'
         /\ \A u \in Threads : Up(u) /\ Up(u)' /\ seg[u] = "normal"
BY DEF IInv, PhaseInv, PhaseOK, Undisturbed, CoverInv, Up, TypeOK

(* What a place is.                                                        *)
LEMMA PlaceIs ==
  ASSUME NEW p \in Places, p # Root
  PROVE  p[1] \in Queues /\ p[2] \in Cells /\ p = <<p[1], p[2]>>
BY DEF Places

LEMMA RootIs ==
  \A q \in Queues, k \in Cells : <<q, k>> # Root /\ <<q, k>> \in Places
BY DataAssumption DEF Cells, Places

(* How many RootRefs a thread has is a natural number, also while one is   *)
(* on the way.                                                             *)
LEMMA OwnedType ==
  ASSUME TypeOK, LocInv, NEW o \in Objs
  PROVE  OwnedBy(o) \in [Threads -> Nat]
<1>1. ASSUME NEW t \in Threads PROVE Owned(t, o) \in Nat
  <2>1. held[t][o] \in Nat
    BY DEF TypeOK
  <2>2. LocOK(t)
    BY DEF LocInv
  <2>3. ASSUME Pending(t, "unlink", Root, o) PROVE held[t][o] > 0
    <3>1. \A q \in Queues : start[q] \in Cells
      BY DEF TypeOK
    <3>2. Busy(t) /\ loc[t].func = "unlink" /\ loc[t].place = Root /\ loc[t].obj = o
      BY <2>3 DEF Pending, Busy
    <3>3. CASE Taking(t) /\ loc[t].place = <<loc[t].queue, start[loc[t].queue]>>
      BY <3>1, <3>2, <3>3, RootIs DEF Taking
    <3>4. CASE Dropping(t)
      BY <3>2, <3>4 DEF Dropping
    <3> QED
      BY <2>2, <3>2, <3>3, <3>4 DEF LocOK
  <2> QED
    BY <2>1, <2>3 DEF Owned
<1> QED
  BY <1>1 DEF OwnedBy

(* Sets of cells are finite.                                               *)
LEMMA CellsFinite == \A S : S \subseteq Queues \X Cells => IsFiniteSet(S)
<1>1. 0 \in Int /\ N - 1 \in Int
  BY RingAssumption
<1>2. IsFiniteSet(Cells)
  BY <1>1, FS_Interval DEF Cells
<1>3. IsFiniteSet(Queues \X Cells)
  BY <1>2, FS_Product, DataAssumption
<1> QED
  BY <1>3, FS_Subset

(* References stay what they are while no reference is stored and no swap  *)
(* is on the way to its store.                                             *)
LEMMA RefsFrame ==
  ASSUME NEW t \in Threads, Alone(t), held' = held, buf' = buf,
         pc[t] # "store", pc'[t] # "store", NEW o
  PROVE  OwnedBy(o)' = OwnedBy(o) /\ CellRefs(o)' = CellRefs(o)
<1>1. \A u \in Threads : \A f, p : Pending(u, f, p, o)' <=> Pending(u, f, p, o)
  BY DEF Pending, Alone
<1>2. \A u \in Threads : Owned(u, o)' = Owned(u, o)
  BY <1>1 DEF Owned
<1> QED
  BY <1>1, <1>2 DEF OwnedBy, CellRefs

LEMMA CountFrame ==
  ASSUME CountExact, NEW t \in Threads, Alone(t), held' = held, buf' = buf,
         pc[t] # "store", pc'[t] # "store", count' = count, mode' = mode
  PROVE  CountExact'
<1>1. Undisturbed' <=> Undisturbed
  BY DEF Undisturbed
<1>2. \A o \in Objs : Total(OwnedBy(o))' = Total(OwnedBy(o)) /\ CellRefs(o)' = CellRefs(o)
  BY RefsFrame
<1> QED
  BY <1>1, <1>2 DEF CountExact
(* The ring and its ends, when no store of it changes.                     *)
LEMMA RingFrame ==
  ASSUME RingSound, RingInv, NEW t \in Threads, Alone(t), mode' = mode,
         start' = start, end' = end, buf' = buf,
         sendList[t] \subseteq sendList'[t],
         pc[t] \notin {"advance", "publish"}, pc'[t] \notin {"advance", "publish"},
         Undisturbed => EndsOK(t)', EndsAssumption
  PROVE  RingSound' /\ RingInv'
<1>1. Undisturbed' <=> Undisturbed
  BY DEF Undisturbed
<1>2. \A u \in Threads : \A q, p : p \in {"advance", "publish"} =>
        (Working(u, q, p)' <=> Working(u, q, p))
  BY DEF Working, Alone
<1>3. RingSound'
  BY <1>1, <1>2, EndsAssumption DEF RingSound, IsMessage, Between, Cells
<1>4. \A u \in Threads : sendList[u] \subseteq sendList'[u]
  BY DEF Alone
<1>5. Undisturbed => \A u \in Threads : EndsOK(u)'
  BY <1>4 DEF RingInv, EndsOK, Alone, Busy
<1>6. Undisturbed => \A q \in Queues : Known(q)'
  BY <1>4, EndsAssumption DEF RingInv, Known
<1> QED
  BY <1>1, <1>3, <1>5, <1>6 DEF RingInv

(* The lists, when none of them and no segment changes.                    *)
LEMMA QueueFrame ==
  ASSUME QueueInv, NEW t \in Threads, Alone(t),
         rid' = rid, sendList' = sendList, recvList' = recvList, seg' = seg,
         \A q \in Queues : Working(t, q, "attach")' => Keeps(q)
  PROVE  QueueInv'
<1>1. \A q \in Queues : Keeps(q)' <=> Keeps(q)
  BY DEF Keeps
<1>2. \A q \in Queues, u \in Threads \ {t} :
        Working(u, q, "attach")' <=> Working(u, q, "attach")
  BY DEF Working, Alone
<1> QED
  BY <1>1, <1>2 DEF QueueInv, QueueOK

(* Phases, in a step of a running client.                                  *)
LEMMA PhaseFrame ==
  ASSUME PhaseInv, NEW t \in Threads, Alone(t), mode[t] = "live", mode' = mode,
         seg' = seg
  PROVE  PhaseInv'
<1>1. Undisturbed' <=> Undisturbed
  BY DEF Undisturbed
<1>2. ASSUME NEW u \in Threads PROVE PhaseOK(u)'
  <2>1. PhaseOK(u)
    BY DEF PhaseInv
  <2>2. CASE u = t
    BY <2>1, <2>2, <1>1 DEF PhaseOK, Up
  <2>3. CASE u # t
    BY <2>1, <2>3, <1>1 DEF PhaseOK, Up, Alone, NoRoots
  <2> QED
    BY <2>2, <2>3
<1> QED
  BY <1>2 DEF PhaseInv

(* While clients run no segment has been given back.                       *)
LEMMA FreedFrame ==
  ASSUME IInv, NEW t \in Threads, mode[t] = "live", mode' = mode, seg' = seg
  PROVE  FreedEmpty'
BY Calm DEF FreedEmpty

-----------------------------------------------------------------------------
(* The actions of a client.                                                *)

(* A step that changes registers, and perhaps the thread's own record.     *)
LEMMA Recorded ==
  ASSUME IInv, NEW t \in Threads, mode[t] = "live", TypeOK',
         UNCHANGED <<start, end, buf, rid, lists, refs, seg, mode>>,
         \A u \in Threads \ {t} : pc'[u] = pc[u] /\ loc'[u] = loc[u] /\ log'[u] = log[u],
         pc[t] \notin {"store", "advance", "publish"},
         pc'[t] \notin {"store", "advance", "publish"},
         LocOK(t)', LogOK(t)', EndsOK(t)',
         \A q \in Queues : Working(t, q, "attach")' => q \in sendList[Sender[q]]
  PROVE  IInv'
<1>0. Alone(t)
  BY DEF Alone, lists, refs
<1>1. LocInv'
  BY <1>0, LocFrame DEF IInv
<1>2. PhaseInv' /\ FreedEmpty' /\ CoverInv'
  BY <1>0, Calm, PhaseFrame, FreedFrame DEF IInv
<1>3. LogInv'
  BY <1>0, LogFrame DEF IInv
<1>4. RingSound' /\ RingInv'
  BY <1>0, RingFrame, EndsAssumption DEF IInv, lists
<1>5. CountExact'
  BY <1>0, CountFrame DEF IInv, refs
<1>6. QueueInv'
  BY <1>0, QueueFrame DEF IInv, lists, Keeps
<1> QED
  BY <1>1, <1>2, <1>3, <1>4, <1>5, <1>6 DEF IInv

(* A step that changes registers only.                                     *)
LEMMA Quiet ==
  ASSUME IInv, NEW t \in Threads, mode[t] = "live",
         UNCHANGED <<queue, lists, refs, log, seg, mode>>,
         TypeOK', \A u \in Threads \ {t} : pc'[u] = pc[u] /\ loc'[u] = loc[u],
         pc[t] \in {"idle", "test", "attach", "attached"},
         pc'[t] \in {"idle", "log", "attach", "test"},
         LocOK(t)', EndsOK(t)',
         \A q \in Queues : Working(t, q, "attach")' => q \in sendList[Sender[q]]
  PROVE  IInv'
<1>1. LogOK(t)'
  BY DEF IInv, LogInv, LogOK, Up, Working, queue
<1> QED
  BY <1>1, Recorded DEF queue

(* The log keeps its type when the slow path clears it.                    *)
Records == [func : {"none", "link", "unlink"}, place : Places,
            obj : Objs \cup {Null}, done : BOOLEAN]
LEMMA ClearType ==
  ASSUME TypeOK, NEW t \in Threads, MaybeClear(t)
  PROVE  /\ log' \in [Threads -> [func : {"none", "link", "unlink"}, place : Places,
                                  obj : Objs \cup {Null}, done : BOOLEAN]]
         /\ log'[t] \in {log[t], NoLog} /\ \A u \in Threads \ {t} : log'[u] = log[u]
<1>1. NoLog \in Records /\ log \in [Threads -> Records]
  BY DEF NoLog, Records, Places, TypeOK
<1>2. log' = log \/ log' = [log EXCEPT ![t] = NoLog]
  BY DEF MaybeClear
<1>3. log' \in [Threads -> Records]
  BY <1>1, <1>2
<1> QED
  BY <1>1, <1>2, <1>3 DEF Records

(* Begin keeps the types.                                                  *)
LEMMA BeginType ==
  ASSUME IInv, NEW t \in Threads, NEW op \in {"drop", "send", "recv"},
         NEW q \in Queues \cup {Null}, NEW f \in {"link", "unlink"},
         NEW p \in Places, NEW o \in Objs, Begin(t, op, q, f, p, o)
  PROVE  /\ pc'[t] = "log" /\ \A u \in Threads \ {t} : pc'[u] = pc[u] /\ loc'[u] = loc[u]
         /\ loc'[t] = [op |-> op, queue |-> q, func |-> f, place |-> p, obj |-> o]
         /\ UNCHANGED <<queue, lists, refs, log, seg, mode>> => TypeOK'
         /\ UNCHANGED <<queue, lists, refs, seg, mode>> /\ MaybeClear(t) => TypeOK'
<1>1. /\ pc'[t] = "log" /\ \A u \in Threads \ {t} : pc'[u] = pc[u] /\ loc'[u] = loc[u]
      /\ loc'[t] = [op |-> op, queue |-> q, func |-> f, place |-> p, obj |-> o]
  BY DEF Begin, Goto, IInv, TypeOK
<1>2. /\ pc' \in [Threads -> {"idle", "made", "attach", "attached", "test", "log",
                              "swap", "store", "publish", "advance"}]
      /\ loc' \in [Threads -> [op : {"none", "drop", "create", "send", "recv"},
                               queue : Queues \cup {Null},
                               func : {"none", "link", "unlink"}, place : Places,
                               obj : Objs \cup {Null}]]
  BY DEF Begin, Goto, IInv, TypeOK
<1>3. UNCHANGED <<queue, lists, refs, seg, mode>> /\ UNCHANGED log => TypeOK'
  BY <1>2 DEF IInv, TypeOK, queue, lists, refs
<1>4. UNCHANGED <<queue, lists, refs, seg, mode>> /\ MaybeClear(t) => TypeOK'
  BY <1>2, ClearType DEF IInv, TypeOK, queue, lists, refs
<1> QED
  BY <1>1, <1>3, <1>4

LEMMA DropStep ==
  ASSUME IInv, NEW t \in Threads, NEW o \in Objs, Drop(t, o)
  PROVE  IInv'
<1>0. /\ mode[t] = "live" /\ pc[t] = "idle" /\ held[t][o] > 0
      /\ Begin(t, "drop", Null, "unlink", Root, o)
      /\ UNCHANGED <<queue, lists, refs, log, seg, mode>>
  BY DEF Drop, At
<1>1. /\ pc'[t] = "log" /\ \A u \in Threads \ {t} : pc'[u] = pc[u] /\ loc'[u] = loc[u]
      /\ loc'[t] = [op |-> "drop", queue |-> Null, func |-> "unlink", place |-> Root, obj |-> o]
      /\ TypeOK'
  BY <1>0, BeginType DEF Places
<1>2. LocOK(t)' /\ EndsOK(t)'
  BY <1>0, <1>1 DEF LocOK, EndsOK, Busy, Dropping, refs
<1> QED
  BY <1>0, <1>1, <1>2, Quiet DEF Working

LEMMA SendStep ==
  ASSUME IInv, NEW t \in Threads, NEW q \in Queues, NEW o \in Objs, Send(t, q, o)
  PROVE  IInv'
<1>0. /\ mode[t] = "live" /\ pc[t] = "idle" /\ q \in sendList[t] /\ ~Full(q)
      /\ Begin(t, "send", q, "link", <<q, end[q]>>, o)
      /\ UNCHANGED <<queue, lists, refs, log, seg, mode>>
      /\ start[q] \in Cells /\ end[q] \in Cells /\ Sender[q] = t
  BY DEF Send, At, IInv, TypeOK, QueueInv, QueueOK
<1>1. /\ pc'[t] = "log" /\ \A u \in Threads \ {t} : pc'[u] = pc[u] /\ loc'[u] = loc[u]
      /\ loc'[t] = [op |-> "send", queue |-> q, func |-> "link", place |-> <<q, end[q]>>, obj |-> o]
      /\ TypeOK'
  BY <1>0, BeginType, RootIs
<1>2. Succ(end[q]) # start[q]
  BY <1>0, SuccIs, RingAssumption DEF Full, Cells
<1>3. LocOK(t)' /\ EndsOK(t)'
  BY <1>0, <1>1, <1>2 DEF LocOK, EndsOK, Busy, Sending, lists, queue, Succ
<1> QED
  BY <1>0, <1>1, <1>3, Quiet DEF Working

LEMMA NoMessageStep ==
  ASSUME IInv, NEW t \in Threads, NoMessage(t)
  PROVE  IInv'
<1>0. /\ mode[t] = "live" /\ pc[t] = "test"
      /\ UNCHANGED <<queue, lists, refs, log, seg, mode>>
      /\ pc' = [pc EXCEPT ![t] = "idle"] /\ loc' = [loc EXCEPT ![t] = NoLocals]
  BY DEF NoMessage, At, Return, Goto
<1>1. /\ pc'[t] = "idle" /\ \A u \in Threads \ {t} : pc'[u] = pc[u] /\ loc'[u] = loc[u]
  BY <1>0 DEF IInv, TypeOK
<1>2. TypeOK'
  BY <1>0 DEF IInv, TypeOK, NoLocals, Places, queue, lists, refs
<1>3. LocOK(t)' /\ EndsOK(t)'
  BY <1>1 DEF LocOK, EndsOK, Busy
<1> QED
  BY <1>0, <1>1, <1>2, <1>3, Quiet DEF Working

LEMMA UnwrapStep ==
  ASSUME IInv, NEW t \in Threads, NEW q \in Queues, Unwrap(t, q)
  PROVE  IInv'
<1>0. /\ mode[t] = "live" /\ pc[t] = "idle" /\ Receiver[q] = t
      /\ q \in sendList[Sender[q]]
      /\ UNCHANGED <<queue, lists, refs, log, seg, mode>>
      /\ loc' = [loc EXCEPT ![t].op = "recv", ![t].queue = q]
      /\ pc' = [pc EXCEPT ![t] = IF rid[q] = 0 THEN "attach" ELSE "test"]
  BY DEF Unwrap, At, Goto, IInv, QueueInv, QueueOK
<1>1. /\ pc'[t] \in {"attach", "test"}
      /\ \A u \in Threads \ {t} : pc'[u] = pc[u] /\ loc'[u] = loc[u]
      /\ loc'[t].op = "recv" /\ loc'[t].queue = q
  BY <1>0 DEF IInv, TypeOK
<1>2. TypeOK'
  <2> DEFINE R == [op : {"none", "drop", "create", "send", "recv"},
                   queue : Queues \cup {Null},
                   func : {"none", "link", "unlink"}, place : Places,
                   obj : Objs \cup {Null}]
  <2>1. loc[t] \in R /\ loc \in [Threads -> R]
    BY DEF IInv, TypeOK
  <2>2. [loc[t] EXCEPT !.op = "recv", !.queue = q] \in R
    BY <2>1
  <2>3. loc' = [loc EXCEPT ![t] = [loc[t] EXCEPT !.op = "recv", !.queue = q]]
    BY <1>0, <2>1
  <2>4. loc' \in [Threads -> R]
    BY <2>1, <2>2, <2>3
  <2> QED
    BY <1>0, <2>4 DEF IInv, TypeOK, queue, lists, refs
<1>3. LocOK(t)' /\ EndsOK(t)'
  BY <1>0, <1>1 DEF LocOK, EndsOK, Busy, Taking
<1>4. \A r \in Queues : Working(t, r, "attach")' => r \in sendList[Sender[r]]
  BY <1>0, <1>1 DEF Working
<1> QED
  BY <1>0, <1>1, <1>2, <1>3, <1>4, Quiet
(* Registers after ![t].op and ![t].queue are set.                         *)
Registers == [op : {"none", "drop", "create", "send", "recv"},
              queue : Queues \cup {Null}, func : {"none", "link", "unlink"},
              place : Places, obj : Objs \cup {Null}]

LEMMA CreateStep ==
  ASSUME IInv, NEW t \in Threads, NEW q \in Queues, Create(t, q)
  PROVE  IInv'
<1>0. /\ mode[t] = "live" /\ pc[t] = "idle" /\ Sender[q] = t
      /\ UNCHANGED <<start, end, buf, rid, lists, refs, seg, mode>>
      /\ sid' = [sid EXCEPT ![q] = t] /\ MaybeClear(t)
      /\ loc' = [loc EXCEPT ![t].op = "create", ![t].queue = q]
      /\ pc' = [pc EXCEPT ![t] = "made"]
  BY DEF Create, At, Goto
<1>1. /\ pc'[t] = "made" /\ \A u \in Threads \ {t} : pc'[u] = pc[u] /\ loc'[u] = loc[u]
      /\ loc'[t].op = "create" /\ loc'[t].queue = q
  BY <1>0 DEF IInv, TypeOK
<1>2. TypeOK'
  <2>1. loc[t] \in Registers /\ loc \in [Threads -> Registers]
    BY DEF IInv, TypeOK, Registers
  <2>2. [loc[t] EXCEPT !.op = "create", !.queue = q] \in Registers
    BY <2>1 DEF Registers
  <2>3. loc' = [loc EXCEPT ![t] = [loc[t] EXCEPT !.op = "create", !.queue = q]]
    BY <1>0, <2>1
  <2>4. loc' \in [Threads -> Registers]
    BY <2>1, <2>2, <2>3
  <2> QED
    BY <1>0, <2>4, ClearType DEF IInv, TypeOK, lists, refs, Registers
<1>3. LocOK(t)' /\ EndsOK(t)'
  BY <1>0, <1>1 DEF LocOK, EndsOK, Busy
<1>4. LogOK(t)' /\ \A u \in Threads \ {t} : log'[u] = log[u]
  BY <1>0, <1>1, ClearType DEF IInv, LogInv, LogOK, Up, Working, NoLog
<1> QED
  BY <1>0, <1>1, <1>2, <1>3, <1>4, Recorded DEF Working

(* cxl_unwrap reads the first cell: it is a message, and not the one a     *)
(* sender is at.                                                           *)
LEMMA MessageStep ==
  ASSUME IInv, NEW t \in Threads, Message(t)
  PROVE  IInv'
<1> DEFINE q == loc[t].queue
           o == buf[q][start[q]]
<1>0. /\ mode[t] = "live" /\ pc[t] = "test" /\ ~Empty(q)
      /\ Begin(t, "recv", q, "link", Root, o) /\ MaybeClear(t)
      /\ UNCHANGED <<queue, lists, refs, seg, mode>>
  BY DEF Message, At
<1>1. /\ q \in Queues /\ Receiver[q] = t /\ start[q] \in Cells
      /\ start[q] # end[q] /\ o \in Objs
  BY <1>0 DEF IInv, TypeOK, LocInv, LocOK, Taking, Empty
<1>2. /\ pc'[t] = "log" /\ \A u \in Threads \ {t} : pc'[u] = pc[u] /\ loc'[u] = loc[u]
      /\ loc'[t] = [op |-> "recv", queue |-> q, func |-> "link", place |-> Root, obj |-> o]
      /\ TypeOK'
  <2>1. Root \in Places
    BY DEF Places
  <2> HIDE DEF q, o
  <2> QED
    BY <1>0, <1>1, <2>1, BeginType
<1>3. LocOK(t)' /\ EndsOK(t)'
  BY <1>0, <1>1, <1>2 DEF LocOK, EndsOK, Busy, Taking, queue
<1>4. LogOK(t)' /\ \A u \in Threads \ {t} : log'[u] = log[u]
  <2>1. LogOK(t) /\ pc[t] = "test" /\ UNCHANGED <<start, end, buf, mode>>
    BY <1>0 DEF IInv, LogInv, queue
  <2>2. /\ log'[t] \in {log[t], NoLog}
        /\ \A u \in Threads \ {t} : log'[u] = log[u]
    BY <1>0, ClearType DEF IInv
  <2> QED
    BY <1>2, <2>1, <2>2 DEF LogOK, Up, Working, NoLog
<1> QED
  BY <1>0, <1>2, <1>3, <1>4, Recorded DEF Working, queue

LEMMA LogStep ==
  ASSUME IInv, NEW t \in Threads, Log(t)
  PROVE  IInv'
<1> DEFINE e == [func |-> loc[t].func, place |-> loc[t].place, obj |-> loc[t].obj,
                 done |-> FALSE]
<1>0. /\ mode[t] = "live" /\ pc[t] = "log"
      /\ log' = [log EXCEPT ![t] = e] /\ pc' = [pc EXCEPT ![t] = "swap"]
      /\ UNCHANGED <<queue, lists, refs, seg, loc, mode>>
  BY DEF Log, At, Goto
<1>1. LocOK(t) /\ Busy(t)
  BY <1>0 DEF IInv, LocInv, Busy
<1>2. e \in Records /\ loc[t].obj \in Objs
  BY <1>1 DEF IInv, TypeOK, Records, LocOK
<1>3. TypeOK'
  BY <1>0, <1>2 DEF IInv, TypeOK, queue, lists, refs, Records
<1>4. /\ pc'[t] = "swap" /\ log'[t] = e
      /\ \A u \in Threads \ {t} : pc'[u] = pc[u] /\ loc'[u] = loc[u] /\ log'[u] = log[u]
  BY <1>0 DEF IInv, TypeOK
<1>5. LocOK(t)' /\ EndsOK(t)'
  BY <1>0, <1>1, <1>4, Calm DEF LocOK, EndsOK, Busy, Taking, Sending, Dropping, queue, lists, refs,
     IInv, RingInv
<1>7. /\ log'[t].func = loc[t].func /\ log'[t].place = loc[t].place
      /\ log'[t].obj = loc[t].obj /\ log'[t].done = FALSE
      /\ pc'[t] = "swap" /\ loc' = loc /\ loc[t].obj \in Objs
  BY <1>0, <1>2, <1>4
<1>6. LogOK(t)'
  <2>1. CASE loc[t].place = Root
    BY <1>7, <2>1 DEF LogOK
  <2>2. CASE Taking(t) /\ loc[t].func = "unlink" /\ loc[t].place = <<loc[t].queue, start[loc[t].queue]>>
    <3>1. log'[t].place[1] = loc[t].queue /\ log'[t].place[2] = start[loc[t].queue]
      BY <1>7, <2>2
    <3> QED
      BY <1>7, <2>2, <3>1 DEF LogOK, Taking
  <2>3. CASE Sending(t) /\ loc[t].func = "link" /\ loc[t].place = <<loc[t].queue, end[loc[t].queue]>>
    <3>1. end[loc[t].queue] \in Cells /\ start[loc[t].queue] \in Cells
      BY <2>3 DEF IInv, TypeOK, Sending
    <3>2. buf[loc[t].queue][end[loc[t].queue]] = Null
      BY <1>0, <2>3, <3>1, Calm, BetweenMoves DEF IInv, RingSound, IsMessage, Working, Sending
    <3>3. log'[t].place[1] = loc[t].queue /\ log'[t].place[2] = end[loc[t].queue]
      BY <1>7, <2>3
    <3> QED
      BY <1>0, <1>7, <2>3, <3>3, <3>1, <3>2 DEF LogOK, Sending, queue
  <2> QED
    BY <1>1, <2>1, <2>2, <2>3 DEF LocOK, Dropping
<1> QED
  BY <1>0, <1>3, <1>4, <1>5, <1>6, Recorded DEF Working, queue
(* A step that enters a queue in a list, or a receiver in a queue.         *)
LEMMA Entered ==
  ASSUME IInv, NEW t \in Threads, mode[t] = "live", TypeOK',
         UNCHANGED <<start, end, buf, refs, log, seg, mode>>,
         \A u \in Threads \ {t} : /\ pc'[u] = pc[u] /\ loc'[u] = loc[u]
                                  /\ sendList'[u] = sendList[u] /\ recvList'[u] = recvList[u],
         sendList[t] \subseteq sendList'[t],
         pc[t] \in {"made", "attach", "attached"}, pc'[t] \in {"idle", "attached", "test"},
         LocOK(t)', QueueInv'
  PROVE  IInv'
<1>0. Alone(t)
  BY DEF Alone, refs
<1>1. LocInv'
  BY <1>0, LocFrame DEF IInv
<1>2. PhaseInv' /\ FreedEmpty' /\ CoverInv'
  BY <1>0, Calm, PhaseFrame, FreedFrame DEF IInv
<1>3. LogInv'
  <2>1. LogOK(t)'
    BY DEF IInv, LogInv, LogOK, Up, Working
  <2> QED
    BY <1>0, <2>1, LogFrame DEF IInv
<1>4. RingSound' /\ RingInv'
  <2>1. EndsOK(t)'
    BY DEF EndsOK, Busy
  <2> QED
    BY <1>0, <2>1, RingFrame, EndsAssumption DEF IInv
<1>5. CountExact'
  BY <1>0, CountFrame DEF IInv, refs
<1> QED
  BY <1>1, <1>2, <1>3, <1>4, <1>5 DEF IInv

LEMMA LinkQueueStep ==
  ASSUME IInv, NEW t \in Threads, LinkQueue(t)
  PROVE  IInv'
<1> DEFINE q == loc[t].queue
<1>0. /\ mode[t] = "live" /\ pc[t] = "made"
      /\ sendList' = [sendList EXCEPT ![t] = @ \cup {q}]
      /\ pc' = [pc EXCEPT ![t] = "idle"] /\ loc' = [loc EXCEPT ![t] = NoLocals]
      /\ UNCHANGED <<queue, recvList, refs, log, seg, mode>>
  BY DEF LinkQueue, At, Return, Goto
<1>1. q \in Queues /\ Sender[q] = t
  BY <1>0 DEF IInv, LocInv, LocOK
<1>2. TypeOK'
  BY <1>0, <1>1 DEF IInv, TypeOK, queue, refs, NoLocals, Places
<1>3. /\ pc'[t] = "idle" /\ sendList'[t] = sendList[t] \cup {q}
      /\ \A u \in Threads \ {t} : /\ pc'[u] = pc[u] /\ loc'[u] = loc[u]
                                  /\ sendList'[u] = sendList[u]
  BY <1>0 DEF IInv, TypeOK
<1>4. LocOK(t)'
  BY <1>3 DEF LocOK, Busy
<1>5. QueueInv'
  <2>1. \A r \in Queues : Keeps(r) => Keeps(r)'
    BY <1>0, <1>3, EndsAssumption DEF Keeps
  <2>2. \A r \in Queues, u \in Threads : Working(u, r, "attach")' => Working(u, r, "attach")
    BY <1>3 DEF Working
  <2>3. \A r \in Queues, u \in Threads : r \in sendList'[u] => Sender[r] = u
    BY <1>1, <1>3 DEF IInv, QueueInv, QueueOK
  <2> QED
    BY <1>0, <2>1, <2>2, <2>3 DEF IInv, QueueInv, QueueOK, queue
<1> QED
  BY <1>0, <1>2, <1>3, <1>4, <1>5, Entered DEF queue

LEMMA AttachListStep ==
  ASSUME IInv, NEW t \in Threads, AttachList(t)
  PROVE  IInv'
<1> DEFINE q == loc[t].queue
<1>0. /\ mode[t] = "live" /\ pc[t] = "attach"
      /\ recvList' = [recvList EXCEPT ![t] = @ \cup {q}]
      /\ pc' = [pc EXCEPT ![t] = "attached"]
      /\ UNCHANGED <<queue, sendList, refs, log, seg, loc, mode>>
  BY DEF AttachList, At, Goto
<1>1. q \in Queues /\ Receiver[q] = t /\ Taking(t)
  BY <1>0 DEF IInv, LocInv, LocOK, Taking
<1>2. TypeOK'
  BY <1>0, <1>1 DEF IInv, TypeOK, queue, refs
<1>3. /\ pc'[t] = "attached" /\ recvList'[t] = recvList[t] \cup {q}
      /\ \A u \in Threads \ {t} : pc'[u] = pc[u] /\ recvList'[u] = recvList[u]
  BY <1>0 DEF IInv, TypeOK
<1>4. LocOK(t)'
  BY <1>0, <1>1, <1>3 DEF LocOK, Busy, Taking
<1>5. QueueInv'
  <2>1. \A r \in Queues : Keeps(r)' <=> Keeps(r)
    BY <1>0 DEF Keeps
  <2>2. \A r \in Queues, u \in Threads : Working(u, r, "attach")' => Working(u, r, "attach")
    BY <1>0, <1>3 DEF Working
  <2>3. Keeps(q)
    BY <1>0, <1>1 DEF IInv, QueueInv, QueueOK, Working
  <2>4. \A r \in Queues, u \in Threads : r \in recvList'[u] => Receiver[r] = u /\ Keeps(r)
    BY <1>1, <1>3, <2>3 DEF IInv, QueueInv, QueueOK
  <2>5. \A r \in Queues : rid'[r] # 0 => r \in recvList'[Receiver[r]]
    BY <1>0, <1>3, EndsAssumption DEF IInv, QueueInv, QueueOK, queue
  <2> QED
    BY <1>0, <2>1, <2>2, <2>4, <2>5 DEF IInv, QueueInv, QueueOK
<1> QED
  BY <1>0, <1>2, <1>3, <1>4, <1>5, Entered DEF queue

LEMMA AttachIdStep ==
  ASSUME IInv, NEW t \in Threads, AttachId(t)
  PROVE  IInv'
<1> DEFINE q == loc[t].queue
<1>0. /\ mode[t] = "live" /\ pc[t] = "attached"
      /\ rid' = [rid EXCEPT ![q] = t]
      /\ pc' = [pc EXCEPT ![t] = "test"]
      /\ UNCHANGED <<start, end, buf, sid, lists, refs, log, seg, loc, mode>>
  BY DEF AttachId, At, Goto
<1>1. q \in Queues /\ Receiver[q] = t /\ Taking(t) /\ q \in recvList[t]
  BY <1>0 DEF IInv, LocInv, LocOK, Taking
<1>2. TypeOK'
  BY <1>0, <1>1 DEF IInv, TypeOK, refs, lists
<1>3. pc'[t] = "test" /\ \A u \in Threads \ {t} : pc'[u] = pc[u]
  BY <1>0 DEF IInv, TypeOK
<1>4. LocOK(t)'
  BY <1>0, <1>1, <1>3 DEF LocOK, Busy, Taking
<1>5. QueueInv'
  <2>1. \A r \in Queues : Keeps(r)' <=> Keeps(r)
    BY <1>0 DEF Keeps, lists
  <2>2. \A r \in Queues, u \in Threads : Working(u, r, "attach")' => Working(u, r, "attach")
    BY <1>0, <1>3 DEF Working
  <2>3. \A r \in Queues : rid'[r] # 0 => r \in recvList[Receiver[r]]
    BY <1>0, <1>1 DEF IInv, QueueInv, QueueOK, TypeOK
  <2> QED
    BY <1>0, <2>1, <2>2, <2>3 DEF IInv, QueueInv, QueueOK, lists
<1> QED
  BY <1>0, <1>2, <1>3, <1>4, <1>5, Entered DEF lists

(* A stop changes nothing but the phase of the thread.                     *)
LEMMA CrashStep ==
  ASSUME IInv, NEW t \in Threads, Crash(t)
  PROVE  IInv'
<1>0. /\ mode[t] = "live" /\ mode' = [mode EXCEPT ![t] = "crashed"]
      /\ UNCHANGED <<queue, lists, refs, log, seg, pc, loc>>
  BY DEF Crash
<1>1. /\ mode'[t] = "crashed" /\ \A u \in Threads \ {t} : mode'[u] = mode[u]
      /\ Undisturbed /\ Undisturbed'
      /\ \A u \in Threads : (Up(u)' <=> Up(u)) /\ Up(u) /\ seg[u] = "normal"
  BY <1>0 DEF IInv, TypeOK, PhaseInv, PhaseOK, Undisturbed, Up
<1>2. TypeOK'
  BY <1>0 DEF IInv, TypeOK, queue, lists, refs
<1>3. LocInv'
  BY <1>0 DEF IInv, LocInv, LocOK, queue, lists, refs, Taking, Sending, Dropping, Busy
<1>4. PhaseInv'
  BY <1>0, <1>1 DEF IInv, PhaseInv, PhaseOK, NoRoots, lists, refs
<1>5. LogInv'
  BY <1>0, <1>1 DEF IInv, LogInv, LogOK, Working, queue
<1>6. RingSound' /\ RingInv'
  <2>1. RingSound'
    BY <1>0, <1>1 DEF IInv, RingSound, IsMessage, Between, Working, queue
  <2>2. RingInv'
    BY <1>0, <1>1 DEF IInv, RingInv, EndsOK, Known, Busy, queue, lists
  <2> QED
    BY <2>1, <2>2
<1>7. CountExact'
  <2>1. \A u \in Threads : \A f, p, o : Pending(u, f, p, o)' <=> Pending(u, f, p, o)
    BY <1>0 DEF Pending
  <2>2. \A o : OwnedBy(o)' = OwnedBy(o) /\ CellRefs(o)' = CellRefs(o)
    BY <1>0, <2>1 DEF OwnedBy, Owned, CellRefs, queue, refs
  <2> QED
    BY <1>0, <1>1, <2>2 DEF IInv, CountExact, refs
<1>8. QueueInv' /\ FreedEmpty' /\ CoverInv'
  <2>1. FreedEmpty' /\ CoverInv'
    BY <1>0, <1>1 DEF FreedEmpty, CoverInv
  <2>2. QueueInv'
    BY <1>0 DEF IInv, QueueInv, QueueOK, Keeps, Working, queue, lists
  <2> QED
    BY <2>1, <2>2
<1> QED
  BY <1>2, <1>3, <1>4, <1>5, <1>6, <1>7, <1>8 DEF IInv
(* sent_to publishes the cell it has filled.                               *)
LEMMA PublishStep ==
  ASSUME IInv, NEW t \in Threads, Publish(t)
  PROVE  IInv'
<1>q. PICK q \in Queues : q = loc[t].queue
  BY DEF Publish, At, IInv, LocInv, LocOK, Sending
<1>0. /\ mode[t] = "live" /\ pc[t] = "publish" /\ loc[t].queue = q
      /\ end' = [end EXCEPT ![q] = Succ(@)]
      /\ pc' = [pc EXCEPT ![t] = "idle"] /\ loc' = [loc EXCEPT ![t] = NoLocals]
      /\ UNCHANGED <<start, buf, sid, rid, lists, refs, log, seg, mode>>
  BY <1>q DEF Publish, At, Return, Goto
<1>1. /\ q \in Queues /\ Sender[q] = t /\ end[q] \in Cells /\ start[q] \in Cells
      /\ Succ(end[q]) # start[q] /\ Undisturbed /\ Undisturbed'
      /\ RingSound /\ \A u \in Threads : EndsOK(u)
  BY <1>0, Calm DEF IInv, TypeOK, LocInv, LocOK, Sending, RingInv, EndsOK
<1>2. TypeOK'
  BY <1>0, <1>1, SuccMoves DEF IInv, TypeOK, refs, lists, NoLocals, Places
<1>3. /\ pc'[t] = "idle" /\ end'[q] = Succ(end[q])
      /\ \A u \in Threads \ {t} : pc'[u] = pc[u] /\ loc'[u] = loc[u]
      /\ \A r \in Queues \ {q} : end'[r] = end[r]
  BY <1>0, <1>1 DEF IInv, TypeOK
<1>4. Alone(t)
  BY <1>0, <1>1, <1>3 DEF Alone, refs, lists
<1>5. LocInv'
  BY <1>3, <1>4, LocFrame DEF IInv, LocOK, Busy
<1>6. LogInv'
  <2>1. LogOK(t)'
    BY <1>0, <1>3 DEF IInv, LogInv, LogOK, Up, Working
  <2> QED
    BY <1>0, <1>4, <2>1, LogFrame DEF IInv
<1>7. PhaseInv' /\ FreedEmpty' /\ CoverInv'
  BY <1>0, <1>4, Calm, PhaseFrame, FreedFrame DEF IInv
<1>8. RingSound'
  <2>1. \A u \in Threads : \A r : Working(u, r, "advance")' <=> Working(u, r, "advance")
    BY <1>0, <1>3 DEF Working
  <2>2. \A u \in Threads : \A r : Working(u, r, "publish")' <=> Working(u, r, "publish") /\ u # t
    BY <1>3 DEF Working
  <2>3. ASSUME NEW r \in Queues, NEW k \in Cells
        PROVE  buf'[r][k] # Null
                 <=> IsMessage(r, k)' \/ (k = end'[r] /\ Working(Sender[r], r, "publish")')
    <3>1. buf[r][k] # Null
            <=> IsMessage(r, k) \/ (k = end[r] /\ Working(Sender[r], r, "publish"))
      BY <1>1 DEF RingSound
    <3>2. CASE r = q
      <4>1. k \in Between(start[q], Succ(end[q])) <=> k \in Between(start[q], end[q]) \/ k = end[q]
        BY <1>1, BetweenMoves
      <4>2. IsMessage(r, k)' <=> /\ k \in Between(start[q], Succ(end[q]))
                                 /\ ~(k = start[q] /\ Working(Receiver[r], r, "advance"))
        BY <1>0, <1>1, <1>3, <2>1, <3>2, EndsAssumption DEF IsMessage
      <4>3. Working(Sender[r], r, "publish") /\ ~Working(Sender[r], r, "publish")'
        BY <1>0, <1>1, <1>3, <3>2 DEF Working
      <4>4. IsMessage(r, k) <=> /\ k \in Between(start[q], end[q])
                                /\ ~(k = start[q] /\ Working(Receiver[r], r, "advance"))
        BY <3>2 DEF IsMessage
      <4>5. Working(Receiver[r], r, "advance") => start[q] # end[q]
        BY <1>1, <3>2, EndsAssumption DEF EndsOK, Working
      <4>6. buf'[r][k] # Null <=> IsMessage(r, k) \/ k = end[q]
        BY <1>0, <3>1, <3>2, <4>3
      <4>7. IsMessage(r, k)' <=> IsMessage(r, k) \/ k = end[q]
        BY <4>1, <4>2, <4>4, <4>5
      <4> QED
        BY <4>3, <4>6, <4>7
    <3>3. CASE r # q
      <4>1. Working(Sender[r], r, "publish")' <=> Working(Sender[r], r, "publish")
        BY <1>0, <2>2, <3>3, EndsAssumption DEF Working
      <4>2. IsMessage(r, k)' <=> IsMessage(r, k)
        BY <1>0, <1>3, <2>1, <3>3, EndsAssumption DEF IsMessage, Between, Cells
      <4> QED
        BY <1>0, <1>3, <3>1, <3>3, <4>1, <4>2
    <3> QED
      BY <3>2, <3>3
  <2> QED
    BY <2>3 DEF RingSound
<1>9. RingInv'
  <2>1. ASSUME NEW u \in Threads \ {t} PROVE EndsOK(u)'
    <3>1. EndsOK(u) /\ LocOK(u) /\ pc'[u] = pc[u] /\ loc'[u] = loc[u]
      BY <1>1, <1>3 DEF IInv, LocInv
    <3>2. (Busy(u) \/ pc[u] = "publish") /\ loc[u].op = "send"
             => loc[u].queue \in Queues \ {q}
      BY <1>1, <3>1 DEF LocOK, Sending, Busy, Dropping, Taking
    <3>3. (Busy(u) /\ loc[u].op = "recv") \/ pc[u] = "advance" => loc[u].queue \in Queues
      BY <3>1 DEF LocOK, Sending, Busy, Dropping, Taking
    <3> QED
      BY <1>0, <1>1, <1>3, <3>1, <3>2, <3>3 DEF EndsOK, Busy, lists
  <2>2. EndsOK(t)'
    BY <1>3 DEF EndsOK, Busy
  <2>3. \A r \in Queues : Known(r)'
    BY <1>0, <1>1 DEF IInv, RingInv, Known, lists
  <2> QED
    BY <2>1, <2>2, <2>3 DEF RingInv
<1>10. CountExact'
  BY <1>0, <1>3, <1>4, CountFrame DEF IInv, refs
<1>11. QueueInv'
  BY <1>0, <1>3, <1>4, QueueFrame DEF IInv, lists, Working
<1> QED
  BY <1>2, <1>5, <1>6, <1>7, <1>8, <1>9, <1>10, <1>11 DEF IInv

(* cxl_unwrap gives the cell it has emptied back.                          *)
LEMMA AdvanceStep ==
  ASSUME IInv, NEW t \in Threads, Advance(t)
  PROVE  IInv'
<1>q. PICK q \in Queues : q = loc[t].queue
  BY DEF Advance, At, IInv, LocInv, LocOK, Taking
<1>0. /\ mode[t] = "live" /\ pc[t] = "advance" /\ loc[t].queue = q
      /\ start' = [start EXCEPT ![q] = Succ(@)]
      /\ pc' = [pc EXCEPT ![t] = "idle"] /\ loc' = [loc EXCEPT ![t] = NoLocals]
      /\ UNCHANGED <<end, buf, sid, rid, lists, refs, log, seg, mode>>
  BY <1>q DEF Advance, At, Return, Goto
<1>1. /\ q \in Queues /\ Receiver[q] = t /\ end[q] \in Cells /\ start[q] \in Cells
      /\ start[q] # end[q] /\ Undisturbed /\ Undisturbed'
      /\ RingSound /\ \A u \in Threads : EndsOK(u)
  BY <1>0, Calm DEF IInv, TypeOK, LocInv, LocOK, Taking, RingInv, EndsOK
<1>2. TypeOK'
  BY <1>0, <1>1, SuccMoves DEF IInv, TypeOK, refs, lists, NoLocals, Places
<1>3. /\ pc'[t] = "idle" /\ start'[q] = Succ(start[q])
      /\ \A u \in Threads \ {t} : pc'[u] = pc[u] /\ loc'[u] = loc[u]
      /\ \A r \in Queues \ {q} : start'[r] = start[r]
  BY <1>0, <1>1 DEF IInv, TypeOK
<1>4. Alone(t)
  BY <1>0, <1>1, <1>3 DEF Alone, refs, lists
<1>5. LocInv'
  BY <1>3, <1>4, LocFrame DEF IInv, LocOK, Busy
<1>6. LogInv'
  <2>1. LogOK(t) /\ Working(t, q, "advance")
    BY <1>0 DEF IInv, LogInv, Working
  <2>2. \A r : r # q => ~Working(t, r, "advance")
    BY <1>0 DEF Working
  <2>3. \A r : ~Working(t, r, "advance")'
    BY <1>3 DEF Working
  <2>4. log[t].place # Root => log[t].place[1] \in Queues
    BY PlaceIs DEF IInv, TypeOK
  <2>5. LogOK(t)'
    BY <1>0, <1>3, <2>1, <2>2, <2>3, <2>4 DEF LogOK, Up, Succ
  <2> QED
    BY <1>0, <1>4, <2>5, LogFrame DEF IInv
<1>7. PhaseInv' /\ FreedEmpty' /\ CoverInv'
  BY <1>0, <1>4, Calm, PhaseFrame, FreedFrame DEF IInv
<1>8. RingSound'
  <2>1. \A u \in Threads : \A r : Working(u, r, "publish")' <=> Working(u, r, "publish")
    BY <1>0, <1>3 DEF Working
  <2>2. \A u \in Threads : \A r : Working(u, r, "advance")' <=> Working(u, r, "advance") /\ u # t
    BY <1>3 DEF Working
  <2>3. ASSUME NEW r \in Queues, NEW k \in Cells
        PROVE  buf'[r][k] # Null
                 <=> IsMessage(r, k)' \/ (k = end'[r] /\ Working(Sender[r], r, "publish")')
    <3>1. buf[r][k] # Null
            <=> IsMessage(r, k) \/ (k = end[r] /\ Working(Sender[r], r, "publish"))
      BY <1>1 DEF RingSound
    <3>2. CASE r = q
      <4>1. k \in Between(Succ(start[q]), end[q]) <=> k \in Between(start[q], end[q]) /\ k # start[q]
        BY <1>1, BetweenMoves
      <4>2. Working(Receiver[r], r, "advance") /\ ~Working(Receiver[r], r, "advance")'
        BY <1>0, <1>1, <1>3, <3>2 DEF Working
      <4>3. IsMessage(r, k)' <=> k \in Between(Succ(start[q]), end[q])
        BY <1>0, <1>1, <1>3, <3>2, <4>2 DEF IsMessage
      <4>4. IsMessage(r, k) <=> k \in Between(start[q], end[q]) /\ k # start[q]
        BY <3>2, <4>2 DEF IsMessage
      <4>5. Working(Sender[r], r, "publish")' <=> Working(Sender[r], r, "publish")
        BY <2>1, EndsAssumption
      <4>6. IsMessage(r, k)' <=> IsMessage(r, k)
        BY <4>1, <4>3, <4>4
      <4> QED
        BY <1>0, <3>1, <4>5, <4>6
    <3>3. CASE r # q
      <4>1. Working(Receiver[r], r, "advance")' <=> Working(Receiver[r], r, "advance")
        BY <1>0, <2>2, <3>3, EndsAssumption DEF Working
      <4>2. IsMessage(r, k)' <=> IsMessage(r, k)
        BY <1>0, <1>3, <4>1, <3>3, EndsAssumption DEF IsMessage, Between, Cells
      <4> QED
        BY <1>0, <1>3, <2>1, <3>1, <3>3, <4>2, EndsAssumption
    <3> QED
      BY <3>2, <3>3
  <2> QED
    BY <2>3 DEF RingSound
<1>9. RingInv'
  <2>1. ASSUME NEW u \in Threads \ {t} PROVE EndsOK(u)'
    <3>1. EndsOK(u) /\ LocOK(u) /\ pc'[u] = pc[u] /\ loc'[u] = loc[u]
      BY <1>1, <1>3 DEF IInv, LocInv
    <3>2. (Busy(u) /\ loc[u].op = "recv") \/ pc[u] = "advance" => loc[u].queue \in Queues \ {q}
      BY <1>1, <3>1 DEF LocOK, Sending, Busy, Dropping, Taking
    <3>3. (Busy(u) \/ pc[u] = "publish") /\ loc[u].op = "send" => loc[u].queue \in Queues
      BY <3>1 DEF LocOK, Sending, Busy, Dropping, Taking
    <3>4. Succ(end[q]) # Succ(start[q])
      BY <1>1, SuccMoves
    <3> QED
      BY <1>0, <1>1, <1>3, <3>1, <3>2, <3>3, <3>4 DEF EndsOK, Busy, lists, Succ
  <2>2. EndsOK(t)'
    BY <1>3 DEF EndsOK, Busy
  <2>3. \A r \in Queues : Known(r)'
    BY <1>0, <1>1 DEF IInv, RingInv, Known, lists
  <2> QED
    BY <2>1, <2>2, <2>3 DEF RingInv
<1>10. CountExact'
  BY <1>0, <1>3, <1>4, CountFrame DEF IInv, refs
<1>11. QueueInv'
  BY <1>0, <1>3, <1>4, QueueFrame DEF IInv, lists, Working
<1> QED
  BY <1>2, <1>5, <1>6, <1>7, <1>8, <1>9, <1>10, <1>11 DEF IInv
(* An allocation: the first reference to an object that has none.          *)
LEMMA AllocStep ==
  ASSUME IInv, NEW t \in Threads, NEW o \in Objs, Alloc(t, o)
  PROVE  IInv'
<1>0. /\ mode[t] = "live" /\ pc[t] = "idle" /\ count[o] = 0
      /\ count' = [count EXCEPT ![o] = 1] /\ held' = [held EXCEPT ![t][o] = @ + 1]
      /\ MaybeClear(t)
      /\ UNCHANGED <<start, end, buf, sid, rid, sendList, recvList, seg, pc, loc, mode>>
  BY DEF Alloc, At, queue, lists
<1>1. /\ held[t] \in [Objs -> Nat] /\ held \in [Threads -> [Objs -> Nat]]
      /\ count \in [Objs -> Nat]
  BY DEF IInv, TypeOK
<1>2. /\ held'[t][o] = held[t][o] + 1 /\ held' \in [Threads -> [Objs -> Nat]]
      /\ \A u \in Threads, x \in Objs : u # t \/ x # o => held'[u][x] = held[u][x]
      /\ \A u \in Threads \ {t} : held'[u] = held[u]
  BY <1>0, <1>1
<1>3. TypeOK'
  BY <1>0, <1>1, <1>2, ClearType DEF IInv, TypeOK
<1>4. Alone(t)
  BY <1>0, <1>2, ClearType DEF Alone, IInv
<1>5. LocInv'
  BY <1>0, <1>4, LocFrame DEF IInv, LocOK, Busy
<1>6. LogInv'
  <2>1. LogOK(t)'
    BY <1>0, ClearType DEF IInv, LogInv, LogOK, Up, Working, NoLog
  <2> QED
    BY <1>0, <1>4, <2>1, LogFrame DEF IInv
<1>7. PhaseInv' /\ FreedEmpty' /\ CoverInv'
  BY <1>0, <1>4, Calm, PhaseFrame, FreedFrame DEF IInv
<1>8. RingSound' /\ RingInv'
  <2>1. EndsOK(t)'
    BY <1>0 DEF EndsOK, Busy
  <2> QED
    BY <1>0, <1>4, <2>1, RingFrame, EndsAssumption DEF IInv
<1>9. CountExact'
  <2>1. \A u \in Threads : \A f, p, x : Pending(u, f, p, x)' <=> Pending(u, f, p, x)
    BY <1>0 DEF Pending
  <2>2. \A x : CellRefs(x)' = CellRefs(x)
    BY <1>0, <2>1 DEF CellRefs
  <2>3. \A u \in Threads, x \in Objs :
          Owned(u, x)' = Owned(u, x) + (IF u = t /\ x = o THEN 1 ELSE 0)
    <3> TAKE u \in Threads, x \in Objs
    <3>1. held[u][x] \in Nat
      BY <1>1
    <3> QED
      BY <1>2, <2>1, <3>1 DEF Owned
  <2>4. \A x \in Objs : OwnedBy(x) \in [Threads -> Nat]
    BY OwnedType DEF IInv
  <2>5. \A x \in Objs \ {o} : OwnedBy(x)' = OwnedBy(x)
    <3> TAKE x \in Objs \ {o}
    <3>1. \A u \in Threads : Owned(u, x)' = Owned(u, x)
      <4> TAKE u \in Threads
      <4>1. Owned(u, x) \in Nat
        BY <2>4 DEF OwnedBy
      <4> QED
        BY <2>3, <4>1
    <3> QED
      BY <3>1 DEF OwnedBy
  <2>6. OwnedBy(o)' = [OwnedBy(o) EXCEPT ![t] = @ + 1]
    <3>1. \A u \in Threads : Owned(u, o) \in Nat
      BY <2>4 DEF OwnedBy
    <3>2. \A u \in Threads : Owned(u, o)' = IF u = t THEN Owned(u, o) + 1 ELSE Owned(u, o)
      BY <2>3, <3>1
    <3> QED
      BY <3>2 DEF OwnedBy
  <2>7. Total(OwnedBy(o)') = Total(OwnedBy(o)) + 1
    BY <2>4, <2>6, TotalUp
  <2>8. Total(OwnedBy(o)) \in Nat /\ Cardinality(CellRefs(o)) \in Nat
    <3>1. IsFiniteSet(CellRefs(o))
      BY CellsFinite DEF CellRefs
    <3> QED
      BY <2>4, <3>1, TotalType, FS_CardinalityType
  <2>9. Undisturbed
    BY <1>0, Calm
  <2>10. count'[o] = Total(OwnedBy(o))' + Cardinality(CellRefs(o))'
    <3>1. Total(OwnedBy(o))' = Total(OwnedBy(o)')
      BY DEF Total
    <3>2. count'[o] = 1
      BY <1>0, <1>1
    <3>3. 0 = Total(OwnedBy(o)) + Cardinality(CellRefs(o))
      BY <1>0, <2>9 DEF IInv, CountExact
    <3> QED
      BY <2>2, <2>7, <2>8, <3>1, <3>2, <3>3
  <2>11. \A x \in Objs \ {o} : count'[x] = Total(OwnedBy(x))' + Cardinality(CellRefs(x))'
    <3> TAKE x \in Objs \ {o}
    <3>1. count'[x] = count[x]
      BY <1>0, <1>1
    <3>2. Total(OwnedBy(x))' = Total(OwnedBy(x))
      BY <2>5 DEF Total
    <3> QED
      BY <2>2, <2>9, <3>1, <3>2 DEF IInv, CountExact
  <2> QED
    BY <2>10, <2>11 DEF CountExact
<1>10. QueueInv'
  BY <1>0, <1>4, QueueFrame DEF IInv, Working
<1> QED
  BY <1>3, <1>5, <1>6, <1>7, <1>8, <1>9, <1>10 DEF IInv
(* How many cells refer to an object is a natural number.                  *)
LEMMA RefsType ==
  ASSUME TypeOK, LocInv, NEW o \in Objs
  PROVE  /\ IsFiniteSet(CellRefs(o)) /\ Cardinality(CellRefs(o)) \in Nat
         /\ Total(OwnedBy(o)) \in Nat
<1>1. IsFiniteSet(CellRefs(o))
  BY CellsFinite DEF CellRefs
<1> QED
  BY <1>1, OwnedType, TotalType, FS_CardinalityType

(* The swap counts a reference that is not stored yet, or one no more that *)
(* is stored still.                                                        *)
LEMMA SwapStep ==
  ASSUME IInv, NEW t \in Threads, Swap(t)
  PROVE  IInv'
<1>o. PICK o \in Objs : o = loc[t].obj
  BY DEF Swap, At, IInv, LocInv, LocOK, Busy
<1>0. /\ mode[t] = "live" /\ pc[t] = "swap" /\ pc' = [pc EXCEPT ![t] = "store"]
      /\ count' = [count EXCEPT ![o] = IF loc[t].func = "link" THEN @ + 1 ELSE @ - 1]
      /\ log' = [log EXCEPT ![t].done = TRUE]
      /\ UNCHANGED <<start, end, buf, sid, rid, sendList, recvList, held, seg, loc, mode>>
      /\ LocOK(t) /\ LogOK(t) /\ Busy(t)
  BY <1>o DEF Swap, At, Goto, queue, lists, Busy, IInv, LocInv, LogInv
<1>1. Undisturbed /\ EndsOK(t) /\ RingSound /\ CountExact /\ TypeOK /\ LocInv
  BY <1>0, Calm DEF IInv, RingInv
<1>2. /\ pc'[t] = "store" /\ \A u \in Threads \ {t} : pc'[u] = pc[u] /\ log'[u] = log[u]
      /\ log'[t] = [log[t] EXCEPT !.done = TRUE]
      /\ log'[t].func = log[t].func /\ log'[t].place = log[t].place
      /\ log'[t].obj = log[t].obj /\ log'[t].done = TRUE
  BY <1>0, <1>1 DEF TypeOK
<1>3. Alone(t)
  BY <1>0, <1>2 DEF Alone
<1>4. \A u \in Threads : \A f, p, x :
        Pending(u, f, p, x)' <=> \/ Pending(u, f, p, x)
                                 \/ u = t /\ f = loc[t].func /\ p = loc[t].place /\ x = o
  BY <1>0, <1>2, <1>o DEF Pending
<1>5. \A f, p, x : ~Pending(t, f, p, x)
  BY <1>0 DEF Pending
<1>6. \A x \in Objs : /\ count[x] = Total(OwnedBy(x)) + Cardinality(CellRefs(x))
                      /\ OwnedBy(x) \in [Threads -> Nat] /\ held[t][x] \in Nat
                      /\ IsFiniteSet(CellRefs(x)) /\ Cardinality(CellRefs(x)) \in Nat
                      /\ Total(OwnedBy(x)) \in Nat /\ count[x] \in Nat
  BY <1>1, RefsType, OwnedType DEF CountExact, TypeOK
<1>7. ASSUME NEW x \in Objs \ {o}
      PROVE  count'[x] = Total(OwnedBy(x)') + Cardinality(CellRefs(x)')
  <2>1. \A u \in Threads : \A f, p : Pending(u, f, p, x)' <=> Pending(u, f, p, x)
    BY <1>4
  <2>2. OwnedBy(x)' = OwnedBy(x) /\ CellRefs(x)' = CellRefs(x)
    BY <1>0, <2>1 DEF OwnedBy, Owned, CellRefs
  <2> QED
    BY <1>0, <1>1, <1>6, <2>2 DEF TypeOK
<1>8. /\ count'[o] = Total(OwnedBy(o)') + Cardinality(CellRefs(o)')
      /\ count'[o] \in Nat
  <2>0. count'[o] = IF loc[t].func = "link" THEN count[o] + 1 ELSE count[o] - 1
    BY <1>0, <1>1 DEF TypeOK
  <2>1. CASE loc[t].place = Root
    <3>1. CellRefs(o)' = CellRefs(o)
      <4>1. \A u \in Threads : \A f, c : c \in Queues \X Cells =>
              (Pending(u, f, c, o)' <=> Pending(u, f, c, o))
        BY <1>4, <2>1, RootIs
      <4> QED
        BY <1>0, <4>1 DEF CellRefs
    <3>2. \A u \in Threads \ {t} : Owned(u, o)' = Owned(u, o)
      <4>1. \A u \in Threads \ {t} : \A f : Pending(u, f, Root, o)' <=> Pending(u, f, Root, o)
        BY <1>4
      <4> QED
        BY <1>0, <4>1 DEF Owned
    <3>3. Owned(t, o) = held[t][o] /\ OwnedBy(o)[t] = held[t][o]
      <4>1. OwnedBy(o)[t] = Owned(t, o)
        BY DEF OwnedBy
      <4>2. Owned(t, o) = held[t][o]
        BY <1>5, <1>6 DEF Owned
      <4> QED
        BY <4>1, <4>2
    <3>4. CASE loc[t].func = "link"
      <4>1. Owned(t, o)' = Owned(t, o) + 1
        BY <1>0, <1>4, <1>5, <1>6, <2>1, <3>3, <3>4 DEF Owned
      <4>2. OwnedBy(o)' = [OwnedBy(o) EXCEPT ![t] = @ + 1]
        BY <3>2, <4>1 DEF OwnedBy
      <4>3. Total(OwnedBy(o)') = Total(OwnedBy(o)) + 1
        BY <1>6, <4>2, TotalUp
      <4> QED
        BY <1>6, <2>0, <3>1, <3>4, <4>3
    <3>5. CASE loc[t].func = "unlink"
      <4>1. Owned(t, o)' = Owned(t, o) - 1
        BY <1>0, <1>4, <1>5, <1>6, <2>1, <3>3, <3>5 DEF Owned
      <4>2. OwnedBy(o)' = [OwnedBy(o) EXCEPT ![t] = @ - 1]
        BY <3>2, <4>1 DEF OwnedBy
      <4>3. OwnedBy(o)[t] > 0
        BY <1>0, <1>o, <2>1, <3>3, <3>5, <1>1, RootIs DEF LocOK, Dropping, Taking, TypeOK
      <4>4. Total(OwnedBy(o)') = Total(OwnedBy(o)) - 1
        BY <1>6, <4>2, <4>3, TotalDown
      <4>5. Total(OwnedBy(o)) > 0
        BY <1>6, <4>3, TotalType
      <4> QED
        BY <1>6, <2>0, <3>1, <3>5, <4>4, <4>5
    <3> QED
      BY <1>0, <3>4, <3>5 DEF LocOK, Dropping
  <2>2. CASE loc[t].place # Root
    <3> DEFINE c == loc[t].place
    <3>1. OwnedBy(o)' = OwnedBy(o)
      <4>1. \A u \in Threads : \A f : Pending(u, f, Root, o)' <=> Pending(u, f, Root, o)
        BY <1>4, <2>2
      <4>2. \A u \in Threads : Owned(u, o)' = Owned(u, o)
        BY <1>0, <4>1 DEF Owned
      <4> QED
        BY <4>2 DEF OwnedBy
    <3>2. CASE Sending(t) /\ loc[t].func = "link" /\ c = <<loc[t].queue, end[loc[t].queue]>>
      <4>q. PICK q \in Queues : q = loc[t].queue /\ Sender[q] = t /\ c = <<q, end[q]>>
        BY <3>2 DEF Sending
      <4>1. end[q] \in Cells /\ start[q] \in Cells
        BY <1>1 DEF TypeOK
      <4>2. buf[q][end[q]] = Null
        BY <1>0, <1>1, <4>q, <4>1, BetweenMoves DEF RingSound, IsMessage, Working
      <4>3. \A u \in Threads : \A x : ~Pending(u, "link", c, x)
        <5> SUFFICES ASSUME NEW u \in Threads, NEW x, Pending(u, "link", c, x) PROVE FALSE
          OBVIOUS
        <5>1. LocOK(u) /\ Busy(u) /\ loc[u].func = "link" /\ loc[u].place = <<q, end[q]>>
          BY <1>1, <4>q DEF LocInv, Pending, Busy
        <5>2. Sending(u) /\ loc[u].queue = q
          BY <4>1, <5>1, RootIs DEF LocOK, Dropping
        <5> QED
          BY <1>5, <4>q, <5>2 DEF Sending
      <4>4. \A u \in Threads : ~Pending(u, "unlink", c, o)
        <5> SUFFICES ASSUME NEW u \in Threads, Pending(u, "unlink", c, o) PROVE FALSE
          OBVIOUS
        <5>1. /\ LocOK(u) /\ Busy(u) /\ loc[u].func = "unlink" /\ loc[u].place = <<q, end[q]>>
              /\ EndsOK(u)
          BY <1>1, <4>q DEF LocInv, Pending, Busy, IInv, RingInv
        <5>2. Taking(u) /\ loc[u].queue = q /\ start[q] = end[q]
          BY <4>1, <5>1, RootIs DEF LocOK, Dropping
        <5> QED
          BY <5>1, <5>2 DEF EndsOK, Taking
      <4>5. c \in Queues \X Cells /\ c \notin CellRefs(o)
        BY <4>q, <4>1, <4>2, <4>3, DataAssumption DEF CellRefs
      <4>6. CellRefs(o)' = CellRefs(o) \cup {c}
        <5>1. \A u \in Threads : \A d : Pending(u, "link", d, o)' <=>
                 Pending(u, "link", d, o) \/ (u = t /\ d = c)
          BY <1>4, <3>2
        <5>2. \A u \in Threads : \A d : Pending(u, "unlink", d, o)' <=> Pending(u, "unlink", d, o)
          BY <1>4, <3>2
        <5>3. \A d \in Queues \X Cells : d \in CellRefs(o)' <=> d \in CellRefs(o) \/ d = c
          <6> TAKE d \in Queues \X Cells
          <6>1. d \in CellRefs(o)' <=>
                  /\ buf[d[1]][d[2]] = o \/ \E u \in Threads : Pending(u, "link", d, o)'
                  /\ \A u \in Threads : ~Pending(u, "unlink", d, o)'
            BY <1>0 DEF CellRefs
          <6>2. d \in CellRefs(o) <=>
                  /\ buf[d[1]][d[2]] = o \/ \E u \in Threads : Pending(u, "link", d, o)
                  /\ \A u \in Threads : ~Pending(u, "unlink", d, o)
            BY DEF CellRefs
          <6> QED
            BY <4>4, <5>1, <5>2, <6>1, <6>2
        <5>4. CellRefs(o) \subseteq Queues \X Cells /\ CellRefs(o)' \subseteq Queues \X Cells
          BY DEF CellRefs
        <5> QED
          BY <4>5, <5>3, <5>4
      <4>7. Cardinality(CellRefs(o)') = Cardinality(CellRefs(o)) + 1
        BY <1>6, <4>5, <4>6, FS_AddElement
      <4> QED
        BY <1>6, <2>0, <3>1, <3>2, <4>7
    <3>3. CASE Taking(t) /\ loc[t].func = "unlink" /\ c = <<loc[t].queue, start[loc[t].queue]>>
      <4>q. PICK q \in Queues : q = loc[t].queue /\ Receiver[q] = t /\ c = <<q, start[q]>>
        BY <3>3 DEF Taking
      <4>1. start[q] \in Cells /\ buf[q][start[q]] = o
        BY <1>0, <1>1, <1>o, <3>3, <4>q DEF TypeOK, EndsOK, Taking
      <4>2. \A u \in Threads : ~Pending(u, "unlink", c, o)
        <5> SUFFICES ASSUME NEW u \in Threads, Pending(u, "unlink", c, o) PROVE FALSE
          OBVIOUS
        <5>1. LocOK(u) /\ Busy(u) /\ loc[u].func = "unlink" /\ loc[u].place = <<q, start[q]>>
          BY <1>1, <4>q DEF LocInv, Pending, Busy
        <5>2. Taking(u) /\ loc[u].queue = q
          BY <4>1, <5>1, RootIs DEF LocOK, Dropping
        <5> QED
          BY <1>5, <4>q, <5>2 DEF Taking
      <4>3. c \in CellRefs(o)
        BY <4>q, <4>1, <4>2 DEF CellRefs
      <4>4. CellRefs(o)' = CellRefs(o) \ {c}
        <5>1. \A u \in Threads : \A d : Pending(u, "unlink", d, o)' <=>
                 Pending(u, "unlink", d, o) \/ (u = t /\ d = c)
          BY <1>4, <3>3
        <5>2. \A u \in Threads : \A d : Pending(u, "link", d, o)' <=> Pending(u, "link", d, o)
          BY <1>4, <3>3
        <5>3. ASSUME NEW d \in Queues \X Cells
              PROVE  d \in CellRefs(o)' <=> d \in CellRefs(o) /\ d # c
          <6>1. d \in CellRefs(o)' <=>
                  /\ buf[d[1]][d[2]] = o \/ \E u \in Threads : Pending(u, "link", d, o)'
                  /\ \A u \in Threads : ~Pending(u, "unlink", d, o)'
            BY <1>0 DEF CellRefs
          <6>2. d \in CellRefs(o) <=>
                  /\ buf[d[1]][d[2]] = o \/ \E u \in Threads : Pending(u, "link", d, o)
                  /\ \A u \in Threads : ~Pending(u, "unlink", d, o)
            BY DEF CellRefs
          <6> QED
            BY <5>1, <5>2, <6>1, <6>2
        <5>4. CellRefs(o) \subseteq Queues \X Cells /\ CellRefs(o)' \subseteq Queues \X Cells
          BY DEF CellRefs
        <5> QED
          BY <5>3, <5>4
      <4>5. Cardinality(CellRefs(o)') = Cardinality(CellRefs(o)) - 1
        <5>1. Cardinality(CellRefs(o) \ {c}) = Cardinality(CellRefs(o)) - 1
          BY <1>6, <4>3, FS_RemoveElement
        <5> QED
          BY <4>4, <5>1
      <4>6. Cardinality(CellRefs(o)) # 0
        BY <1>6, <4>3, FS_EmptySet
      <4> QED
        BY <1>6, <2>0, <3>1, <3>3, <4>5, <4>6
    <3> QED
      BY <1>0, <2>2, <3>2, <3>3 DEF LocOK, Dropping
  <2> QED
    BY <2>1, <2>2
<1>9. TypeOK'
  <2>1. count' \in [Objs -> Nat]
    <3>1. \A x \in Objs : count'[x] \in Nat
      BY <1>0, <1>6, <1>8
    <3> QED
      BY <1>0, <1>1, <3>1 DEF TypeOK
  <2>2. log' \in [Threads -> Records]
    <3>0. log \in [Threads -> Records]
      BY <1>1 DEF TypeOK, Records
    <3>1. [log[t] EXCEPT !.done = TRUE] \in Records
      <4>1. \A e \in Records : [e EXCEPT !.done = TRUE] \in Records
        BY DEF Records
      <4> QED
        BY <3>0, <4>1
    <3>2. log' = [log EXCEPT ![t] = [log[t] EXCEPT !.done = TRUE]]
      BY <1>0, <3>0
    <3> QED
      BY <3>0, <3>1, <3>2
  <2> QED
    BY <1>0, <1>1, <2>1, <2>2 DEF TypeOK, Records
<1>10. CountExact'
  <2>1. \A x \in Objs : count'[x] = Total(OwnedBy(x)') + Cardinality(CellRefs(x)')
    BY <1>7, <1>8
  <2> QED
    BY <2>1 DEF CountExact, Total
<1>11. LocInv'
  <2>1. LocOK(t)'
    BY <1>0, <1>2 DEF LocOK, Busy, Taking, Sending, Dropping
  <2> QED
    BY <1>3, <2>1, LocFrame DEF IInv
<1>12. LogInv'
  <2>1. LogOK(t)'
    BY <1>0, <1>2 DEF LogOK, LocOK, Dropping
  <2> QED
    BY <1>0, <1>3, <2>1, LogFrame DEF IInv
<1>13. PhaseInv' /\ FreedEmpty' /\ CoverInv'
  BY <1>0, <1>3, Calm, PhaseFrame, FreedFrame DEF IInv
<1>14. RingSound' /\ RingInv'
  <2>1. EndsOK(t)'
    BY <1>0, <1>1, <1>2 DEF EndsOK, Busy
  <2> QED
    BY <1>0, <1>2, <1>3, <2>1, RingFrame, EndsAssumption DEF IInv
<1>15. QueueInv'
  BY <1>0, <1>2, <1>3, QueueFrame DEF IInv, Working
<1> QED
  BY <1>9, <1>10, <1>11, <1>12, <1>13, <1>14, <1>15 DEF IInv
(* The store of a RootRef: what was counted at the swap is there, or gone. *)
LEMMA StoreRootStep ==
  ASSUME IInv, NEW t \in Threads, Store(t), loc[t].place = Root
  PROVE  IInv'
<1>o. PICK o \in Objs : o = loc[t].obj
  BY DEF Store, At, IInv, LocInv, LocOK, Busy
<1>0. /\ mode[t] = "live" /\ pc[t] = "store" /\ LocOK(t) /\ LogOK(t) /\ Busy(t)
      /\ held' = [held EXCEPT ![t][o] = IF loc[t].func = "link" THEN @ + 1 ELSE @ - 1]
      /\ UNCHANGED <<start, end, buf, sid, rid, sendList, recvList, count, log, seg, mode>>
  BY <1>o DEF Store, At, PutRoot, Busy, lists, IInv, LocInv, LogInv
<1>1. /\ Undisturbed /\ EndsOK(t) /\ CountExact /\ TypeOK /\ LocInv
      /\ held[t] \in [Objs -> Nat] /\ held \in [Threads -> [Objs -> Nat]]
  BY <1>0, Calm DEF IInv, RingInv, TypeOK
<1>2. \A q \in Queues : start[q] \in Cells /\ end[q] \in Cells
  BY <1>1 DEF TypeOK
<1>3. \/ Dropping(t) /\ Return(t)
      \/ /\ Taking(t) /\ loc[t].func = "link"
         /\ Begin(t, "recv", loc[t].queue, "unlink", <<loc[t].queue, start[loc[t].queue]>>, o)
  BY <1>0, <1>2, <1>o, RootIs DEF Store, LocOK, Dropping, Taking, Sending
<1>4. /\ pc'[t] \in {"idle", "log"}
      /\ \A u \in Threads \ {t} : pc'[u] = pc[u] /\ loc'[u] = loc[u]
  BY <1>1, <1>3 DEF Return, Goto, Begin, TypeOK
<1>5. /\ \A u \in Threads, x \in Objs : u # t \/ x # o => held'[u][x] = held[u][x]
      /\ held'[t][o] = IF loc[t].func = "link" THEN held[t][o] + 1 ELSE held[t][o] - 1
      /\ \A u \in Threads \ {t} : held'[u] = held[u]
      /\ held'[t][o] \in Nat /\ held' \in [Threads -> [Objs -> Nat]]
  <2>1. held[t][o] \in Nat /\ (loc[t].func = "link" \/ held[t][o] > 0)
    BY <1>1, <1>3, <1>o DEF Dropping
  <2>2. [held[t] EXCEPT ![o] = IF loc[t].func = "link" THEN @ + 1 ELSE @ - 1] \in [Objs -> Nat]
    BY <1>1, <2>1
  <2>3. held' = [held EXCEPT ![t] =
                   [held[t] EXCEPT ![o] = IF loc[t].func = "link" THEN @ + 1 ELSE @ - 1]]
    BY <1>0, <1>1
  <2> QED
    BY <1>1, <2>1, <2>2, <2>3
<1>6. Alone(t)
  BY <1>0, <1>4, <1>5 DEF Alone
<1>7. TypeOK'
  <2>1. CASE Return(t)
    BY <1>0, <1>1, <1>5, <2>1 DEF TypeOK, Return, Goto, NoLocals, Places
  <2>2. ASSUME Taking(t),
               Begin(t, "recv", loc[t].queue, "unlink", <<loc[t].queue, start[loc[t].queue]>>, o)
        PROVE  TypeOK'
    <3>1. loc[t].queue \in Queues /\ <<loc[t].queue, start[loc[t].queue]>> \in Places
      BY <1>2, <2>2, RootIs DEF Taking
    <3>2. /\ pc' = [pc EXCEPT ![t] = "log"]
          /\ loc' = [loc EXCEPT ![t] = [op |-> "recv", queue |-> loc[t].queue,
                       func |-> "unlink", place |-> <<loc[t].queue, start[loc[t].queue]>>,
                       obj |-> o]]
      BY <2>2 DEF Begin, Goto
    <3> QED
      BY <1>0, <1>1, <1>5, <3>1, <3>2 DEF TypeOK
  <2> QED
    BY <1>3, <2>1, <2>2
<1>8. LocOK(t)' /\ EndsOK(t)'
  <2>1. CASE Return(t)
    <3>1. pc'[t] = "idle"
      BY <1>1, <2>1 DEF Return, Goto, TypeOK
    <3> QED
      BY <3>1 DEF LocOK, EndsOK, Busy
  <2>2. ASSUME Taking(t),
               Begin(t, "recv", loc[t].queue, "unlink", <<loc[t].queue, start[loc[t].queue]>>, o)
        PROVE  LocOK(t)' /\ EndsOK(t)'
    <3>1. /\ pc'[t] = "log" /\ loc'[t].op = "recv" /\ loc'[t].queue = loc[t].queue
          /\ loc'[t].func = "unlink" /\ loc'[t].obj = o
          /\ loc'[t].place = <<loc[t].queue, start[loc[t].queue]>>
      BY <1>1, <2>2 DEF Begin, Goto, TypeOK
    <3> QED
      BY <1>0, <1>1, <1>o, <2>2, <3>1 DEF LocOK, EndsOK, Busy, Taking
  <2> QED
    BY <1>3, <2>1, <2>2
<1>9. LocInv'
  BY <1>6, <1>8, LocFrame DEF IInv
<1>10. LogInv'
  <2>1. LogOK(t)'
    BY <1>0, <1>4 DEF LogOK
  <2> QED
    BY <1>0, <1>6, <2>1, LogFrame DEF IInv
<1>11. PhaseInv' /\ FreedEmpty' /\ CoverInv'
  BY <1>0, <1>6, Calm, PhaseFrame, FreedFrame DEF IInv
<1>12. RingSound' /\ RingInv'
  BY <1>0, <1>4, <1>6, <1>8, RingFrame, EndsAssumption DEF IInv
<1>13. CountExact'
  <2>1. \A u \in Threads : \A f, p, x :
          Pending(u, f, p, x)' <=> Pending(u, f, p, x) /\ u # t
    BY <1>4 DEF Pending
  <2>2. \A f, p, x : Pending(t, f, p, x) <=> f = loc[t].func /\ p = Root /\ x = o
    BY <1>0, <1>o DEF Pending
  <2>3. ASSUME NEW x \in Objs PROVE OwnedBy(x)' = OwnedBy(x)
    <3>1. ASSUME NEW u \in Threads PROVE Owned(u, x)' = Owned(u, x)
      <4>1. held[u][x] \in Nat
        BY <1>1
      <4>2. CASE u = t /\ x = o
        <5>1. loc[t].func \in {"link", "unlink"}
          BY <1>3 DEF Dropping
        <5> QED
          BY <1>5, <2>1, <2>2, <4>1, <4>2, <5>1 DEF Owned
      <4>3. CASE u # t \/ x # o
        <5>1. \A f : Pending(u, f, Root, x)' <=> Pending(u, f, Root, x)
          BY <2>1, <2>2, <4>3
        <5> QED
          BY <1>5, <4>3, <5>1 DEF Owned
      <4> QED
        BY <4>2, <4>3
    <3> QED
      BY <3>1 DEF OwnedBy
  <2>4. ASSUME NEW x \in Objs PROVE CellRefs(x)' = CellRefs(x)
    <3>1. \A u \in Threads : \A f, d : d \in Queues \X Cells =>
            (Pending(u, f, d, x)' <=> Pending(u, f, d, x))
      BY <2>1, <2>2, RootIs
    <3> QED
      BY <1>0, <3>1 DEF CellRefs
  <2> QED
    BY <1>0, <1>1, <2>3, <2>4 DEF CountExact, Total
<1>14. QueueInv'
  BY <1>0, <1>4, <1>6, QueueFrame DEF IInv, Working
<1> QED
  BY <1>7, <1>9, <1>10, <1>11, <1>12, <1>13, <1>14 DEF IInv
(* When the thread that stores a reference into a cell, or takes one out,  *)
(* is the only one at that cell, what the cells refer to stays the same.   *)
LEMMA StoredRefs ==
  ASSUME NEW t \in Threads, NEW c \in Queues \X Cells, NEW o \in Objs, NEW f,
         held' = held, pc[t] = "store", pc'[t] # "store",
         loc[t].place = c, loc[t].obj = o, loc[t].func = f,
         \A u \in Threads \ {t} : pc'[u] = pc[u] /\ loc'[u] = loc[u],
         \A u \in Threads \ {t} : \A g, x : ~Pending(u, g, c, x),
         \A d \in Queues \X Cells : d # c => buf'[d[1]][d[2]] = buf[d[1]][d[2]],
         \/ f = "link" /\ buf[c[1]][c[2]] = Null /\ buf'[c[1]][c[2]] = o
         \/ f = "unlink" /\ buf[c[1]][c[2]] = o /\ buf'[c[1]][c[2]] = Null,
         NEW x \in Objs
  PROVE  OwnedBy(x)' = OwnedBy(x) /\ CellRefs(x)' = CellRefs(x)
<1>1. \A u \in Threads : \A g, p, y : Pending(u, g, p, y)' <=> Pending(u, g, p, y) /\ u # t
  BY DEF Pending
<1>2. \A g, p, y : Pending(t, g, p, y) <=> g = f /\ p = c /\ y = o
  BY DEF Pending
<1>3. OwnedBy(x)' = OwnedBy(x)
  <2>1. \A u \in Threads : \A g : Pending(u, g, Root, x)' <=> Pending(u, g, Root, x)
    BY <1>1, <1>2, RootIs
  <2>2. \A u \in Threads : Owned(u, x)' = Owned(u, x)
    BY <2>1 DEF Owned
  <2> QED
    BY <2>2 DEF OwnedBy
<1>4. ASSUME NEW d \in Queues \X Cells PROVE d \in CellRefs(x)' <=> d \in CellRefs(x)
  <2>1. d \in CellRefs(x)' <=>
          /\ buf'[d[1]][d[2]] = x \/ \E u \in Threads : Pending(u, "link", d, x)'
          /\ \A u \in Threads : ~Pending(u, "unlink", d, x)'
    BY DEF CellRefs
  <2>2. d \in CellRefs(x) <=>
          /\ buf[d[1]][d[2]] = x \/ \E u \in Threads : Pending(u, "link", d, x)
          /\ \A u \in Threads : ~Pending(u, "unlink", d, x)
    BY DEF CellRefs
  <2>3. CASE d # c
    BY <1>1, <1>2, <2>1, <2>2, <2>3
  <2>4. CASE d = c
    BY <1>1, <1>2, <2>1, <2>2, <2>4, DataAssumption
  <2> QED
    BY <2>3, <2>4
<1>5. CellRefs(x) \subseteq Queues \X Cells /\ CellRefs(x)' \subseteq Queues \X Cells
  BY DEF CellRefs
<1> QED
  BY <1>3, <1>4, <1>5

(* A call under way has the cell it is about to change for itself.         *)
LEMMA OneAtCell ==
  ASSUME IInv, Undisturbed, NEW t \in Threads, NEW u \in Threads \ {t},
         Busy(t), loc[t].place # Root
  PROVE  \A g, x : ~Pending(u, g, loc[t].place, x)
<1> SUFFICES ASSUME NEW g, NEW x, Pending(u, g, loc[t].place, x) PROVE FALSE
  OBVIOUS
<1>1. \A q \in Queues : start[q] \in Cells /\ end[q] \in Cells
  BY DEF IInv, TypeOK
<1>2. /\ LocOK(t) /\ EndsOK(t) /\ LocOK(u) /\ EndsOK(u) /\ Busy(u)
      /\ loc[u].place = loc[t].place
  BY DEF IInv, LocInv, RingInv, Pending, Busy
<1>3. \/ Sending(t) /\ loc[t].place = <<loc[t].queue, end[loc[t].queue]>>
      \/ /\ Taking(t) /\ loc[t].place = <<loc[t].queue, start[loc[t].queue]>>
         /\ start[loc[t].queue] # end[loc[t].queue]
  BY <1>2 DEF LocOK, EndsOK, Dropping, Taking
<1>4. \/ Sending(u) /\ loc[u].place = <<loc[u].queue, end[loc[u].queue]>>
      \/ /\ Taking(u) /\ loc[u].place = <<loc[u].queue, start[loc[u].queue]>>
         /\ start[loc[u].queue] # end[loc[u].queue]
  BY <1>2 DEF LocOK, EndsOK, Dropping, Taking
<1> QED
  BY <1>1, <1>2, <1>3, <1>4 DEF Sending, Taking

(* sent_to fills the cell that is published next.                          *)
LEMMA StoreSentStep ==
  ASSUME IInv, NEW t \in Threads, Store(t), loc[t].place # Root, Sending(t)
  PROVE  IInv'
<1>o. PICK o \in Objs : o = loc[t].obj
  BY DEF Store, At, IInv, LocInv, LocOK, Busy
<1>q. PICK q \in Queues : q = loc[t].queue /\ Sender[q] = t
  BY DEF Sending
<1>1. /\ mode[t] = "live" /\ pc[t] = "store" /\ LocOK(t) /\ LogOK(t) /\ Busy(t)
      /\ Undisturbed /\ EndsOK(t) /\ RingSound /\ CountExact /\ TypeOK /\ LocInv
  BY Calm DEF Store, At, Busy, IInv, LocInv, LogInv, RingInv
<1>2. /\ start[q] \in Cells /\ end[q] \in Cells
      /\ loc[t].func = "link" /\ loc[t].place = <<q, end[q]>> /\ loc[t].op = "send"
      /\ q \in sendList[t] /\ Succ(end[q]) # start[q]
  BY <1>1, <1>q DEF TypeOK, LocOK, Dropping, Taking, Sending, EndsOK
<1>0. /\ buf' = [buf EXCEPT ![q][end[q]] = o] /\ pc' = [pc EXCEPT ![t] = "publish"]
      /\ UNCHANGED <<start, end, sid, rid, sendList, recvList, count, held, log, seg, loc, mode>>
  BY <1>o, <1>2 DEF Store, Put, Goto, lists
<1>3. /\ pc'[t] = "publish" /\ \A u \in Threads \ {t} : pc'[u] = pc[u]
      /\ buf \in [Queues -> [Cells -> Objs \cup {Null}]]
  BY <1>0, <1>1 DEF TypeOK
<1>4. /\ buf'[q][end[q]] = o
      /\ \A r \in Queues, k \in Cells : r # q \/ k # end[q] => buf'[r][k] = buf[r][k]
      /\ buf' \in [Queues -> [Cells -> Objs \cup {Null}]]
  BY <1>0, <1>2, <1>3
<1>5. Alone(t)
  BY <1>0, <1>3 DEF Alone
<1>6. TypeOK'
  BY <1>0, <1>1, <1>4 DEF TypeOK
<1>7. LocInv'
  <2>1. LocOK(t)'
    BY <1>0, <1>3 DEF LocOK, Busy, Sending
  <2> QED
    BY <1>5, <2>1, LocFrame DEF IInv
<1>8. LogInv'
  <2>1. log'[t].place[1] = q /\ log'[t].place[2] = end[q] /\ log'[t].obj = o /\ log'[t].func = "link"
    BY <1>0, <1>1, <1>2, <1>o DEF LogOK
  <2>2. LogOK(t)'
    BY <1>0, <1>3, <1>4, <1>q, <2>1 DEF LogOK
  <2> QED
    BY <1>0, <1>4, <1>5, <1>q, <2>2, LogFrame DEF IInv
<1>9. PhaseInv' /\ FreedEmpty' /\ CoverInv'
  BY <1>0, <1>1, <1>5, Calm, PhaseFrame, FreedFrame DEF IInv
<1>10. buf[q][end[q]] = Null /\ end[q] \notin Between(start[q], end[q])
  BY <1>1, <1>2, <1>q, BetweenMoves DEF RingSound, IsMessage, Working
<1>11. RingSound'
  <2>1. ASSUME NEW r \in Queues, NEW k \in Cells
        PROVE  buf'[r][k] # Null
                 <=> IsMessage(r, k)' \/ (k = end'[r] /\ Working(Sender[r], r, "publish")')
    <3>1. buf[r][k] # Null
            <=> IsMessage(r, k) \/ (k = end[r] /\ Working(Sender[r], r, "publish"))
      BY <1>1 DEF RingSound
    <3>2. Receiver[r] \in Threads /\ Sender[r] \in Threads
      BY EndsAssumption
    <3>3. IsMessage(r, k)' <=> IsMessage(r, k)
      <4>1. Working(Receiver[r], r, "advance")' <=> Working(Receiver[r], r, "advance")
        BY <1>0, <1>1, <1>3, <3>2 DEF Working
      <4> QED
        BY <1>0, <4>1 DEF IsMessage, Between, Cells
    <3>4. Working(Sender[r], r, "publish")' <=> Working(Sender[r], r, "publish") \/ r = q
      BY <1>0, <1>1, <1>3, <1>q, <3>2 DEF Working
    <3>5. CASE r = q /\ k = end[q]
      BY <1>0, <1>4, <3>4, <3>5, DataAssumption
    <3>6. CASE r # q \/ k # end[q]
      <4>1. buf'[r][k] = buf[r][k]
        BY <1>4, <3>6
      <4>2. k = end[r] => r # q
        BY <3>6
      <4> QED
        BY <1>0, <3>1, <3>3, <3>4, <4>1, <4>2
    <3> QED
      BY <3>5, <3>6
  <2> QED
    BY <2>1 DEF RingSound
<1>12. RingInv'
  <2>1. ASSUME NEW u \in Threads \ {t} PROVE EndsOK(u)'
    <3>1. EndsOK(u) /\ LocOK(u) /\ pc'[u] = pc[u] /\ loc'[u] = loc[u]
      BY <1>0, <1>1, <1>3 DEF IInv, LocInv, RingInv
    <3>2. Busy(u) /\ loc[u].op = "recv" => loc[u].queue \in Queues
      BY <3>1 DEF LocOK, Sending, Dropping, Taking
    <3>3. Busy(u) /\ loc[u].op = "recv" =>
             start[loc[u].queue] \in Cells /\ start[loc[u].queue] # end[loc[u].queue]
      BY <1>1, <3>1, <3>2 DEF EndsOK, TypeOK
    <3>4. Busy(u) /\ loc[u].op = "recv" =>
             buf'[loc[u].queue][start[loc[u].queue]] = buf[loc[u].queue][start[loc[u].queue]]
      BY <1>4, <3>2, <3>3
    <3> QED
      BY <1>0, <3>1, <3>4 DEF EndsOK, Busy
  <2>2. EndsOK(t)'
    BY <1>0, <1>2, <1>3, <1>q DEF EndsOK, Busy
  <2>3. ASSUME NEW r \in Queues PROVE Known(r)'
    <3>1. Known(r)
      BY <1>1 DEF IInv, RingInv
    <3> QED
      BY <1>0, <1>2, <1>4, <1>q, <3>1 DEF Known
  <2> QED
    BY <2>1, <2>2, <2>3 DEF RingInv
<1>13. CountExact'
  <2> DEFINE c == <<q, end[q]>>
  <2>1. c \in Queues \X Cells /\ c[1] = q /\ c[2] = end[q]
    BY <1>2
  <2>2. \A u \in Threads \ {t} : \A g, x : ~Pending(u, g, c, x)
    BY <1>1, <1>2, OneAtCell
  <2>3. \A d \in Queues \X Cells : d # c => buf'[d[1]][d[2]] = buf[d[1]][d[2]]
    BY <1>4
  <2>4. \A x \in Objs : OwnedBy(x)' = OwnedBy(x) /\ CellRefs(x)' = CellRefs(x)
    <3> HIDE DEF c
    <3>1. loc[t].place = c /\ buf[c[1]][c[2]] = Null /\ buf'[c[1]][c[2]] = o
      BY <1>2, <1>4, <1>10, <2>1 DEF c
    <3>2. \A u \in Threads \ {t} : pc'[u] = pc[u] /\ loc'[u] = loc[u]
      BY <1>0, <1>3
    <3> QED
      BY <1>0, <1>1, <1>2, <1>3, <1>o, <2>1, <2>2, <2>3, <3>1, <3>2, StoredRefs
  <2> QED
    BY <1>0, <1>1, <2>4 DEF CountExact, Total
<1>14. QueueInv'
  BY <1>0, <1>3, <1>5, QueueFrame DEF IInv, Working
<1> QED
  BY <1>6, <1>7, <1>8, <1>9, <1>11, <1>12, <1>13, <1>14 DEF IInv
(* cxl_unwrap empties the first cell, which is given back next.            *)
LEMMA StoreTakenStep ==
  ASSUME IInv, NEW t \in Threads, Store(t), loc[t].place # Root, Taking(t)
  PROVE  IInv'
<1>o. PICK o \in Objs : o = loc[t].obj
  BY DEF Store, At, IInv, LocInv, LocOK, Busy
<1>q. PICK q \in Queues : q = loc[t].queue /\ Receiver[q] = t
  BY DEF Taking
<1>1. /\ mode[t] = "live" /\ pc[t] = "store" /\ LocOK(t) /\ LogOK(t) /\ Busy(t)
      /\ Undisturbed /\ EndsOK(t) /\ RingSound /\ CountExact /\ TypeOK /\ LocInv
  BY Calm DEF Store, At, Busy, IInv, LocInv, LogInv, RingInv
<1>2. /\ start[q] \in Cells /\ end[q] \in Cells /\ start[q] # end[q]
      /\ loc[t].func = "unlink" /\ loc[t].place = <<q, start[q]>> /\ loc[t].op = "recv"
      /\ buf[q][start[q]] = o
  BY <1>1, <1>q, <1>o DEF TypeOK, LocOK, Dropping, Taking, Sending, EndsOK
<1>0. /\ buf' = [buf EXCEPT ![q][start[q]] = Null] /\ pc' = [pc EXCEPT ![t] = "advance"]
      /\ UNCHANGED <<start, end, sid, rid, sendList, recvList, count, held, log, seg, loc, mode>>
  BY <1>o, <1>2 DEF Store, Put, Goto, lists
<1>3. /\ pc'[t] = "advance" /\ \A u \in Threads \ {t} : pc'[u] = pc[u]
      /\ buf \in [Queues -> [Cells -> Objs \cup {Null}]]
  BY <1>0, <1>1 DEF TypeOK
<1>4. /\ buf'[q][start[q]] = Null
      /\ \A r \in Queues, k \in Cells : r # q \/ k # start[q] => buf'[r][k] = buf[r][k]
      /\ buf' \in [Queues -> [Cells -> Objs \cup {Null}]]
  BY <1>0, <1>2, <1>3
<1>5. Alone(t)
  BY <1>0, <1>3 DEF Alone
<1>6. TypeOK'
  BY <1>0, <1>1, <1>4 DEF TypeOK
<1>7. LocInv'
  <2>1. LocOK(t)'
    BY <1>0, <1>3 DEF LocOK, Busy, Taking
  <2> QED
    BY <1>5, <2>1, LocFrame DEF IInv
<1>8. LogInv'
  <2>1. log'[t].place[1] = q /\ log'[t].place[2] = start[q] /\ log'[t].func = "unlink"
    BY <1>0, <1>1, <1>2 DEF LogOK
  <2>2. Working(t, q, "advance")'
    BY <1>0, <1>3, <1>q DEF Working
  <2>3. LogOK(t)'
    BY <1>0, <1>1, <1>3, <1>q, <2>1, <2>2 DEF LogOK
  <2>4. \A r \in Queues, k \in Cells : buf'[r][k] \in {buf[r][k], Null}
    BY <1>4
  <2> QED
    BY <1>0, <1>5, <2>3, <2>4, LogFrame DEF IInv
<1>9. PhaseInv' /\ FreedEmpty' /\ CoverInv'
  BY <1>0, <1>1, <1>5, Calm, PhaseFrame, FreedFrame DEF IInv
<1>11. RingSound'
  <2>1. ASSUME NEW r \in Queues, NEW k \in Cells
        PROVE  buf'[r][k] # Null
                 <=> IsMessage(r, k)' \/ (k = end'[r] /\ Working(Sender[r], r, "publish")')
    <3>1. buf[r][k] # Null
            <=> IsMessage(r, k) \/ (k = end[r] /\ Working(Sender[r], r, "publish"))
      BY <1>1 DEF RingSound
    <3>2. Receiver[r] \in Threads /\ Sender[r] \in Threads
      BY EndsAssumption
    <3>3. Working(Receiver[r], r, "advance")' <=> Working(Receiver[r], r, "advance") \/ r = q
      BY <1>0, <1>1, <1>3, <1>q, <3>2 DEF Working
    <3>4. Working(Sender[r], r, "publish")' <=> Working(Sender[r], r, "publish")
      BY <1>0, <1>1, <1>3, <3>2 DEF Working
    <3>5. CASE r = q /\ k = start[q]
      <4>1. ~IsMessage(r, k)'
        BY <1>0, <3>3, <3>5 DEF IsMessage
      <4> QED
        BY <1>0, <1>2, <1>4, <3>5, <4>1
    <3>6. CASE r # q \/ k # start[q]
      <4>1. IsMessage(r, k)' <=> IsMessage(r, k)
        BY <1>0, <3>3, <3>6 DEF IsMessage, Between, Cells
      <4>2. buf'[r][k] = buf[r][k]
        BY <1>4, <3>6
      <4> QED
        BY <1>0, <3>1, <3>4, <4>1, <4>2
    <3> QED
      BY <3>5, <3>6
  <2> QED
    BY <2>1 DEF RingSound
<1>12. RingInv'
  <2>1. ASSUME NEW u \in Threads \ {t} PROVE EndsOK(u)'
    <3>1. EndsOK(u) /\ LocOK(u) /\ pc'[u] = pc[u] /\ loc'[u] = loc[u]
      BY <1>0, <1>1, <1>3 DEF IInv, LocInv, RingInv
    <3>2. Busy(u) /\ loc[u].op = "recv" => loc[u].queue \in Queues \ {q}
      BY <1>q, <3>1 DEF LocOK, Sending, Dropping, Taking
    <3>3. Busy(u) /\ loc[u].op = "recv" =>
             buf'[loc[u].queue][start[loc[u].queue]] = buf[loc[u].queue][start[loc[u].queue]]
      BY <1>1, <1>4, <3>2 DEF TypeOK
    <3> QED
      BY <1>0, <3>1, <3>3 DEF EndsOK, Busy
  <2>2. EndsOK(t)'
    BY <1>0, <1>2, <1>3, <1>q DEF EndsOK, Busy
  <2>3. ASSUME NEW r \in Queues PROVE Known(r)'
    <3>1. Known(r)
      BY <1>1 DEF IInv, RingInv
    <3> QED
      BY <1>0, <1>4, <3>1 DEF Known
  <2> QED
    BY <2>1, <2>2, <2>3 DEF RingInv
<1>13. CountExact'
  <2> DEFINE c == <<q, start[q]>>
  <2>1. c \in Queues \X Cells /\ c[1] = q /\ c[2] = start[q]
    BY <1>2
  <2>2. \A u \in Threads \ {t} : \A g, x : ~Pending(u, g, c, x)
    BY <1>1, <1>2, OneAtCell
  <2>3. \A d \in Queues \X Cells : d # c => buf'[d[1]][d[2]] = buf[d[1]][d[2]]
    BY <1>4
  <2>4. \A x \in Objs : OwnedBy(x)' = OwnedBy(x) /\ CellRefs(x)' = CellRefs(x)
    <3> HIDE DEF c
    <3>1. loc[t].place = c /\ buf[c[1]][c[2]] = o /\ buf'[c[1]][c[2]] = Null
      BY <1>2, <1>4, <2>1 DEF c
    <3>2. \A u \in Threads \ {t} : pc'[u] = pc[u] /\ loc'[u] = loc[u]
      BY <1>0, <1>3
    <3> QED
      BY <1>0, <1>1, <1>2, <1>3, <1>o, <2>1, <2>2, <2>3, <3>1, <3>2, StoredRefs
  <2> QED
    BY <1>0, <1>1, <2>4 DEF CountExact, Total
<1>14. QueueInv'
  BY <1>0, <1>3, <1>5, QueueFrame DEF IInv, Working
<1> QED
  BY <1>6, <1>7, <1>8, <1>9, <1>11, <1>12, <1>13, <1>14 DEF IInv

LEMMA StoreStep ==
  ASSUME IInv, NEW t \in Threads, Store(t)
  PROVE  IInv'
<1>1. LocOK(t) /\ Busy(t)
  BY DEF Store, At, Busy, IInv, LocInv
<1> QED
  BY <1>1, StoreRootStep, StoreSentStep, StoreTakenStep DEF LocOK, Dropping
-----------------------------------------------------------------------------
(* The actions of the monitor.                                             *)

(* While all run, the cells that count are cells a recovery would find.    *)
LEMMA CalmBounded ==
  ASSUME IInv, Undisturbed
  PROVE  Bounded
<1>1. /\ RingSound /\ CountExact /\ TypeOK /\ LocInv /\ LogInv /\ QueueInv
      /\ \A u \in Threads : LocOK(u) /\ EndsOK(u) /\ LogOK(u) /\ Up(u) /\ mode[u] # "gone"
      /\ \A q \in Queues : Known(q) /\ QueueOK(q)
      /\ \A q \in Queues : start[q] \in Cells /\ end[q] \in Cells
  BY DEF IInv, RingInv, LocInv, LogInv, QueueInv, Undisturbed, Up, TypeOK
<1>2. ASSUME NEW q \in Queues, NEW k \in Cells, NEW o \in Objs,
             NEW u \in Threads, Pending(u, "link", <<q, k>>, o)
      PROVE  /\ Sending(u) /\ loc[u].queue = q /\ k = end[q] /\ Succ(end[q]) # start[q]
             /\ q \in sendList[u] /\ Sender[q] = u
  <2>1. Busy(u) /\ loc[u].func = "link" /\ loc[u].place = <<q, k>> /\ <<q, k>> # Root
    BY <1>2, RootIs DEF Pending, Busy
  <2>2. Sending(u) /\ <<q, k>> = <<loc[u].queue, end[loc[u].queue]>>
    BY <1>1, <2>1 DEF LocOK, Dropping
  <2> QED
    BY <1>1, <2>1, <2>2 DEF Sending, EndsOK
<1>3. ASSUME NEW o \in Objs, NEW q \in Queues, NEW k \in Cells, <<q, k>> \in CellRefs(o)
      PROVE  <<q, k>> \in Kept(o)
  <2>1. /\ buf[q][k] = o \/ \E u \in Threads : Pending(u, "link", <<q, k>>, o)
        /\ \A u \in Threads : ~Pending(u, "unlink", <<q, k>>, o)
    BY <1>3 DEF CellRefs
  <2>2. buf[q][k] = o =>
          /\ IsMessage(q, k) \/ (k = end[q] /\ Working(Sender[q], q, "publish"))
          /\ q \in sendList[Sender[q]]
    BY <1>1, DataAssumption DEF RingSound, Undisturbed, Known
  <2>3. ~Void(<<q, k>>)
    <3> SUFFICES ASSUME NEW u \in Threads, log[u].done, log[u].func = "unlink",
                        log[u].place = <<q, k>>
                 PROVE  FALSE
      BY DEF Void
    <3>1. /\ log[u].place # Root /\ log[u].place[1] = q /\ log[u].place[2] = k
          /\ Receiver[q] = u
          /\ \/ pc[u] = "store"
             \/ k = start[q] /\ Working(u, q, "advance")
             \/ Succ(k) = start[q] /\ ~Working(u, q, "advance")
      <4>1. log[u].place # Root /\ log[u].place[1] = q /\ log[u].place[2] = k
        BY RootIs
      <4>2. LogOK(u) /\ Up(u)
        BY <1>1
      <4> QED
        BY <4>1, <4>2 DEF LogOK
    <3>2. CASE pc[u] = "store"
      <4>1. Busy(u) /\ loc[u].func = "unlink" /\ loc[u].place = <<q, k>>
        BY <1>1, <3>2 DEF LogOK, Busy
      <4>2. Taking(u) /\ loc[u].queue = q /\ k = start[q]
        <5>1. LocOK(u) /\ loc[u].place # Root
          BY <1>1, <3>1, <4>1, RootIs
        <5>2. Taking(u) /\ loc[u].place = <<loc[u].queue, start[loc[u].queue]>>
          BY <4>1, <5>1 DEF LocOK, Dropping
        <5> QED
          BY <4>1, <5>2
      <4>3. start[q] # end[q] /\ buf[q][k] = loc[u].obj
        BY <1>1, <4>1, <4>2 DEF EndsOK, Taking
      <4>4. buf[q][k] = o
        BY <1>2, <2>1, <4>2, <4>3
      <4> QED
        BY <2>1, <3>2, <4>1, <4>3, <4>4 DEF Pending
    <3>3. CASE k = start[q] /\ Working(u, q, "advance")
      <4>1. start[q] # end[q]
        BY <1>1, <3>3 DEF EndsOK, Working
      <4>2. buf[q][k] # o
        BY <2>2, <3>1, <3>3, <4>1 DEF IsMessage
      <4> QED
        BY <1>2, <2>1, <3>3, <4>1, <4>2
    <3>4. CASE Succ(k) = start[q]
      <4>1. k \notin Between(start[q], end[q])
        BY <1>1, <3>4, BetweenMoves
      <4>2. Working(Sender[q], q, "publish") => Succ(end[q]) # start[q]
        BY <1>1, EndsAssumption DEF Working, EndsOK, LocOK, Sending
      <4> QED
        BY <1>2, <2>1, <2>2, <3>4, <4>1, <4>2 DEF IsMessage
    <3> QED
      BY <3>1, <3>2, <3>3, <3>4
  <2>4. \E u \in Threads : Answers(u, q, k)
    <3>1. ASSUME k = end[q], q \in sendList[Sender[q]] PROVE Answers(Sender[q], q, k)
      <4>1. k \in SenderCells(q)
        BY <1>1, <3>1, BetweenMoves DEF SenderCells
      <4> QED
        BY <1>1, <3>1, <4>1, EndsAssumption DEF Answers
    <3>2. ASSUME k \in Between(start[q], end[q]), q \in sendList[Sender[q]]
          PROVE  \E u \in Threads : Answers(u, q, k)
      <4>1. CASE rid[q] = 0
        <5>1. k \in SenderCells(q)
          BY <3>2, <4>1 DEF SenderCells
        <5> QED
          BY <1>1, <3>2, <5>1, EndsAssumption DEF Answers
      <4>2. CASE rid[q] # 0
        <5>1. q \in recvList[Receiver[q]] /\ k \in ReceiverCells(q)
          BY <1>1, <3>2, <4>2 DEF QueueOK, ReceiverCells
        <5> QED
          BY <1>1, <5>1, EndsAssumption DEF Answers
      <4> QED
        BY <4>1, <4>2
    <3> QED
      BY <1>2, <2>1, <2>2, <3>1, <3>2, EndsAssumption DEF IsMessage
  <2> QED
    BY <2>1, <2>3, <2>4 DEF Kept
<1>4. ASSUME NEW o \in Objs PROVE count[o] <= Total(OwnedBy(o)) + Cardinality(Kept(o))
  <2>1. CellRefs(o) \subseteq Kept(o)
    BY <1>3 DEF CellRefs
  <2>2. IsFiniteSet(Kept(o))
    BY CellsFinite DEF Kept
  <2>3. Cardinality(CellRefs(o)) <= Cardinality(Kept(o)) /\ Cardinality(Kept(o)) \in Nat
    BY <2>1, <2>2, FS_Subset, FS_CardinalityType
  <2> QED
    BY <1>1, <2>3, RefsType DEF CountExact
<1> QED
  BY <1>4 DEF Bounded
LEMMA KeptType == \A o : IsFiniteSet(Kept(o)) /\ Cardinality(Kept(o)) \in Nat
<1>1. \A o : Kept(o) \subseteq Queues \X Cells
  BY DEF Kept
<1> QED
  BY <1>1, CellsFinite, FS_CardinalityType

(* What a step for a thread that is being recovered has to keep.           *)
LEMMA Recovery ==
  ASSUME IInv, NEW t \in Threads, Alone(t), TypeOK', pc'[t] = "idle", ~Up(t)', LogOK(t)',
         \A q \in Queues, k \in Cells :
           Sender[q] = t \/ buf'[q][k] \in {buf[q][k], Null},
         PhaseOK(t)', \A u \in Threads : mode[u] # "live",
         QueueInv', FreedEmpty', Bounded'
  PROVE  IInv'
<1>1. LocInv'
  <2>1. LocOK(t)'
    BY DEF LocOK, Busy
  <2> QED
    BY <2>1, LocFrame DEF IInv
<1>2. LogInv'
  BY LogFrame DEF IInv
<1>3. ~Undisturbed'
  BY DEF Undisturbed, Up
<1>4. PhaseInv'
  <2>1. ASSUME NEW u \in Threads \ {t} PROVE PhaseOK(u)'
    <3>1. PhaseOK(u)
      BY DEF IInv, PhaseInv
    <3> QED
      BY <3>1 DEF PhaseOK, Up, Alone, NoRoots
  <2> QED
    BY <2>1 DEF PhaseInv
<1> QED
  BY <1>1, <1>2, <1>3, <1>4 DEF IInv, RingSound, RingInv, CountExact, CoverInv

(* What is the case when the monitor is at work on a thread.               *)
LEMMA AtWork ==
  ASSUME IInv, NEW t \in Threads, mode[t] = "recover"
  PROVE  /\ ~Undisturbed /\ Bounded /\ \A u \in Threads : mode[u] # "live"
         /\ pc[t] = "idle" /\ ~Up(t) /\ seg[t] # "free" /\ LogOK(t) /\ PhaseOK(t)
<1>1. ~Undisturbed /\ Bounded
  BY DEF Undisturbed, IInv, CoverInv
<1> QED
  BY <1>1 DEF IInv, PhaseInv, PhaseOK, LogInv, Up

(* References and records stay what they are in such a step.               *)
LEMMA AtRest ==
  ASSUME NEW t \in Threads, ~Up(t), ~Up(t)', UNCHANGED <<log, pc, loc>>,
         \A u \in Threads \ {t} : mode'[u] = mode[u]
  PROVE  /\ \A u \in Threads : \A f, p, o : Pending(u, f, p, o)' <=> Pending(u, f, p, o)
         /\ \A c : Void(c)' <=> Void(c)
         /\ held' = held => \A o : OwnedBy(o)' = OwnedBy(o)
<1>1. \A u \in Threads : \A f, p, o : Pending(u, f, p, o)' <=> Pending(u, f, p, o)
  BY DEF Pending
<1>2. \A u \in Threads : Up(u)' <=> Up(u)
  BY DEF Up
<1>3. \A c : Void(c)' <=> Void(c)
  BY <1>2 DEF Void
<1>4. held' = held => \A o : OwnedBy(o)' = OwnedBy(o)
  <2>1. held' = held => \A u \in Threads : \A o : Owned(u, o)' = Owned(u, o)
    BY <1>1 DEF Owned
  <2> QED
    BY <2>1 DEF OwnedBy
<1> QED
  BY <1>1, <1>3, <1>4

(* The bound holds on when no cell that counts is lost.                    *)
LEMMA KeptFrame ==
  ASSUME IInv, Bounded, count' = count,
         \A o \in Objs : /\ OwnedBy(o)' = OwnedBy(o)
                         /\ count[o] > 0 => Kept(o) \subseteq Kept(o)'
  PROVE  Bounded'
<1>1. ASSUME NEW o \in Objs PROVE count'[o] <= Total(OwnedBy(o)') + Cardinality(Kept(o)')
  <2>1. /\ Total(OwnedBy(o)) \in Nat /\ Cardinality(Kept(o)) \in Nat /\ count[o] \in Nat
        /\ count[o] <= Total(OwnedBy(o)) + Cardinality(Kept(o))
    BY RefsType, KeptType DEF IInv, TypeOK, Bounded
  <2>2. IsFiniteSet(Kept(o)') /\ Cardinality(Kept(o)') \in Nat
    <3>1. Kept(o)' \subseteq Queues \X Cells
      BY DEF Kept
    <3> QED
      BY <3>1, CellsFinite, FS_CardinalityType
  <2>3. count[o] > 0 => Cardinality(Kept(o)) <= Cardinality(Kept(o)')
    BY <2>2, FS_Subset
  <2> QED
    BY <2>1, <2>2, <2>3
<1> QED
  BY <1>1 DEF Bounded, Total

LEMMA DropRootStep ==
  ASSUME IInv, NEW t \in Threads, NEW o \in Objs, DropRoot(t, o)
  PROVE  IInv'
<1>0. /\ mode[t] = "recover" /\ held[t][o] > 0
      /\ held' = [held EXCEPT ![t][o] = @ - 1]
      /\ count' = [count EXCEPT ![o] = IF @ = 0 THEN 0 ELSE @ - 1]
      /\ UNCHANGED <<start, end, buf, sid, rid, sendList, recvList, log, seg, pc, loc, mode>>
  BY DEF DropRoot, Release, queue, lists
<1>1. /\ TypeOK /\ LocInv /\ count \in [Objs -> Nat] /\ held \in [Threads -> [Objs -> Nat]]
      /\ pc[t] = "idle" /\ ~Up(t) /\ ~Up(t)' /\ Bounded /\ LogOK(t) /\ PhaseOK(t)
      /\ \A u \in Threads : mode[u] # "live"
  BY <1>0, AtWork DEF IInv, TypeOK, Up
<1>2. /\ held'[t][o] = held[t][o] - 1 /\ held' \in [Threads -> [Objs -> Nat]]
      /\ \A u \in Threads, x \in Objs : u # t \/ x # o => held'[u][x] = held[u][x]
      /\ \A u \in Threads \ {t} : held'[u] = held[u]
  <2>1. [held[t] EXCEPT ![o] = @ - 1] \in [Objs -> Nat]
    BY <1>0, <1>1
  <2>2. held' = [held EXCEPT ![t] = [held[t] EXCEPT ![o] = @ - 1]]
    BY <1>0, <1>1
  <2> QED
    BY <1>1, <2>1, <2>2
<1>3. /\ count' \in [Objs -> Nat] /\ \A x \in Objs : count'[x] <= count[x]
      /\ \A x \in Objs \ {o} : count'[x] = count[x]
      /\ count'[o] = IF count[o] = 0 THEN 0 ELSE count[o] - 1
  BY <1>0, <1>1
<1>4. TypeOK'
  BY <1>0, <1>1, <1>2, <1>3 DEF TypeOK
<1>5. Alone(t)
  BY <1>0, <1>2 DEF Alone
<1>6. FreedEmpty' /\ QueueInv'
  <2>1. FreedEmpty'
    BY <1>0, <1>1, <1>3 DEF IInv, FreedEmpty, LiveObject
  <2>2. QueueInv'
    BY <1>0, <1>1, <1>5, QueueFrame DEF IInv, Working
  <2> QED
    BY <2>1, <2>2
<1>7. Bounded'
  <2>1. \A u \in Threads : \A f, p, x : Pending(u, f, p, x)' <=> Pending(u, f, p, x)
    BY <1>0, <1>1, AtRest
  <2>2. \A c : Void(c)' <=> Void(c)
    BY <1>0, <1>1, AtRest
  <2>3. \A x : Kept(x)' = Kept(x)
    BY <1>0, <2>1, <2>2 DEF Kept, Answers, SenderCells, ReceiverCells, Between, Cells
  <2>4. \A x \in Objs : /\ OwnedBy(x) \in [Threads -> Nat] /\ Total(OwnedBy(x)) \in Nat
                        /\ count[x] <= Total(OwnedBy(x)) + Cardinality(Kept(x))
                        /\ Cardinality(Kept(x)) \in Nat /\ count[x] \in Nat
    BY <1>1, RefsType, OwnedType, KeptType DEF Bounded
  <2>5. \A u \in Threads, x \in Objs : u # t \/ x # o => Owned(u, x)' = Owned(u, x)
    BY <1>2, <2>1 DEF Owned
  <2>6. Owned(t, o) = held[t][o] /\ Owned(t, o)' = held'[t][o]
    <3>1. \A f : ~Pending(t, f, Root, o) /\ ~Pending(t, f, Root, o)'
      BY <1>0, <1>1 DEF Pending
    <3>2. held[t][o] \in Nat /\ held'[t][o] \in Nat
      BY <1>1, <1>2
    <3> QED
      BY <3>1, <3>2 DEF Owned
  <2>7. \A x \in Objs \ {o} : OwnedBy(x)' = OwnedBy(x)
    BY <2>5 DEF OwnedBy
  <2>8. OwnedBy(o)' = [OwnedBy(o) EXCEPT ![t] = @ - 1]
    <3>1. Owned(t, o)' = Owned(t, o) - 1
      BY <1>2, <2>6
    <3> QED
      BY <2>5, <3>1 DEF OwnedBy
  <2>9. OwnedBy(o)[t] > 0
    <3>1. OwnedBy(o)[t] = Owned(t, o)
      BY DEF OwnedBy
    <3> QED
      BY <1>0, <2>6, <3>1
  <2>10. Total(OwnedBy(o)') = Total(OwnedBy(o)) - 1 /\ Total(OwnedBy(o)) > 0
    BY <2>4, <2>8, <2>9, TotalDown, TotalType
  <2>11. \A x \in Objs : count'[x] <= Total(OwnedBy(x)') + Cardinality(Kept(x)')
    <3> TAKE x \in Objs
    <3>1. CASE x = o
      BY <1>3, <2>3, <2>4, <2>10, <3>1
    <3>2. CASE x # o
      BY <1>3, <2>3, <2>4, <2>7, <3>2
    <3> QED
      BY <3>1, <3>2
  <2> QED
    BY <2>11 DEF Bounded, Total
<1>8. LogOK(t)' /\ PhaseOK(t)'
  <2>1. LogOK(t)'
    BY <1>0, <1>1 DEF LogOK, Up
  <2>2. PhaseOK(t)'
    BY <1>0, <1>1 DEF PhaseOK, Up
  <2> QED
    BY <2>1, <2>2
<1> QED
  BY <1>0, <1>1, <1>4, <1>5, <1>6, <1>7, <1>8, Recovery
LEMMA DropCellStep ==
  ASSUME IInv, NEW t \in Threads, NEW q \in Queues, NEW k \in Cells, DropCell(t, q, k)
  PROVE  IInv'
<1>o. PICK o \in Objs : o = buf[q][k] /\ count[o] # 0
  BY DEF DropCell, Referring, IInv, TypeOK
<1>0. /\ mode[t] = "recover"
      /\ buf' = [buf EXCEPT ![q][k] = Null]
      /\ count' = [count EXCEPT ![o] = IF @ = 0 THEN 0 ELSE @ - 1]
      /\ UNCHANGED <<start, end, sid, rid, sendList, recvList, held, log, seg, pc, loc, mode>>
  BY <1>o DEF DropCell, Release, lists
<1>1. /\ TypeOK /\ LocInv /\ count \in [Objs -> Nat]
      /\ buf \in [Queues -> [Cells -> Objs \cup {Null}]]
      /\ pc[t] = "idle" /\ ~Up(t) /\ ~Up(t)' /\ Bounded /\ LogOK(t) /\ PhaseOK(t)
      /\ \A u \in Threads : mode[u] # "live"
  BY <1>0, AtWork DEF IInv, TypeOK, Up
<1>2. /\ buf'[q][k] = Null /\ buf' \in [Queues -> [Cells -> Objs \cup {Null}]]
      /\ \A r \in Queues, j \in Cells : r # q \/ j # k => buf'[r][j] = buf[r][j]
  BY <1>0, <1>1
<1>3. /\ count' \in [Objs -> Nat] /\ \A x \in Objs : count'[x] <= count[x]
      /\ \A x \in Objs \ {o} : count'[x] = count[x] /\ count'[o] = count[o] - 1
  <2>1. count[o] \in Nat /\ count'[o] = count[o] - 1 /\ count[o] - 1 \in Nat
    BY <1>0, <1>1, <1>o
  <2>2. \A x \in Objs \ {o} : count'[x] = count[x] /\ count[x] \in Nat
    BY <1>0, <1>1
  <2>3. count' \in [Objs -> Nat]
    BY <1>0, <1>1, <2>1
  <2> QED
    BY <2>1, <2>2, <2>3
<1>4. TypeOK'
  BY <1>0, <1>1, <1>2, <1>3 DEF TypeOK
<1>5. Alone(t)
  BY <1>0 DEF Alone
<1>6. FreedEmpty' /\ QueueInv'
  <2>1. FreedEmpty'
    BY <1>0, <1>1, <1>3 DEF IInv, FreedEmpty, LiveObject
  <2>2. QueueInv'
    BY <1>0, <1>1, <1>5, QueueFrame DEF IInv, Working
  <2> QED
    BY <2>1, <2>2
<1>7. Bounded'
  <2> DEFINE c == <<q, k>>
  <2>1. \A u \in Threads : \A f, p, x : Pending(u, f, p, x)' <=> Pending(u, f, p, x)
    BY <1>0, <1>1, AtRest
  <2>2. \A d : Void(d)' <=> Void(d)
    BY <1>0, <1>1, AtRest
  <2>3. \A x : OwnedBy(x)' = OwnedBy(x)
    BY <1>0, <1>1, AtRest
  <2>4. \A u \in Threads : \A r, j : Answers(u, r, j)' <=> Answers(u, r, j)
    BY <1>0 DEF Answers, SenderCells, ReceiverCells, Between, Cells
  <2>5. ASSUME NEW x \in Objs, NEW d \in Kept(x), x # o \/ d # c
        PROVE  d \in Kept(x)'
    <3>1. /\ d \in Queues \X Cells /\ ~Void(d)
          /\ buf[d[1]][d[2]] = x \/ \E u \in Threads : Pending(u, "link", d, x)
          /\ \E u \in Threads : Answers(u, d[1], d[2])
      BY <2>5 DEF Kept
    <3>2. buf[d[1]][d[2]] = x => buf'[d[1]][d[2]] = x
      <4>1. d # c => d[1] # q \/ d[2] # k
        BY <3>1
      <4>2. d = c => buf[d[1]][d[2]] = o
        BY <1>o
      <4> QED
        BY <1>2, <2>5, <3>1, <4>1, <4>2
    <3> QED
      BY <2>1, <2>2, <2>4, <3>1, <3>2 DEF Kept
  <2>6. \A x \in Objs : /\ Total(OwnedBy(x)) \in Nat /\ Cardinality(Kept(x)) \in Nat
                        /\ IsFiniteSet(Kept(x)) /\ count[x] \in Nat
                        /\ count[x] <= Total(OwnedBy(x)) + Cardinality(Kept(x))
    BY <1>1, RefsType, KeptType DEF Bounded
  <2>7. \A x : IsFiniteSet(Kept(x)') /\ Cardinality(Kept(x)') \in Nat
    <3>1. \A x : Kept(x)' \subseteq Queues \X Cells
      BY DEF Kept
    <3> QED
      BY <3>1, CellsFinite, FS_CardinalityType
  <2>8. ASSUME NEW x \in Objs
        PROVE  count'[x] <= Total(OwnedBy(x)') + Cardinality(Kept(x)')
    <3>1. CASE x = o
      <4>1. Kept(o) \ {c} \subseteq Kept(o)'
        BY <2>5
      <4>2. /\ IsFiniteSet(Kept(o) \ {c})
            /\ Cardinality(Kept(o) \ {c}) = IF c \in Kept(o) THEN Cardinality(Kept(o)) - 1
                                                            ELSE Cardinality(Kept(o))
        BY <2>6, FS_RemoveElement
      <4>3. Cardinality(Kept(o) \ {c}) <= Cardinality(Kept(o)')
        BY <2>7, <4>1, FS_Subset
      <4>4. count'[o] = count[o] - 1
        BY <1>0, <1>1, <1>o
      <4>5. Cardinality(Kept(o)) - 1 <= Cardinality(Kept(o)')
        BY <2>6, <2>7, <4>2, <4>3
      <4> QED
        BY <2>3, <2>6, <2>7, <3>1, <4>4, <4>5
    <3>2. CASE x # o
      <4>1. Kept(x) \subseteq Kept(x)'
        BY <2>5, <3>2
      <4>2. Cardinality(Kept(x)) <= Cardinality(Kept(x)')
        BY <2>7, <4>1, FS_Subset
      <4>3. count'[x] = count[x]
        BY <1>0, <1>1, <3>2
      <4> QED
        BY <2>3, <2>6, <2>7, <4>2, <4>3
    <3> QED
      BY <3>1, <3>2
  <2> QED
    BY <2>8 DEF Bounded, Total
<1>8. \A r \in Queues, j \in Cells : buf'[r][j] \in {buf[r][j], Null}
  BY <1>2
<1>9. LogOK(t)' /\ PhaseOK(t)'
  <2>1. log[t].place # Root => log[t].place[1] \in Queues /\ log[t].place[2] \in Cells
    BY <1>1, PlaceIs DEF TypeOK
  <2>2. LogOK(t)'
    BY <1>0, <1>1, <1>8, <2>1 DEF LogOK, Up
  <2>3. PhaseOK(t)'
    BY <1>0, <1>1 DEF PhaseOK, Up
  <2> QED
    BY <2>2, <2>3
<1> QED
  BY <1>0, <1>1, <1>4, <1>5, <1>6, <1>7, <1>8, <1>9, Recovery

(* The last of the lists of a sender leads to no cell that counts.         *)
LEMMA EndSenderStep ==
  ASSUME IInv, NEW t \in Threads, NEW q \in Queues, EndSender(t, q)
  PROVE  IInv'
<1>0. /\ mode[t] = "recover" /\ q \in sendList[t]
      /\ SenderCells(q) \cap Referring(q) = {}
      /\ sid' = [sid EXCEPT ![q] = 0] /\ sendList' = [sendList EXCEPT ![t] = @ \ {q}]
      /\ seg' = [seg EXCEPT ![t] = "abandon"]
      /\ UNCHANGED <<start, end, buf, rid, recvList, count, held, log, pc, loc, mode>>
  BY DEF EndSender, refs
<1>1. /\ TypeOK /\ LocInv
      /\ pc[t] = "idle" /\ ~Up(t) /\ ~Up(t)' /\ Bounded /\ LogOK(t) /\ PhaseOK(t)
      /\ \A u \in Threads : mode[u] # "live"
  BY <1>0, AtWork DEF IInv, Up
<1>2. /\ sendList'[t] = sendList[t] \ {q} /\ seg'[t] = "abandon"
      /\ \A u \in Threads \ {t} : sendList'[u] = sendList[u] /\ seg'[u] = seg[u]
  BY <1>0, <1>1 DEF TypeOK
<1>3. TypeOK'
  BY <1>0, <1>1 DEF TypeOK
<1>4. Alone(t)
  BY <1>0, <1>2 DEF Alone
<1>5. FreedEmpty'
  BY <1>0, <1>2 DEF IInv, FreedEmpty, LiveObject
<1>6. Sender[q] = t
  BY <1>0 DEF IInv, QueueInv, QueueOK
<1>7. QueueInv'
  <2>1. \A r \in Queues : Keeps(r) => Keeps(r)'
    BY <1>2, <1>6, EndsAssumption DEF Keeps
  <2>2. \A u \in Threads, r \in Queues :
          /\ Working(u, r, "attach")' <=> Working(u, r, "attach")
          /\ r \in sendList'[u] => r \in sendList[u]
    BY <1>0, <1>2 DEF Working
  <2> QED
    BY <1>0, <2>1, <2>2 DEF IInv, QueueInv, QueueOK
<1>8. Bounded'
  <2>1. \A u \in Threads : \A f, p, x : Pending(u, f, p, x)' <=> Pending(u, f, p, x)
    BY <1>0, <1>1, AtRest
  <2>2. \A d : Void(d)' <=> Void(d)
    BY <1>0, <1>1, AtRest
  <2>3. \A x : OwnedBy(x)' = OwnedBy(x)
    BY <1>0, <1>1, AtRest
  <2>4. ASSUME NEW o \in Objs, count[o] > 0, NEW d \in Kept(o) PROVE d \in Kept(o)'
    <3>1. /\ d \in Queues \X Cells /\ ~Void(d) /\ d = <<d[1], d[2]>>
          /\ buf[d[1]][d[2]] = o \/ \E u \in Threads : Pending(u, "link", d, o)
      BY <2>4 DEF Kept
    <3>2. PICK u \in Threads : Answers(u, d[1], d[2])
      BY <2>4 DEF Kept
    <3>3. Answers(u, d[1], d[2])'
      <4>1. CASE ~(u = t /\ d[1] = q /\ d[2] \in SenderCells(q))
        BY <1>0, <1>2, <3>1, <3>2, <4>1
           DEF Answers, SenderCells, ReceiverCells, Between, Cells
      <4>2. ASSUME u = t, d[1] = q, d[2] \in SenderCells(q) PROVE FALSE
        <5>1. buf[q][d[2]] # o
          BY <1>0, <1>1, <2>4, <3>1, <4>2, DataAssumption DEF Referring
        <5>2. PICK v \in Threads : Pending(v, "link", d, o)
          BY <3>1, <4>2, <5>1
        <5>3. LocOK(v) /\ Busy(v) /\ loc[v].func = "link" /\ loc[v].place = d /\ d # Root
          BY <1>1, <3>1, <5>2, RootIs DEF LocInv, Pending, Busy
        <5>4. Sending(v) /\ loc[v].queue = q
          BY <3>1, <4>2, <5>3 DEF LocOK, Dropping
        <5> QED
          BY <1>1, <1>6, <5>2, <5>4 DEF Sending, Pending
      <4> QED
        BY <4>1, <4>2
    <3> QED
      BY <1>0, <2>1, <2>2, <3>1, <3>3 DEF Kept
  <2> QED
    BY <1>0, <1>1, <2>3, <2>4, KeptFrame
<1>9. LogOK(t)' /\ PhaseOK(t)'
  <2>1. LogOK(t)'
    BY <1>0, <1>1 DEF LogOK, Up
  <2>2. PhaseOK(t)'
    BY <1>0, <1>1, <1>2 DEF PhaseOK, Up
  <2> QED
    BY <2>1, <2>2
<1> QED
  BY <1>0, <1>1, <1>3, <1>4, <1>5, <1>7, <1>8, <1>9, Recovery
(* The receiver leaves a queue none of whose messages counts; what the     *)
(* sender answers for only grows.                                          *)
LEMMA EndReceiverStep ==
  ASSUME IInv, NEW t \in Threads, NEW q \in Queues, EndReceiver(t, q)
  PROVE  IInv'
<1>0. /\ mode[t] = "recover" /\ q \in recvList[t]
      /\ ReceiverCells(q) \cap Referring(q) = {}
      /\ rid' = [rid EXCEPT ![q] = 0] /\ recvList' = [recvList EXCEPT ![t] = @ \ {q}]
      /\ UNCHANGED <<start, end, buf, sid, sendList, count, held, log, seg, pc, loc, mode>>
  BY DEF EndReceiver, refs
<1>1. /\ TypeOK /\ LocInv
      /\ pc[t] = "idle" /\ ~Up(t) /\ ~Up(t)' /\ Bounded /\ LogOK(t) /\ PhaseOK(t)
      /\ \A u \in Threads : mode[u] # "live"
  BY <1>0, AtWork DEF IInv, Up
<1>2. /\ recvList'[t] = recvList[t] \ {q} /\ rid'[q] = 0
      /\ \A u \in Threads \ {t} : recvList'[u] = recvList[u]
      /\ \A r \in Queues \ {q} : rid'[r] = rid[r]
  BY <1>0, <1>1 DEF TypeOK
<1>3. TypeOK'
  BY <1>0, <1>1 DEF TypeOK
<1>4. Alone(t)
  BY <1>0, <1>2 DEF Alone
<1>5. FreedEmpty'
  BY <1>0, <1>2 DEF IInv, FreedEmpty, LiveObject
<1>7. QueueInv'
  <2>1. \A r \in Queues : Keeps(r)' <=> Keeps(r)
    BY <1>0 DEF Keeps
  <2>2. \A u \in Threads, r \in Queues :
          /\ Working(u, r, "attach")' <=> Working(u, r, "attach")
          /\ r \in recvList'[u] => r \in recvList[u]
    BY <1>0, <1>2 DEF Working
  <2>3. \A r \in Queues : rid'[r] # 0 => r \in recvList'[Receiver[r]]
    BY <1>2, EndsAssumption DEF IInv, QueueInv, QueueOK
  <2> QED
    BY <1>0, <2>1, <2>2, <2>3 DEF IInv, QueueInv, QueueOK
<1>8. Bounded'
  <2>1. \A u \in Threads : \A f, p, x : Pending(u, f, p, x)' <=> Pending(u, f, p, x)
    BY <1>0, <1>1, AtRest
  <2>2. \A d : Void(d)' <=> Void(d)
    BY <1>0, <1>1, AtRest
  <2>3. \A x : OwnedBy(x)' = OwnedBy(x)
    BY <1>0, <1>1, AtRest
  <2>4. ASSUME NEW o \in Objs, count[o] > 0, NEW d \in Kept(o) PROVE d \in Kept(o)'
    <3>1. /\ d \in Queues \X Cells /\ ~Void(d) /\ d = <<d[1], d[2]>>
          /\ buf[d[1]][d[2]] = o \/ \E u \in Threads : Pending(u, "link", d, o)
      BY <2>4 DEF Kept
    <3>2. PICK u \in Threads : Answers(u, d[1], d[2])
      BY <2>4 DEF Kept
    <3>3. Answers(u, d[1], d[2])'
      <4>1. CASE d[1] # q
        BY <1>0, <1>2, <3>1, <3>2, <4>1
           DEF Answers, SenderCells, ReceiverCells, Between, Cells
      <4>2. CASE d[1] = q /\ q \in sendList[u] /\ d[2] \in SenderCells(q)
        <5>1. d[2] \in SenderCells(q)'
          BY <1>0, <1>2, <4>2 DEF SenderCells, Between, Cells
        <5> QED
          BY <1>0, <3>2, <4>2, <5>1 DEF Answers
      <4>3. ASSUME d[1] = q, d[2] \in ReceiverCells(q) PROVE FALSE
        <5>1. buf[q][d[2]] # o
          BY <1>0, <1>1, <2>4, <3>1, <4>3, DataAssumption DEF Referring
        <5>2. PICK v \in Threads : Pending(v, "link", d, o)
          BY <3>1, <4>3, <5>1
        <5>3. LocOK(v) /\ Busy(v) /\ loc[v].func = "link" /\ loc[v].place = d /\ d # Root
          BY <1>1, <3>1, <5>2, RootIs DEF LocInv, Pending, Busy
        <5>4. d = <<loc[v].queue, end[loc[v].queue]>>
          BY <5>3 DEF LocOK, Dropping
        <5>5. d[2] = end[q] /\ start[q] \in Cells /\ end[q] \in Cells
          BY <1>1, <4>3, <5>4 DEF TypeOK
        <5> QED
          BY <4>3, <5>5, BetweenMoves DEF ReceiverCells
      <4> QED
        BY <3>2, <4>1, <4>2, <4>3 DEF Answers
    <3> QED
      BY <1>0, <2>1, <2>2, <3>1, <3>3 DEF Kept
  <2> QED
    BY <1>0, <1>1, <2>3, <2>4, KeptFrame
<1>9. LogOK(t)' /\ PhaseOK(t)'
  <2>1. LogOK(t)'
    BY <1>0, <1>1 DEF LogOK, Up
  <2>2. PhaseOK(t)'
    BY <1>0, <1>1 DEF PhaseOK, Up
  <2> QED
    BY <2>1, <2>2
<1> QED
  BY <1>0, <1>1, <1>3, <1>4, <1>5, <1>7, <1>8, <1>9, Recovery

(* A thread whose lists are empty answers for nothing; its segment is kept *)
(* while somebody may still have one of its queues.                        *)
LEMMA FinishStep ==
  ASSUME IInv, NEW t \in Threads, Finish(t)
  PROVE  IInv'
<1>0. /\ mode[t] = "recover" /\ NoRoots(t) /\ sendList[t] = {} /\ recvList[t] = {}
      /\ seg' = [seg EXCEPT ![t] = IF seg[t] = "abandon" \/ LiveObject(t)
                                   THEN "abandon" ELSE "free"]
      /\ mode' = [mode EXCEPT ![t] = "gone"]
      /\ UNCHANGED <<start, end, buf, sid, rid, sendList, recvList, count, held, log, pc, loc>>
  BY DEF Finish, queue, lists, refs
<1>1. /\ TypeOK /\ LocInv /\ QueueInv
      /\ pc[t] = "idle" /\ ~Up(t) /\ Bounded /\ LogOK(t) /\ PhaseOK(t)
      /\ \A u \in Threads : mode[u] # "live"
  BY <1>0, AtWork DEF IInv
<1>2. /\ mode'[t] = "gone" /\ ~Up(t)' /\ seg'[t] \in {"abandon", "free"}
      /\ seg'[t] = "free" => seg[t] # "abandon" /\ ~LiveObject(t)
      /\ \A u \in Threads \ {t} : mode'[u] = mode[u] /\ seg'[u] = seg[u]
  BY <1>0, <1>1 DEF TypeOK, Up
<1>3. TypeOK'
  BY <1>0, <1>1 DEF TypeOK
<1>4. Alone(t)
  BY <1>0, <1>2 DEF Alone
<1>5. seg'[t] = "free" => \A r \in Queues : Sender[r] = t => ~Keeps(r)
  BY <1>0, <1>2 DEF Keeps
<1>6. FreedEmpty'
  BY <1>0, <1>1, <1>2, <1>5 DEF IInv, FreedEmpty, LiveObject, QueueInv, QueueOK
<1>7. QueueInv'
  <2>1. ASSUME NEW r \in Queues, Keeps(r) PROVE Keeps(r)'
    BY <1>0, <1>2, <1>5, <2>1, EndsAssumption DEF Keeps
  <2>2. \A u \in Threads, r \in Queues : Working(u, r, "attach")' <=> Working(u, r, "attach")
    BY <1>0 DEF Working
  <2> QED
    BY <1>0, <1>1, <2>1, <2>2 DEF QueueInv, QueueOK
<1>8. Bounded'
  <2>1. \A u \in Threads : \A f, p, x : Pending(u, f, p, x)' <=> Pending(u, f, p, x)
    BY <1>0, <1>1, <1>2, AtRest
  <2>2. \A d : Void(d)' <=> Void(d)
    BY <1>0, <1>1, <1>2, AtRest
  <2>3. \A x : OwnedBy(x)' = OwnedBy(x)
    BY <1>0, <1>1, <1>2, AtRest
  <2>4. \A u \in Threads : \A r, j : Answers(u, r, j) => Answers(u, r, j)'
    BY <1>0, <1>2 DEF Answers, SenderCells, ReceiverCells, Between, Cells
  <2>5. \A o \in Objs : Kept(o) \subseteq Kept(o)'
    BY <1>0, <2>1, <2>2, <2>4 DEF Kept
  <2> QED
    BY <1>0, <1>1, <2>3, <2>5, KeptFrame
<1>9. LogOK(t)' /\ PhaseOK(t)'
  <2>1. LogOK(t)'
    BY <1>0, <1>1, <1>2 DEF LogOK
  <2>2. PhaseOK(t)'
    BY <1>0, <1>1, <1>2 DEF PhaseOK, NoRoots
  <2> QED
    BY <2>1, <2>2
<1> QED
  BY <1>0, <1>1, <1>2, <1>3, <1>4, <1>6, <1>7, <1>8, <1>9, Recovery

(* The segment pass, when every thread has been recovered.                 *)
LEMMA SweepStep ==
  ASSUME ~Concurrent, IInv, NEW t \in Threads, Sweep(t)
  PROVE  IInv'
<1>0. /\ \A u \in Threads : mode[u] = "gone"
      /\ ~LiveObject(t) /\ seg' = [seg EXCEPT ![t] = "free"]
      /\ UNCHANGED <<start, end, buf, sid, rid, sendList, recvList, count, held, log, pc, loc, mode>>
  BY DEF Sweep, queue, lists, refs
<1>1. /\ TypeOK /\ LocInv /\ QueueInv /\ LogOK(t) /\ PhaseOK(t) /\ Bounded
      /\ \A u \in Threads : /\ ~Up(u) /\ ~Up(u)' /\ pc[u] = "idle" /\ mode[u] # "live"
                            /\ recvList[u] = {}
  BY <1>0 DEF IInv, LogInv, PhaseInv, PhaseOK, Up, CoverInv, Undisturbed
<1>2. seg'[t] = "free" /\ \A u \in Threads \ {t} : seg'[u] = seg[u]
  BY <1>0, <1>1 DEF TypeOK
<1>3. TypeOK'
  BY <1>0, <1>1 DEF TypeOK
<1>4. Alone(t)
  BY <1>0, <1>2 DEF Alone
<1>6. FreedEmpty'
  BY <1>0, <1>1, <1>2 DEF IInv, FreedEmpty, LiveObject
<1>7. QueueInv'
  <2>1. \A u \in Threads, r \in Queues : ~Working(u, r, "attach")'
    BY <1>0, <1>1 DEF Working
  <2> QED
    BY <1>0, <1>1, <2>1 DEF QueueInv, QueueOK
<1>8. Bounded'
  <2>1. \A u \in Threads : \A f, p, x : Pending(u, f, p, x)' <=> Pending(u, f, p, x)
    BY <1>0, <1>1, AtRest
  <2>2. \A d : Void(d)' <=> Void(d)
    BY <1>0, <1>1, AtRest
  <2>3. \A x : OwnedBy(x)' = OwnedBy(x)
    BY <1>0, <1>1, AtRest
  <2>4. \A u \in Threads : \A r, j : Answers(u, r, j)' <=> Answers(u, r, j)
    BY <1>0 DEF Answers, SenderCells, ReceiverCells, Between, Cells
  <2>5. \A o \in Objs : Kept(o) \subseteq Kept(o)'
    BY <1>0, <2>1, <2>2, <2>4 DEF Kept
  <2> QED
    BY <1>0, <1>1, <2>3, <2>5, KeptFrame
<1>9. LogOK(t)' /\ PhaseOK(t)'
  <2>1. LogOK(t)'
    BY <1>0, <1>1 DEF LogOK
  <2>2. PhaseOK(t)'
    BY <1>0, <1>1 DEF PhaseOK, NoRoots
  <2> QED
    BY <2>1, <2>2
<1> QED
  BY <1>0, <1>1, <1>3, <1>4, <1>6, <1>7, <1>8, <1>9, Recovery
(* The redo of the last record: the reference it counted is stored, the    *)
(* one it no longer counted is gone, and every other is left alone.        *)
LEMMA RedoStep ==
  ASSUME ~Concurrent, IInv, NEW t \in Threads, Redo(t)
  PROVE  IInv'
<1>e. PICK e : e = log[t]
  OBVIOUS
<1>0. /\ mode[t] = "crashed" /\ \A u \in Threads : mode[u] # "live"
      /\ IF e.done /\ e.place # Root THEN Put(e.func, e.place, e.obj) ELSE UNCHANGED buf
      /\ IF e.done /\ e.place = Root /\ pc[t] = "store"
         THEN PutRoot(t, e.func, e.obj) ELSE UNCHANGED held
      /\ mode' = [mode EXCEPT ![t] = "recover"]
      /\ pc' = [pc EXCEPT ![t] = "idle"] /\ loc' = [loc EXCEPT ![t] = NoLocals]
      /\ UNCHANGED <<start, end, sid, rid, sendList, recvList, count, log, seg>>
  BY <1>e DEF Redo, Turn, Goto, lists
<1>1. /\ TypeOK /\ LocInv /\ LogInv /\ QueueInv /\ LocOK(t) /\ LogOK(t) /\ PhaseOK(t) /\ Up(t)
      /\ buf \in [Queues -> [Cells -> Objs \cup {Null}]]
      /\ held \in [Threads -> [Objs -> Nat]]
      /\ \A q \in Queues : start[q] \in Cells /\ end[q] \in Cells
  BY <1>0 DEF IInv, TypeOK, LocInv, LogInv, PhaseInv, Up
<1>2. /\ pc'[t] = "idle" /\ mode'[t] = "recover" /\ ~Up(t)'
      /\ \A u \in Threads \ {t} : /\ pc'[u] = pc[u] /\ loc'[u] = loc[u]
                                  /\ mode'[u] = mode[u] /\ (Up(u)' <=> Up(u))
  BY <1>0, <1>1 DEF TypeOK, Up
<1>3. Bounded
  BY CalmBounded DEF IInv, CoverInv
<1>4. /\ e.place \in Places /\ e.func \in {"none", "link", "unlink"} /\ e.done \in BOOLEAN
      /\ e.done => e.obj \in Objs /\ e.func # "none"
      /\ e.place # Root => /\ e.place[1] \in Queues /\ e.place[2] \in Cells
                           /\ e.place = <<e.place[1], e.place[2]>>
  BY <1>1, <1>e, PlaceIs DEF TypeOK, LogOK
<1>5. /\ pc[t] = "store" =>
           e.done /\ e.func = loc[t].func /\ e.place = loc[t].place /\ e.obj = loc[t].obj
      /\ e.func = "link" /\ e.place # Root =>
           Sender[e.place[1]] = t /\ buf[e.place[1]][e.place[2]] \in {Null, e.obj}
  BY <1>1, <1>e DEF LogOK
<1>6. /\ \A r \in Queues, j \in Cells :
           buf'[r][j] = IF e.done /\ e.place = <<r, j>>
                        THEN IF e.func = "link" THEN e.obj ELSE Null ELSE buf[r][j]
      /\ buf' \in [Queues -> [Cells -> Objs \cup {Null}]]
  <2>1. CASE e.done /\ e.place # Root
    <3>1. PICK q \in Queues, k \in Cells : e.place = <<q, k>>
      BY <1>4, <2>1
    <3>2. buf' = [buf EXCEPT ![q][k] = IF e.func = "link" THEN e.obj ELSE Null]
      BY <1>0, <2>1, <3>1 DEF Put
    <3>3. (IF e.func = "link" THEN e.obj ELSE Null) \in Objs \cup {Null}
      BY <1>4, <2>1
    <3> QED
      BY <1>1, <2>1, <3>1, <3>2, <3>3
  <2>2. CASE ~(e.done /\ e.place # Root)
    BY <1>0, <1>1, <2>2, RootIs
  <2> QED
    BY <2>1, <2>2
<1>7. /\ \A u \in Threads \ {t} : held'[u] = held[u]
      /\ held' \in [Threads -> [Objs -> Nat]]
      /\ \A o \in Objs : held'[t][o] = Owned(t, o)
  <2>0. \A f, x : Pending(t, f, Root, x) <=>
          pc[t] = "store" /\ e.place = Root /\ f = e.func /\ x = e.obj
    BY <1>5 DEF Pending
  <2>1. CASE e.place = Root /\ pc[t] = "store"
    <3>1. e.obj \in Objs /\ e.func \in {"link", "unlink"} /\ e.done
      BY <1>4, <1>5, <2>1
    <3>2. PutRoot(t, e.func, e.obj)
      BY <1>0, <2>1, <3>1
    <3>3. \A u \in Threads \ {t} : held'[u] = held[u]
      BY <1>1, <3>2 DEF PutRoot
    <3>4. ASSUME NEW o \in Objs PROVE held'[t][o] = Owned(t, o)
      <4>1. held[t][o] \in Nat
        BY <1>1
      <4>2. CASE o = e.obj
        BY <1>1, <2>0, <2>1, <3>1, <3>2, <4>1, <4>2 DEF PutRoot, Owned
      <4>3. CASE o # e.obj
        BY <1>1, <2>0, <3>1, <3>2, <4>1, <4>3 DEF PutRoot, Owned
      <4> QED
        BY <4>2, <4>3
    <3>5. \A o \in Objs : Owned(t, o) \in Nat
      BY <1>1, OwnedType DEF OwnedBy
    <3>6. held' = [held EXCEPT ![t] = [held[t] EXCEPT ![e.obj] =
                                         IF e.func = "link" THEN @ + 1 ELSE @ - 1]]
      BY <1>1, <3>1, <3>2 DEF PutRoot
    <3>7. held'[t] = [o \in Objs |-> Owned(t, o)]
      BY <1>1, <3>4, <3>6
    <3>8. held'[t] \in [Objs -> Nat]
      BY <3>5, <3>7
    <3>9. held' \in [Threads -> [Objs -> Nat]]
      <4> DEFINE h == [held[t] EXCEPT ![e.obj] = IF e.func = "link" THEN @ + 1 ELSE @ - 1]
      <4>1. held' = [held EXCEPT ![t] = h]
        BY <3>6
      <4> HIDE DEF h
      <4>2. held'[t] = h
        BY <1>1, <4>1
      <4> QED
        BY <1>1, <3>8, <4>1, <4>2
    <3> QED
      BY <3>3, <3>4, <3>9
  <2>2. CASE ~(e.place = Root /\ pc[t] = "store")
    <3>1. held' = held
      BY <1>0, <2>2
    <3>2. \A o \in Objs : Owned(t, o) = held[t][o]
      <4> TAKE o \in Objs
      <4>1. held[t][o] \in Nat
        BY <1>1
      <4> QED
        BY <2>0, <2>2, <4>1 DEF Owned
    <3> QED
      BY <1>1, <3>1, <3>2
  <2> QED
    BY <2>1, <2>2
<1>8. TypeOK'
  BY <1>0, <1>1, <1>6, <1>7 DEF TypeOK, NoLocals, Places
<1>9. Alone(t)
  BY <1>0, <1>2, <1>7 DEF Alone
<1>10. FreedEmpty'
  BY <1>0 DEF IInv, FreedEmpty, LiveObject
<1>11. QueueInv'
  BY <1>0, <1>2, <1>9, QueueFrame DEF IInv, Working
<1>12. LogOK(t)' /\ PhaseOK(t)'
  <2>1. LogOK(t)'
    <3>1. log'[t] = e
      BY <1>0, <1>e
    <3>2. e.func = "link" /\ e.place # Root =>
            buf'[e.place[1]][e.place[2]] \in {Null, e.obj}
      BY <1>4, <1>5, <1>6
    <3> QED
      BY <1>1, <1>2, <1>e, <3>1, <3>2 DEF LogOK
  <2>2. PhaseOK(t)'
    BY <1>0, <1>1, <1>2 DEF PhaseOK, Up
  <2> QED
    BY <2>1, <2>2
<1>13. \A r \in Queues, j \in Cells : Sender[r] = t \/ buf'[r][j] \in {buf[r][j], Null}
  <2> TAKE r \in Queues, j \in Cells
  <2>1. CASE e.done /\ e.place = <<r, j>> /\ e.func = "link"
    BY <1>5, <2>1, RootIs
  <2>2. CASE ~(e.done /\ e.place = <<r, j>> /\ e.func = "link")
    BY <1>6, <2>2
  <2> QED
    BY <2>1, <2>2
<1>14. Bounded'
  <2>1. \A u \in Threads : \A f, p, x :
          Pending(u, f, p, x)' <=> Pending(u, f, p, x) /\ u # t
    BY <1>2 DEF Pending
  <2>2. \A d : Void(d)' => Void(d)
    BY <1>0, <1>1, <1>2 DEF Void
  <2>3. ASSUME NEW o \in Objs PROVE OwnedBy(o)' = OwnedBy(o)
    <3>1. ASSUME NEW u \in Threads PROVE Owned(u, o)' = Owned(u, o)
      <4>1. CASE u = t
        <5>1. held'[t][o] \in Nat /\ held'[t][o] = Owned(t, o)
          BY <1>7
        <5>2. Owned(t, o)' = held'[t][o]
          BY <2>1, <5>1 DEF Owned
        <5> QED
          BY <4>1, <5>1, <5>2
      <4>2. CASE u # t
        <5>1. \A f : Pending(u, f, Root, o)' <=> Pending(u, f, Root, o)
          BY <2>1, <4>2
        <5> QED
          BY <1>7, <4>2, <5>1 DEF Owned
      <4> QED
        BY <4>1, <4>2
    <3> QED
      BY <3>1 DEF OwnedBy
  <2>4. ASSUME NEW o \in Objs, NEW d \in Kept(o) PROVE d \in Kept(o)'
    <3>1. /\ d \in Queues \X Cells /\ ~Void(d) /\ d = <<d[1], d[2]>>
          /\ buf[d[1]][d[2]] = o \/ \E u \in Threads : Pending(u, "link", d, o)
          /\ \E u \in Threads : Answers(u, d[1], d[2])
      BY <2>4 DEF Kept
    <3>2. \A u \in Threads : Answers(u, d[1], d[2]) => Answers(u, d[1], d[2])'
      BY <1>0, <1>2 DEF Answers, SenderCells, ReceiverCells, Between, Cells
    <3>3. buf'[d[1]][d[2]] = o \/ \E u \in Threads : Pending(u, "link", d, o)'
      <4>1. CASE e.done /\ e.place = d
        <5>1. e.func = "link" /\ d # Root
          BY <1>1, <1>4, <1>e, <3>1, <4>1, RootIs DEF Void
        <5>2. Sender[d[1]] = t /\ buf[d[1]][d[2]] \in {Null, e.obj}
          BY <1>5, <4>1, <5>1
        <5>3. buf'[d[1]][d[2]] = e.obj
          BY <1>6, <3>1, <4>1, <5>1
        <5>4. CASE buf[d[1]][d[2]] = o
          BY <5>2, <5>3, <5>4, DataAssumption
        <5>5. ASSUME NEW u \in Threads, Pending(u, "link", d, o) PROVE e.obj = o
          <6>1. LocOK(u) /\ Busy(u) /\ loc[u].func = "link" /\ loc[u].place = d
            BY <1>1, <5>5 DEF LocInv, Pending, Busy
          <6>2. Sending(u) /\ d = <<loc[u].queue, end[loc[u].queue]>>
            BY <5>1, <6>1 DEF LocOK, Dropping
          <6>3. u = t
            BY <5>2, <6>2 DEF Sending
          <6> QED
            BY <1>5, <5>5, <6>3 DEF Pending
        <5> QED
          BY <3>1, <5>3, <5>4, <5>5
      <4>2. CASE ~(e.done /\ e.place = d)
        <5>1. buf'[d[1]][d[2]] = buf[d[1]][d[2]]
          BY <1>6, <3>1, <4>2
        <5>2. ~Pending(t, "link", d, o)
          BY <1>5, <4>2 DEF Pending
        <5> QED
          BY <2>1, <3>1, <5>1, <5>2
      <4> QED
        BY <4>1, <4>2
    <3> QED
      BY <2>2, <3>1, <3>2, <3>3 DEF Kept
  <2> QED
    BY <1>0, <1>3, <2>3, <2>4, KeptFrame
<1> QED
  BY <1>0, <1>2, <1>8, <1>9, <1>10, <1>11, <1>12, <1>13, <1>14, Recovery

-----------------------------------------------------------------------------
(* The theorems.                                                           *)

LEMMA InitInv == Init => IInv
<1> SUFFICES ASSUME Init PROVE IInv
  OBVIOUS
<1>0. 0 \in Cells /\ NoLog.done = FALSE /\ NoLog.func = "none"
  BY RingAssumption DEF Cells, NoLog
<1>1. TypeOK
  BY <1>0 DEF Init, TypeOK, NoLog, NoLocals, Places
<1>2. LocInv /\ PhaseInv
  BY DEF Init, LocInv, LocOK, Busy, PhaseInv, PhaseOK, Undisturbed, Up
<1>3. LogInv
  BY <1>0 DEF Init, LogInv, LogOK
<1>4. RingSound
  BY <1>0, EndsAssumption, BetweenMoves DEF Init, RingSound, IsMessage, Working
<1>5. RingInv
  BY DEF Init, RingInv, EndsOK, Known, Busy
<1>6. QueueInv /\ FreedEmpty
  BY EndsAssumption DEF Init, QueueInv, QueueOK, Working, FreedEmpty
<1>7. CountExact
  <2> DEFINE z == [t \in Threads |-> 0]
  <2>1. \A u \in Threads : \A f, p, o : ~Pending(u, f, p, o)
    BY DEF Init, Pending
  <2>2. ASSUME NEW o \in Objs PROVE CellRefs(o) = {} /\ OwnedBy(o) = z
    BY <2>1, DataAssumption DEF Init, CellRefs, OwnedBy, Owned
  <2>3. z \in [Threads -> Nat] /\ \A t \in Threads : z[t] = 0
    OBVIOUS
  <2> HIDE DEF z
  <2>4. Total(z) = 0
    <3>1. Total(z) \in Nat /\ ~(Total(z) > 0)
      BY <2>3, TotalType
    <3> QED
      BY <3>1
  <2>5. Cardinality({}) = 0
    BY FS_EmptySet
  <2> QED
    BY <2>2, <2>4, <2>5 DEF Init, CountExact
<1>8. CoverInv
  BY DEF Init, CoverInv, Undisturbed
<1> QED
  BY <1>1, <1>2, <1>3, <1>4, <1>5, <1>6, <1>7, <1>8 DEF IInv

(* A step that changes nothing keeps the invariant.                        *)
LEMMA StutterStep ==
  ASSUME IInv, UNCHANGED vars
  PROVE  IInv'
<1>1. UNCHANGED <<start, end, buf, sid, rid, sendList, recvList, count, held, log, seg,
                  pc, loc, mode>>
  BY DEF vars, queue, lists, refs
<1>2. TypeOK' /\ LocInv' /\ PhaseInv' /\ LogInv'
  <2>1. TypeOK'
    BY <1>1 DEF IInv, TypeOK
  <2>2. LocInv'
    BY <1>1 DEF IInv, LocInv, LocOK, Dropping, Sending, Taking, Busy
  <2>3. PhaseInv'
    BY <1>1 DEF IInv, PhaseInv, PhaseOK, Undisturbed, Up, NoRoots
  <2>4. LogInv'
    BY <1>1 DEF IInv, LogInv, LogOK, Up, Working
  <2> QED
    BY <2>1, <2>2, <2>3, <2>4
<1>3. RingSound' /\ RingInv' /\ QueueInv' /\ FreedEmpty'
  BY <1>1 DEF IInv, RingSound, RingInv, QueueInv, FreedEmpty, Undisturbed, IsMessage,
     Between, Working, EndsOK, Known, Busy, QueueOK, Keeps, LiveObject
<1>4. \A u \in Threads : \A f, p, o : Pending(u, f, p, o)' <=> Pending(u, f, p, o)
  BY <1>1 DEF Pending
<1>5. \A o : OwnedBy(o)' = OwnedBy(o) /\ CellRefs(o)' = CellRefs(o)
  BY <1>1, <1>4 DEF OwnedBy, Owned, CellRefs
<1>6. \A c : Void(c)' <=> Void(c)
  BY <1>1 DEF Void, Up
<1>7. \A o : Kept(o)' = Kept(o)
  BY <1>1, <1>4, <1>6 DEF Kept, Answers, SenderCells, ReceiverCells, Between, Cells
<1>8. CountExact' /\ CoverInv'
  BY <1>1, <1>5, <1>7 DEF IInv, CountExact, CoverInv, Bounded, Undisturbed, Total
<1> QED
  BY <1>2, <1>3, <1>8 DEF IInv

(* No step of a client or of the monitor breaks the invariant.             *)
LEMMA NextInv ==
  ASSUME ~Concurrent, IInv, [Next]_vars
  PROVE  IInv'
<1>1. ASSUME NEW t \in Threads, StartOp(t) PROVE IInv'
  BY <1>1, AllocStep, DropStep, CreateStep, UnwrapStep, SendStep DEF StartOp
<1>2. ASSUME NEW t \in Threads, ClientStep(t) PROVE IInv'
  BY <1>2, LinkQueueStep, PublishStep, AttachListStep, AttachIdStep, NoMessageStep,
     MessageStep, AdvanceStep, LogStep, SwapStep, StoreStep DEF ClientStep
<1>3. ASSUME NEW t \in Threads, MonitorStep(t) PROVE IInv'
  BY <1>3, RedoStep, FinishStep, SweepStep, DropRootStep, EndSenderStep,
     EndReceiverStep, DropCellStep DEF MonitorStep
<1>4. CASE \E t \in Threads : Crash(t)
  BY <1>4, CrashStep
<1> QED
  BY <1>1, <1>2, <1>3, <1>4, StutterStep DEF Next, ClientNext

(* The invariant holds in every state, if the monitor works when no client *)
(* is running.                                                             *)
THEOREM Inductive == ASSUME ~Concurrent PROVE Spec => []IInv
<1>1. IInv /\ [Next]_vars => IInv'
  BY NextInv
<1> QED
  BY InitInv, <1>1, PTL DEF Spec

(* The variables keep their types; in particular no count goes below zero. *)
THEOREM TypeCorrect == ASSUME ~Concurrent PROVE Spec => []TypeOK
<1>1. IInv => TypeOK
  BY DEF IInv
<1> QED
  BY <1>1, Inductive, PTL

(* A ring holds the messages sent and not received, and nothing else,      *)
(* whatever the two ends are doing (sent_to, cxl_unwrap).                  *)
THEOREM RingCorrect == ASSUME ~Concurrent PROVE Spec => []RingSound
<1>1. IInv => RingSound
  BY DEF IInv
<1> QED
  BY <1>1, Inductive, PTL

(* A message is a counted reference from the swap of sent_to to the swap   *)
(* of cxl_unwrap.                                                          *)
THEOREM CountCorrect == ASSUME ~Concurrent PROVE Spec => []CountExact
<1>1. IInv => CountExact
  BY DEF IInv
<1> QED
  BY <1>1, Inductive, PTL

(* In whatever order sender and receiver are recovered, a count that is    *)
(* left belongs to a reference that a recovery to come will find.          *)
THEOREM CoverCorrect == ASSUME ~Concurrent PROVE Spec => []Covered
<1>1. ASSUME IInv PROVE Covered
  <2>1. Bounded
    BY <1>1, CalmBounded DEF IInv, CoverInv
  <2> SUFFICES ASSUME NEW o \in Objs, count[o] > 0
               PROVE  \/ \E t \in Threads : mode[t] # "gone" /\ (held[t][o] > 0 \/ Linking(t, o))
                      \/ \E q \in Queues, k \in Cells :
                           buf[q][k] = o /\ \E t \in Threads : Answers(t, q, k)
    BY DEF Covered
  <2>2. /\ OwnedBy(o) \in [Threads -> Nat] /\ count[o] \in Nat
        /\ IsFiniteSet(Kept(o)) /\ Cardinality(Kept(o)) \in Nat /\ Total(OwnedBy(o)) \in Nat
        /\ count[o] <= Total(OwnedBy(o)) + Cardinality(Kept(o))
    BY <1>1, <2>1, RefsType, OwnedType, KeptType DEF IInv, TypeOK, Bounded
  <2>3. \A t \in Threads : PhaseOK(t) /\ held[t][o] \in Nat
    BY <1>1 DEF IInv, PhaseInv, TypeOK
  <2>4. CASE Total(OwnedBy(o)) > 0
    <3>1. PICK t \in Threads : OwnedBy(o)[t] > 0
      BY <2>2, <2>4, TotalType
    <3>2. Owned(t, o) > 0
      BY <3>1 DEF OwnedBy
    <3>3. held[t][o] > 0 \/ Linking(t, o)
      BY <2>3, <3>2 DEF Owned, Pending, Linking
    <3>4. mode[t] # "gone"
      BY <2>3, <3>3 DEF PhaseOK, NoRoots, Linking, Up
    <3> QED
      BY <3>3, <3>4
  <2>5. CASE Cardinality(Kept(o)) > 0
    <3>1. Kept(o) # {}
      BY <2>5, FS_EmptySet
    <3>2. PICK c \in Kept(o) : TRUE
      BY <3>1
    <3>3. /\ c[1] \in Queues /\ c[2] \in Cells
          /\ buf[c[1]][c[2]] = o \/ \E t \in Threads : Pending(t, "link", c, o)
          /\ \E t \in Threads : Answers(t, c[1], c[2])
      BY DEF Kept
    <3>4. ASSUME NEW t \in Threads, Pending(t, "link", c, o)
          PROVE  mode[t] # "gone" /\ Linking(t, o)
      BY <2>3, <3>4 DEF Pending, Linking, PhaseOK, Up
    <3> QED
      BY <3>3, <3>4
  <2> QED
    BY <2>2, <2>4, <2>5
<1> QED
  BY <1>1, Inductive, PTL

(* A segment is given back empty, and to nobody's list (the segment pass). *)
THEOREM FreedCorrect == ASSUME ~Concurrent PROVE Spec => []FreedEmpty
<1>1. IInv => FreedEmpty
  BY DEF IInv
<1> QED
  BY <1>1, Inductive, PTL

-----------------------------------------------------------------------------
(* A queue is a channel (TransferRefines): the cells by their place in the *)
(* order of the messages.                                                  *)
Place(a, i) == (a + i - 1) % N

(* Differences and places round the ring, without a remainder.             *)
LEMMA RoundIs ==
  ASSUME NEW a \in Cells, NEW b \in Cells
  PROVE  /\ (b - a) % N = IF a <= b THEN b - a ELSE b - a + N
         /\ \A i \in 1..N : Place(a, i) = IF a + i <= N THEN a + i - 1 ELSE a + i - 1 - N
<1>1. ASSUME a <= b PROVE (b - a) % N = b - a
  BY <1>1, RingAssumption DEF Cells
<1>2. ASSUME b < a PROVE (b - a) % N = b - a + N
  BY <1>2, RingAssumption DEF Cells
<1>3. ASSUME NEW i \in 1..N, a + i <= N PROVE Place(a, i) = a + i - 1
  BY <1>3, RingAssumption DEF Cells, Place
<1>4. ASSUME NEW i \in 1..N, a + i > N PROVE Place(a, i) = a + i - 1 - N
  BY <1>4, RingAssumption DEF Cells, Place
<1> QED
  BY <1>1, <1>2, <1>3, <1>4, RingAssumption DEF Cells

(* How many messages there are, and where they are.                        *)
LEMMA PlacesAre ==
  ASSUME NEW a \in Cells, NEW b \in Cells, NEW n, n = (b - a) % N
  PROVE  /\ n \in 0..(N - 1)
         /\ n = 0 <=> a = b
         /\ n = N - 1 <=> Succ(b) = a
         /\ Succ(b) # a => (Succ(b) - a) % N = n + 1
         /\ a # b => (b - Succ(a)) % N = n - 1
         /\ Place(a, n + 1) = b
         /\ \A i \in 1..N : Place(a, i) \in Cells
         /\ \A i \in 1..n : Place(a, i) # b /\ (Place(a, i) = a <=> i = 1)
         /\ a # b => \A i \in 1..(n - 1) : Place(Succ(a), i) = Place(a, i + 1)
<1>0. Succ(a) \in Cells /\ Succ(b) \in Cells
  BY SuccMoves
<1>1. n = IF a <= b THEN b - a ELSE b - a + N
  BY RoundIs
<1>2. \A i \in 1..N : Place(a, i) = IF a + i <= N THEN a + i - 1 ELSE a + i - 1 - N
  BY RoundIs
<1>3. \A i \in 1..N : LET c == Succ(a) IN Place(c, i) = IF c + i <= N THEN c + i - 1 ELSE c + i - 1 - N
  BY <1>0, RoundIs
<1>4. /\ (Succ(b) - a) % N = IF a <= Succ(b) THEN Succ(b) - a ELSE Succ(b) - a + N
      /\ (b - Succ(a)) % N = IF Succ(a) <= b THEN b - Succ(a) ELSE b - Succ(a) + N
  BY <1>0, RoundIs
<1>5. /\ Succ(a) = IF a = N - 1 THEN 0 ELSE a + 1
      /\ Succ(b) = IF b = N - 1 THEN 0 ELSE b + 1
  BY SuccIs
<1>6. /\ N \in Nat /\ N > 1 /\ a \in 0..(N - 1) /\ b \in 0..(N - 1)
  BY RingAssumption DEF Cells
<1>7. n \in 0..(N - 1) /\ (n = 0 <=> a = b) /\ (n = N - 1 <=> Succ(b) = a)
  BY <1>1, <1>5, <1>6
<1>8. Succ(b) # a => (Succ(b) - a) % N = n + 1
  BY <1>1, <1>4, <1>5, <1>6
<1>9. a # b => (b - Succ(a)) % N = n - 1
  BY <1>1, <1>4, <1>5, <1>6
<1>10. Place(a, n + 1) = b
  BY <1>1, <1>2, <1>6, <1>7
<1>11. \A i \in 1..N : Place(a, i) \in Cells
  BY <1>2, <1>6 DEF Cells
<1>12. \A i \in 1..n : Place(a, i) # b /\ (Place(a, i) = a <=> i = 1)
  BY <1>1, <1>2, <1>6
<1>13. a # b => \A i \in 1..(n - 1) : Place(Succ(a), i) = Place(a, i + 1)
  BY <1>1, <1>2, <1>3, <1>5, <1>6
<1> QED
  BY <1>7, <1>8, <1>9, <1>10, <1>11, <1>12, <1>13

(* The channel of a queue.                                                 *)
LEMMA ChanIs ==
  ASSUME TypeOK, NEW q \in Queues
  PROVE  /\ Length(q) \in 0..(N - 1) /\ (Length(q) = 0 <=> start[q] = end[q])
         /\ chan[q] = [i \in 1..Length(q) |-> CellAt(q, i)]
         /\ Len(chan[q]) = Length(q)
         /\ \A i \in 1..Length(q) :
              /\ Place(start[q], i) \in Cells /\ Place(start[q], i) # end[q]
              /\ Place(start[q], i) = start[q] <=> i = 1
              /\ CellAt(q, i) = IF i = 1 /\ Unwrapping(Receiver[q]) /\ loc[Receiver[q]].queue = q
                                THEN loc[Receiver[q]].obj ELSE buf[q][Place(start[q], i)]
<1>1. start[q] \in Cells /\ end[q] \in Cells
  BY DEF TypeOK
<1>2. /\ Length(q) \in 0..(N - 1) /\ (Length(q) = 0 <=> start[q] = end[q])
      /\ \A i \in 1..N : Place(start[q], i) \in Cells
      /\ \A i \in 1..Length(q) : /\ Place(start[q], i) # end[q]
                                 /\ Place(start[q], i) = start[q] <=> i = 1
  BY <1>1, PlacesAre DEF Length
<1>3. chan[q] = [i \in 1..Length(q) |-> CellAt(q, i)]
  BY DEF chan
<1>4. Len(chan[q]) = Length(q)
  BY <1>2, <1>3, RingAssumption
<1>5. \A i : CellAt(q, i) = IF i = 1 /\ Unwrapping(Receiver[q]) /\ loc[Receiver[q]].queue = q
                            THEN loc[Receiver[q]].obj ELSE buf[q][Place(start[q], i)]
  BY DEF CellAt, Place
<1>6. 1..Length(q) \subseteq 1..N
  BY <1>2, RingAssumption
<1> QED
  BY <1>2, <1>3, <1>4, <1>5, <1>6

-----------------------------------------------------------------------------
(* What the calls of the clients hold.                                     *)

(* Only t acts, and the next cell of every other sender stays as it is.    *)
Leaves(t) ==
  /\ \A u \in Threads \ {t} : pc'[u] = pc[u] /\ loc'[u] = loc[u] /\ held'[u] = held[u]
  /\ \A q \in Queues : Sender[q] # t => end'[q] = end[q] /\ buf'[q][end[q]] = buf[q][end[q]]

LEMMA CallFrame ==
  ASSUME IInv, CallInv, NEW t \in Threads, Leaves(t), CallOK(t)'
  PROVE  CallInv'
<1>1. ASSUME NEW u \in Threads \ {t} PROVE CallOK(u)'
  <2>1. CallOK(u) /\ LocOK(u)
    BY DEF CallInv, IInv, LocInv
  <2> QED
    BY <2>1 DEF CallOK, LocOK, Busy, Sending, Leaves
<1> QED
  BY <1>1 DEF CallInv

(* What a cell is in which a message can be stored.                        *)
LEMMA StoreCell ==
  ASSUME IInv, NEW t \in Threads, At(t, "store"), loc[t].place # Root
  PROVE  \E q \in Queues :
           /\ loc[t].queue = q /\ mode[t] = "live" /\ loc[t].obj \in Objs
           /\ \/ /\ loc[t].op = "send" /\ loc[t].func = "link" /\ loc[t].place = <<q, end[q]>>
                 /\ Sender[q] = t
              \/ /\ loc[t].op = "recv" /\ loc[t].func = "unlink" /\ loc[t].place = <<q, start[q]>>
                 /\ Receiver[q] = t /\ start[q] # end[q] /\ buf[q][start[q]] = loc[t].obj
<1>1. mode[t] = "live" /\ pc[t] = "store" /\ Busy(t) /\ LocOK(t)
  BY DEF At, Busy, IInv, LocInv
<1>2. EndsOK(t)
  <2>1. Undisturbed
    BY <1>1 DEF IInv, PhaseInv, PhaseOK
  <2> QED
    BY <2>1 DEF IInv, RingInv
<1> QED
  BY <1>1, <1>2 DEF LocOK, EndsOK, Sending, Taking, Dropping

LEMMA CallStore ==
  ASSUME IInv, CallInv, NEW t \in Threads, Store(t)
  PROVE  CallInv'
<1>1. /\ At(t, "store") /\ pc[t] = "store" /\ CallOK(t) /\ LocOK(t) /\ Busy(t)
      /\ end' = end
  BY DEF Store, At, CallInv, IInv, LocInv, Busy
<1>2. loc[t].obj \in Objs
  BY <1>1 DEF LocOK
<1>3. CASE loc[t].place = Root
  <2>1. buf' = buf /\ PutRoot(t, loc[t].func, loc[t].obj)
    BY <1>3 DEF Store
  <2>2. Leaves(t)
    BY <1>1, <2>1 DEF Store, Leaves, PutRoot, Return, Goto, Begin, IInv, TypeOK
  <2>3. loc[t].op \in {"drop", "recv"} /\ (loc[t].op = "recv" => loc[t].func = "link")
    <3>1. \A q \in Queues : <<q, start[q]>> # Root /\ <<q, end[q]>> # Root
      BY RootIs DEF IInv, TypeOK
    <3> QED
      BY <1>1, <1>3, <3>1 DEF LocOK, Dropping, Sending, Taking
  <2>4. CallOK(t)'
    BY <1>1, <1>2, <2>3 DEF Store, CallOK, Busy, Return, Goto, Begin, NoLocals, IInv, TypeOK
  <2> QED
    BY <2>2, <2>4, CallFrame
<1>4. CASE loc[t].place # Root
  <2>1. PICK q \in Queues :
           /\ loc[t].queue = q
           /\ \/ /\ loc[t].op = "send" /\ loc[t].func = "link" /\ loc[t].place = <<q, end[q]>>
                 /\ Sender[q] = t
              \/ /\ loc[t].op = "recv" /\ loc[t].func = "unlink" /\ loc[t].place = <<q, start[q]>>
                 /\ Receiver[q] = t /\ start[q] # end[q] /\ buf[q][start[q]] = loc[t].obj
    BY <1>1, <1>4, StoreCell
  <2>2. Put(loc[t].func, loc[t].place, loc[t].obj) /\ held' = held
    BY <1>4 DEF Store
  <2>3. CASE loc[t].op = "send"
    <3>0. loc[t].func = "link" /\ loc[t].place[1] = q /\ loc[t].place[2] = end[q]
      BY <2>1, <2>3
    <3>1. buf' = [buf EXCEPT ![q][end[q]] = loc[t].obj]
      BY <2>2, <3>0 DEF Put
    <3>2. /\ pc' = [pc EXCEPT ![t] = "publish"] /\ loc' = loc
      BY <2>3 DEF Store, Goto
    <3>3. Leaves(t)
      BY <1>1, <2>1, <2>2, <2>3, <3>1, <3>2 DEF Leaves, IInv, TypeOK
    <3>4. CallOK(t)'
      BY <1>1, <1>2, <2>1, <2>2, <2>3, <3>1, <3>2 DEF CallOK, Busy, IInv, TypeOK
    <3> QED
      BY <3>3, <3>4, CallFrame
  <2>4. CASE loc[t].op = "recv"
    <3>0. loc[t].func = "unlink" /\ loc[t].place[1] = q /\ loc[t].place[2] = start[q]
      BY <2>1, <2>4
    <3>1. buf' = [buf EXCEPT ![q][start[q]] = Null]
      BY <2>2, <3>0 DEF Put
    <3>2. /\ pc' = [pc EXCEPT ![t] = "advance"] /\ loc' = loc
      BY <2>1, <2>4 DEF Store, Goto
    <3>3. \A r \in Queues : buf'[r][end[r]] = buf[r][end[r]]
      BY <2>1, <2>4, <3>1 DEF IInv, TypeOK
    <3>4. Leaves(t)
      BY <1>1, <2>2, <3>2, <3>3 DEF Leaves, IInv, TypeOK
    <3>5. CallOK(t)'
      BY <1>1, <1>2, <2>1, <2>4, <3>2 DEF CallOK, Busy, IInv, TypeOK
    <3> QED
      BY <3>4, <3>5, CallFrame
  <2> QED
    BY <2>1, <2>3, <2>4
<1> QED
  BY <1>3, <1>4

LEMMA CallNext ==
  ASSUME IInv, CallInv, [ClientNext]_vars
  PROVE  CallInv'
<1> USE DEF IInv, TypeOK
<1>1. ASSUME NEW t \in Threads, NEW o \in Objs, Alloc(t, o) \/ Drop(t, o)
      PROVE  CallInv'
  <2>1. Leaves(t)
    BY <1>1 DEF Alloc, Drop, Begin, Goto, Leaves, queue, refs
  <2>2. CallOK(t)'
    BY <1>1 DEF Alloc, Drop, Begin, Goto, At, CallInv, CallOK, Busy, refs
  <2> QED
    BY <2>1, <2>2, CallFrame
<1>2. ASSUME NEW t \in Threads, NEW q \in Queues, Create(t, q) \/ Unwrap(t, q)
      PROVE  CallInv'
  <2>1. Leaves(t)
    BY <1>2 DEF Create, Unwrap, Goto, Leaves, queue, refs
  <2>2. CallOK(t)'
    BY <1>2 DEF Create, Unwrap, Goto, At, CallInv, CallOK, Busy, refs
  <2> QED
    BY <2>1, <2>2, CallFrame
<1>3. ASSUME NEW t \in Threads, NEW q \in Queues, NEW o \in Objs, Send(t, q, o)
      PROVE  CallInv'
  <2>1. Leaves(t)
    BY <1>3 DEF Send, Begin, Goto, Leaves, queue, refs
  <2>2. CallOK(t)'
    BY <1>3 DEF Send, Begin, Goto, At, CallOK, Busy, refs
  <2> QED
    BY <2>1, <2>2, CallFrame
<1>4. ASSUME NEW t \in Threads, LinkQueue(t) \/ AttachList(t) \/ AttachId(t) \/ NoMessage(t)
      PROVE  CallInv'
  <2>1. Leaves(t)
    BY <1>4 DEF LinkQueue, AttachList, AttachId, NoMessage, Return, Goto, Leaves, queue, refs
  <2>2. CallOK(t)'
    BY <1>4 DEF LinkQueue, AttachList, AttachId, NoMessage, Return, Goto, At, CallInv, CallOK,
       Busy, NoLocals, refs
  <2> QED
    BY <2>1, <2>2, CallFrame
<1>5. ASSUME NEW t \in Threads, Message(t) PROVE CallInv'
  <2>1. Leaves(t)
    BY <1>5 DEF Message, Begin, Goto, Leaves, queue, refs
  <2>2. CallOK(t)'
    BY <1>5 DEF Message, Begin, Goto, CallOK, Busy
  <2> QED
    BY <2>1, <2>2, CallFrame
<1>6. ASSUME NEW t \in Threads, Log(t) \/ Swap(t) PROVE CallInv'
  <2>1. Leaves(t)
    BY <1>6 DEF Log, Swap, Goto, Leaves, queue, refs
  <2>2. CallOK(t)'
    BY <1>6 DEF Log, Swap, Goto, At, CallInv, CallOK, Busy, refs
  <2> QED
    BY <2>1, <2>2, CallFrame
<1>7. ASSUME NEW t \in Threads, Publish(t) \/ Advance(t) PROVE CallInv'
  <2>1. Publish(t) => Sender[loc[t].queue] = t
    BY DEF Publish, At, LocInv, LocOK, Sending
  <2>2. Leaves(t)
    BY <1>7, <2>1 DEF Publish, Advance, Return, Goto, Leaves, refs
  <2>3. CallOK(t)'
    BY <1>7 DEF Publish, Advance, Return, Goto, CallOK, Busy, NoLocals
  <2> QED
    BY <2>2, <2>3, CallFrame
<1>8. ASSUME NEW t \in Threads, Crash(t) PROVE CallInv'
  BY <1>8 DEF Crash, CallInv, CallOK, Busy, queue, refs
<1>9. CASE UNCHANGED vars
  BY <1>9 DEF vars, queue, refs, CallInv, CallOK, Busy
<1> QED
  BY <1>1, <1>2, <1>3, <1>4, <1>5, <1>6, <1>7, <1>8, <1>9, CallStore
  DEF ClientNext, StartOp, ClientStep

-----------------------------------------------------------------------------
(* Steps of the clients as steps of the channel.                           *)

(* The receivers are where they were with what they unwrap.                *)
Unwraps == \A u \in Threads : /\ Unwrapping(u)' <=> Unwrapping(u)
                              /\ Unwrapping(u) => loc'[u] = loc[u]

LEMMA ChanFrame ==
  ASSUME NEW q \in Queues, start'[q] = start[q], end'[q] = end[q],
         \A i \in 1..Length(q) : CellAt(q, i)' = CellAt(q, i)
  PROVE  chan'[q] = chan[q]
<1>1. Length(q)' = Length(q)
  BY DEF Length
<1>2. /\ chan'[q] = [i \in 1..(Length(q)') |-> CellAt(q, i)']
      /\ chan[q] = [i \in 1..Length(q) |-> CellAt(q, i)]
  BY DEF chan
<1> QED
  BY <1>1, <1>2

LEMMA ChanSame ==
  ASSUME \A q \in Queues : chan'[q] = chan[q]
  PROVE  chan' = chan
<1>1. /\ chan  = [q \in Queues |-> chan[q]]
      /\ chan' = [q \in Queues |-> chan'[q]]
  BY DEF chan
<1> QED
  BY <1>1

LEMMA ChanQuiet ==
  ASSUME start' = start, end' = end, buf' = buf, Unwraps
  PROVE  chan' = chan
<1>1. ASSUME NEW q \in Queues PROVE chan'[q] = chan[q]
  <2>1. Receiver[q] \in Threads
    BY EndsAssumption
  <2>2. \A i : CellAt(q, i)' = CellAt(q, i)
    BY <2>1 DEF CellAt, Unwraps
  <2> QED
    BY <2>2, ChanFrame
<1> QED
  BY <1>1, ChanSame

OwnOf(t, o) == held[t][o] - (IF Unwrapping(t) /\ loc[t].obj = o THEN 1 ELSE 0)

LEMMA OwnIs ==
  /\ own  = [t \in Threads |-> [o \in Objs |-> OwnOf(t, o)]]
  /\ own' = [t \in Threads |-> [o \in Objs |-> OwnOf(t, o)']]
BY DEF own, OwnOf

LEMMA OwnSame ==
  ASSUME \A u \in Threads, p \in Objs : OwnOf(u, p)' = OwnOf(u, p)
  PROVE  own' = own
BY OwnIs

LEMMA OwnAt ==
  ASSUME NEW t \in Threads, NEW o \in Objs, NEW n, OwnOf(t, o)' = n,
         \A u \in Threads, p \in Objs : u # t \/ p # o => OwnOf(u, p)' = OwnOf(u, p)
  PROVE  own[t][o] = OwnOf(t, o) /\ own' = [own EXCEPT ![t][o] = n]
BY OwnIs

LEMMA QuietIs ==
  ASSUME start' = start, end' = end, buf' = buf, held' = held, mode' = mode, Unwraps
  PROVE  UNCHANGED Channel!cvars
<1>1. \A u \in Threads, p \in Objs : OwnOf(u, p)' = OwnOf(u, p)
  BY DEF OwnOf, Unwraps
<1>2. up' = up
  BY DEF up
<1> QED
  BY <1>1, <1>2, OwnSame, ChanQuiet DEF Channel!cvars

LEMMA QuietSteps ==
  ASSUME IInv, CallInv, NEW t \in Threads,
         \/ \E o \in Objs : Drop(t, o)
         \/ \E q \in Queues : Create(t, q) \/ Unwrap(t, q) \/ \E o \in Objs : Send(t, q, o)
         \/ LinkQueue(t) \/ AttachList(t) \/ AttachId(t)
         \/ NoMessage(t) \/ Message(t) \/ Log(t) \/ Swap(t)
  PROVE  UNCHANGED Channel!cvars
<1> USE DEF At, Goto, Begin, Return, queue, refs, lists
<1>1. start' = start /\ end' = end /\ buf' = buf /\ held' = held /\ mode' = mode
  BY DEF Drop, Create, Unwrap, Send, LinkQueue, AttachList, AttachId, NoMessage, Message, Log, Swap
<1>2. CallOK(t) /\ loc \in [Threads -> [op : {"none", "drop", "create", "send", "recv"},
                                        queue : Queues \cup {Null},
                                        func : {"none", "link", "unlink"}, place : Places,
                                        obj : Objs \cup {Null}]]
  BY DEF CallInv, IInv, TypeOK
<1>3. \A u \in Threads \ {t} : loc'[u] = loc[u]
  BY <1>2 DEF Drop, Create, Unwrap, Send, LinkQueue, AttachList, AttachId, NoMessage, Message,
     Log, Swap
<1>4. \/ loc'[t] = loc[t]
      \/ ~Unwrapping(t) /\ ~Unwrapping(t)'
  <2>1. CASE \E o \in Objs : Drop(t, o)
    BY <1>2, <2>1 DEF Drop, CallOK, Unwrapping
  <2>2. CASE \E q \in Queues : Create(t, q) \/ Unwrap(t, q)
    BY <1>2, <2>2 DEF Create, Unwrap, CallOK, Unwrapping
  <2>3. CASE \E q \in Queues, o \in Objs : Send(t, q, o)
    BY <1>2, <2>3 DEF Send, CallOK, Unwrapping
  <2>4. CASE LinkQueue(t) \/ NoMessage(t)
    BY <1>2, <2>4 DEF LinkQueue, NoMessage, CallOK, Unwrapping, NoLocals
  <2>5. CASE AttachList(t) \/ AttachId(t) \/ Log(t) \/ Swap(t)
    BY <2>5 DEF AttachList, AttachId, Log, Swap
  <2>6. CASE Message(t)
    BY <1>2, <2>6 DEF Message, CallOK, Unwrapping
  <2> QED
    BY <2>1, <2>2, <2>3, <2>4, <2>5, <2>6
<1>5. Unwraps
  BY <1>3, <1>4 DEF Unwraps, Unwrapping
<1> QED
  BY <1>1, <1>5, QuietIs

(* cxl_malloc makes a reference to an object that has none.                *)
LEMMA AllocIs ==
  ASSUME IInv, CallInv, NEW t \in Threads, NEW o \in Objs, Alloc(t, o)
  PROVE  Channel!New(t, o)
<1>1. /\ mode[t] = "live" /\ Home[o] = t /\ count[o] = 0 /\ \A u \in Threads : loc[u].obj # o
      /\ held' = [held EXCEPT ![t][o] = @ + 1]
      /\ UNCHANGED <<start, end, buf, loc, mode>>
  BY DEF Alloc, At, queue
<1>2. /\ TypeOK /\ LocInv /\ \A u \in Threads : held[u][o] \in Nat
      /\ count[o] = Total(OwnedBy(o)) + Cardinality(CellRefs(o))
  BY <1>1 DEF IInv, PhaseInv, PhaseOK, CountExact, TypeOK
<1>3. /\ OwnedBy(o) \in [Threads -> Nat] /\ Total(OwnedBy(o)) \in Nat
      /\ (Total(OwnedBy(o)) > 0 <=> \E u \in Threads : OwnedBy(o)[u] > 0)
      /\ IsFiniteSet(CellRefs(o)) /\ Cardinality(CellRefs(o)) \in Nat
  BY <1>2, OwnedType, TotalType, RefsType
<1>4. CellRefs(o) = {} /\ \A u \in Threads : Owned(u, o) = 0
  <2>1. Total(OwnedBy(o)) = 0 /\ Cardinality(CellRefs(o)) = 0
    BY <1>1, <1>2, <1>3
  <2>2. CellRefs(o) = {}
    BY <1>3, <2>1, FS_EmptySet
  <2>3. \A u \in Threads : OwnedBy(o)[u] = 0
    BY <1>3, <2>1
  <2> QED
    BY <2>2, <2>3 DEF OwnedBy
<1>5. \A u \in Threads : held[u][o] = 0 /\ OwnOf(u, o) = 0
  <2>1. \A u \in Threads : ~Pending(u, "link", Root, o) /\ ~Pending(u, "unlink", Root, o)
    BY <1>1 DEF Pending
  <2> QED
    BY <1>1, <1>2, <1>4, <2>1 DEF Owned, OwnOf
<1>6. Channel!Unused(o)
  <2>1. \A u \in Threads : own[u][o] = 0
    BY <1>5, OwnIs
  <2>2. ASSUME NEW q \in Queues, NEW i \in DOMAIN chan[q], chan[q][i] = o
        PROVE  FALSE
    <3>0. i \in 1..Length(q) /\ CellAt(q, i) = o
      <4>1. chan[q] = [j \in 1..Length(q) |-> CellAt(q, j)]
        BY <1>2, ChanIs
      <4> QED
        BY <2>2, <4>1
    <3>1. /\ CellAt(q, i) = o /\ Place(start[q], i) \in Cells
          /\ \/ CellAt(q, i) = loc[Receiver[q]].obj
             \/ CellAt(q, i) = buf[q][Place(start[q], i)]
      <4>1. Place(start[q], i) \in Cells
        BY <1>2, <3>0, ChanIs
      <4> QED
        BY <3>0, <4>1 DEF CellAt, Place
    <3>2. CellAt(q, i) # loc[Receiver[q]].obj
      BY <1>1, <3>1, EndsAssumption
    <3>3. buf[q][Place(start[q], i)] = o
      BY <3>1, <3>2
    <3>4. \A u \in Threads : \A p : ~Pending(u, "unlink", p, o)
      BY <1>1 DEF Pending
    <3>5. <<q, Place(start[q], i)>> \in CellRefs(o)
      BY <3>1, <3>3, <3>4 DEF CellRefs
    <3> QED
      BY <1>4, <3>5
  <2> QED
    BY <2>1, <2>2 DEF Channel!Unused, Channel!InTransit
<1>7. Unwraps
  BY <1>1 DEF Unwraps, Unwrapping
<1>8. own' = [own EXCEPT ![t][o] = 1]
  <2>1. OwnOf(t, o)' = 1
    BY <1>1, <1>2, <1>5 DEF OwnOf, Unwrapping, TypeOK
  <2>2. \A u \in Threads, p \in Objs : u # t \/ p # o => OwnOf(u, p)' = OwnOf(u, p)
    BY <1>1, <1>2 DEF OwnOf, Unwrapping, TypeOK
  <2> QED
    BY <2>1, <2>2, OwnAt
<1>9. t \in up /\ up' = up
  BY <1>1 DEF up
<1> QED
  BY <1>1, <1>6, <1>7, <1>8, <1>9, ChanQuiet DEF Channel!New

(* The store of a destructor lets a reference go.                          *)
LEMMA LetIs ==
  ASSUME IInv, CallInv, NEW t \in Threads, Store(t), loc[t].op = "drop"
  PROVE  Channel!Let(t, loc[t].obj)
<1>1. /\ mode[t] = "live" /\ LocOK(t) /\ Busy(t) /\ TypeOK
  BY DEF Store, At, IInv, LocInv, Busy
<1>o. PICK o \in Objs : o = loc[t].obj
  BY <1>1 DEF LocOK
<1>2. loc[t].place = Root /\ loc[t].func = "unlink" /\ held[t][o] > 0
  BY <1>1, <1>o DEF LocOK, Dropping, Sending, Taking
<1>3. /\ held' = [held EXCEPT ![t][o] = @ - 1] /\ loc' = [loc EXCEPT ![t] = NoLocals]
      /\ UNCHANGED <<start, end, buf, mode>>
  BY <1>o, <1>2 DEF Store, PutRoot, Return
<1>4. Unwraps
  BY <1>1, <1>3 DEF Unwraps, Unwrapping, NoLocals, TypeOK
<1>5. OwnOf(t, o) = held[t][o]
  BY <1>1, <1>o DEF OwnOf, Unwrapping, TypeOK
<1>6. own[t][o] = OwnOf(t, o) /\ own' = [own EXCEPT ![t][o] = OwnOf(t, o) - 1]
  <2>1. OwnOf(t, o)' = OwnOf(t, o) - 1
    BY <1>1, <1>3, <1>5 DEF OwnOf, Unwrapping, NoLocals, TypeOK
  <2>2. \A u \in Threads, p \in Objs : u # t \/ p # o => OwnOf(u, p)' = OwnOf(u, p)
    BY <1>1, <1>3, <1>4 DEF OwnOf, Unwraps, TypeOK
  <2> QED
    BY <2>1, <2>2, OwnAt
<1>7. t \in up /\ up' = up
  BY <1>1, <1>3 DEF up
<1> QED
  BY <1>o, <1>2, <1>3, <1>4, <1>5, <1>6, <1>7, ChanQuiet DEF Channel!Let

(* The reference of sent_to is not sent before end moves on, that of       *)
(* cxl_unwrap not received before start does.                              *)
LEMMA StoreIs ==
  ASSUME IInv, CallInv, NEW t \in Threads, Store(t), loc[t].op # "drop"
  PROVE  UNCHANGED Channel!cvars
<1>1. /\ mode[t] = "live" /\ LocOK(t) /\ Busy(t) /\ TypeOK /\ At(t, "store")
      /\ Undisturbed
  BY DEF Store, At, IInv, LocInv, Busy, PhaseInv, PhaseOK
<1>o. PICK o \in Objs : o = loc[t].obj
  BY <1>1 DEF LocOK
<1>2. UNCHANGED <<start, end, mode>> /\ up' = up
  BY DEF Store, up
<1>3. CASE loc[t].place = Root
  <2>1. \A q \in Queues : <<q, start[q]>> # Root /\ <<q, end[q]>> # Root
    BY <1>1, RootIs DEF TypeOK
  <2>2. Taking(t) /\ loc[t].func = "link"
    BY <1>1, <1>3, <2>1 DEF LocOK, Dropping, Sending, Taking
  <2>q. PICK q \in Queues : q = loc[t].queue
    BY <2>2 DEF Taking
  <2>3. /\ buf' = buf /\ held' = [held EXCEPT ![t][o] = @ + 1]
        /\ loc' = [loc EXCEPT ![t] = [op |-> "recv", queue |-> q, func |-> "unlink",
                                      place |-> <<q, start[q]>>, obj |-> o]]
    BY <1>o, <1>3, <2>2, <2>q DEF Store, PutRoot, Return, Begin, Taking
  <2>4. start[q] # end[q] /\ buf[q][start[q]] = o /\ Receiver[q] = t
    BY <1>1, <1>o, <2>2, <2>q DEF IInv, RingInv, EndsOK, Taking
  <2>5. ~Unwrapping(t) /\ Unwrapping(t)' /\ loc'[t].obj = o /\ loc'[t].queue = q
    BY <1>1, <2>2, <2>3 DEF Unwrapping, TypeOK
  <2>6. \A u \in Threads \ {t} : loc'[u] = loc[u] /\ (Unwrapping(u)' <=> Unwrapping(u))
    BY <1>1, <2>3 DEF Unwrapping, TypeOK
  <2>7. own' = own
    <3>1. \A p \in Objs : OwnOf(t, p)' = OwnOf(t, p)
      BY <1>1, <2>3, <2>5 DEF OwnOf, TypeOK
    <3>2. \A u \in Threads \ {t} : \A p \in Objs : OwnOf(u, p)' = OwnOf(u, p)
      BY <1>1, <2>3, <2>6 DEF OwnOf, TypeOK
    <3> QED
      BY <3>1, <3>2, OwnSame
  <2>8. ASSUME NEW r \in Queues PROVE chan'[r] = chan[r]
    <3>1. start[r] \in Cells /\ (start[r] + 1 - 1) % N = start[r]
      <4>1. start[r] \in Cells
        BY <1>1 DEF TypeOK
      <4>2. Place(start[r], 1) = start[r]
        BY <4>1, RoundIs, RingAssumption DEF Cells
      <4> QED
        BY <4>1, <4>2 DEF Place
    <3>2. ASSUME NEW i \in 1..Length(r) PROVE CellAt(r, i)' = CellAt(r, i)
      <4>1. CASE Receiver[r] = t
        BY <1>2, <2>3, <2>4, <2>5, <3>1, <4>1 DEF CellAt
      <4>2. CASE Receiver[r] # t
        BY <1>2, <2>3, <2>6, <4>2, EndsAssumption DEF CellAt
      <4> QED
        BY <4>1, <4>2
    <3> QED
      BY <1>2, <3>2, ChanFrame
  <2> QED
    BY <1>2, <2>7, <2>8, ChanSame DEF Channel!cvars
<1>4. CASE loc[t].place # Root
  <2>1. PICK q \in Queues :
           /\ loc[t].queue = q
           /\ \/ /\ loc[t].op = "send" /\ loc[t].func = "link" /\ loc[t].place = <<q, end[q]>>
                 /\ Sender[q] = t
              \/ /\ loc[t].op = "recv" /\ loc[t].func = "unlink" /\ loc[t].place = <<q, start[q]>>
                 /\ Receiver[q] = t /\ start[q] # end[q] /\ buf[q][start[q]] = o
    BY <1>1, <1>o, <1>4, StoreCell
  <2>2. /\ held' = held /\ loc' = loc
        /\ Put(loc[t].func, loc[t].place, o)
    BY <1>o, <1>4, <2>1 DEF Store
  <2>3. Unwraps
    BY <2>2 DEF Unwraps, Unwrapping
  <2>4. own' = own
    BY <2>2, <2>3, OwnSame DEF OwnOf, Unwraps
  <2>5. PICK k : k = loc[t].place[2]
    OBVIOUS
  <2>6. /\ k \in {end[q], start[q]} /\ k \in Cells
        /\ \E m : buf' = [buf EXCEPT ![q][k] = m]
        /\ k = start[q] => (Unwrapping(t) /\ Receiver[q] = t) \/ start[q] = end[q]
    <3>1. start[q] \in Cells /\ end[q] \in Cells
      BY <1>1 DEF TypeOK
    <3>2. loc[t].place[1] = q /\ k \in {end[q], start[q]}
      BY <2>1, <2>5
    <3>3. \E m : buf' = [buf EXCEPT ![q][k] = m]
      BY <2>2, <2>5, <3>2 DEF Put
    <3>4. k = start[q] => (Unwrapping(t) /\ Receiver[q] = t) \/ start[q] = end[q]
      <4>1. CASE loc[t].op = "send"
        <5>1. k = end[q]
          BY <2>1, <2>5, <4>1
        <5> QED
          BY <5>1
      <4>2. CASE loc[t].op # "send"
        <5>1. Unwrapping(t) /\ Receiver[q] = t
          BY <2>1, <4>2 DEF Unwrapping
        <5> QED
          BY <5>1
      <4> QED
        BY <4>1, <4>2
    <3> QED
      BY <3>1, <3>2, <3>3, <3>4
  <2>7. ASSUME NEW r \in Queues PROVE chan'[r] = chan[r]
    <3>1. Receiver[r] \in Threads
      BY EndsAssumption
    <3>2. ASSUME NEW i \in 1..Length(r) PROVE CellAt(r, i)' = CellAt(r, i)
      <4>1. /\ Place(start[r], i) \in Cells /\ Place(start[r], i) # end[r]
            /\ Place(start[r], i) = start[r] => i = 1
            /\ start[r] # end[r]
        <5>1. Length(r) \in 0..(N - 1) /\ (Length(r) = 0 <=> start[r] = end[r])
          BY <1>1, ChanIs
        <5>2. Length(r) # 0
          BY <3>2, <5>1, RingAssumption
        <5> QED
          BY <1>1, <3>2, <5>1, <5>2, ChanIs
      <4>2. CASE r # q \/ Place(start[r], i) # k
        <5>1. buf'[r][Place(start[r], i)] = buf[r][Place(start[r], i)]
          BY <1>1, <2>6, <4>1, <4>2 DEF TypeOK
        <5> QED
          BY <1>2, <2>2, <5>1 DEF CellAt, Place, Unwrapping
      <4>3. CASE r = q /\ Place(start[r], i) = k
        <5>1. i = 1 /\ Unwrapping(Receiver[r]) /\ loc[Receiver[r]].queue = r
          BY <2>1, <2>6, <4>1, <4>3
        <5> QED
          BY <2>2, <5>1 DEF CellAt, Unwrapping
      <4> QED
        BY <4>2, <4>3
    <3> QED
      BY <1>2, <3>2, ChanFrame
  <2> QED
    BY <1>2, <2>4, <2>7, ChanSame DEF Channel!cvars
<1> QED
  BY <1>3, <1>4

(* There is a message in the queue that a receiver unwraps.                *)
LEMMA Unwrapped ==
  ASSUME IInv, CallInv, Undisturbed, NEW t \in Threads, Unwrapping(t)
  PROVE  start[loc[t].queue] # end[loc[t].queue]
<1>1. LocOK(t) /\ CallOK(t) /\ EndsOK(t) /\ TypeOK
  BY DEF IInv, LocInv, CallInv, RingInv
<1>2. Busy(t) \/ pc[t] = "advance"
  BY <1>1 DEF LocOK, CallOK, Unwrapping, Sending, Busy, TypeOK
<1> QED
  BY <1>1, <1>2 DEF EndsOK, Unwrapping

(* A message is in the channel once end has moved past its cell.           *)
LEMMA SendIs ==
  ASSUME IInv, CallInv, NEW t \in Threads, Publish(t)
  PROVE  Channel!Next
<1>1. /\ mode[t] = "live" /\ pc[t] = "publish" /\ LocOK(t) /\ CallOK(t) /\ TypeOK
      /\ Undisturbed
  BY DEF Publish, At, IInv, LocInv, CallInv, PhaseInv, PhaseOK
<1>q. PICK q \in Queues, o \in Objs : q = loc[t].queue /\ o = loc[t].obj
  BY <1>1 DEF LocOK, CallOK, Sending
<1>2. /\ Sender[q] = t /\ loc[t].op = "send" /\ held[t][o] > 0 /\ buf[q][end[q]] = o
      /\ Succ(end[q]) # start[q]
  BY <1>1, <1>q DEF LocOK, CallOK, Sending, IInv, RingInv, EndsOK
<1>3. /\ end' = [end EXCEPT ![q] = Succ(@)] /\ loc' = [loc EXCEPT ![t] = NoLocals]
      /\ UNCHANGED <<start, buf, held, mode>>
  BY <1>q DEF Publish, Return, refs
<1>4. Unwraps /\ ~Unwrapping(t)
  BY <1>1, <1>2, <1>3 DEF Unwraps, Unwrapping, NoLocals, TypeOK
<1>5. own' = own /\ own[t][o] > 0
  <2>1. \A u \in Threads, p \in Objs : OwnOf(u, p)' = OwnOf(u, p)
    BY <1>3, <1>4 DEF OwnOf, Unwraps
  <2>2. OwnOf(t, o) > 0
    BY <1>1, <1>2, <1>4 DEF OwnOf, TypeOK
  <2> QED
    BY <2>1, <2>2, OwnIs
<1>6. t \in up /\ up' = up
  BY <1>1, <1>3 DEF up
<1>7. ASSUME NEW r \in Queues, r # q PROVE chan'[r] = chan[r]
  <2>1. end'[r] = end[r] /\ Receiver[r] \in Threads
    BY <1>1, <1>3, <1>7, EndsAssumption DEF TypeOK
  <2>2. \A i : CellAt(r, i)' = CellAt(r, i)
    BY <1>3, <1>4, <2>1 DEF CellAt, Unwraps
  <2> QED
    BY <1>3, <2>1, <2>2, ChanFrame
<1>8. chan'[q] = Append(chan[q], o) /\ Len(chan[q]) < N - 1
  <2> DEFINE n == Length(q)
  <2>1. /\ n \in 0..(N - 1) /\ Length(q)' = n + 1 /\ n < N - 1
        /\ Place(start[q], n + 1) = end[q]
        /\ \A i \in 1..n : Place(start[q], i) # end[q]
    <3>1. start[q] \in Cells /\ end[q] \in Cells /\ end'[q] = Succ(end[q])
      BY <1>1, <1>3 DEF TypeOK
    <3>2. /\ n \in 0..(N - 1) /\ n # N - 1 /\ (Succ(end[q]) - start[q]) % N = n + 1
          /\ Place(start[q], n + 1) = end[q]
          /\ \A i \in 1..n : Place(start[q], i) # end[q]
      BY <1>2, <3>1, PlacesAre DEF Length
    <3>3. Length(q)' = n + 1
      BY <1>3, <3>1, <3>2 DEF Length
    <3> QED
      BY <3>2, <3>3, RingAssumption
  <2>2. \A i : CellAt(q, i)' = CellAt(q, i)
    BY <1>3, <1>4, EndsAssumption DEF CellAt, Unwraps
  <2>3. CellAt(q, n + 1) = o
    <3>1. CASE n + 1 = 1 /\ Unwrapping(Receiver[q]) /\ loc[Receiver[q]].queue = q
      <4>1. start[q] = end[q]
        <5>1. Length(q) = 0 <=> start[q] = end[q]
          BY <1>1, ChanIs
        <5> QED
          BY <2>1, <3>1, <5>1
      <4> QED
        BY <1>1, <3>1, <4>1, Unwrapped, EndsAssumption
    <3>2. CASE ~(n + 1 = 1 /\ Unwrapping(Receiver[q]) /\ loc[Receiver[q]].queue = q)
      <4>1. CellAt(q, n + 1) = buf[q][Place(start[q], n + 1)]
        BY <3>2 DEF CellAt, Place
      <4> QED
        BY <1>2, <2>1, <4>1
    <3> QED
      BY <3>1, <3>2
  <2>4. /\ chan[q] = [i \in 1..n |-> CellAt(q, i)] /\ Len(chan[q]) = n
        /\ chan'[q] = [i \in 1..(n + 1) |-> CellAt(q, i)]
    <3>1. chan'[q] = [i \in 1..(Length(q)') |-> CellAt(q, i)']
      BY DEF chan
    <3> QED
      BY <1>1, <2>1, <2>2, <3>1, ChanIs
  <2> HIDE DEF n
  <2>5. Append(chan[q], o) = [i \in 1..(n + 1) |-> IF i = n + 1 THEN o ELSE chan[q][i]]
    BY <2>1, <2>4
  <2>6. \A i \in 1..(n + 1) : CellAt(q, i) = IF i = n + 1 THEN o ELSE chan[q][i]
    BY <2>1, <2>3, <2>4
  <2> QED
    BY <2>1, <2>4, <2>5, <2>6
<1>9. chan' = [chan EXCEPT ![q] = Append(@, o)]
  <2>1. chan = [r \in Queues |-> chan[r]] /\ chan' = [r \in Queues |-> chan'[r]]
    BY DEF chan
  <2> QED
    BY <1>7, <1>8, <2>1
<1>10. Channel!Send(q, o)
  BY <1>2, <1>5, <1>6, <1>8, <1>9 DEF Channel!Send
<1> QED
  BY <1>10 DEF Channel!Next

(* It leaves the channel when start does.                                  *)
LEMMA ReceiveIs ==
  ASSUME IInv, CallInv, NEW t \in Threads, Advance(t)
  PROVE  Channel!Next
<1>1. /\ mode[t] = "live" /\ pc[t] = "advance" /\ LocOK(t) /\ CallOK(t) /\ TypeOK
      /\ Undisturbed
  BY DEF Advance, At, IInv, LocInv, CallInv, PhaseInv, PhaseOK
<1>q. PICK q \in Queues, o \in Objs : q = loc[t].queue /\ o = loc[t].obj
  BY <1>1 DEF LocOK, CallOK, Taking
<1>2. /\ Receiver[q] = t /\ loc[t].op = "recv" /\ loc[t].func = "unlink"
      /\ start[q] # end[q]
  BY <1>1, <1>q DEF LocOK, CallOK, Taking, IInv, RingInv, EndsOK
<1>3. /\ start' = [start EXCEPT ![q] = Succ(@)] /\ loc' = [loc EXCEPT ![t] = NoLocals]
      /\ UNCHANGED <<end, buf, held, mode>>
  BY <1>q DEF Advance, Return, refs
<1>4. /\ Unwrapping(t) /\ ~Unwrapping(t)'
      /\ \A u \in Threads \ {t} : loc'[u] = loc[u] /\ (Unwrapping(u)' <=> Unwrapping(u))
  BY <1>1, <1>2, <1>3 DEF Unwrapping, NoLocals, TypeOK
<1>5. own' = [own EXCEPT ![t][o] = @ + 1]
  <2>1. OwnOf(t, o)' = OwnOf(t, o) + 1
    BY <1>1, <1>q, <1>3, <1>4 DEF OwnOf, TypeOK
  <2>2. ASSUME NEW u \in Threads, NEW p \in Objs, u # t \/ p # o PROVE OwnOf(u, p)' = OwnOf(u, p)
    <3>1. CASE u # t
      BY <1>3, <1>4, <3>1 DEF OwnOf
    <3>2. CASE u = t
      BY <1>1, <1>q, <1>3, <1>4, <2>2, <3>2 DEF OwnOf, TypeOK
    <3> QED
      BY <3>1, <3>2
  <2> QED
    BY <2>1, <2>2, OwnAt
<1>6. t \in up /\ up' = up
  BY <1>1, <1>3 DEF up
<1>7. ASSUME NEW r \in Queues, r # q PROVE chan'[r] = chan[r]
  <2>1. start'[r] = start[r] /\ Receiver[r] \in Threads
    BY <1>1, <1>3, <1>7, EndsAssumption DEF TypeOK
  <2>2. \A i : CellAt(r, i)' = CellAt(r, i)
    <3>1. CASE Receiver[r] = t
      BY <1>q, <1>3, <1>4, <1>7, <2>1, <3>1 DEF CellAt
    <3>2. CASE Receiver[r] # t
      BY <1>3, <1>4, <2>1, <3>2 DEF CellAt
    <3> QED
      BY <3>1, <3>2
  <2> QED
    BY <1>3, <2>1, <2>2, ChanFrame
<1>8. chan[q] # <<>> /\ Head(chan[q]) = o /\ chan'[q] = Tail(chan[q])
  <2> DEFINE n == Length(q)
  <2>1. /\ n \in 1..(N - 1) /\ Length(q)' = n - 1
        /\ \A i \in 1..(n - 1) : Place(start'[q], i) = Place(start[q], i + 1)
    <3>1. start[q] \in Cells /\ end[q] \in Cells /\ start'[q] = Succ(start[q])
      BY <1>1, <1>3 DEF TypeOK
    <3>2. /\ n \in 0..(N - 1) /\ n # 0 /\ (end[q] - Succ(start[q])) % N = n - 1
          /\ \A i \in 1..(n - 1) : Place(Succ(start[q]), i) = Place(start[q], i + 1)
      BY <1>2, <3>1, PlacesAre DEF Length
    <3>3. Length(q)' = n - 1
      BY <1>3, <3>1, <3>2 DEF Length
    <3> QED
      BY <3>1, <3>2, <3>3, RingAssumption
  <2>2. CellAt(q, 1) = o
    BY <1>q, <1>2, <1>4 DEF CellAt
  <2>3. \A i \in 1..(n - 1) : CellAt(q, i)' = CellAt(q, i + 1)
    <3> SUFFICES ASSUME NEW i \in 1..(n - 1) PROVE CellAt(q, i)' = CellAt(q, i + 1)
      OBVIOUS
    <3>1. CellAt(q, i)' = buf[q][Place(start'[q], i)]
      BY <1>2, <1>3, <1>4 DEF CellAt, Place
    <3>2. CellAt(q, i + 1) = buf[q][Place(start[q], i + 1)]
      <4>1. i + 1 # 1
        BY <2>1
      <4> QED
        BY <4>1 DEF CellAt, Place
    <3> QED
      BY <2>1, <3>1, <3>2
  <2>4. /\ chan[q] = [i \in 1..n |-> CellAt(q, i)] /\ Len(chan[q]) = n
        /\ chan'[q] = [i \in 1..(n - 1) |-> CellAt(q, i)']
    <3>1. chan'[q] = [i \in 1..(Length(q)') |-> CellAt(q, i)']
      BY DEF chan
    <3> QED
      BY <1>1, <2>1, <3>1, ChanIs
  <2> HIDE DEF n
  <2>5. Head(chan[q]) = o
    BY <2>1, <2>2, <2>4
  <2>6. Tail(chan[q]) = [i \in 1..(n - 1) |-> chan[q][i + 1]]
    BY <2>1, <2>4
  <2>7. \A i \in 1..(n - 1) : CellAt(q, i)' = chan[q][i + 1]
    BY <2>1, <2>3, <2>4
  <2>8. chan[q] # <<>>
    BY <2>1, <2>4
  <2> QED
    BY <2>4, <2>5, <2>6, <2>7, <2>8
<1>9. chan' = [chan EXCEPT ![q] = Tail(@)]
  <2>1. chan = [r \in Queues |-> chan[r]] /\ chan' = [r \in Queues |-> chan'[r]]
    BY DEF chan
  <2> QED
    BY <1>7, <1>8, <2>1
<1>10. Channel!Receive(q)
  BY <1>2, <1>5, <1>6, <1>8, <1>9 DEF Channel!Receive
<1> QED
  BY <1>10 DEF Channel!Next
(* A client that stops keeps what it has.                                  *)
LEMMA StopIs ==
  ASSUME TypeOK, NEW t \in Threads, Crash(t)
  PROVE  Channel!Stop(t)
<1>1. mode[t] = "live" /\ mode' = [mode EXCEPT ![t] = "crashed"]
      /\ UNCHANGED <<start, end, buf, held, loc>>
  BY DEF Crash, queue, refs
<1>2. Unwraps
  BY <1>1 DEF Unwraps, Unwrapping
<1>3. own' = own
  BY <1>1, <1>2, OwnSame DEF OwnOf, Unwraps
<1>4. t \in up /\ up' = up \ {t}
  BY <1>1 DEF up, TypeOK
<1> QED
  BY <1>1, <1>2, <1>3, <1>4, ChanQuiet DEF Channel!Stop

LEMMA ClientIs ==
  ASSUME IInv, CallInv, [ClientNext]_vars
  PROVE  [Channel!Next]_(Channel!cvars)
<1>1. ASSUME NEW t \in Threads, NEW o \in Objs, Alloc(t, o)
      PROVE  Channel!Next
  BY <1>1, AllocIs DEF Channel!Next
<1>2. ASSUME NEW t \in Threads, Store(t)
      PROVE  Channel!Next \/ UNCHANGED Channel!cvars
  <2>1. loc[t].obj \in Objs
    BY <1>2 DEF Store, At, IInv, LocInv, LocOK, Busy
  <2> QED
    BY <1>2, <2>1, LetIs, StoreIs DEF Channel!Next
<1>3. ASSUME NEW t \in Threads, Crash(t)
      PROVE  Channel!Next
  BY <1>3, StopIs DEF Channel!Next, IInv
<1>4. CASE UNCHANGED vars
  <2>1. UNCHANGED <<start, end, buf, held, mode, loc>>
    BY <1>4 DEF vars, queue, refs
  <2>2. Unwraps
    BY <2>1 DEF Unwraps, Unwrapping
  <2> QED
    BY <2>1, <2>2, QuietIs
<1> QED
  BY <1>1, <1>2, <1>3, <1>4, QuietSteps, SendIs, ReceiveIs
  DEF ClientNext, StartOp, ClientStep

LEMMA ClientInv ==
  ASSUME IInv, [ClientNext]_vars
  PROVE  IInv'
<1>1. ASSUME NEW t \in Threads, StartOp(t) \/ ClientStep(t) \/ Crash(t) PROVE IInv'
  BY <1>1, AllocStep, DropStep, CreateStep, UnwrapStep, SendStep, LinkQueueStep, PublishStep,
     AttachListStep, AttachIdStep, NoMessageStep, MessageStep, AdvanceStep, LogStep, SwapStep,
     StoreStep, CrashStep DEF StartOp, ClientStep
<1> QED
  BY <1>1, StutterStep DEF ClientNext

(* Between their stores sent_to holds the reference it sends, with the cell*)
(* filled when it publishes, and cxl_unwrap the message it is to consume.  *)
THEOREM CallCorrect == ClientSpec => []CallInv
<1>1. Init => CallInv
  BY DEF Init, CallInv, CallOK, Busy, NoLocals
<1>2. IInv /\ CallInv /\ [ClientNext]_vars => IInv' /\ CallInv'
  BY ClientInv, CallNext
<1> QED
  BY InitInv, <1>1, <1>2, PTL DEF ClientSpec

(* A queue is a bounded channel: first in first out, each message once, no *)
(* message lost or made up, whatever the two ends do and wherever they     *)
(* stop (sent_to, cxl_unwrap).                                             *)
THEOREM Implements == ClientSpec => ImplementsMsgChannel
<1>1. Init => CallInv /\ Channel!Init
  <2> SUFFICES ASSUME Init PROVE CallInv /\ Channel!Init
    OBVIOUS
  <2>1. CallInv /\ up = Threads
    BY DEF Init, CallInv, CallOK, Busy, NoLocals, up
  <2>2. \A q \in Queues : chan[q] = <<>>
    <3> SUFFICES ASSUME NEW q \in Queues PROVE chan[q] = <<>>
      OBVIOUS
    <3>1. TypeOK /\ start[q] = end[q]
      BY InitInv DEF IInv, Init
    <3>2. Length(q) = 0 /\ chan[q] = [i \in 1..Length(q) |-> CellAt(q, i)]
      BY <3>1, ChanIs
    <3> QED
      BY <3>2
  <2>3. chan = [q \in Queues |-> <<>>]
    BY <2>2 DEF chan
  <2>4. own = [t \in Threads |-> [o \in Objs |-> 0]]
    BY OwnIs DEF Init, OwnOf, Unwrapping, NoLocals
  <2> QED
    BY <2>1, <2>3, <2>4 DEF Channel!Init
<1>2. IInv /\ CallInv /\ [ClientNext]_vars => IInv' /\ CallInv'
  BY ClientInv, CallNext
<1>3. IInv /\ CallInv /\ [ClientNext]_vars => [Channel!Next]_(Channel!cvars)
  BY ClientIs
<1> QED
  BY InitInv, <1>1, <1>2, <1>3, PTL DEF ClientSpec, ImplementsMsgChannel, Channel!Spec
=============================================================================
