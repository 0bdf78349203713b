---------------------------- MODULE PageQueueProofs ----------------------------
(***************************************************************************)
(* The theorems about the page queues.  IInv is inductive: each store of a *)
(* push or a removal leaves a path for every queue (LinkLemmas says which  *)
(* one), and what it leaves wrong in the links back and in the ends is     *)
(* what PrevInv and LastInv allow at that store.                           *)
(***************************************************************************)
EXTENDS PageQueueInv, LinkLemmas

-----------------------------------------------------------------------------
(* What the invariant says of one queue.                                   *)

LEMMA QueueFacts ==
  ASSUME TypeOK, PathInv, mode # "gone", NEW q \in Queues
  PROVE  /\ DOMAIN next = Pages /\ Null \notin Pages
         /\ IsPath(next, Order(q), Start(q))
         /\ Order(q) \in Seq(Pages) /\ Len(Order(q)) \in Nat /\ DOMAIN Order(q) = 1..Len(Order(q))
         /\ In(q) = {Order(q)[i] : i \in 1..Len(Order(q))} /\ In(q) \subseteq Pages
         /\ \A i \in 1..Len(Order(q)) : Order(q)[i] \in Pages /\ Order(q)[i] \in In(q)
         /\ \A i \in 1..Len(Order(q)) : i < Len(Order(q)) => next[Order(q)[i]] = Order(q)[i + 1]
         /\ \A i \in 1..Len(Order(q)) : i = Len(Order(q)) => next[Order(q)[i]] = Null
         /\ \A i, j \in 1..Len(Order(q)) : Order(q)[i] = Order(q)[j] => i = j
         /\ (Order(q) = <<>> <=> Start(q) = Null)
         /\ Order(q) # <<>> => Len(Order(q)) > 0 /\ Start(q) = Order(q)[1] /\ Start(q) \in In(q)
         /\ Len(Order(q)) > 0 => Order(q) # <<>>
         /\ mode = "live" => Start(q) = first[q]
<1> DEFINE s == Order(q)
<1>1. DOMAIN next = Pages /\ Null \notin Pages /\ \A p \in Pages : next[p] \in NullOr(Pages)
  BY PageQueueAssumption DEF TypeOK
<1>2. IsPath(next, s, Start(q))
  BY DEF PathInv
<1> HIDE DEF s
<1>3. /\ s \in Seq(Pages) /\ Len(s) \in Nat /\ DOMAIN s = 1..Len(s)
      /\ ToSet(s) = {s[i] : i \in 1..Len(s)} /\ ToSet(s) \subseteq Pages
      /\ \A i \in 1..Len(s) : s[i] \in Pages /\ s[i] \in ToSet(s)
      /\ \A i \in 1..Len(s) : i < Len(s) => next[s[i]] = s[i + 1]
      /\ \A i \in 1..Len(s) : i = Len(s) => next[s[i]] \notin Pages
      /\ \A i, j \in 1..Len(s) : s[i] = s[j] => i = j
      /\ (s = <<>> <=> Start(q) \notin Pages)
      /\ s # <<>> => Len(s) > 0 /\ Start(q) = s[1]
      /\ Len(s) > 0 => s # <<>>
  BY <1>1, <1>2, PathElems
<1>4. Start(q) \in NullOr(Pages)
  BY DEF TypeOK, Start
<1>5. (s = <<>> <=> Start(q) = Null)
  BY <1>1, <1>3, <1>4 DEF NullOr
<1>6. \A i \in 1..Len(s) : i = Len(s) => next[s[i]] = Null
  BY <1>1, <1>3 DEF NullOr
<1>7. s # <<>> => Start(q) \in ToSet(s)
  <2>1. s # <<>> => 1 \in 1..Len(s)
    <3>1. s # <<>> => Len(s) > 0
      BY <1>3
    <3>2. Len(s) \in Nat
      BY <1>3
    <3> HIDE DEF s
    <3> QED
      BY <3>1, <3>2
  <2> QED
    BY <1>3, <2>1
<1>8. In(q) = ToSet(s)
  BY DEF In, s
<1>9. mode = "live" => Start(q) = first[q]
  BY DEF Start
<1> QED
  <2>0. \A i \in 1..Len(s) : s[i] \in Pages /\ s[i] \in In(q)
    <3>1. ASSUME NEW i \in 1..Len(s) PROVE s[i] \in Pages /\ s[i] \in ToSet(s)
      BY <1>3
    <3> QED
      BY <3>1, <1>8
  <2> USE DEF s
  <2>1. /\ DOMAIN next = Pages /\ Null \notin Pages /\ IsPath(next, Order(q), Start(q))
        /\ In(q) = ToSet(Order(q)) /\ (mode = "live" => Start(q) = first[q])
    BY <1>1, <1>2, <1>8, <1>9
  <2>2. /\ Order(q) \in Seq(Pages) /\ Len(Order(q)) \in Nat /\ DOMAIN Order(q) = 1..Len(Order(q))
        /\ In(q) = {Order(q)[i] : i \in 1..Len(Order(q))} /\ In(q) \subseteq Pages
        /\ \A i \in 1..Len(Order(q)) : Order(q)[i] \in Pages /\ Order(q)[i] \in In(q)
    <3>1. Order(q) \in Seq(Pages) /\ Len(Order(q)) \in Nat /\ DOMAIN Order(q) = 1..Len(Order(q))
      BY <1>3
    <3>2. In(q) = {Order(q)[i] : i \in 1..Len(Order(q))}
      BY <1>3, <2>1, Zenon
    <3>3. In(q) \subseteq Pages
      BY <1>3, <2>1, Zenon
    <3>4. \A i \in 1..Len(Order(q)) : Order(q)[i] \in Pages /\ Order(q)[i] \in In(q)
      BY <2>0
    <3> QED
      BY <3>1, <3>2, <3>3, <3>4
  <2>3. /\ \A i \in 1..Len(Order(q)) : i < Len(Order(q)) => next[Order(q)[i]] = Order(q)[i + 1]
        /\ \A i \in 1..Len(Order(q)) : i = Len(Order(q)) => next[Order(q)[i]] = Null
        /\ \A i, j \in 1..Len(Order(q)) : Order(q)[i] = Order(q)[j] => i = j
    BY <1>3, <1>6
  <2>4. /\ (Order(q) = <<>> <=> Start(q) = Null)
        /\ Order(q) # <<>> => Len(Order(q)) > 0 /\ Start(q) = Order(q)[1] /\ Start(q) \in In(q)
        /\ Len(Order(q)) > 0 => Order(q) # <<>>
    <3>1. Order(q) = <<>> <=> Start(q) = Null
      BY <1>5
    <3>2. Order(q) # <<>> => Len(Order(q)) > 0 /\ Start(q) = Order(q)[1]
      BY <1>3
    <3>3. Order(q) # <<>> => Start(q) \in In(q)
      BY <1>7, <2>1
    <3>4. Len(Order(q)) > 0 => Order(q) # <<>>
      BY <1>3
    <3> QED
      BY <3>1, <3>2, <3>3, <3>4
  <2> QED
    BY <2>1, <2>2, <2>3, <2>4

(* A path along next is the order.                                         *)
LEMMA OrderIs ==
  ASSUME DOMAIN next = Pages, NEW q, NEW s, IsPath(next, s, Start(q))
  PROVE  Order(q) = s /\ In(q) = ToSet(s)
BY PathIs, PageQueueAssumption DEF Order, In

LEMMA OrderIsNext ==
  ASSUME DOMAIN next' = Pages, NEW q, NEW s, IsPath(next', s, Start(q)')
  PROVE  Order(q)' = s /\ In(q)' = ToSet(s)
BY PathIs, PageQueueAssumption DEF Order, In

(* No element of one queue is in another.                                  *)
LEMMA OneQueue ==
  ASSUME PathInv, mode # "gone", NEW q \in Queues, NEW r \in Queues, NEW x \in In(q), x \in In(r)
  PROVE  q = r
BY DEF PathInv, Queues

(* Nothing is wrong in the links back.                                     *)
Settled == ~OddLast /\ \A x \in Pages : ~Odd(x)

(* Stores elsewhere change no queue.                                       *)
LEMMA Elsewhere ==
  ASSUME IInv, mode = "live", mode' = mode, cursor' = cursor, first' = first,
         DOMAIN next' = Pages,
         \A q \in Queues : \A x \in In(q) : next'[x] = next[x]
  PROVE  /\ \A q \in Queues : Order(q)' = Order(q) /\ In(q)' = In(q) /\ Start(q)' = Start(q)
         /\ PathInv'
<1>1. ASSUME NEW q \in Queues
      PROVE  /\ Order(q)' = Order(q) /\ In(q)' = In(q) /\ Start(q)' = Start(q)
             /\ IsPath(next', Order(q), Start(q)')
  <2>1. IsPath(next, Order(q), Start(q)) /\ DOMAIN next = Pages /\ In(q) = ToSet(Order(q))
    BY QueueFacts DEF IInv, In
  <2>2. Start(q)' = Start(q)
    BY DEF Start
  <2>3. IsPath(next', Order(q), Start(q))
    BY <2>1, PathFrame
  <2> QED
    BY <2>1, <2>2, <2>3, OrderIsNext
<1>2. PathInv'
  BY <1>1 DEF PathInv, IInv, Queues
<1> QED
  BY <1>1, <1>2

LEMMA SettledStep ==
  ASSUME IInv, mode = "live", mode' = mode, cursor' = cursor, first' = first, last' = last,
         DOMAIN next' = Pages,
         \A q \in Queues : \A x \in In(q) : next'[x] = next[x] /\ prev'[x] = prev[x],
         Settled, Settled'
  PROVE  /\ \A q \in Queues : Order(q)' = Order(q) /\ In(q)' = In(q)
         /\ PathInv' /\ PrevInv' /\ LastInv'
<1>1. /\ \A q \in Queues : Order(q)' = Order(q) /\ In(q)' = In(q)
      /\ PathInv'
  BY Elsewhere
<1>2. PrevInv'
  <2> SUFFICES ASSUME NEW q \in Queues, NEW i \in 1..Len(Order(q)')
               PROVE  prev'[Order(q)'[i]] = IF Odd(Order(q)[i])' THEN OddPrev' ELSE Before(Order(q)', i)
    BY DEF PrevInv
  <2> DEFINE s == Order(q)
  <2>1. i \in 1..Len(s) /\ Order(q)' = s /\ s[i] \in Pages /\ s[i] \in In(q)
    BY <1>1, QueueFacts DEF IInv
  <2>2. prev[s[i]] = Before(s, i)
    BY <2>1 DEF IInv, PrevInv, Settled
  <2>3. prev'[s[i]] = Before(s, i)
    BY <2>1, <2>2
  <2> QED
    BY <2>1, <2>3 DEF Settled, Before
<1>3. LastInv'
  BY <1>1 DEF IInv, LastInv, Settled, Ends
<1> QED
  BY <1>1, <1>2, <1>3

-----------------------------------------------------------------------------
(* The steps.                                                              *)

LEMMA InitIs == Init => IInv
<1> SUFFICES ASSUME Init PROVE IInv
  OBVIOUS
<1>1. TypeOK
  BY DEF Init, TypeOK, NullOr, NoLocals
<1>2. ASSUME NEW q \in Queues
      PROVE  Start(q) = Null /\ IsPath(next, <<>>, Start(q))
  <2>1. Start(q) = Null /\ DOMAIN next = Pages
    BY <1>1 DEF Init, Start
  <2>2. <<>> \in Seq(Pages) /\ Len(<<>>) = 0
    BY EmptySeq
  <2> QED
    BY <2>1, <2>2, PageQueueAssumption DEF IsPath
<1>3. ASSUME NEW q \in Queues
      PROVE  Order(q) = <<>> /\ In(q) = {}
  <2>1. Order(q) = <<>> /\ In(q) = ToSet(<<>>)
    BY <1>1, <1>2, OrderIs DEF TypeOK
  <2>2. ToSet(<<>>) = {}
    BY DEF ToSet
  <2> QED
    BY <2>1, <2>2
<1>4. PathInv
  BY <1>2, <1>3 DEF PathInv, Queues
<1>5. BusyInv
  BY DEF Init, BusyInv
<1>6. LocInv
  BY DEF Init, LocInv
<1>7. PrevInv
  BY <1>3, EmptySeq DEF PrevInv
<1>8. LastInv
  BY <1>3 DEF Init, LastInv, OddLast, Around, AtHead, Removing, Ends
<1> QED
  BY <1>1, <1>4, <1>5, <1>6, <1>7, <1>8 DEF IInv

(* A call puts its page and its queue into the registers.                  *)
LEMMA BeginSafe ==
  ASSUME IInv, At("idle"), NEW q \in Queues, NEW p \in Pages, p \notin busy,
         NEW then \in NullOr(Queues), NEW label \in {"push", "remove"},
         Begin(q, p, then, label),
         label = "push" => \A r \in Queues : p \notin In(r),
         label = "remove" => p \in In(q)
  PROVE  IInv'
<1>1. /\ mode = "live" /\ pc = "idle" /\ pc' = label
      /\ loc' = [queue |-> q, page |-> p, prev |-> Null, next |-> Null, then |-> then]
      /\ UNCHANGED <<first, last, next, prev, busy, mode, cursor, seen>>
  BY DEF At, Begin, links, walk
<1>2. TypeOK'
  BY <1>1 DEF IInv, TypeOK, NullOr
<1>3. Settled /\ Settled'
  BY <1>1 DEF Settled, Odd, OddLast, Around, AtHead, Removing
<1>4. /\ \A r \in Queues : Order(r)' = Order(r) /\ In(r)' = In(r)
      /\ PathInv' /\ PrevInv' /\ LastInv'
  BY <1>1, <1>2, <1>3, SettledStep DEF TypeOK
<1>5. BusyInv'
  BY <1>1, <1>4 DEF IInv, BusyInv, Queues
<1>6. LocInv'
  <2>1. loc'.queue = q /\ loc'.page = p
    BY <1>1
  <2> QED
    BY <1>1, <1>4, <2>1 DEF LocInv, Around, AtHead, Removing
<1> QED
  BY <1>2, <1>4, <1>5, <1>6 DEF IInv

(* Between two operations, a page without links that is first nowhere is   *)
(* in no queue, and the monitor's reading of a queue is its order.         *)
LEMMA UnlistedIs ==
  ASSUME IInv, At("idle"), NEW p \in Pages, Unlisted(p), NEW q \in Queues
  PROVE  p \notin In(q)
<1> SUFFICES ASSUME p \in In(q) PROVE FALSE
  OBVIOUS
<1> DEFINE s == Order(q)
<1>0. mode = "live" /\ pc = "idle" /\ TypeOK /\ PathInv
  BY DEF At, IInv
<1>1. PICK i \in 1..Len(s) : p = s[i]
  BY <1>0, QueueFacts
<1>2. ~Odd(p)
  BY <1>0 DEF Odd, Removing
<1>3. Null = Before(s, i)
  BY <1>0, <1>1, <1>2 DEF IInv, PrevInv, Unlisted
<1>4. Len(s) \in Nat /\ \A j \in 1..Len(s) : s[j] # Null
  <2>1. /\ Len(Order(q)) \in Nat /\ Null \notin Pages
        /\ \A j \in 1..Len(Order(q)) : Order(q)[j] \in Pages
    BY <1>0, QueueFacts
  <2> QED
    BY <2>1
<1>5. CASE i = 1
  <2>1. first[q] = s[1]
    BY <1>0, <1>1, <1>5, QueueFacts
  <2> QED
    BY <1>1, <1>5, <2>1 DEF Unlisted
<1>6. CASE i # 1
  <2>1. i - 1 \in 1..Len(s)
    BY <1>4, <1>6
  <2> QED
    BY <1>3, <1>4, <1>6, <2>1 DEF Before
<1> QED
  BY <1>5, <1>6

LEMMA ChainIs == 
  ASSUME mode = "live", NEW q
  PROVE  Chain(q) = Order(q) /\ Listed(q) = In(q)
BY DEF Chain, Listed, Order, In, Start

LEMMA CallSafe ==
  ASSUME IInv, Call
  PROVE  IInv'
<1>0. /\ mode = "live" /\ At("idle") /\ TypeOK /\ PathInv
      /\ busy \subseteq In(Class) /\ Class \in Queues /\ FreePage \in Queues
  BY DEF Call, Gain, Lose, Fresh, Return, Use, At, IInv, BusyInv, Queues
<1>1. ASSUME NEW p \in Pages, Gain(p) PROVE IInv'
  <2>1. \A q \in Queues : p \notin In(q)
    BY <1>0, <1>1, UnlistedIs DEF Gain
  <2>2. p \notin busy
    BY <1>0, <2>1
  <2> QED
    BY <1>0, <1>1, <2>1, <2>2, BeginSafe DEF Gain, NullOr
<1>2. ASSUME NEW p \in Pages, Lose(p) PROVE IInv'
  <2>1. p \in In(FreePage)
    BY <1>0, <1>2, ChainIs DEF Lose
  <2>2. p \notin busy
    BY <1>0, <2>1 DEF PathInv
  <2> QED
    BY <1>0, <1>2, <2>1, <2>2, BeginSafe DEF Lose, NullOr
<1>3. CASE Fresh
  <2> DEFINE p == first[FreePage]
  <2>1. p # Null /\ Start(FreePage) = p
    BY <1>0, <1>3 DEF Fresh, Start
  <2>2. p \in In(FreePage) /\ p \in Pages
    BY <1>0, <2>1, QueueFacts
  <2>3. p \notin busy
    BY <1>0, <2>2 DEF PathInv
  <2> QED
    BY <1>0, <1>3, <2>2, <2>3, BeginSafe DEF Fresh, NullOr
<1>4. ASSUME NEW p \in Pages, Return(p) PROVE IInv'
  <2>1. p \in In(Class) /\ p \notin busy
    BY <1>0, <1>4, ChainIs DEF Return
  <2> QED
    BY <1>0, <1>4, <2>1, BeginSafe DEF Return, NullOr
<1>5. ASSUME NEW p \in Pages, Use(p) PROVE IInv'
  <2>1. /\ pc = "idle" /\ busy' \subseteq busy \cup {p}
        /\ UNCHANGED <<first, last, next, prev, pc, loc, mode, cursor, seen>>
    BY <1>5 DEF Use, At, links, walk
  <2>2. p \in In(Class)
    BY <1>0, <1>5, ChainIs DEF Use
  <2>3. \A q : Order(q)' = Order(q) /\ In(q)' = In(q) /\ Start(q)' = Start(q)
    BY <2>1 DEF Order, In, Start
  <2>4. TypeOK' /\ LocInv'
    BY <2>1, <2>2 DEF IInv, TypeOK, LocInv
  <2>5. PathInv'
    BY <2>1, <2>3 DEF IInv, PathInv
  <2>6. BusyInv'
    BY <1>0, <2>1, <2>2, <2>3 DEF IInv, BusyInv
  <2>7. PrevInv'
    BY <2>1, <2>3 DEF IInv, PrevInv, Odd, OddPrev, Around, AtHead, Removing
  <2>8. LastInv'
    BY <2>1, <2>3 DEF IInv, LastInv, OddLast, Around, AtHead, Removing
  <2> QED
    BY <2>4, <2>5, <2>6, <2>7, <2>8 DEF IInv
<1> QED
  BY <1>1, <1>2, <1>3, <1>4, <1>5 DEF Call

-----------------------------------------------------------------------------
(* The stores of a push.                                                   *)

(* A store into the links of the page under way, which is in no queue.     *)
LEMMA OwnLinks ==
  ASSUME IInv, mode = "live", pc # "idle", mode' = mode, cursor' = cursor, seen' = seen,
         busy' = busy, first' = first, last' = last,
         \A q \in Queues : loc.page \notin In(q),
         NEW n \in NullOr(Pages), NEW b \in NullOr(Pages),
         next' = [next EXCEPT ![loc.page] = n], prev' = [prev EXCEPT ![loc.page] = b],
         Settled, Settled'
  PROVE  /\ next' \in [Pages -> NullOr(Pages)] /\ prev' \in [Pages -> NullOr(Pages)]
         /\ next'[loc.page] = n /\ prev'[loc.page] = b
         /\ \A q \in Queues : Order(q)' = Order(q) /\ In(q)' = In(q)
         /\ PathInv' /\ BusyInv' /\ PrevInv' /\ LastInv'
<1>1. loc.page \in Pages
  BY DEF IInv, LocInv
<1>2. /\ next' \in [Pages -> NullOr(Pages)] /\ prev' \in [Pages -> NullOr(Pages)]
      /\ next'[loc.page] = n /\ prev'[loc.page] = b
      /\ \A x \in Pages : x # loc.page => next'[x] = next[x] /\ prev'[x] = prev[x]
  BY <1>1 DEF IInv, TypeOK
<1>3. ASSUME NEW q \in Queues, NEW x \in In(q) PROVE next'[x] = next[x] /\ prev'[x] = prev[x]
  <2>1. x \in Pages
    BY QueueFacts DEF IInv
  <2> QED
    BY <1>2, <2>1
<1>4. /\ \A q \in Queues : Order(q)' = Order(q) /\ In(q)' = In(q)
      /\ PathInv' /\ PrevInv' /\ LastInv'
  BY <1>2, <1>3, SettledStep
<1>5. BusyInv'
  BY <1>4 DEF IInv, BusyInv, Queues
<1> QED
  BY <1>2, <1>4, <1>5

LEMMA PushSafe ==
  ASSUME IInv, Push
  PROVE  IInv'
<1> DEFINE q == loc.queue
           p == loc.page
<1>1. /\ mode = "live" /\ pc = "push"
      /\ next' = [next EXCEPT ![p] = first[q]] /\ prev' = [prev EXCEPT ![p] = Null]
      /\ pc' = IF first[q] # Null THEN "back" ELSE "front"
      /\ UNCHANGED <<first, last, busy, loc, mode, cursor, seen>>
  BY DEF Push, At, walk
<1>2. /\ q \in Queues /\ p \in Pages /\ p \notin busy /\ \A r \in Queues : p \notin In(r)
      /\ first[q] \in NullOr(Pages) /\ Null \in NullOr(Pages)
  BY <1>1 DEF IInv, LocInv, TypeOK, NullOr
<1>3. Settled
  BY <1>1 DEF Settled, Odd, OddLast, Around, AtHead, Removing
<1>4. Settled'
  BY <1>1, PageQueueAssumption DEF Settled, Odd, OddLast, Around, AtHead, Removing
<1>5. /\ next' \in [Pages -> NullOr(Pages)] /\ prev' \in [Pages -> NullOr(Pages)]
      /\ next'[p] = first[q] /\ prev'[p] = Null
      /\ \A r \in Queues : Order(r)' = Order(r) /\ In(r)' = In(r)
      /\ PathInv' /\ BusyInv' /\ PrevInv' /\ LastInv'
  BY <1>1, <1>2, <1>3, <1>4, OwnLinks
<1>6. TypeOK'
  BY <1>1, <1>5 DEF IInv, TypeOK
<1>7. LocInv'
  BY <1>1, <1>2, <1>5 DEF LocInv, Around, AtHead, Removing
<1> QED
  BY <1>5, <1>6, <1>7 DEF IInv

LEMMA PushBackSafe ==
  ASSUME IInv, PushBack
  PROVE  IInv'
<1> DEFINE q == loc.queue
           p == loc.page
           f == first[q]
<1>1. /\ mode = "live" /\ pc = "back" /\ pc' = "front"
      /\ prev' = [prev EXCEPT ![f] = p]
      /\ UNCHANGED <<first, last, next, busy, loc, mode, cursor, seen>>
  BY DEF PushBack, At, walk
<1>2. /\ q \in Queues /\ p \in Pages /\ p \notin busy /\ \A r \in Queues : p \notin In(r)
      /\ f # Null /\ next[p] = f /\ prev[p] = Null /\ f \in Pages
      /\ TypeOK /\ PathInv
  BY <1>1 DEF IInv, LocInv, TypeOK, NullOr
<1>3. f \in In(q)
  BY <1>1, <1>2, QueueFacts
<1>4. TypeOK'
  BY <1>1, <1>2 DEF TypeOK, NullOr
<1>5. \A r : Order(r)' = Order(r) /\ In(r)' = In(r) /\ Start(r)' = Start(r)
  BY <1>1 DEF Order, In, Start
<1>6. PathInv' /\ BusyInv'
  BY <1>1, <1>5 DEF IInv, PathInv, BusyInv
<1>7. \A x \in Pages : prev'[x] = IF x = f THEN p ELSE prev[x]
  BY <1>1 DEF IInv, TypeOK
<1>8. LocInv'
  <2>1. prev'[p] = Null
    BY <1>2, <1>3, <1>7
  <2> QED
    BY <1>1, <1>2, <1>5, <2>1 DEF LocInv, Around, AtHead, Removing
<1>9. PrevInv'
  <2> SUFFICES ASSUME NEW r \in Queues, NEW i \in 1..Len(Order(r)')
               PROVE  prev'[Order(r)'[i]] = IF Odd(Order(r)[i])' THEN OddPrev' ELSE Before(Order(r)', i)
    BY DEF PrevInv
  <2> DEFINE s == Order(r)
  <2>1. i \in 1..Len(s) /\ Order(r)' = s /\ s[i] \in Pages
    BY <1>1, <1>2, <1>5, QueueFacts
  <2>2. prev[s[i]] = Before(s, i)
    BY <1>1, <2>1 DEF IInv, PrevInv, Odd, Removing
  <2>3. (Odd(Order(r)[i])' <=> s[i] = f) /\ OddPrev' = p
    BY <1>1, <2>1 DEF Odd, OddPrev, Removing
  <2> QED
    BY <1>7, <2>1, <2>2, <2>3
<1>10. LastInv'
  BY <1>1, <1>5 DEF IInv, LastInv, OddLast, Around, AtHead, Removing
<1> QED
  BY <1>4, <1>6, <1>8, <1>9, <1>10 DEF IInv

(* The page appears.                                                       *)
LEMMA FrontIs ==
  ASSUME IInv, PushFront
  PROVE  /\ loc.queue \in Queues /\ loc.page \in Pages
         /\ \A r \in Queues : loc.page \notin In(r)
         /\ Order(loc.queue)' = <<loc.page>> \o Order(loc.queue)
         /\ In(loc.queue)' = {loc.page} \cup In(loc.queue)
         /\ IsPath(next', Order(loc.queue)', Start(loc.queue)')
         /\ \A r \in Queues \ {loc.queue} : Order(r)' = Order(r) /\ In(r)' = In(r)
                                            /\ Start(r)' = Start(r)
<1> DEFINE q == loc.queue
           p == loc.page
<1>1. /\ mode = "live" /\ pc = "front"
      /\ first' = [first EXCEPT ![q] = p]
      /\ UNCHANGED <<last, next, prev, busy, loc, mode, cursor, seen>>
  BY DEF PushFront, At, walk
<1>2. /\ q \in Queues /\ p \in Pages /\ \A r \in Queues : p \notin In(r)
      /\ next[p] = first[q] /\ TypeOK /\ PathInv
  BY <1>1 DEF IInv, LocInv
<1>3. /\ Start(q)' = p
      /\ \A r \in Queues \ {q} : Start(r)' = Start(r)
  BY <1>1, <1>2 DEF Start, TypeOK
<1>4. \A r \in Queues \ {q} : Order(r)' = Order(r) /\ In(r)' = In(r)
  BY <1>1, <1>3 DEF Order, In
<1>5. /\ IsPath(next, Order(q), first[q]) /\ DOMAIN next = Pages /\ In(q) = ToSet(Order(q))
  BY <1>1, <1>2, QueueFacts DEF In
<1>6. /\ IsPath(next, <<p>> \o Order(q), p)
      /\ ToSet(<<p>> \o Order(q)) = {p} \cup ToSet(Order(q))
  BY <1>2, <1>5, PathPush
<1>7. Order(q)' = <<p>> \o Order(q) /\ In(q)' = ToSet(<<p>> \o Order(q))
  BY <1>1, <1>3, <1>5, <1>6, OrderIsNext
<1> QED
  BY <1>1, <1>2, <1>3, <1>4, <1>5, <1>6, <1>7

LEMMA PushFrontSafe ==
  ASSUME IInv, PushFront
  PROVE  IInv'
<1> DEFINE q == loc.queue
           p == loc.page
           s == Order(q)
           n == Len(s)
           t == Order(q)'
<1>1. /\ mode = "live" /\ pc = "front"
      /\ first' = [first EXCEPT ![q] = p]
      /\ pc' = IF first[q] = Null THEN "only" ELSE "idle"
      /\ UNCHANGED <<last, next, prev, busy, loc, mode, cursor, seen>>
  BY DEF PushFront, At, walk
<1>2. /\ q \in Queues /\ p \in Pages /\ p \notin busy /\ prev[p] = Null
      /\ TypeOK /\ PathInv /\ \A r \in Queues : p \notin In(r)
  BY <1>1 DEF IInv, LocInv
<1>3. /\ t = <<p>> \o s /\ In(q)' = {p} \cup In(q)
      /\ IsPath(next', t, Start(q)')
      /\ \A r \in Queues \ {q} : Order(r)' = Order(r) /\ In(r)' = In(r) /\ Start(r)' = Start(r)
  BY FrontIs
<1>4. /\ s \in Seq(Pages) /\ n \in Nat /\ (s = <<>> <=> first[q] = Null)
      /\ s # <<>> => n > 0 /\ first[q] = s[1]
      /\ n > 0 => s # <<>>
      /\ \A i, j \in 1..n : s[i] = s[j] => i = j
  <2>1. /\ Order(q) \in Seq(Pages) /\ Len(Order(q)) \in Nat
        /\ (Order(q) = <<>> <=> Start(q) = Null)
        /\ Order(q) # <<>> => Len(Order(q)) > 0 /\ Start(q) = Order(q)[1]
        /\ Len(Order(q)) > 0 => Order(q) # <<>>
        /\ \A i, j \in 1..Len(Order(q)) : Order(q)[i] = Order(q)[j] => i = j
        /\ Start(q) = first[q]
    BY <1>1, <1>2, QueueFacts
  <2> QED
    BY <2>1
<1> HIDE DEF s, n, t
<1>5. /\ t \in Seq(Pages) /\ Len(t) = n + 1
      /\ \A i \in 1..(n + 1) : t[i] = IF i = 1 THEN p ELSE s[i - 1]
  <2>1. <<p>> \in Seq(Pages) /\ Len(<<p>>) = 1 /\ <<p>>[1] = p
    BY <1>2
  <2>2. /\ t \in Seq(Pages) /\ Len(t) = 1 + n
        /\ \A i \in 1..(1 + n) : t[i] = IF i <= 1 THEN <<p>>[i] ELSE s[i - 1]
    BY <1>3, <1>4, <2>1, ConcatProperties DEF n
  <2> QED
    BY <1>4, <2>1, <2>2
<1>6. TypeOK'
  BY <1>1, <1>2 DEF TypeOK, NullOr
<1>7. PathInv'
  <2>1. ASSUME NEW r \in Queues PROVE IsPath(next', Order(r)', Start(r)')
    <3>1. CASE r = q
      BY <1>1, <1>3, <3>1 DEF t
    <3>2. CASE r # q
      BY <1>1, <1>2, <1>3, <3>2 DEF PathInv
    <3> QED
      BY <3>1, <3>2
  <2>2. (In(Class) \cap In(FreePage))' = {}
    BY <1>1, <1>2, <1>3, PageQueueAssumption DEF PathInv, Queues
  <2> QED
    BY <2>1, <2>2 DEF PathInv
<1>8. BusyInv'
  <2>1. In(Class) \subseteq In(Class)'
    BY <1>1, <1>2, <1>3 DEF Queues
  <2> QED
    BY <1>1, <2>1 DEF IInv, BusyInv
<1>9. LocInv'
  <2>1. first[q] = Null => Order(q)' = <<p>>
    BY <1>2, <1>3, <1>4, ConcatEmptySeq DEF t
  <2> QED
    BY <1>1, <1>2, <2>1 DEF LocInv, Around, AtHead, Removing
<1>10. PrevInv'
  <2>1. \A x : ~Odd(x)'
    BY <1>1 DEF Odd, Around, AtHead, Removing
  <2>2. ASSUME NEW r \in Queues, NEW i \in 1..Len(Order(r)')
        PROVE  prev[Order(r)'[i]] = Before(Order(r)', i)
    <3>1. CASE r = q
      <4>0. i \in 1..(n + 1) /\ Order(r)' = t
        BY <1>1, <1>5, <3>1 DEF t
      <4>1. CASE i = 1
        BY <1>2, <1>5, <4>0, <4>1 DEF Before
      <4>2. CASE i # 1
        <5>1. i - 1 \in 1..n /\ t[i] = s[i - 1] /\ i \in Nat
          BY <1>4, <1>5, <4>0, <4>2
        <5>2. prev[s[i - 1]] = IF Odd(s[i - 1]) THEN OddPrev ELSE Before(s, i - 1)
          BY <1>1, <1>2, <5>1 DEF IInv, PrevInv, s, n
        <5>3. (Odd(s[i - 1]) <=> s[i - 1] = first[q]) /\ OddPrev = p
          BY <1>1 DEF Odd, OddPrev, Removing
        <5>4. CASE i - 1 = 1
          <6>1. s[i - 1] = first[q]
            BY <1>4, <5>1, <5>4
          <6>2. t[i - 1] = p
            BY <1>4, <1>5, <5>1, <5>4
          <6> QED
            BY <4>0, <4>2, <5>1, <5>2, <5>3, <6>1, <6>2 DEF Before
        <5>5. CASE i - 1 # 1
          <6>1. 1 \in 1..n /\ s # <<>> /\ i - 1 \in 1..(n + 1) /\ t[i - 1] = s[(i - 1) - 1]
            BY <1>4, <1>5, <5>1, <5>5
          <6>2. s[i - 1] # first[q]
            BY <1>4, <5>1, <5>5, <6>1
          <6> QED
            BY <4>0, <4>2, <5>1, <5>2, <5>3, <5>5, <6>1, <6>2 DEF Before
        <5> QED
          BY <5>4, <5>5
      <4> QED
        BY <4>1, <4>2
    <3>2. CASE r # q
      <4>1. Order(r)' = Order(r)
        BY <1>3, <3>2
      <4>2. i \in 1..Len(Order(r)) /\ Order(r)[i] \in In(r) /\ Order(r)[i] \in Pages /\ Null \notin Pages
        BY <1>1, <1>2, <4>1, QueueFacts
      <4>3. first[q] = Null \/ first[q] \in In(q)
        BY <1>1, <1>2, QueueFacts
      <4>4. Order(r)[i] # first[q]
        BY <1>1, <1>2, <3>2, <4>2, <4>3, OneQueue
      <4>5. ~Odd(Order(r)[i])
        BY <1>1, <4>4 DEF Odd, Removing
      <4> QED
        BY <1>1, <4>1, <4>2, <4>5 DEF IInv, PrevInv
    <3> QED
      BY <3>1, <3>2
  <2> QED
    BY <1>1, <2>1, <2>2 DEF PrevInv
<1>11. LastInv'
  <2>1. ~OddLast
    BY <1>1 DEF OddLast, Removing
  <2>2. OddLast' <=> first[q] = Null
    BY <1>1 DEF OddLast, Around, AtHead, Removing
  <2>3. ASSUME NEW r \in Queues
        PROVE  last'[r] = IF first[q] = Null /\ r = q THEN Null ELSE Ends(Order(r)')
    <3>1. last'[r] = Ends(Order(r))
      BY <1>1, <2>1 DEF IInv, LastInv
    <3>2. CASE r # q
      BY <1>3, <3>1, <3>2
    <3>3. CASE r = q /\ first[q] = Null
      BY <1>4, <3>1, <3>3 DEF Ends, s
    <3>4. CASE r = q /\ first[q] # Null
      <4>1. Ends(s) = s[n] /\ n > 0
        BY <1>4, <3>4 DEF Ends, Last, n
      <4>2. n + 1 \in 1..(n + 1) /\ (n + 1) - 1 = n /\ n + 1 # 1
        BY <1>4, <4>1
      <4>3. t # <<>> /\ t[Len(t)] = s[n]
        BY <1>5, <4>2, EmptySeq
      <4>4. Ends(t) = s[n]
        BY <4>3 DEF Ends, Last
      <4> QED
        BY <1>1, <3>1, <3>4, <4>1, <4>4 DEF s, t
    <3> QED
      BY <3>2, <3>3, <3>4
  <2> QED
    BY <1>1, <2>2, <2>3 DEF LastInv
<1> QED
  BY <1>6, <1>7, <1>8, <1>9, <1>10, <1>11 DEF IInv

LEMMA PushOnlySafe ==
  ASSUME IInv, PushOnly
  PROVE  IInv'
<1> DEFINE q == loc.queue
           p == loc.page
<1>1. /\ mode = "live" /\ pc = "only" /\ pc' = "idle"
      /\ last' = [last EXCEPT ![q] = p]
      /\ UNCHANGED <<first, next, prev, busy, loc, mode, cursor, seen>>
  BY DEF PushOnly, At, walk
<1>2. q \in Queues /\ p \in Pages /\ Order(q) = <<p>>
  BY <1>1 DEF IInv, LocInv
<1>3. TypeOK'
  BY <1>1, <1>2 DEF IInv, TypeOK, NullOr
<1>4. \A r : Order(r)' = Order(r) /\ In(r)' = In(r) /\ Start(r)' = Start(r)
  BY <1>1 DEF Order, In, Start
<1>5. PathInv' /\ BusyInv' /\ LocInv'
  BY <1>1, <1>4 DEF IInv, PathInv, BusyInv, LocInv
<1>6. PrevInv'
  BY <1>1, <1>4 DEF IInv, PrevInv, Odd, Removing
<1>7. LastInv'
  <2>1. Ends(<<p>>) = p
    BY DEF Ends, Last
  <2>2. ~OddLast'
    BY <1>1 DEF OddLast, Removing
  <2>3. ASSUME NEW r \in Queues PROVE last'[r] = Ends(Order(r))
    BY <1>1, <1>2, <2>1 DEF IInv, TypeOK, LastInv
  <2> QED
    BY <1>4, <2>2, <2>3 DEF LastInv
<1> QED
  BY <1>3, <1>5, <1>6, <1>7 DEF IInv

-----------------------------------------------------------------------------
(* The stores of a removal.                                                *)

LEMMA RemoveStartSafe ==
  ASSUME IInv, RemoveStart
  PROVE  IInv'
<1> DEFINE q == loc.queue
           p == loc.page
<1>1. /\ mode = "live" /\ pc = "remove" /\ pc' = "bypass"
      /\ loc' = [loc EXCEPT !.prev = prev[p], !.next = next[p]]
      /\ UNCHANGED <<first, last, next, prev, busy, mode, cursor, seen>>
  BY DEF RemoveStart, At, links, walk
<1>2. q \in Queues /\ p \in Pages /\ p \notin busy /\ p \in In(q)
  BY <1>1 DEF IInv, LocInv
<1>3. prev[p] \in NullOr(Pages) /\ next[p] \in NullOr(Pages)
  BY <1>2 DEF IInv, TypeOK
<1>4. loc' \in [queue : NullOr(Queues), page : NullOr(Pages), prev : NullOr(Pages),
                next : NullOr(Pages), then : NullOr(Queues)]
  BY <1>1, <1>3 DEF IInv, TypeOK
<1>5. TypeOK'
  BY <1>1, <1>4 DEF IInv, TypeOK
<1>6. loc'.queue = q /\ loc'.page = p /\ loc'.prev = prev[p] /\ loc'.next = next[p]
  BY <1>1 DEF IInv, TypeOK
<1>7. Settled /\ Settled'
  BY <1>1 DEF Settled, Odd, OddLast, Around, AtHead, Removing
<1>8. /\ \A r \in Queues : Order(r)' = Order(r) /\ In(r)' = In(r)
      /\ PathInv' /\ PrevInv' /\ LastInv'
  BY <1>1, <1>5, <1>7, SettledStep DEF TypeOK
<1>9. BusyInv'
  BY <1>1, <1>8 DEF IInv, BusyInv, Queues
<1>10. LocInv'
  BY <1>1, <1>2, <1>6, <1>8 DEF LocInv, Around, AtHead, Removing
<1> QED
  BY <1>5, <1>8, <1>9, <1>10 DEF IInv

(* Where the page under way is.                                            *)
LEMMA Where ==
  ASSUME IInv, mode = "live", pc = "bypass", NEW q, q = loc.queue, NEW p, p = loc.page
  PROVE  /\ q \in Queues /\ p \in Pages /\ p \notin busy /\ p \in In(q)
         /\ loc.prev = prev[p] /\ loc.next = next[p]
         /\ \E i \in 1..Len(Order(q)) :
              /\ p = Order(q)[i] /\ prev[p] = Before(Order(q), i)
              /\ loc.prev = Null <=> i = 1
<1>1. /\ q \in Queues /\ p \in Pages /\ p \notin busy /\ p \in In(q)
      /\ loc.prev = prev[p] /\ loc.next = next[p] /\ TypeOK /\ PathInv
  BY DEF IInv, LocInv
<1>2. PICK i \in 1..Len(Order(q)) : p = Order(q)[i]
  BY <1>1, QueueFacts
<1>3. prev[p] = Before(Order(q), i)
  BY <1>1, <1>2 DEF IInv, PrevInv, Odd, Removing
<1>4. i # 1 => Order(q)[i - 1] # Null
  <2>1. i # 1 => i - 1 \in 1..Len(Order(q))
    BY <1>1, <1>2, QueueFacts
  <2>2. Null \notin Pages /\ \A j \in 1..Len(Order(q)) : Order(q)[j] \in Pages
    BY <1>1, QueueFacts
  <2> QED
    BY <2>1, <2>2
<1> QED
  BY <1>1, <1>2, <1>3, <1>4 DEF Before

(* The page goes, unless it is the first.                                  *)
LEMMA BypassIs ==
  ASSUME IInv, Bypass, loc.prev # Null, NEW q, q = loc.queue, NEW p, p = loc.page
  PROVE  \E i \in 2..Len(Order(q)) :
           /\ p = Order(q)[i] /\ loc.prev = Order(q)[i - 1]
           /\ next' = [next EXCEPT ![Order(q)[i - 1]] = next[p]]
           /\ Order(q)' = RemoveAt(Order(q), i) /\ In(q)' = In(q) \ {p}
           /\ IsPath(next', Order(q)', Start(q)')
           /\ \A r \in Queues \ {q} : /\ Order(r)' = Order(r) /\ In(r)' = In(r)
                                      /\ IsPath(next', Order(r)', Start(r)')
<1>1. /\ mode = "live" /\ pc = "bypass"
      /\ next' = [next EXCEPT ![loc.prev] = next[p]]
      /\ UNCHANGED <<first, last, prev, busy, loc, mode, cursor, seen>>
  BY DEF Bypass, At, walk
<1>2. TypeOK /\ PathInv /\ q \in Queues
  BY <1>1, Where DEF IInv
<1>3. PICK i \in 1..Len(Order(q)) :
        p = Order(q)[i] /\ prev[p] = Before(Order(q), i) /\ (loc.prev = Null <=> i = 1)
  BY <1>1, Where
<1>4. /\ i \in 2..Len(Order(q)) /\ i - 1 \in 1..Len(Order(q))
      /\ loc.prev = Order(q)[i - 1] /\ loc.prev \in In(q)
  <2>1. Len(Order(q)) \in Nat /\ \A j \in 1..Len(Order(q)) : Order(q)[j] \in In(q)
    BY <1>1, <1>2, QueueFacts
  <2>2. i \in 2..Len(Order(q)) /\ i - 1 \in 1..Len(Order(q))
    BY <1>3, <2>1
  <2>3. loc.prev = Order(q)[i - 1]
    BY <1>1, <1>3, Where DEF Before
  <2> QED
    BY <2>1, <2>2, <2>3
<1>5. /\ \A r : Start(r)' = Start(r)
      /\ DOMAIN next' = Pages /\ DOMAIN next = Pages
      /\ \A x \in Pages : x # loc.prev => next'[x] = next[x]
  BY <1>1, <1>2 DEF Start, TypeOK
<1>6. IsPath(next, Order(q), Start(q)) /\ In(q) = ToSet(Order(q))
  BY <1>1, <1>2, QueueFacts DEF In
<1>7. /\ IsPath(next', RemoveAt(Order(q), i), Start(q)')
      /\ ToSet(RemoveAt(Order(q), i)) = In(q) \ {p}
  <2>1. next' = [next EXCEPT ![Order(q)[i - 1]] = next[Order(q)[i]]]
    BY <1>1, <1>3, <1>4
  <2>2. IsPath([next EXCEPT ![Order(q)[i - 1]] = next[Order(q)[i]]], RemoveAt(Order(q), i), Start(q))
    BY <1>4, <1>6, PathBypass
  <2>3. IsPath(next', RemoveAt(Order(q), i), Start(q)')
    BY <1>5, <2>1, <2>2
  <2>4. ToSet(RemoveAt(Order(q), i)) = In(q) \ {p}
    BY <1>3, <1>6, RemoveSet
  <2> QED
    BY <2>3, <2>4
<1>8. Order(q)' = RemoveAt(Order(q), i) /\ In(q)' = In(q) \ {p}
  BY <1>5, <1>7, OrderIsNext
<1>9. ASSUME NEW r \in Queues \ {q}
      PROVE  Order(r)' = Order(r) /\ In(r)' = In(r) /\ IsPath(next', Order(r)', Start(r)')
  <2>1. IsPath(next, Order(r), Start(r)) /\ In(r) = ToSet(Order(r)) /\ In(r) \subseteq Pages
    BY <1>1, <1>2, QueueFacts DEF In
  <2>2. loc.prev \notin In(r)
    BY <1>1, <1>2, <1>4, OneQueue
  <2>3. \A x \in In(r) : next'[x] = next[x]
    BY <1>5, <2>1, <2>2
  <2>4. IsPath(next', Order(r), Start(r))
    BY <1>5, <2>1, <2>3, PathFrame
  <2> QED
    BY <1>5, <2>1, <2>4, OrderIsNext
<1> QED
  BY <1>1, <1>3, <1>4, <1>7, <1>8, <1>9

LEMMA BypassSafe ==
  ASSUME IInv, Bypass
  PROVE  IInv'
<1> SUFFICES ASSUME NEW q, q = loc.queue, NEW p, p = loc.page PROVE IInv'
  OBVIOUS
<1>1. /\ mode = "live" /\ pc = "bypass" /\ pc' = "bypassback"
      /\ next' = IF loc.prev = Null THEN next ELSE [next EXCEPT ![loc.prev] = next[p]]
      /\ UNCHANGED <<first, last, prev, busy, loc, mode, cursor, seen>>
  BY DEF Bypass, At, walk
<1>2. /\ q \in Queues /\ p \in Pages /\ p \notin busy /\ p \in In(q)
      /\ loc.prev = prev[p] /\ loc.next = next[p] /\ TypeOK /\ PathInv
  BY <1>1, Where DEF IInv
<1>3. CASE loc.prev = Null
  <2>1. next' = next
    BY <1>1, <1>3
  <2>2. TypeOK'
    BY <1>1, <1>2, <2>1 DEF TypeOK
  <2>3. Settled /\ Settled'
    BY <1>1, <1>3 DEF Settled, Odd, OddLast, Around, AtHead, Removing
  <2>4. /\ \A r \in Queues : Order(r)' = Order(r) /\ In(r)' = In(r)
        /\ PathInv' /\ PrevInv' /\ LastInv'
    BY <1>1, <2>1, <2>2, <2>3, SettledStep DEF TypeOK
  <2>5. BusyInv'
    BY <1>1, <2>4 DEF IInv, BusyInv, Queues
  <2>6. first[q] = p
    <3>1. PICK i \in 1..Len(Order(q)) : p = Order(q)[i] /\ i = 1
      BY <1>1, <1>3, Where
    <3>2. Order(q) # <<>> /\ Start(q) = Order(q)[1] /\ Start(q) = first[q]
      BY <1>1, <1>2, <3>1, QueueFacts
    <3> QED
      BY <3>1, <3>2
  <2>7. LocInv'
    BY <1>1, <1>2, <1>3, <2>1, <2>4, <2>6 DEF LocInv, Around, AtHead, Removing
  <2> QED
    BY <2>2, <2>4, <2>5, <2>7 DEF IInv
<1>4. CASE loc.prev # Null
  <2> DEFINE s == Order(q)
             n == Len(s)
             t == Order(q)'
             N == next[p]
  <2>1. PICK i \in 2..n :
          /\ p = s[i] /\ loc.prev = s[i - 1]
          /\ t = RemoveAt(s, i) /\ In(q)' = In(q) \ {p}
          /\ IsPath(next', t, Start(q)')
          /\ \A r \in Queues \ {q} : /\ Order(r)' = Order(r) /\ In(r)' = In(r)
                                     /\ IsPath(next', Order(r)', Start(r)')
    BY <1>4, BypassIs
  <2>2. /\ s \in Seq(Pages) /\ n \in Nat /\ Null \notin Pages
        /\ \A j \in 1..n : s[j] \in Pages /\ s[j] \in In(q)
        /\ \A j \in 1..n : j < n => next[s[j]] = s[j + 1]
        /\ \A j \in 1..n : j = n => next[s[j]] = Null
        /\ \A j, k \in 1..n : s[j] = s[k] => j = k
    BY <1>1, <1>2, QueueFacts
  <2> HIDE DEF s, n, t, N
  <2>3. /\ i \in 1..n /\ i - 1 \in 1..n /\ i > 1 /\ i <= n
        /\ N = (IF i < n THEN s[i + 1] ELSE Null) /\ N \in NullOr(Pages)
        /\ loc.prev \in Pages /\ loc.prev # p
    <3>1. i \in 1..n /\ i - 1 \in 1..n /\ i > 1 /\ i <= n /\ i - 1 # i
      BY <2>2
    <3>2. N = IF i < n THEN s[i + 1] ELSE Null
      BY <2>1, <2>2, <3>1 DEF N
    <3>3. i < n => i + 1 \in 1..n
      BY <2>2
    <3>4. N \in NullOr(Pages)
      BY <2>2, <3>2, <3>3 DEF NullOr
    <3>5. loc.prev \in Pages /\ loc.prev # p
      BY <2>1, <2>2, <3>1
    <3> QED
      BY <3>1, <3>2, <3>4, <3>5
  <2>4. /\ Len(t) = n - 1
        /\ \A j \in 1..(n - 1) : t[j] = IF j < i THEN s[j] ELSE s[j + 1]
    <3>1. /\ Len(RemoveAt(s, i)) = Len(s) - 1
          /\ \A j \in 1..(Len(s) - 1) : RemoveAt(s, i)[j] = IF j < i THEN s[j] ELSE s[j + 1]
      BY <2>2, <2>3, RemoveAtIs DEF n
    <3> QED
      BY <2>1, <3>1 DEF n
  <2>5. /\ next' \in [Pages -> NullOr(Pages)] /\ next'[loc.prev] = N /\ next'[p] = N
    BY <1>1, <1>2, <1>4, <2>3 DEF TypeOK, N
  <2>6. TypeOK'
    BY <1>1, <1>2, <2>5 DEF TypeOK
  <2>7. PathInv'
    <3>1. ASSUME NEW r \in Queues PROVE IsPath(next', Order(r)', Start(r)')
      BY <2>1 DEF t
    <3>2. (In(Class) \cap In(FreePage))' = {}
      BY <1>1, <1>2, <2>1, PageQueueAssumption DEF PathInv, Queues
    <3> QED
      BY <3>1, <3>2 DEF PathInv
  <2>8. BusyInv'
    <3>1. In(Class) \ {p} \subseteq In(Class)'
      BY <1>2, <2>1 DEF Queues
    <3> QED
      BY <1>1, <1>2, <3>1 DEF IInv, BusyInv
  <2>9. LocInv'
    <3>1. \A r \in Queues : p \notin In(r)'
      BY <1>1, <1>2, <2>1, OneQueue
    <3>2. loc.prev \in In(q)'
      BY <2>1, <2>2, <2>3
    <3> QED
      BY <1>1, <1>2, <1>4, <2>5, <3>1, <3>2 DEF LocInv, Around, AtHead, Removing, N
  <2>10. PrevInv'
    <3>1. \A x : Odd(x)' <=> x = N
      BY <1>1, <1>2, <1>4 DEF Odd, Around, AtHead, Removing, N
    <3>2. OddPrev' = p
      BY <1>1 DEF OddPrev
    <3>3. ASSUME NEW r \in Queues, NEW j \in 1..Len(Order(r)')
          PROVE  prev[Order(r)'[j]] = IF Order(r)'[j] = N THEN p ELSE Before(Order(r)', j)
      <4>0. \A x : ~Odd(x)
        BY <1>1 DEF Odd, Removing
      <4>1. CASE r = q
        <5>0. j \in 1..(n - 1) /\ Order(r)' = t /\ t[j] = IF j < i THEN s[j] ELSE s[j + 1]
          BY <2>4, <4>1 DEF t
        <5>1. \A k \in 1..n : prev[s[k]] = Before(s, k)
          BY <1>1, <1>2, <4>0 DEF IInv, PrevInv, s, n
        <5>2. CASE j < i
          <6>1. j \in 1..n /\ t[j] = s[j] /\ s[j] # N
            <7>1. j \in 1..n /\ t[j] = s[j]
              BY <2>2, <5>0, <5>2
            <7>2. s[j] \in Pages /\ (i < n => i + 1 \in 1..n /\ j # i + 1)
              BY <2>2, <2>3, <5>2, <7>1
            <7> QED
              BY <2>2, <2>3, <7>1, <7>2
          <6>2. Before(s, j) = Before(t, j)
            <7>1. j # 1 => j - 1 \in 1..(n - 1) /\ j - 1 < i
              BY <2>2, <2>3, <5>0, <5>2
            <7> QED
              BY <2>4, <7>1 DEF Before
          <6> QED
            BY <5>0, <5>1, <6>1, <6>2
        <5>3. CASE j = i
          <6>1. i < n /\ t[j] = s[i + 1] /\ i + 1 \in 1..n /\ (i + 1) - 1 = i /\ i + 1 # 1
            BY <2>2, <2>3, <5>0, <5>3
          <6>2. t[j] = N /\ prev[s[i + 1]] = s[i]
            BY <2>3, <5>1, <6>1 DEF Before
          <6> QED
            BY <2>1, <5>0, <6>1, <6>2
        <5>4. CASE j > i
          <6>1. /\ j + 1 \in 1..n /\ t[j] = s[j + 1] /\ (j + 1) - 1 = j /\ j + 1 # 1 /\ j # 1
                /\ j - 1 \in 1..(n - 1) /\ ~(j - 1 < i) /\ (j - 1) + 1 = j
            BY <2>2, <2>3, <5>0, <5>4
          <6>2. prev[s[j + 1]] = s[j] /\ t[j - 1] = s[j]
            BY <2>4, <5>1, <6>1 DEF Before
          <6>3. s[j + 1] # N
            <7>1. s[j + 1] \in Pages /\ (i < n => i + 1 \in 1..n /\ j + 1 # i + 1)
              BY <2>2, <2>3, <5>4, <6>1
            <7> QED
              BY <2>2, <2>3, <6>1, <7>1
          <6> QED
            BY <5>0, <6>1, <6>2, <6>3 DEF Before
        <5> QED
          BY <2>3, <5>0, <5>2, <5>3, <5>4
      <4>2. CASE r # q
        <5>1. Order(r)' = Order(r)
          BY <2>1, <4>2
        <5>2. j \in 1..Len(Order(r)) /\ Order(r)[j] \in In(r) /\ Order(r)[j] \in Pages
          BY <1>1, <1>2, <5>1, QueueFacts
        <5>3. N = Null \/ N \in In(q)
          <6>1. i < n => i + 1 \in 1..n
            BY <2>2, <2>3
          <6> QED
            BY <2>2, <2>3, <6>1
        <5>4. Order(r)[j] # N
          BY <1>1, <1>2, <2>2, <4>2, <5>2, <5>3, OneQueue
        <5>5. prev[Order(r)[j]] = Before(Order(r), j)
          BY <1>1, <4>0, <5>2 DEF IInv, PrevInv
        <5> QED
          BY <5>1, <5>4, <5>5
      <4> QED
        BY <4>1, <4>2
    <3> QED
      BY <1>1, <3>1, <3>2, <3>3 DEF PrevInv
  <2>11. LastInv'
    <3>1. OddLast' <=> N = Null
      BY <1>1, <1>2, <1>4 DEF OddLast, Around, AtHead, Removing, N
    <3>2. \A r \in Queues : last[r] = Ends(Order(r))
      BY <1>1 DEF IInv, LastInv, OddLast, Removing
    <3>3. Ends(s) = s[n]
      <4>1. s # <<>>
        BY <2>2, <2>3, EmptySeq DEF n
      <4> QED
        BY <4>1 DEF Ends, Last, n
    <3>4. N = Null => last[q] = p
      <4>1. N = Null => i = n
        <5>1. i < n => s[i + 1] \in Pages
          BY <2>2, <2>3
        <5> QED
          BY <2>2, <2>3, <5>1
      <4> QED
        BY <1>2, <2>1, <3>2, <3>3, <4>1 DEF s
    <3>5. N # Null => last[q] = Ends(t)
      <4> SUFFICES ASSUME N # Null PROVE last[q] = Ends(t)
        OBVIOUS
      <4>1. i < n /\ n - 1 \in 1..(n - 1) /\ ~(n - 1 < i) /\ (n - 1) + 1 = n
        BY <2>2, <2>3
      <4>2. t[n - 1] = s[n]
        BY <2>4, <4>1
      <4>3. t # <<>>
        BY <2>4, <4>1, EmptySeq
      <4>4. Ends(t) = s[n]
        BY <2>4, <4>2, <4>3 DEF Ends, Last
      <4> QED
        BY <1>2, <3>2, <3>3, <4>4 DEF s
    <3>6. ASSUME NEW r \in Queues
          PROVE  last[r] = IF N = Null /\ r = q THEN p ELSE Ends(Order(r)')
      <4>1. CASE r = q
        BY <3>4, <3>5, <4>1 DEF t
      <4>2. CASE r # q
        BY <2>1, <3>2, <4>2
      <4> QED
        BY <4>1, <4>2
    <3> QED
      BY <1>1, <3>1, <3>6 DEF LastInv
  <2> QED
    BY <2>6, <2>7, <2>8, <2>9, <2>10, <2>11 DEF IInv
<1> QED
  BY <1>3, <1>4

(* While a removal is under way: what is at, or was around, its page.      *)
LEMMA AroundIs ==
  ASSUME IInv, mode = "live", Around, NEW q, q = loc.queue
  PROVE  \E k \in 1..Len(Order(q)) :
           /\ loc.prev = Order(q)[k]
           /\ k < Len(Order(q)) => loc.next = Order(q)[k + 1] /\ loc.next \in In(q)
           /\ k = Len(Order(q)) => loc.next = Null
<1>1. q \in Queues /\ loc.prev \in In(q) /\ next[loc.prev] = loc.next /\ TypeOK /\ PathInv
  BY DEF IInv, LocInv, Around, Removing
<1>2. PICK k \in 1..Len(Order(q)) : loc.prev = Order(q)[k]
  BY <1>1, QueueFacts
<1>3. /\ k < Len(Order(q)) => loc.next = Order(q)[k + 1]
      /\ k = Len(Order(q)) => loc.next = Null
  BY <1>1, <1>2, QueueFacts
<1>4. k < Len(Order(q)) => k + 1 \in 1..Len(Order(q)) /\ Order(q)[k + 1] \in In(q)
  <2>1. Len(Order(q)) \in Nat /\ \A j \in 1..Len(Order(q)) : Order(q)[j] \in In(q)
    BY <1>1, QueueFacts
  <2>2. k < Len(Order(q)) => k + 1 \in 1..Len(Order(q))
    BY <2>1
  <2> QED
    BY <2>1, <2>2
<1> QED
  BY <1>2, <1>3, <1>4

LEMMA AtHeadIs ==
  ASSUME IInv, mode = "live", AtHead, NEW q, q = loc.queue
  PROVE  /\ 1 \in 1..Len(Order(q)) /\ loc.page = Order(q)[1] /\ loc.page \in In(q)
         /\ Order(q) # <<>> /\ prev[loc.page] = Null
         /\ 1 < Len(Order(q)) => loc.next = Order(q)[2] /\ loc.next \in In(q) /\ loc.next # loc.page
         /\ Len(Order(q)) = 1 => loc.next = Null
         /\ Start(q) = loc.page /\ loc.next = next[loc.page]
<1>1. /\ q \in Queues /\ first[q] = loc.page /\ loc.next = next[loc.page] /\ prev[loc.page] = Null
      /\ loc.page \in Pages /\ TypeOK /\ PathInv
  BY DEF IInv, LocInv, AtHead, Removing
<1>2. Null \notin Pages /\ (Order(q) = <<>> <=> Start(q) = Null) /\ Start(q) = first[q]
  BY <1>1, QueueFacts
<1>3. Order(q) # <<>>
  BY <1>1, <1>2
<1>4. /\ Len(Order(q)) \in Nat /\ Len(Order(q)) > 0 /\ loc.page = Order(q)[1] /\ loc.page \in In(q)
  BY <1>1, <1>3, QueueFacts
<1>5. 1 \in 1..Len(Order(q)) /\ (1 < Len(Order(q)) => 2 \in 1..Len(Order(q)))
  BY <1>4
<1>6. /\ 1 < Len(Order(q)) => loc.next = Order(q)[1 + 1]
      /\ 1 = Len(Order(q)) => loc.next = Null
  BY <1>1, <1>4, <1>5, QueueFacts
<1>7. 1 < Len(Order(q)) => Order(q)[2] \in In(q) /\ Order(q)[2] # Order(q)[1]
  <2>1. \A j \in 1..Len(Order(q)) : Order(q)[j] \in In(q)
    BY <1>1, QueueFacts
  <2>2. \A i, j \in 1..Len(Order(q)) : Order(q)[i] = Order(q)[j] => i = j
    BY <1>1, QueueFacts
  <2> QED
    BY <1>5, <2>1, <2>2
<1> QED
  BY <1>1, <1>2, <1>3, <1>4, <1>5, <1>6, <1>7

(* Stores that leave the links forward and first.                          *)
LEMMA ForwardStays ==
  ASSUME IInv, mode' = mode, cursor' = cursor, first' = first, next' = next,
         busy' = busy, seen' = seen
  PROVE  /\ \A q : Order(q)' = Order(q) /\ In(q)' = In(q) /\ Start(q)' = Start(q)
         /\ PathInv' /\ BusyInv'
<1>1. \A q : Order(q)' = Order(q) /\ In(q)' = In(q) /\ Start(q)' = Start(q)
  BY DEF Order, In, Start
<1> QED
  BY <1>1 DEF IInv, PathInv, BusyInv

LEMMA BypassBackSafe ==
  ASSUME IInv, BypassBack
  PROVE  IInv'
<1> SUFFICES ASSUME NEW q, q = loc.queue, NEW p, p = loc.page, NEW N, N = loc.next PROVE IInv'
  OBVIOUS
<1>1. /\ mode = "live" /\ pc = "bypassback" /\ pc' = "last"
      /\ prev' = IF N = Null THEN prev ELSE [prev EXCEPT ![N] = prev[p]]
      /\ UNCHANGED <<first, last, next, busy, loc, mode, cursor, seen>>
  BY DEF BypassBack, At, walk
<1>2. /\ q \in Queues /\ p \in Pages /\ p \notin busy /\ loc.prev = prev[p] /\ N = next[p]
      /\ TypeOK /\ PathInv /\ N \in NullOr(Pages) /\ prev[p] \in NullOr(Pages)
      /\ Around \/ AtHead
  BY <1>1 DEF IInv, LocInv, TypeOK, Around, AtHead, Removing
<1>3. TypeOK' /\ \A x \in Pages : prev'[x] = IF x = N THEN prev[p] ELSE prev[x]
  BY <1>1, <1>2, PageQueueAssumption DEF TypeOK, NullOr
<1>4. /\ \A r : Order(r)' = Order(r) /\ In(r)' = In(r) /\ Start(r)' = Start(r)
      /\ PathInv' /\ BusyInv'
  BY <1>1, ForwardStays
<1>5. N # p
  <2>1. CASE Around
    <3>1. N = Null \/ N \in In(q)
      <4>1. PICK k \in 1..Len(Order(q)) :
              /\ k < Len(Order(q)) => N \in In(q)
              /\ k = Len(Order(q)) => N = Null
        BY <1>1, <2>1, AroundIs
      <4>2. Len(Order(q)) \in Nat
        BY <1>1, <1>2, QueueFacts
      <4> QED
        BY <4>1, <4>2
    <3>2. p \notin In(q)
      BY <1>1, <1>2, <2>1 DEF IInv, LocInv
    <3> QED
      BY <1>2, <3>1, <3>2, PageQueueAssumption
  <2>2. CASE AtHead
    <3>1. Len(Order(q)) \in Nat
      BY <1>1, <1>2, QueueFacts
    <3>2. /\ 1 \in 1..Len(Order(q)) /\ (1 < Len(Order(q)) => N # p)
          /\ (Len(Order(q)) = 1 => N = Null)
      BY <1>1, <2>2, AtHeadIs
    <3>3. 1 < Len(Order(q)) \/ Len(Order(q)) = 1
      <4>1. \A n \in Nat : 1 \in 1..n => 1 < n \/ n = 1
        OBVIOUS
      <4> QED
        BY <3>1, <3>2, <4>1
    <3> QED
      <4>1. CASE 1 < Len(Order(q))
        BY <3>2, <4>1
      <4>2. CASE Len(Order(q)) = 1
        BY <1>2, <3>2, <4>2, PageQueueAssumption
      <4> QED
        BY <3>3, <4>1, <4>2
  <2> QED
    BY <1>2, <2>1, <2>2
<1>6. LocInv'
  <2>1. prev'[p] = prev[p]
    BY <1>2, <1>3, <1>5
  <2> QED
    BY <1>1, <1>2, <1>4, <2>1 DEF IInv, LocInv, Around, AtHead, Removing
<1>7. PrevInv'
  <2> SUFFICES ASSUME NEW r \in Queues, NEW i \in 1..Len(Order(r))
               PROVE  prev'[Order(r)[i]] = IF Odd(Order(r)[i])' THEN OddPrev' ELSE Before(Order(r), i)
    BY <1>4 DEF PrevInv
  <2> DEFINE s == Order(r)
             x == s[i]
  <2>1. x \in Pages /\ x \in In(r)
    BY <1>1, <1>2, QueueFacts
  <2>2. prev[x] = IF Odd(x) THEN OddPrev ELSE Before(s, i)
    BY <1>1 DEF IInv, PrevInv
  <2>3. OddPrev' = Null
    BY <1>1 DEF OddPrev
  <2>4. CASE x # N
    <3>1. prev'[x] = prev[x] /\ ~Odd(x) /\ ~Odd(x)'
      BY <1>1, <1>3, <1>4, <2>1, <2>4 DEF Odd, Removing
    <3> HIDE DEF x
    <3> QED
      BY <2>2, <3>1 DEF x
  <2>5. CASE x = N /\ AtHead
    <3>1. prev'[x] = Null /\ Odd(x)'
      BY <1>1, <1>2, <1>3, <1>4, <2>1, <2>5 DEF Odd, AtHead, Removing
    <3> HIDE DEF x
    <3> QED
      BY <2>3, <3>1 DEF x
  <2>6. CASE x = N /\ Around
    <3>1. prev'[x] = loc.prev /\ ~Odd(x)'
      BY <1>1, <1>2, <1>3, <2>1, <2>6 DEF Odd, Around, AtHead, Removing
    <3>2. PICK k \in 1..Len(Order(q)) :
            /\ loc.prev = Order(q)[k]
            /\ k < Len(Order(q)) => N = Order(q)[k + 1] /\ N \in In(q)
            /\ k = Len(Order(q)) => N = Null
      BY <1>1, <2>6, AroundIs
    <3>3. Len(Order(q)) \in Nat /\ Null \notin Pages
      BY <1>1, <1>2, QueueFacts
    <3>4. k < Len(Order(q)) /\ k + 1 \in 1..Len(Order(q))
      BY <2>1, <2>6, <3>2, <3>3
    <3>5. r = q
      BY <1>1, <1>2, <2>1, <2>6, <3>2, <3>4, OneQueue
    <3>6. i = k + 1
      BY <1>1, <1>2, <2>6, <3>2, <3>4, <3>5, QueueFacts
    <3>7. Before(s, i) = loc.prev
      <4>1. i # 1 /\ i - 1 = k
        BY <3>3, <3>4, <3>6
      <4> QED
        BY <3>2, <3>5, <4>1 DEF Before
    <3> HIDE DEF x
    <3> QED
      BY <3>1, <3>7 DEF x
  <2> QED
    BY <1>2, <2>4, <2>5, <2>6
<1>8. LastInv'
  <2>1. OddLast' <=> OddLast
    BY <1>1 DEF OddLast, Around, AtHead, Removing
  <2> QED
    BY <1>1, <1>4, <2>1 DEF IInv, LastInv
<1> QED
  BY <1>3, <1>4, <1>6, <1>7, <1>8 DEF IInv

LEMMA UnsetLastSafe ==
  ASSUME IInv, UnsetLast
  PROVE  IInv'
<1> SUFFICES ASSUME NEW q, q = loc.queue, NEW p, p = loc.page, NEW N, N = loc.next PROVE IInv'
  OBVIOUS
<1>1. /\ mode = "live" /\ pc = "last" /\ pc' = "first"
      /\ last' = IF last[q] = p THEN [last EXCEPT ![q] = prev[p]] ELSE last
      /\ UNCHANGED <<first, next, prev, busy, loc, mode, cursor, seen>>
  BY DEF UnsetLast, At, walk
<1>2. /\ q \in Queues /\ p \in Pages /\ p \notin busy /\ loc.prev = prev[p] /\ N = next[p]
      /\ TypeOK /\ PathInv /\ prev[p] \in NullOr(Pages)
      /\ Around \/ AtHead
  BY <1>1 DEF IInv, LocInv, TypeOK, Around, AtHead, Removing
<1>3. TypeOK'
  BY <1>1, <1>2 DEF TypeOK
<1>4. /\ \A r : Order(r)' = Order(r) /\ In(r)' = In(r) /\ Start(r)' = Start(r)
      /\ PathInv' /\ BusyInv'
  BY <1>1, ForwardStays
<1>5. LocInv'
  BY <1>1, <1>2, <1>4 DEF IInv, LocInv, Around, AtHead, Removing
<1>6. PrevInv'
  <2>1. \A x : (Odd(x)' <=> Odd(x)) /\ OddPrev' = OddPrev
    BY <1>1 DEF Odd, OddPrev, Around, AtHead, Removing
  <2> QED
    BY <1>1, <1>4, <2>1 DEF IInv, PrevInv
<1>7. LastInv'
  <2> DEFINE s == Order(q)
             n == Len(s)
  <2>1. /\ n \in Nat /\ Null \notin Pages /\ (n > 0 => s # <<>>) /\ (s # <<>> => n > 0)
        /\ \A j \in 1..n : s[j] \in Pages /\ s[j] \in In(q)
        /\ \A i, j \in 1..n : s[i] = s[j] => i = j
    BY <1>1, <1>2, QueueFacts
  <2>2. /\ OddLast <=> Around /\ N = Null
        /\ OddLast' <=> AtHead /\ N = Null
        /\ ~(Around /\ AtHead)
    BY <1>1 DEF OddLast, Around, AtHead, Removing
  <2>3. \A r \in Queues : last[r] = IF OddLast /\ r = q THEN p ELSE Ends(Order(r))
    BY <1>1 DEF IInv, LastInv
  <2>4. \A r \in Queues : r # q => last'[r] = Ends(Order(r))
    BY <1>1, <1>2, <2>3 DEF TypeOK
  <2>5. last'[q] = IF last[q] = p THEN prev[p] ELSE last[q]
    BY <1>1, <1>2 DEF TypeOK
  <2>6. n > 0 => Ends(s) = s[n] /\ n \in 1..n
    BY <2>1 DEF Ends, Last
  <2> HIDE DEF s, n
  <2>7. last'[q] = IF OddLast' THEN Null ELSE Ends(s)
    <3>1. CASE Around
      <4>1. PICK k \in 1..n :
              /\ loc.prev = s[k]
              /\ k = n => N = Null
              /\ k < n => N \in In(q)
        BY <1>1, <3>1, AroundIs DEF s, n
      <4>2. p \notin In(q) /\ In(q) \subseteq Pages
        BY <1>1, <1>2, <3>1, QueueFacts DEF IInv, LocInv
      <4>3. n > 0
        BY <2>1
      <4>4. CASE N = Null
        <5>1. k = n
          BY <2>1, <4>1, <4>2, <4>4
        <5>2. last[q] = p
          BY <1>2, <2>2, <2>3, <3>1, <4>4
        <5> QED
          BY <1>2, <2>2, <2>5, <2>6, <3>1, <4>1, <4>3, <5>1, <5>2
      <4>5. CASE N # Null
        <5>1. last[q] = s[n]
          BY <1>2, <2>2, <2>3, <2>6, <4>3, <4>5 DEF s
        <5>2. s[n] # p
          BY <2>1, <2>6, <4>2, <4>3
        <5> QED
          BY <2>2, <2>5, <2>6, <4>3, <4>5, <5>1, <5>2
      <4> QED
        BY <4>4, <4>5
    <3>2. CASE AtHead
      <4>1. /\ 1 \in 1..n /\ p = s[1] /\ prev[p] = Null
            /\ (1 < n => N \in In(q)) /\ (n = 1 => N = Null)
        BY <1>1, <3>2, AtHeadIs DEF s, n
      <4>2. In(q) \subseteq Pages
        BY <1>1, <1>2, QueueFacts
      <4>3. n > 0 /\ (n = 1 \/ 1 < n)
        BY <2>1, <4>1
      <4>4. last[q] = s[n]
        BY <1>2, <2>2, <2>3, <2>6, <3>2, <4>3 DEF s
      <4>5. N = Null => n = 1
        BY <2>1, <4>1, <4>2, <4>3
      <4>6. n # 1 => s[n] # p
        BY <2>1, <2>6, <4>1, <4>3
      <4>7. CASE n = 1
        BY <2>2, <2>5, <3>2, <4>1, <4>4, <4>7
      <4>8. CASE n # 1
        BY <2>2, <2>5, <2>6, <4>3, <4>4, <4>5, <4>6, <4>8
      <4> QED
        BY <4>7, <4>8
    <3> QED
      BY <1>2, <3>1, <3>2
  <2>8. loc'.queue = q /\ pc' = "first"
    BY <1>1
  <2>9. ASSUME NEW r \in Queues
        PROVE  last'[r] = IF OddLast' /\ r = q THEN Null ELSE Ends(Order(r))
    <3>1. CASE r = q
      BY <2>7, <3>1 DEF s
    <3>2. CASE r # q
      BY <2>4, <3>2
    <3> QED
      BY <3>1, <3>2
  <2> QED
    BY <1>4, <2>8, <2>9 DEF LastInv
<1> QED
  BY <1>3, <1>4, <1>5, <1>6, <1>7 DEF IInv

(* The first page goes, or is gone already.                                *)
LEMMA UnsetFirstAround ==
  ASSUME IInv, UnsetFirst, Around
  PROVE  first' = first
<1> SUFFICES ASSUME NEW q, q = loc.queue, NEW p, p = loc.page PROVE first[q] # p
  BY DEF UnsetFirst
<1>1. /\ mode = "live" /\ q \in Queues /\ p \in Pages /\ p \notin In(q) /\ TypeOK /\ PathInv
  BY DEF IInv, LocInv, Around, Removing, UnsetFirst, At
<1>2. first[q] = Null \/ first[q] \in In(q)
  BY <1>1, QueueFacts
<1> QED
  BY <1>1, <1>2, PageQueueAssumption

LEMMA UnsetFirstIs ==
  ASSUME IInv, UnsetFirst, AtHead, NEW q, q = loc.queue, NEW p, p = loc.page
  PROVE  /\ 1 \in DOMAIN Order(q) /\ p = Order(q)[1]
         /\ Order(q)' = RemoveAt(Order(q), 1) /\ In(q)' = In(q) \ {p}
         /\ IsPath(next', Order(q)', Start(q)')
         /\ \A r \in Queues \ {q} : Order(r)' = Order(r) /\ In(r)' = In(r) /\ Start(r)' = Start(r)
<1>1. /\ mode = "live" /\ pc = "first"
      /\ first' = IF first[q] = p THEN [first EXCEPT ![q] = next[p]] ELSE first
      /\ UNCHANGED <<last, next, prev, busy, loc, mode, cursor, seen>>
  BY DEF UnsetFirst, At, walk
<1>2. /\ q \in Queues /\ p \in Pages /\ first[q] = p /\ TypeOK /\ PathInv
  BY <1>1 DEF IInv, LocInv, AtHead, Removing
<1>3. Start(q)' = next[p] /\ \A r \in Queues \ {q} : Start(r)' = Start(r)
  BY <1>1, <1>2 DEF Start, TypeOK
<1>4. \A r \in Queues \ {q} : Order(r)' = Order(r) /\ In(r)' = In(r)
  BY <1>1, <1>3 DEF Order, In
<1>5. /\ Order(q) # <<>> /\ 1 \in 1..Len(Order(q)) /\ p = Order(q)[1] /\ Start(q) = p
  BY <1>1, AtHeadIs
<1>6. IsPath(next, Order(q), p) /\ DOMAIN next = Pages /\ In(q) = ToSet(Order(q))
      /\ DOMAIN Order(q) = 1..Len(Order(q))
  BY <1>1, <1>2, <1>5, QueueFacts DEF In
<1>7. /\ IsPath(next, RemoveAt(Order(q), 1), next[p])
      /\ ToSet(RemoveAt(Order(q), 1)) = In(q) \ {p}
  BY <1>5, <1>6, PathTail, RemoveSet
<1>8. IsPath(next', RemoveAt(Order(q), 1), Start(q)') /\ DOMAIN next' = Pages
  BY <1>1, <1>3, <1>6, <1>7
<1>9. Order(q)' = RemoveAt(Order(q), 1) /\ In(q)' = In(q) \ {p}
  BY <1>7, <1>8, OrderIsNext
<1> QED
  BY <1>3, <1>4, <1>5, <1>6, <1>8, <1>9

LEMMA UnsetFirstSafe ==
  ASSUME IInv, UnsetFirst
  PROVE  IInv'
<1> SUFFICES ASSUME NEW q, q = loc.queue, NEW p, p = loc.page, NEW N, N = loc.next PROVE IInv'
  OBVIOUS
<1>1. /\ mode = "live" /\ pc = "first" /\ pc' = "clear"
      /\ first' = IF first[q] = p THEN [first EXCEPT ![q] = next[p]] ELSE first
      /\ UNCHANGED <<last, next, prev, busy, loc, mode, cursor, seen>>
  BY DEF UnsetFirst, At, walk
<1>2. /\ q \in Queues /\ p \in Pages /\ p \notin busy /\ N = next[p]
      /\ TypeOK /\ PathInv /\ next[p] \in NullOr(Pages)
      /\ Around \/ AtHead
  BY <1>1 DEF IInv, LocInv, TypeOK, Around, AtHead, Removing
<1>3. TypeOK'
  BY <1>1, <1>2 DEF TypeOK
<1>4. CASE Around
  <2>1. first' = first
    BY <1>4, UnsetFirstAround
  <2>2. Settled /\ Settled'
    BY <1>1, <1>4 DEF Settled, Odd, OddLast, Around, AtHead, Removing
  <2>3. /\ \A r \in Queues : Order(r)' = Order(r) /\ In(r)' = In(r)
        /\ PathInv' /\ PrevInv' /\ LastInv'
    BY <1>1, <1>3, <2>1, <2>2, SettledStep DEF TypeOK
  <2>4. BusyInv'
    BY <1>1, <2>3 DEF IInv, BusyInv, Queues
  <2>5. \A r \in Queues : p \notin In(r)
    BY <1>1, <1>4 DEF IInv, LocInv
  <2>6. LocInv'
    BY <1>1, <1>2, <2>3, <2>5 DEF LocInv, Around, AtHead, Removing
  <2> QED
    BY <1>3, <2>3, <2>4, <2>6 DEF IInv
<1>5. CASE AtHead
  <2> DEFINE s == Order(q)
             n == Len(s)
             t == Order(q)'
  <2>1. /\ p = s[1] /\ t = RemoveAt(s, 1) /\ In(q)' = In(q) \ {p}
        /\ IsPath(next', t, Start(q)')
        /\ \A r \in Queues \ {q} : Order(r)' = Order(r) /\ In(r)' = In(r) /\ Start(r)' = Start(r)
    BY <1>5, UnsetFirstIs
  <2>2. /\ s \in Seq(Pages) /\ n \in Nat /\ Null \notin Pages
        /\ \A j \in 1..n : s[j] \in Pages /\ s[j] \in In(q)
        /\ \A j, k \in 1..n : s[j] = s[k] => j = k
    BY <1>1, <1>2, QueueFacts
  <2>3. /\ 1 \in 1..n /\ s # <<>> /\ prev[p] = Null /\ p \in In(q)
        /\ 1 < n => N = s[2] /\ N \in In(q)
        /\ n = 1 => N = Null
    BY <1>1, <1>5, AtHeadIs
  <2>4. In(q) \subseteq Pages
    BY <1>1, <1>2, QueueFacts
  <2> HIDE DEF s, n, t
  <2>5. /\ n = 1 \/ 1 < n
        /\ 1 < n => N # Null
    BY <2>2, <2>3, <2>4
  <2>6. /\ t \in Seq(Pages) /\ Len(t) = n - 1
        /\ \A j \in 1..(n - 1) : t[j] = s[j + 1] /\ j + 1 \in 1..n
    <3>1. /\ t \in Seq(Pages) /\ Len(t) = n - 1
          /\ \A j \in 1..(n - 1) : t[j] = IF j < 1 THEN s[j] ELSE s[j + 1]
      <4>1. /\ RemoveAt(s, 1) \in Seq(Pages) /\ Len(RemoveAt(s, 1)) = Len(s) - 1
            /\ \A j \in 1..(Len(s) - 1) : RemoveAt(s, 1)[j] = IF j < 1 THEN s[j] ELSE s[j + 1]
        BY <2>2, <2>3, RemoveAtIs DEF n
      <4> QED
        BY <2>1, <4>1 DEF n
    <3> QED
      BY <2>2, <3>1
  <2>7. PathInv'
    <3>1. ASSUME NEW r \in Queues PROVE IsPath(next', Order(r)', Start(r)')
      <4>1. CASE r = q
        BY <2>1, <4>1 DEF t
      <4>2. CASE r # q
        BY <1>1, <1>2, <2>1, <4>2 DEF PathInv
      <4> QED
        BY <4>1, <4>2
    <3>2. (In(Class) \cap In(FreePage))' = {}
      BY <1>1, <1>2, <2>1, PageQueueAssumption DEF PathInv, Queues
    <3> QED
      BY <3>1, <3>2 DEF PathInv
  <2>8. BusyInv'
    <3>1. In(Class) \ {p} \subseteq In(Class)'
      BY <1>2, <2>1 DEF Queues
    <3> QED
      BY <1>1, <1>2, <3>1 DEF IInv, BusyInv
  <2>9. LocInv'
    <3>1. \A r \in Queues : p \notin In(r)'
      BY <1>1, <1>2, <2>1, <2>3, OneQueue
    <3> QED
      BY <1>1, <1>2, <3>1 DEF LocInv, Around, AtHead, Removing
  <2>10. PrevInv'
    <3>1. \A x : ~Odd(x)'
      BY <1>1 DEF Odd, Around, AtHead, Removing
    <3>2. \A x : (Odd(x) <=> x = N) /\ OddPrev = Null
      BY <1>1, <1>5 DEF Odd, OddPrev, Around, AtHead, Removing
    <3>3. ASSUME NEW r \in Queues, NEW j \in 1..Len(Order(r)')
          PROVE  prev[Order(r)'[j]] = Before(Order(r)', j)
      <4>1. CASE r = q
        <5>0. j \in 1..(n - 1) /\ Order(r)' = t /\ t[j] = s[j + 1] /\ j + 1 \in 1..n /\ 1 < n
          BY <2>2, <2>6, <4>1 DEF t
        <5>1. \A k \in 1..n : prev[s[k]] = IF s[k] = N THEN Null ELSE Before(s, k)
          BY <1>1, <1>2, <3>2 DEF IInv, PrevInv, s, n
        <5>2. CASE j = 1
          BY <2>3, <5>0, <5>1, <5>2 DEF Before
        <5>3. CASE j # 1
          <6>1. /\ 2 \in 1..n /\ j + 1 # 2 /\ j + 1 # 1 /\ (j + 1) - 1 = j
                /\ j - 1 \in 1..(n - 1) /\ (j - 1) + 1 = j
            BY <2>2, <5>0, <5>3
          <6>2. s[j + 1] # N
            BY <2>2, <2>3, <5>0, <6>1
          <6>3. t[j - 1] = s[j]
            BY <2>6, <6>1
          <6> QED
            BY <5>0, <5>1, <5>3, <6>1, <6>2, <6>3 DEF Before
        <5> QED
          BY <5>2, <5>3
      <4>2. CASE r # q
        <5>1. Order(r)' = Order(r)
          BY <2>1, <4>2
        <5>2. j \in 1..Len(Order(r)) /\ Order(r)[j] \in In(r) /\ Order(r)[j] \in Pages
          BY <1>1, <1>2, <5>1, QueueFacts
        <5>3. N = Null \/ N \in In(q)
          BY <2>3, <2>5
        <5>4. Order(r)[j] # N
          BY <1>1, <1>2, <2>2, <4>2, <5>2, <5>3, OneQueue
        <5>5. prev[Order(r)[j]] = Before(Order(r), j)
          BY <1>1, <3>2, <5>2, <5>4 DEF IInv, PrevInv
        <5> QED
          BY <5>1, <5>5
      <4> QED
        BY <4>1, <4>2
    <3> QED
      BY <1>1, <3>1, <3>3 DEF PrevInv
  <2>11. LastInv'
    <3>1. ~OddLast' /\ (OddLast <=> N = Null)
      BY <1>1, <1>5 DEF OddLast, Around, AtHead, Removing
    <3>2. \A r \in Queues : last[r] = IF OddLast /\ r = q THEN Null ELSE Ends(Order(r))
      BY <1>1 DEF IInv, LastInv
    <3>3. last[q] = Ends(t)
      <4>1. CASE n = 1
        <5>1. t = <<>>
          BY <2>6, <4>1, EmptySeq
        <5> QED
          BY <1>2, <2>3, <3>1, <3>2, <4>1, <5>1 DEF Ends
      <4>2. CASE 1 < n
        <5>1. n - 1 \in 1..(n - 1) /\ (n - 1) + 1 = n
          BY <2>2, <4>2
        <5>2. t # <<>> /\ t[Len(t)] = s[n]
          BY <2>6, <5>1, EmptySeq
        <5>3. Ends(s) = s[n]
          BY <2>3 DEF Ends, Last, n
        <5>4. Ends(t) = s[n]
          BY <5>2 DEF Ends, Last
        <5> QED
          BY <1>2, <2>5, <3>1, <3>2, <4>2, <5>3, <5>4 DEF s
      <4> QED
        BY <2>5, <4>1, <4>2
    <3>4. ASSUME NEW r \in Queues PROVE last[r] = Ends(Order(r)')
      <4>1. CASE r = q
        BY <3>3, <4>1 DEF t
      <4>2. CASE r # q
        BY <2>1, <3>2, <4>2
      <4> QED
        BY <4>1, <4>2
    <3> QED
      BY <1>1, <3>1, <3>4 DEF LastInv
  <2> QED
    BY <1>3, <2>7, <2>8, <2>9, <2>10, <2>11 DEF IInv
<1> QED
  BY <1>2, <1>4, <1>5

LEMMA ClearLinksSafe ==
  ASSUME IInv, ClearLinks
  PROVE  IInv'
<1> SUFFICES ASSUME NEW p, p = loc.page PROVE IInv'
  OBVIOUS
<1>1. /\ mode = "live" /\ pc = "clear"
      /\ next' = [next EXCEPT ![p] = Null] /\ prev' = [prev EXCEPT ![p] = Null]
      /\ \/ pc' = "idle" /\ loc' = NoLocals
         \/ /\ pc' = "push" /\ loc.then # Null
            /\ loc' = [NoLocals EXCEPT !.queue = loc.then, !.page = p]
      /\ UNCHANGED <<first, last, busy, mode, cursor, seen>>
  BY DEF ClearLinks, At, walk
<1>2. /\ p \in Pages /\ p \notin busy /\ Null \in NullOr(Pages) /\ loc.then \in NullOr(Queues)
      /\ \A r \in Queues : p \notin In(r)
  BY <1>1 DEF IInv, LocInv, TypeOK, NullOr
<1>3. Settled /\ Settled'
  BY <1>1 DEF Settled, Odd, OddLast, Around, AtHead, Removing
<1>4. /\ next' \in [Pages -> NullOr(Pages)] /\ prev' \in [Pages -> NullOr(Pages)]
      /\ \A r \in Queues : Order(r)' = Order(r) /\ In(r)' = In(r)
      /\ PathInv' /\ BusyInv' /\ PrevInv' /\ LastInv'
  BY <1>1, <1>2, <1>3, OwnLinks
<1>5. TypeOK'
  <2>1. loc' \in [queue : NullOr(Queues), page : NullOr(Pages), prev : NullOr(Pages),
                  next : NullOr(Pages), then : NullOr(Queues)]
    <3>1. CASE loc' = NoLocals
      BY <3>1 DEF NoLocals, NullOr
    <3>2. CASE loc.then # Null /\ loc' = [NoLocals EXCEPT !.queue = loc.then, !.page = p]
      <4>1. loc' = [queue |-> loc.then, page |-> p, prev |-> Null, next |-> Null, then |-> Null]
        BY <3>2 DEF NoLocals
      <4> QED
        BY <1>2, <4>1 DEF NullOr
    <3> QED
      BY <1>1, <3>1, <3>2
  <2> QED
    BY <1>1, <1>4, <2>1 DEF IInv, TypeOK
<1>6. LocInv'
  <2>1. CASE pc' = "idle"
    BY <2>1 DEF LocInv
  <2>2. CASE pc' = "push"
    <3>1. loc'.queue = loc.then /\ loc'.page = p /\ loc.then \in Queues
      BY <1>1, <1>2, <2>2 DEF NoLocals, NullOr
    <3> QED
      BY <1>1, <1>2, <1>4, <2>2, <3>1 DEF LocInv, Around, AtHead, Removing
  <2> QED
    BY <1>1, <2>1, <2>2
<1> QED
  BY <1>4, <1>5, <1>6 DEF IInv

-----------------------------------------------------------------------------
(* The owner stops and the monitor walks.                                  *)

LEMMA CrashSafe ==
  ASSUME IInv, Crash
  PROVE  IInv'
<1>1. /\ mode = "live" /\ mode' = "walk" /\ cursor' = first[Class]
      /\ UNCHANGED <<first, last, next, prev, busy, pc, loc, seen>>
  BY DEF Crash, links
<1>2. TypeOK'
  BY <1>1 DEF IInv, TypeOK, Queues
<1>3. \A q : Start(q)' = Start(q) /\ Order(q)' = Order(q) /\ In(q)' = In(q)
  BY <1>1 DEF Start, Order, In
<1>4. PathInv'
  BY <1>1, <1>3 DEF IInv, PathInv
<1>5. BusyInv'
  BY <1>1, <1>3 DEF IInv, BusyInv
<1>6. LocInv' /\ PrevInv' /\ LastInv'
  BY <1>1 DEF LocInv, PrevInv, LastInv
<1> QED
  BY <1>2, <1>4, <1>5, <1>6 DEF IInv

(* The monitor stands on the first of the pages it has still to visit.     *)
LEMMA CursorIs ==
  ASSUME IInv, mode = "walk", cursor # Null
  PROVE  /\ Class \in Queues /\ FreePage \in Queues /\ Start(Class) = cursor
         /\ Order(Class) # <<>> /\ 1 \in 1..Len(Order(Class)) /\ Order(Class)[1] = cursor
         /\ cursor \in Pages /\ cursor \in In(Class) /\ cursor \notin In(FreePage) /\ cursor \notin seen
<1>1. Class \in Queues /\ FreePage \in Queues /\ Start(Class) = cursor /\ TypeOK /\ PathInv
  BY DEF Queues, Start, IInv
<1>2. Order(Class) # <<>>
  BY <1>1, QueueFacts
<1>3. /\ Len(Order(Class)) \in Nat /\ Len(Order(Class)) > 0
      /\ cursor = Order(Class)[1] /\ cursor \in In(Class) /\ In(Class) \subseteq Pages
  BY <1>1, <1>2, QueueFacts
<1>4. 1 \in 1..Len(Order(Class))
  BY <1>3
<1> QED
  BY <1>1, <1>2, <1>3, <1>4 DEF IInv, PathInv, BusyInv

LEMMA VisitSafe ==
  ASSUME IInv, Visit
  PROVE  IInv'
<1> SUFFICES ASSUME NEW c, c = cursor PROVE IInv'
  OBVIOUS
<1> DEFINE s == Order(Class)
           t == RemoveAt(s, 1)
<1>1. /\ mode = "walk" /\ c # Null /\ seen' = seen \cup {c} /\ cursor' = next[c]
      /\ next' = IF c \in busy THEN next ELSE [next EXCEPT ![c] = Null]
      /\ prev' = IF c \in busy THEN prev ELSE [prev EXCEPT ![c] = Null]
      /\ UNCHANGED <<first, last, busy, pc, loc, mode>>
  BY DEF Visit
<1>2. /\ Class \in Queues /\ FreePage \in Queues /\ Start(Class) = c
      /\ s # <<>> /\ 1 \in 1..Len(s) /\ s[1] = c
      /\ c \in Pages /\ c \in In(Class) /\ c \notin In(FreePage) /\ c \notin seen
      /\ TypeOK /\ PathInv
  BY <1>1, CursorIs DEF IInv
<1>3. TypeOK'
  <2>1. next' \in [Pages -> NullOr(Pages)] /\ prev' \in [Pages -> NullOr(Pages)]
    BY <1>1, <1>2 DEF TypeOK, NullOr
  <2> QED
    BY <1>1, <1>2, <2>1 DEF TypeOK
<1>4. DOMAIN next = Pages /\ DOMAIN next' = Pages /\ \A x \in Pages : x # c => next'[x] = next[x]
  BY <1>1, <1>2 DEF TypeOK
<1>5. /\ IsPath(next, s, c) /\ In(Class) = ToSet(s) /\ In(Class) \subseteq Pages
      /\ IsPath(next, Order(FreePage), Start(FreePage))
      /\ In(FreePage) = ToSet(Order(FreePage)) /\ In(FreePage) \subseteq Pages
  BY <1>1, <1>2, QueueFacts DEF In
<1> HIDE DEF s
<1>6. IsPath(next, t, next[c]) /\ ToSet(t) = In(Class) \ {c}
  <2>1. IsPath(next, RemoveAt(s, 1), next[c])
    BY <1>2, <1>5, PathTail
  <2>2. ToSet(RemoveAt(s, 1)) = ToSet(s) \ {s[1]}
    BY <1>2, <1>5, RemoveSet
  <2> QED
    BY <1>2, <1>5, <2>1, <2>2
<1> HIDE DEF t
<1>7. /\ Start(Class)' = next[c] /\ Start(FreePage)' = Start(FreePage)
  BY <1>1, PageQueueAssumption DEF Start
<1>8. IsPath(next', t, Start(Class)')
  <2>1. \A x \in ToSet(t) : next'[x] = next[x]
    BY <1>4, <1>5, <1>6
  <2> QED
    BY <1>4, <1>6, <1>7, <2>1, PathFrame
<1>9. IsPath(next', Order(FreePage), Start(FreePage)')
  <2>1. \A x \in ToSet(Order(FreePage)) : next'[x] = next[x]
    BY <1>2, <1>4, <1>5
  <2> QED
    BY <1>4, <1>5, <1>7, <2>1, PathFrame
<1>10. /\ Order(Class)' = t /\ In(Class)' = In(Class) \ {c}
       /\ Order(FreePage)' = Order(FreePage) /\ In(FreePage)' = In(FreePage)
  BY <1>4, <1>5, <1>6, <1>8, <1>9, OrderIsNext
<1>11. PathInv'
  <2>1. ASSUME NEW r \in Queues PROVE IsPath(next', Order(r)', Start(r)')
    <3>1. CASE r = Class
      BY <1>8, <1>10, <3>1
    <3>2. CASE r = FreePage
      BY <1>9, <1>10, <3>2
    <3> QED
      BY <3>1, <3>2 DEF Queues
  <2>2. In(Class)' \cap In(FreePage)' = {}
    BY <1>1, <1>2, <1>10 DEF PathInv
  <2> QED
    BY <2>1, <2>2 DEF PathInv
<1>12. BusyInv'
  BY <1>1, <1>2, <1>10 DEF IInv, BusyInv
<1>13. LocInv' /\ PrevInv' /\ LastInv'
  BY <1>1 DEF LocInv, PrevInv, LastInv
<1> QED
  BY <1>3, <1>11, <1>12, <1>13 DEF IInv

LEMMA ForgetSafe ==
  ASSUME IInv, Forget
  PROVE  IInv'
<1>1. /\ mode = "walk" /\ mode' = "gone" /\ cursor = Null
      /\ first' = [q \in Queues |-> Null] /\ last' = [q \in Queues |-> Null]
      /\ UNCHANGED <<next, prev, busy, pc, loc, cursor, seen>>
  BY DEF Forget
<1>2. TypeOK'
  BY <1>1 DEF IInv, TypeOK, NullOr
<1>3. In(Class) = {}
  <2>1. Start(Class) = Null /\ Class \in Queues /\ TypeOK /\ PathInv
    BY <1>1 DEF Start, Queues, IInv
  <2>2. Order(Class) = <<>>
    BY <1>1, <2>1, QueueFacts
  <2> QED
    BY <2>2 DEF In, ToSet
<1>4. BusyInv'
  BY <1>1, <1>3 DEF IInv, BusyInv
<1>5. PathInv' /\ LocInv' /\ PrevInv' /\ LastInv'
  BY <1>1 DEF PathInv, LocInv, PrevInv, LastInv
<1> QED
  BY <1>2, <1>4, <1>5 DEF IInv

-----------------------------------------------------------------------------
LEMMA StepSafe ==
  ASSUME IInv, [Next]_vars
  PROVE  IInv'
<1>1. CASE Call
  BY <1>1, CallSafe
<1>2. CASE Store
  BY <1>2, PushSafe, PushBackSafe, PushFrontSafe, PushOnlySafe, RemoveStartSafe, BypassSafe,
     BypassBackSafe, UnsetLastSafe, UnsetFirstSafe, ClearLinksSafe DEF Store
<1>3. CASE Crash
  BY <1>3, CrashSafe
<1>4. CASE Monitor
  BY <1>4, VisitSafe, ForgetSafe DEF Monitor
<1>5. CASE UNCHANGED vars
  <2>1. UNCHANGED <<first, last, next, prev, busy, pc, loc, mode, cursor, seen>>
    BY <1>5 DEF vars, links, walk
  <2>2. /\ \A q : Order(q)' = Order(q) /\ In(q)' = In(q) /\ Start(q)' = Start(q)
        /\ PathInv' /\ BusyInv'
    BY <2>1, ForwardStays
  <2>3. TypeOK'
    BY <2>1 DEF IInv, TypeOK
  <2>4. LocInv'
    BY <2>1, <2>2 DEF IInv, LocInv, Around, AtHead, Removing
  <2>5. PrevInv'
    BY <2>1, <2>2 DEF IInv, PrevInv, Odd, OddPrev, Around, AtHead, Removing
  <2>6. LastInv'
    BY <2>1, <2>2 DEF IInv, LastInv, OddLast, Around, AtHead, Removing
  <2> QED
    BY <2>2, <2>3, <2>4, <2>5, <2>6 DEF IInv
<1> QED
  BY <1>1, <1>2, <1>3, <1>4, <1>5 DEF Next

(* The invariant holds in every state of every run, whatever store the     *)
(* owner stops after (page_queue.cpp, recovery.cpp:369).                   *)
THEOREM Inductive == Spec => []IInv
<1>1. Init => IInv
  BY InitIs
<1>2. IInv /\ [Next]_vars => IInv'
  BY StepSafe
<1> QED
  BY <1>1, <1>2, PTL DEF Spec

(* Between two operations the links back and the ends agree with the links *)
(* forward, for any number of pages (page_queue.cpp:4, 39).                *)
THEOREM LinksCorrect == Spec => []Linked
<1>1. IInv => Linked
  <2> SUFFICES ASSUME IInv, mode = "live", pc = "idle", NEW q \in Queues
               PROVE  /\ \A i \in DOMAIN Chain(q) :
                           prev[Chain(q)[i]] = IF i = 1 THEN Null ELSE Chain(q)[i - 1]
                      /\ last[q] = IF Chain(q) = <<>> THEN Null ELSE Last(Chain(q))
    BY DEF Linked
  <2>1. Chain(q) = Order(q)
    BY ChainIs
  <2>2. \A x : ~Odd(x)
    BY DEF Odd, Removing
  <2>3. DOMAIN Order(q) = 1..Len(Order(q))
    BY QueueFacts DEF IInv
  <2>4. \A i \in 1..Len(Order(q)) : prev[Order(q)[i]] = Before(Order(q), i)
    BY <2>2 DEF IInv, PrevInv
  <2>5. last[q] = Ends(Order(q))
    BY DEF IInv, LastInv, OddLast, Removing
  <2> QED
    BY <2>1, <2>3, <2>4, <2>5 DEF Before, Ends
<1> QED
  BY <1>1, Inductive, PTL

(* The walk of the monitor has passed every page with blocks in use when   *)
(* it forgets the queues (recovery.cpp:369, 428).                          *)
THEOREM WalkComplete == Spec => []NoneMissed
<1>1. IInv => NoneMissed
  BY DEF IInv, BusyInv, NoneMissed
<1> QED
  BY <1>1, Inductive, PTL

(* The walk passes no page twice and none of the free pages                *)
(* (recovery.cpp:371).                                                     *)
THEOREM WalkNoRepeat == Spec => WalkOnce
<1>1. IInv /\ [Next]_vars =>
        [mode = "walk" /\ cursor # Null /\ mode' = "walk"
           => cursor \notin seen /\ cursor \notin Listed(FreePage)]_vars
  <2> SUFFICES ASSUME IInv, mode = "walk", cursor # Null
               PROVE  cursor \notin seen /\ cursor \notin Listed(FreePage)
    OBVIOUS
  <2>1. Listed(FreePage) = In(FreePage)
    BY PageQueueAssumption DEF Listed, Chain, In, Order, Start
  <2> QED
    BY <2>1, CursorIs
<1> QED
  BY <1>1, Inductive, PTL DEF Spec, WalkOnce

-----------------------------------------------------------------------------
(* The queues of PageList, and what becomes of them.                       *)

Seen == [q \in Queues |-> Chain(q)]

LEMMA SeenStays ==
  ASSUME mode' = mode, first' = first, next' = next
  PROVE  UNCHANGED List!lvars
BY DEF List!lvars, Chain

LEMMA SeenIs ==
  ASSUME mode = "live", mode' = "live"
  PROVE  /\ Seen = [q \in Queues |-> Order(q)] /\ Seen' = [q \in Queues |-> Order(q)']
         /\ \A q \in Queues : Order(q)' = Order(q) => Chain(q)' = Chain(q)
<1>1. \A q : Chain(q) = Order(q) /\ Chain(q)' = Order(q)'
  BY DEF Chain, Order, Start
<1> QED
  BY <1>1 DEF Seen

LEMMA SeenSame ==
  ASSUME mode = "live", mode' = "live", \A q \in Queues : Order(q)' = Order(q)
  PROVE  UNCHANGED List!lvars
<1>1. Seen' = Seen
  BY SeenIs
<1> QED
  BY <1>1 DEF List!lvars, Seen

(* One queue changes.                                                      *)
LEMMA SeenExcept ==
  ASSUME mode = "live", mode' = "live", NEW q \in Queues, NEW s, Order(q)' = s,
         \A r \in Queues \ {q} : Order(r)' = Order(r)
  PROVE  Seen' = [Seen EXCEPT ![q] = s]
<1>1. /\ Seen = [r \in Queues |-> Order(r)] /\ Seen' = [r \in Queues |-> Order(r)']
  BY SeenIs
<1>2. \A r \in Queues : Order(r)' = IF r = q THEN s ELSE Order(r)
  OBVIOUS
<1> QED
  BY <1>1, <1>2

LEMMA PrependIs ==
  ASSUME IInv, PushFront
  PROVE  List!Next
<1> SUFFICES ASSUME NEW q, q = loc.queue, NEW p, p = loc.page PROVE List!Next
  OBVIOUS
<1>1. mode = "live" /\ mode' = "live" /\ loc' = loc
  BY DEF PushFront, At, walk
<1>2. /\ q \in Queues /\ p \in Pages /\ \A r \in Queues : p \notin In(r)
      /\ Order(q)' = <<p>> \o Order(q)
      /\ \A r \in Queues \ {q} : Order(r)' = Order(r)
  BY <1>1, FrontIs
<1>3. Seen' = [Seen EXCEPT ![q] = <<p>> \o Order(q)]
  BY <1>1, <1>2, SeenExcept
<1>4. Seen[q] = Order(q) /\ \A r \in Queues : Seen[r] = Order(r)
  BY <1>1, <1>2, SeenIs
<1>5. Seen' = [Seen EXCEPT ![q] = <<p>> \o @]
  BY <1>3, <1>4
<1>6. p \notin UNION {ToSet(Seen[r]) : r \in Queues}
  BY <1>2, <1>4 DEF In
<1>7. List!Prepend(q, p)
  <2>1. (mode = "live") /\ (mode = "live")' = (mode = "live")
    BY <1>1
  <2>2. p \notin List!Listed
    BY <1>6 DEF List!Listed, List!ToSet, ToSet, Seen
  <2>3. [r \in Queues |-> Chain(r)]' = [[r \in Queues |-> Chain(r)] EXCEPT ![q] = <<p>> \o @]
    BY <1>5 DEF Seen
  <2> QED
    BY <2>1, <2>2, <2>3 DEF List!Prepend
<1> QED
  BY <1>2, <1>7 DEF List!Next

LEMMA DeleteIs ==
  ASSUME mode = "live", mode' = "live", NEW q \in Queues, NEW i \in DOMAIN Order(q),
         Order(q)' = RemoveAt(Order(q), i),
         \A r \in Queues \ {q} : Order(r)' = Order(r)
  PROVE  List!Next
<1>1. Seen' = [Seen EXCEPT ![q] = RemoveAt(Order(q), i)]
  BY SeenExcept
<1>2. Seen[q] = Order(q)
  BY SeenIs
<1>3. Seen' = [Seen EXCEPT ![q] = RemoveAt(@, i)]
  BY <1>1, <1>2
<1>4. List!Delete(q, i)
  <2>1. (mode = "live") /\ (mode = "live")' = (mode = "live")
    OBVIOUS
  <2>2. i \in DOMAIN Seen[q]
    BY <1>2
  <2>3. [r \in Queues |-> Chain(r)]' = [[r \in Queues |-> Chain(r)] EXCEPT ![q] = RemoveAt(@, i)]
    BY <1>3 DEF Seen
  <2>4. i \in DOMAIN [r \in Queues |-> Chain(r)][q]
    BY <2>2 DEF Seen
  <2> QED
    BY <2>1, <2>3, <2>4 DEF List!Delete, List!RemoveAt, RemoveAt
<1> QED
  BY <1>2, <1>4 DEF List!Next, Seen

LEMMA StepIs ==
  ASSUME IInv, Next
  PROVE  List!Next \/ UNCHANGED List!lvars
<1>1. CASE Call
  BY <1>1, SeenStays DEF Call, Gain, Lose, Fresh, Return, Use, Begin, links, walk
<1>2. CASE PushFront
  BY <1>2, PrependIs
<1>3. CASE Bypass
  <2> SUFFICES ASSUME NEW q, q = loc.queue, NEW p, p = loc.page PROVE List!Next \/ UNCHANGED List!lvars
    OBVIOUS
  <2>1. /\ mode = "live" /\ mode' = "live" /\ first' = first /\ mode' = mode /\ pc = "bypass"
        /\ loc.prev = Null => next' = next
    BY <1>3 DEF Bypass, At, walk
  <2>2. CASE loc.prev = Null
    BY <2>1, <2>2, SeenStays
  <2>3. CASE loc.prev # Null
    <3>1. q \in Queues
      BY <2>1, Where
    <3>2. PICK i \in 2..Len(Order(q)) :
            /\ Order(q)' = RemoveAt(Order(q), i)
            /\ \A r \in Queues \ {q} : Order(r)' = Order(r)
      BY <1>3, <2>3, BypassIs
    <3>3. i \in DOMAIN Order(q)
      <4>1. Len(Order(q)) \in Nat /\ DOMAIN Order(q) = 1..Len(Order(q))
        BY <2>1, <3>1, QueueFacts DEF IInv
      <4> QED
        BY <3>2, <4>1
    <3> QED
      BY <2>1, <3>1, <3>2, <3>3, DeleteIs
  <2> QED
    BY <2>2, <2>3
<1>4. CASE UnsetFirst
  <2> SUFFICES ASSUME NEW q, q = loc.queue, NEW p, p = loc.page PROVE List!Next \/ UNCHANGED List!lvars
    OBVIOUS
  <2>1. /\ mode = "live" /\ mode' = "live" /\ next' = next /\ mode' = mode /\ pc = "first"
    BY <1>4 DEF UnsetFirst, At, walk
  <2>2. CASE Around
    BY <1>4, <2>1, <2>2, UnsetFirstAround, SeenStays
  <2>3. CASE AtHead
    <3>1. /\ q \in Queues /\ 1 \in DOMAIN Order(q)
          /\ Order(q)' = RemoveAt(Order(q), 1)
          /\ \A r \in Queues \ {q} : Order(r)' = Order(r)
      BY <1>4, <2>1, <2>3, UnsetFirstIs DEF IInv, LocInv
    <3> QED
      BY <2>1, <3>1, DeleteIs
  <2> QED
    BY <2>1, <2>2, <2>3 DEF Around, AtHead, Removing
<1>5. CASE Push \/ ClearLinks
  <2> SUFFICES ASSUME NEW p, p = loc.page PROVE UNCHANGED List!lvars
    OBVIOUS
  <2>1. /\ mode = "live" /\ mode' = mode /\ cursor' = cursor /\ first' = first
        /\ pc \in {"push", "clear"}
        /\ \A x \in Pages : x # p => next'[x] = next[x]
        /\ DOMAIN next' = Pages
    BY <1>5 DEF Push, ClearLinks, At, walk, IInv, TypeOK
  <2>2. \A q \in Queues : p \notin In(q) /\ In(q) \subseteq Pages
    BY <2>1, QueueFacts DEF IInv, LocInv
  <2>3. \A q \in Queues : Order(q)' = Order(q)
    BY <2>1, <2>2, Elsewhere
  <2> QED
    BY <2>1, <2>3, SeenSame
<1>6. CASE PushBack \/ PushOnly \/ RemoveStart \/ BypassBack \/ UnsetLast
  BY <1>6, SeenStays DEF PushBack, PushOnly, RemoveStart, BypassBack, UnsetLast, links, walk
<1>7. CASE Crash
  <2>1. /\ mode = "live" /\ mode' = "walk" /\ first' = first /\ next' = next
    BY <1>7 DEF Crash, links
  <2>2. List!Stop
    BY <2>1 DEF List!Stop, Chain
  <2> QED
    BY <2>2 DEF List!Next
<1>8. CASE Monitor
  <2>1. mode # "live" /\ mode' # "live"
    BY <1>8 DEF Monitor, Visit, Forget
  <2> QED
    BY <2>1 DEF List!Collect, List!Next
<1> QED
  BY <1>1, <1>2, <1>3, <1>4, <1>5, <1>6, <1>7, <1>8 DEF Next, Store

(* Through every store the links show sequences of distinct pages, in      *)
(* which a page appears and goes at once (page_queue.cpp:4, 39).           *)
THEOREM Implements == Spec => ImplementsPageList
<1>1. Init => List!Init
  <2> SUFFICES ASSUME Init PROVE List!Init
    OBVIOUS
  <2>1. IInv /\ mode = "live"
    BY InitIs DEF Init
  <2>2. \A q \in Queues : Chain(q) = <<>>
    <3> SUFFICES ASSUME NEW q \in Queues PROVE Chain(q) = <<>>
      OBVIOUS
    <3>1. Start(q) = Null
      BY DEF Init, Start
    <3> QED
      BY <2>1, <3>1, ChainIs, QueueFacts DEF IInv
  <2> QED
    BY <2>1, <2>2 DEF List!Init
<1>2. IInv /\ [Next]_vars => [List!Next]_(List!lvars)
  <2> SUFFICES ASSUME IInv, [Next]_vars PROVE [List!Next]_(List!lvars)
    OBVIOUS
  <2>1. CASE Next
    BY <2>1, StepIs
  <2>2. CASE UNCHANGED vars
    BY <2>2, SeenStays DEF vars, links, walk
  <2> QED
    BY <2>1, <2>2
<1> QED
  BY <1>1, <1>2, Inductive, PTL DEF Spec, ImplementsPageList, List!Spec
=============================================================================
