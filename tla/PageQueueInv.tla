----------------------------- MODULE PageQueueInv -----------------------------
(***************************************************************************)
(* The inductive invariant behind PageQueueProofs: the links forward form  *)
(* the queues after every store; which link back, and which end, a store   *)
(* under way has left wrong for now; what the monitor has still to visit.  *)
(***************************************************************************)
EXTENDS PageQueue

NullOr(S) == S \cup {Null}
TypeOK ==
  /\ first \in [Queues -> NullOr(Pages)] /\ last \in [Queues -> NullOr(Pages)]
  /\ next \in [Pages -> NullOr(Pages)] /\ prev \in [Pages -> NullOr(Pages)]
  /\ busy \subseteq Pages /\ seen \subseteq Pages /\ cursor \in NullOr(Pages)
  /\ pc \in {"idle", "push", "back", "front", "only",
             "remove", "bypass", "bypassback", "last", "first", "clear"}
  /\ loc \in [queue : NullOr(Queues), page : NullOr(Pages), prev : NullOr(Pages),
              next : NullOr(Pages), then : NullOr(Queues)]
  /\ mode \in {"live", "walk", "gone"}

(* The pages of a queue; for the monitor those it has still to visit.      *)
Start(q) == IF mode = "walk" /\ q = Class THEN cursor ELSE first[q]
Order(q) == PathFrom(next, Start(q))
In(q)    == ToSet(Order(q))

(* Each queue is a path along next, and no page is in both.                *)
PathInv ==
  mode # "gone" => /\ \A q \in Queues : IsPath(next, Order(q), Start(q))
                   /\ In(Class) \cap In(FreePage) = {}

(* Pages with blocks in use are in the queue of their class, or the        *)
(* monitor has seen them already.                                          *)
BusyInv ==
  /\ mode = "live" => busy \subseteq In(Class)
  /\ mode = "walk" => busy \subseteq In(Class) \cup seen /\ seen \cap In(Class) = {}
  /\ mode = "gone" => busy \subseteq seen
  /\ mode = "live" => seen = {}

(* A removal that is past the first of its stores: one that led around the *)
(* page, and one of a first page, which is first until UnsetFirst.         *)
Removing == pc \in {"bypassback", "last", "first"}
Around   == Removing /\ loc.prev # Null
AtHead   == Removing /\ loc.prev = Null

(* The registers.                                                          *)
LocInv ==
  mode = "live" /\ pc # "idle" =>
    /\ loc.queue \in Queues /\ loc.page \in Pages \ busy
    /\ Around \/ pc \in {"push", "back", "front", "clear"} =>
         \A q \in Queues : loc.page \notin In(q)
    /\ pc \in {"remove", "bypass"} => loc.page \in In(loc.queue)
    /\ pc = "bypass" \/ Removing =>
         loc.prev = prev[loc.page] /\ loc.next = next[loc.page]
    /\ Around => loc.prev \in In(loc.queue) /\ next[loc.prev] = loc.next
    /\ AtHead => first[loc.queue] = loc.page
    /\ pc = "only" => Order(loc.queue) = <<loc.page>>
    /\ pc \in {"back", "front"} =>
         next[loc.page] = first[loc.queue] /\ prev[loc.page] = Null
    /\ pc = "back" => first[loc.queue] # Null

(* The links back, but for one that a store has set ahead, or not yet.     *)
Odd(x) == \/ pc = "front" /\ x = first[loc.queue]
          \/ pc = "bypassback" /\ Around /\ x = loc.next
          \/ pc \in {"last", "first"} /\ AtHead /\ x = loc.next
OddPrev == IF pc \in {"last", "first"} THEN Null ELSE loc.page
Before(s, i) == IF i = 1 THEN Null ELSE s[i - 1]
PrevInv ==
  mode = "live" =>
    \A q \in Queues :
      LET s == Order(q)
      IN \A i \in 1..Len(s) :
           prev[s[i]] = IF Odd(s[i]) THEN OddPrev ELSE Before(s, i)

(* The ends, but for the same.                                             *)
Ends(s) == IF s = <<>> THEN Null ELSE Last(s)
OddLast == \/ pc = "only"
           \/ pc \in {"bypassback", "last"} /\ Around /\ loc.next = Null
           \/ pc = "first" /\ AtHead /\ loc.next = Null
LastInv ==
  mode = "live" =>
    \A q \in Queues :
      last[q] = IF OddLast /\ q = loc.queue
                THEN IF pc \in {"only", "first"} THEN Null ELSE loc.page
                ELSE Ends(Order(q))

IInv == TypeOK /\ PathInv /\ BusyInv /\ LocInv /\ PrevInv /\ LastInv
=============================================================================
