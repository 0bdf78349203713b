----------------------------- MODULE PageHeapInv -----------------------------
(***************************************************************************)
(* The inductive invariant behind PageHeapProofs: which pages are on the   *)
(* lists of a thread, in which place a block is, and what the registers of *)
(* a call under way say, until the monitor starts; and what of it is left  *)
(* while the monitor recovers one thread after the other.                  *)
(***************************************************************************)
EXTENDS PageHeap

Calm    == \A t \in Threads : mode[t] \in {"live", "crashed"}
InUse(p) == kind[p] # None

(* The monitor starts when nobody runs; a recovered thread has nothing.    *)
PhaseInv ==
  /\ Calm \/ \A t \in Threads : mode[t] # "live"
  /\ \A t \in Threads : mode[t] = "gone" => \A b \in Blocks : t \notin holders[b]

(* The header of a segment names its owner or nobody, and it names nobody  *)
(* between the swaps of the owner and the stores that belong to them.      *)
(* A page in use lies in a segment with a header.                          *)
SegInv ==
  /\ \A s \in Segs : header[s] \in {0, owner[s]}
  /\ \A p \in Pages : InUse(p) => header[SegOf[p]] # 0

(* The lists of a thread are the pages of its segments, by kind, but for a *)
(* page it stopped to initialise.                                          *)
Mine(t, k) == {p \in Pages : header[SegOf[p]] = t /\ kind[p] = k}
ListInv ==
  \A t \in Threads :
    IF mode[t] = "gone"
    THEN freePages[t] = {} /\ \A k \in Kinds : pq[t][k] = {}
    ELSE /\ freePages[t] = Mine(t, None)
         /\ \A k \in Kinds : /\ pq[t][k] \subseteq Mine(t, k)
                             /\ mode[t] = "live" => pq[t][k] = Mine(t, k)

(* The registers of a call under way.                                      *)
RegOK(t) ==
  /\ pc[t] \in {"search", "found", "taken"} => loc[t].kind \in Kinds
  /\ pc[t] \in {"search", "taken"} => loc[t].todo \subseteq pq[t][loc[t].kind]
  /\ pc[t] = "found" => loc[t].page \in pq[t][loc[t].kind]
  /\ pc[t] = "taken" => freePages[t] = {}
  /\ pc[t] \in {"taken", "give"} => /\ loc[t].seg \in Segs /\ owner[loc[t].seg] = t
                                    /\ header[loc[t].seg] = 0
  /\ pc[t] \in {"free", "push"} <=> loc[t].block # None
  /\ pc[t] = "push" => header[Seg(loc[t].block)] # t
  /\ mode[t] \in {"recover", "gone"} => pc[t] = "idle"
RegInv == \A t \in Threads : RegOK(t)

(* A block is on a list of its page or of its segment.                     *)
HomeInv ==
  /\ \A p \in Pages : free[p] \cup localFree[p] \subseteq BlocksOf(p)
  /\ \A s \in Segs : \A b \in threadFree[s] : Seg(b) = s

(* A block of a page in use is in one place, of another page in none.      *)
Inside(b)  == b \in free[PageOf[b]] \cup localFree[PageOf[b]]
Pushed(b)  == b \in threadFree[Seg(b)]
Held(b)    == holders[b] # {}
Leaving(b) == \E t \in Threads : loc[t].block = b
PlaceOK(b) ==
  /\ InUse(PageOf[b]) <=> Inside(b) \/ Pushed(b) \/ Held(b) \/ Leaving(b)
  /\ ~(b \in free[PageOf[b]] /\ b \in localFree[PageOf[b]])
  /\ Inside(b) => ~Pushed(b) /\ ~Held(b) /\ ~Leaving(b)
  /\ Pushed(b) => ~Held(b) /\ ~Leaving(b)
  /\ Held(b)   => ~Leaving(b)
  /\ \A t, u \in Threads : loc[t].block = b /\ loc[u].block = b => t = u
PlaceInv == Calm => \A b \in Blocks : PlaceOK(b)

(* The counters of pages and segments.                                     *)
Outside(p)   == BlocksOf(p) \ (free[p] \cup localFree[p])
PagesUsed(s) == {p \in PagesOf(s) : InUse(p)}
CountInv ==
  Calm => /\ \A p \in Pages : InUse(p) => used[p] = Cardinality(Outside(p))
          /\ \A s \in Segs : header[s] # 0 => segUsed[s] = Cardinality(PagesUsed(s))

(* What is referred to is in use and not on free, and its page on a queue  *)
(* of the owner that has one; a RootRef is referred to by the thread that  *)
(* owns its page alone.                                                    *)
Queue(b) == pq[header[Seg(b)]][kind[PageOf[b]]]
HeldOK(b) ==
  Held(b) => /\ InUse(PageOf[b]) /\ b \notin free[PageOf[b]]
             /\ kind[PageOf[b]] = Root => holders[b] = {header[Seg(b)]}
             /\ mode[header[Seg(b)]] # "gone" => PageOf[b] \in Queue(b)
HeldInv == \A b \in Blocks : HeldOK(b)

IInv == /\ TypeOK /\ PhaseInv /\ SegInv /\ ListInv /\ RegInv
        /\ HomeInv /\ PlaceInv /\ CountInv /\ HeldInv
=============================================================================
