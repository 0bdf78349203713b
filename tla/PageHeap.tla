------------------------------ MODULE PageHeap ------------------------------
(***************************************************************************)
(* Pages, blocks and segments of cxl-shm (src/src/page.cpp, alloc.cpp,     *)
(* segment.cpp): a thread takes segments from the shared region and pages  *)
(* from its segments, hands out their blocks, and gets back what it frees  *)
(* itself (local_free) and what others free (thread_free of the segment);  *)
(* a page without a block in use and a segment without a page in use go    *)
(* back.  A client may stop at any step; when all have stopped the monitor *)
(* collects their pages and passes over the segments (src/src/recovery.cpp,*)
(* run after the clients as in src/test/recovery_test.cpp).                *)
(*                                                                         *)
(* Abstractions.  A list of blocks or pages is a set: PageQueue has the    *)
(* links.  holders stands for the counts: the threads with a reference to  *)
(* a block (a RootRef has one, its owner); EraRefCount has the headers.    *)
(***************************************************************************)
EXTENDS Integers, FiniteSets

CONSTANTS Threads,    \* thread ids
          Segs,       \* segments of the region
          Pages,      \* pages, numbered in the order of the segment
          SegOf,      \* the segment of a page
          Blocks,     \* blocks of all pages
          PageOf,     \* the page of a block
          Sizes,      \* size classes of objects
          Root,       \* the class of RootRefs: special
          None

ASSUME IdsAssumption   == /\ Threads \subseteq Nat \ {0} /\ Pages \subseteq Nat
                          /\ IsFiniteSet(Blocks) /\ IsFiniteSet(Pages)
ASSUME PlaceAssumption == /\ SegOf \in [Pages -> Segs] /\ PageOf \in [Blocks -> Pages]
                          /\ None \notin Blocks
ASSUME KindAssumption  == Root \notin Sizes /\ None \notin Sizes \cup {Root}

VARIABLES owner, state, threadFree,      \* allocation state of a segment (sas)
          header, segUsed,               \* segment->thread_id, segment->used
          kind, free, localFree, used,   \* of a page; kind None: block_size 0
          pq, freePages,                 \* of a thread: tls->pages, free_page
          holders,                       \* threads with a reference to a block
          junk,     \* blocks nobody refers to that seem to have a count
          pc, loc, mode

sas   == <<owner, state, threadFree>>
meta  == <<header, segUsed, kind, free, localFree, used>>
tls   == <<pq, freePages>>
memory == <<holders, junk>>
vars  == <<sas, meta, tls, memory, pc, loc, mode>>

-----------------------------------------------------------------------------
Kinds == Sizes \cup {Root}
BlocksOf(p) == {b \in Blocks : PageOf[b] = p}
PagesOf(s)  == {p \in Pages : SegOf[p] = s}
Seg(b)      == SegOf[PageOf[b]]
IsLast(b, p) == b = CHOOSE c \in BlocksOf(p) : TRUE     \* any fixed one will do
NoLocals == [kind |-> None, todo |-> {}, page |-> None, block |-> None, seg |-> None]

Init == /\ owner = [s \in Segs |-> 0] /\ state = [s \in Segs |-> "normal"]
        /\ threadFree = [s \in Segs |-> {}]
        /\ header = [s \in Segs |-> 0] /\ segUsed = [s \in Segs |-> 0]
        /\ kind = [p \in Pages |-> None]
        /\ free = [p \in Pages |-> {}] /\ localFree = [p \in Pages |-> {}]
        /\ used = [p \in Pages |-> 0]
        /\ pq = [t \in Threads |-> [k \in Kinds |-> {}]]
        /\ freePages = [t \in Threads |-> {}]
        /\ holders = [b \in Blocks |-> {}]
        /\ junk = {}
        /\ pc = [t \in Threads |-> "idle"]
        /\ loc = [t \in Threads |-> NoLocals]
        /\ mode = [t \in Threads |-> "live"]

At(t, p)   == mode[t] = "live" /\ pc[t] = p
Goto(t, p) == pc' = [pc EXCEPT ![t] = p]
Return(t)  == Goto(t, "idle") /\ loc' = [loc EXCEPT ![t] = NoLocals]

-----------------------------------------------------------------------------
(* Allocation.  cxl_find_page looks at one page of the queue; when it has  *)
(* no free block, cxl_page_queue_find_free_ex goes through all of them.    *)

Pop(t, p) ==
  \E b \in free[p] :
    /\ free' = [free EXCEPT ![p] = @ \ {b}]
    /\ used' = [used EXCEPT ![p] = @ + 1]
    /\ holders' = [holders EXCEPT ![b] = {t}]
    /\ junk' = junk \ {b}
    /\ UNCHANGED <<sas, header, segUsed, kind, localFree, tls, mode>>

Malloc(t, k) ==
  /\ At(t, "idle")
  /\ \E p \in pq[t][k] : Pop(t, p)
  /\ UNCHANGED <<pc, loc>>

Search(t, k) ==
  /\ At(t, "idle")
  /\ pq[t][k] = {} \/ \E p \in pq[t][k] : free[p] = {}
  /\ loc' = [loc EXCEPT ![t].kind = k, ![t].todo = pq[t][k]]
  /\ Goto(t, "search")
  /\ UNCHANGED <<sas, meta, tls, memory, mode>>

(* mutants: the blocks of other pages are put on the list of this one; and *)
(* the blocks of the page that asks on the lists of all                    *)
MutReturned(q, p) == IF q = p THEN threadFree[SegOf[p]] ELSE {}
(* What thread_free of its segment gives back to page q, when p asks.      *)
Returned(q, p) == {b \in threadFree[SegOf[p]] : PageOf[b] = q}

(* cxl_page_free_collect: thread_free of the segment goes to the pages of  *)
(* its blocks; local_free becomes free when free is empty.                 *)
Collect(t, p) ==
  /\ At(t, "search") /\ p \in loc[t].todo
  /\ LET s == SegOf[p]
         back == [q \in Pages |-> Returned(q, p)]
         lf   == [q \in Pages |-> localFree[q] \cup back[q]]
         swap == free[p] = {}
     IN /\ threadFree' = [threadFree EXCEPT ![s] = {}]
        /\ used' = [q \in Pages |-> used[q] - Cardinality(back[q])]
        /\ localFree' = IF swap THEN [lf EXCEPT ![p] = {}] ELSE lf
        /\ free' = IF swap THEN [free EXCEPT ![p] = lf[p]] ELSE free
  /\ IF free'[p] # {}
     THEN Goto(t, "found") /\ loc' = [loc EXCEPT ![t].page = p]
     ELSE loc' = [loc EXCEPT ![t].todo = @ \ {p}] /\ UNCHANGED pc
  /\ UNCHANGED <<owner, state, header, segUsed, kind, tls, memory, mode>>

Found(t) ==
  /\ At(t, "found")
  /\ Pop(t, loc[t].page)
  /\ Return(t)

(* cxl_page_fresh and cxl_page_init: the page is taken, its size is set,   *)
(* its blocks are chained and their headers cleared.  An object of another *)
(* class left what may read as a count in the headers not yet cleared: in  *)
(* that of the last block for good, which the loop never reaches.          *)
Prepare(t, p) ==
  /\ At(t, "search") /\ loc[t].todo = {} /\ p \in freePages[t]
  /\ kind' = [kind EXCEPT ![p] = loc[t].kind]
  /\ free' = [free EXCEPT ![p] = BlocksOf(p)]
  /\ localFree' = [localFree EXCEPT ![p] = {}]
  /\ used' = [used EXCEPT ![p] = 0]
  /\ freePages' = [freePages EXCEPT ![t] = @ \ {p}]
  /\ segUsed' = [segUsed EXCEPT ![SegOf[p]] = @ + 1]
  /\ UNCHANGED <<sas, header, holders>>

(* Where an object of another class may have left something: pages go from *)
(* class to class, and what a page held before is not kept track of.       *)
Uncleared(p, k) == IF Sizes \subseteq {k} THEN {} ELSE BlocksOf(p)

Fresh(t, p) ==
  /\ Prepare(t, p)
  /\ LET k == loc[t].kind
     IN /\ pq' = [pq EXCEPT ![t][k] = @ \cup {p}]
        /\ \E J \in SUBSET {b \in Uncleared(p, k) : k # Root /\ IsLast(b, p)} :
             junk' = (junk \ BlocksOf(p)) \cup J
  /\ loc' = [loc EXCEPT ![t].page = p]
  /\ Goto(t, "found")
  /\ UNCHANGED mode

(* The client stops before it pushes the page on its queue: in the loop, or*)
(* after it.  In a page of RootRefs the loop clears pptr alone, so that a  *)
(* whole page of what the segment pass takes for headers may be left.      *)
StopInFresh(t, p) ==
  /\ Prepare(t, p)
  /\ \E J \in SUBSET Uncleared(p, loc[t].kind) :
       junk' = (junk \ BlocksOf(p)) \cup J
  /\ mode' = [mode EXCEPT ![t] = "crashed"]
  /\ UNCHANGED <<pq, pc, loc>>

(* mutant: the header, which the owner clears first, is tested             *)
MutVacant(s) == header[s] = 0
Vacant(s) == owner[s] = 0

(* cxl_segment_alloc: the swap of sas->thread_id, then everything else.    *)
TakeSegment(t, s) ==
  /\ At(t, "search") /\ loc[t].todo = {} /\ freePages[t] = {}
  /\ Vacant(s)
  /\ owner' = [owner EXCEPT ![s] = t]
  /\ loc' = [loc EXCEPT ![t].seg = s]
  /\ Goto(t, "taken")
  /\ UNCHANGED <<state, threadFree, meta, tls, memory, mode>>

InitSegment(t) ==
  LET s == loc[t].seg
  IN /\ At(t, "taken")
     /\ state' = [state EXCEPT ![s] = "normal"]
     /\ threadFree' = [threadFree EXCEPT ![s] = {}]
     /\ header' = [header EXCEPT ![s] = t]
     /\ segUsed' = [segUsed EXCEPT ![s] = 0]
     /\ freePages' = [freePages EXCEPT ![t] = PagesOf(s)]
     /\ Goto(t, "search")
     /\ UNCHANGED <<owner, kind, free, localFree, used, pq, memory, loc, mode>>

(* No segment: cxl_page_init writes through a null page.                   *)
NoMemory(t) ==
  /\ At(t, "search") /\ loc[t].todo = {} /\ freePages[t] = {}
  /\ \A s \in Segs : ~Vacant(s)
  /\ mode' = [mode EXCEPT ![t] = "crashed"]
  /\ UNCHANGED <<sas, meta, tls, memory, pc, loc>>

-----------------------------------------------------------------------------
(* References come and go; the last one to go frees the block.             *)

Share(t, u, b) ==
  /\ mode[t] = "live" /\ At(u, "idle")
  /\ t \in holders[b] /\ u \notin holders[b] /\ kind[PageOf[b]] \in Sizes
  /\ holders' = [holders EXCEPT ![b] = @ \cup {u}]
  /\ UNCHANGED <<sas, meta, tls, junk, pc, loc, mode>>

Drop(t, b) ==
  /\ At(t, "idle") /\ t \in holders[b]
  /\ holders' = [holders EXCEPT ![b] = @ \ {t}]
  /\ IF holders[b] = {t}
     THEN Goto(t, "free") /\ loc' = [loc EXCEPT ![t].block = b]
     ELSE UNCHANGED <<pc, loc>>
  /\ UNCHANGED <<sas, meta, tls, junk, mode>>

(* cxl_free of a block of this thread; cxl_page_free when it was the last  *)
(* block in use, cxl_segment_free when that was the last page in use.      *)
MutLastBlock(p) == used[p] <= 2       \* mutant: off by one
LastBlock(p) == used[p] = 1

KeepPage(t, p, b) ==
  /\ localFree' = [localFree EXCEPT ![p] = @ \cup {b}]
  /\ used' = [used EXCEPT ![p] = @ - 1]
  /\ Return(t)
  /\ UNCHANGED <<header, segUsed, kind, free, tls>>

ReleasePage(t, p) ==
  LET s == SegOf[p]
  IN /\ kind' = [kind EXCEPT ![p] = None]
     /\ free' = [free EXCEPT ![p] = {}]
     /\ localFree' = [localFree EXCEPT ![p] = {}]
     /\ used' = [used EXCEPT ![p] = 0]
     /\ pq' = [pq EXCEPT ![t] = [k \in Kinds |-> pq[t][k] \ {p}]]
     /\ segUsed' = [segUsed EXCEPT ![s] = @ - 1]
     /\ IF segUsed[s] = 1
        THEN /\ freePages' = [freePages EXCEPT ![t] = @ \ PagesOf(s)]
             /\ header' = [header EXCEPT ![s] = 0]
             /\ loc' = [loc EXCEPT ![t] = [NoLocals EXCEPT !.seg = s]]
             /\ Goto(t, "give")
        ELSE /\ freePages' = [freePages EXCEPT ![t] = @ \cup {p}]
             /\ Return(t) /\ UNCHANGED header

FreeLocal(t) ==
  LET b == loc[t].block
  IN /\ At(t, "free") /\ header[Seg(b)] = t
     /\ IF LastBlock(PageOf[b]) THEN ReleasePage(t, PageOf[b])
                                ELSE KeepPage(t, PageOf[b], b)
     /\ UNCHANGED <<sas, memory, mode>>

Give(t) ==
  /\ At(t, "give")
  /\ owner' = [owner EXCEPT ![loc[t].seg] = 0]
  /\ Return(t)
  /\ UNCHANGED <<state, threadFree, meta, tls, memory, mode>>

(* cxl_free of a block of another thread: pushed on thread_free by a swap. *)
FreeRemote(t) ==
  /\ At(t, "free") /\ header[Seg(loc[t].block)] # t
  /\ Goto(t, "push")
  /\ UNCHANGED <<sas, meta, tls, memory, loc, mode>>

Push(t) ==
  /\ At(t, "push")
  /\ threadFree' = [threadFree EXCEPT ![Seg(loc[t].block)] = @ \cup {loc[t].block}]
  /\ Return(t)
  /\ UNCHANGED <<owner, state, meta, tls, memory, mode>>

Crash(t) ==
  /\ mode[t] = "live"
  /\ mode' = [mode EXCEPT ![t] = "crashed"]
  /\ UNCHANGED <<sas, meta, tls, memory, pc, loc>>

-----------------------------------------------------------------------------
(* The monitor.                                                            *)

Turn(t) ==
  \A u \in Threads : /\ mode[u] \notin {"live", "recover"}
                     /\ mode[u] = "crashed" => t <= u

Recover(t) ==
  /\ mode[t] = "crashed" /\ Turn(t)
  /\ mode' = [mode EXCEPT ![t] = "recover"]
  /\ Return(t)
  /\ UNCHANGED <<sas, meta, tls, memory>>

(* One RootRef of the dead thread; the block it was the last to refer to   *)
(* is listed only when another thread owns it (recovery_cxl_free).         *)
DropDead(t, b) ==
  /\ mode[t] = "recover" /\ t \in holders[b]
  /\ holders' = [holders EXCEPT ![b] = @ \ {t}]
  /\ threadFree' = IF holders[b] = {t} /\ header[Seg(b)] # t
                   THEN [threadFree EXCEPT ![Seg(b)] = @ \cup {b}] ELSE threadFree
  /\ UNCHANGED <<owner, state, meta, tls, junk, pc, loc, mode>>

(* A block that reads as counted: an object somebody refers to, or what an *)
(* earlier object left where a header is looked for.  A RootRef has padding*)
(* there, which nobody writes.                                             *)
Stale(b)   == b \in junk /\ kind[PageOf[b]] # None
(* mutant: a block that was freed keeps its header                         *)
MutCounted(b) == \/ /\ kind[PageOf[b]] \in Sizes
                    /\ holders[b] # {} \/ b \in localFree[PageOf[b]]
                 \/ Stale(b)
Counted(b) == Stale(b) \/ (kind[PageOf[b]] \in Sizes /\ holders[b] # {})
Live(p)    == \E b \in BlocksOf(p) : Counted(b)

(* Every RootRef page of the dead thread goes.  The collection of another  *)
(* page first clears the header of the first free block; a stale header    *)
(* ends the list, and is first when it is alone.                           *)
First(b)   == free[PageOf[b]] = {b}
Alive(p)   == kind[p] \in Sizes /\ \E b \in BlocksOf(p) : Counted(b) /\ ~First(b)
Listed(t)  == UNION {pq[t][k] : k \in Kinds}

(* The metadata after pages P, and the headers of segments S, are zeroed.  *)
Zeroed(P, S) ==
  LET Z == P \cup {p \in Pages : SegOf[p] \in S}
  IN /\ kind' = [p \in Pages |-> IF p \in Z THEN None ELSE kind[p]]
     /\ free' = [p \in Pages |-> IF p \in Z THEN {} ELSE free[p]]
     /\ localFree' = [p \in Pages |-> IF p \in Z THEN {} ELSE localFree[p]]
     /\ used' = [p \in Pages |-> IF p \in Z THEN 0 ELSE used[p]]
     /\ header' = [s \in Segs |-> IF s \in S THEN 0 ELSE header[s]]
     /\ segUsed' = [s \in Segs |-> IF s \in S THEN 0 ELSE segUsed[s]]

(* mutant: a page with a live block does not keep its segment              *)
MutKept(t) == {}
Kept(t) == {SegOf[p] : p \in {q \in Listed(t) : Alive(q)}}

Finish(t) ==
  /\ mode[t] = "recover" /\ \A b \in Blocks : t \notin holders[b]
  /\ LET gone == {s \in Segs : owner[s] = t /\ state[s] # "abandon" /\ s \notin Kept(t)}
     IN /\ Zeroed({p \in Listed(t) : ~Alive(p)}, gone)
        /\ owner' = [s \in Segs |-> IF s \in gone THEN 0 ELSE owner[s]]
  /\ state' = [s \in Segs |-> IF s \in Kept(t) THEN "abandon" ELSE state[s]]
  /\ pq' = [pq EXCEPT ![t] = [k \in Kinds |-> {}]]
  /\ freePages' = [freePages EXCEPT ![t] = {}]
  /\ junk' = {b \in junk : PageOf[b] \in Listed(t) => ~First(b)}
  /\ mode' = [mode EXCEPT ![t] = "gone"]
  /\ UNCHANGED <<threadFree, holders, pc, loc>>

(* The segment pass: pages are zeroed up to the first live one; a segment  *)
(* without a live page is given back, whoever owns it.                     *)
SegmentPass(s) ==
  /\ \A u \in Threads : mode[u] = "gone"
  /\ ~Vacant(s)
  /\ LET live == {p \in PagesOf(s) : Live(p)}
         dead == {p \in PagesOf(s) : kind[p] # None /\ \A q \in live : p < q}
     IN IF live = {}
        THEN /\ Zeroed({}, {s})
             /\ owner' = [owner EXCEPT ![s] = 0]
             /\ state' = [state EXCEPT ![s] = "normal"]
             /\ threadFree' = [threadFree EXCEPT ![s] = {}]
        ELSE /\ dead # {} /\ Zeroed(dead, {})
             /\ UNCHANGED sas
  /\ UNCHANGED <<tls, memory, pc, loc, mode>>

-----------------------------------------------------------------------------
Client(t) ==
  \/ \E k \in Kinds : Malloc(t, k) \/ Search(t, k)
  \/ \E p \in Pages : Collect(t, p) \/ Fresh(t, p) \/ StopInFresh(t, p)
  \/ \E s \in Segs : TakeSegment(t, s)
  \/ Found(t) \/ InitSegment(t) \/ NoMemory(t)
  \/ \E b \in Blocks : Drop(t, b) \/ \E u \in Threads : Share(t, u, b)
  \/ FreeLocal(t) \/ Give(t) \/ FreeRemote(t) \/ Push(t) \/ Crash(t)

Monitor ==
  \/ \E t \in Threads : Recover(t) \/ Finish(t) \/ \E b \in Blocks : DropDead(t, b)
  \/ \E s \in Segs : SegmentPass(s)

Next == Monitor \/ \E t \in Threads : Client(t)

Spec == Init /\ [][Next]_vars

(* The monitor is one loop that never stops and visits everything in turn. *)
FairSpec == Spec /\ WF_vars(Monitor)

-----------------------------------------------------------------------------
(* Type correctness of the state.                                          *)
TypeOK ==
  /\ owner \in [Segs -> Threads \cup {0}] /\ state \in [Segs -> {"normal", "abandon"}]
  /\ threadFree \in [Segs -> SUBSET Blocks]
  /\ header \in [Segs -> Threads \cup {0}] /\ segUsed \in [Segs -> Nat]
  /\ kind \in [Pages -> Kinds \cup {None}] /\ used \in [Pages -> Nat]
  /\ free \in [Pages -> SUBSET Blocks] /\ localFree \in [Pages -> SUBSET Blocks]
  /\ pq \in [Threads -> [Kinds -> SUBSET Pages]]
  /\ freePages \in [Threads -> SUBSET Pages]
  /\ holders \in [Blocks -> SUBSET Threads]
  /\ junk \subseteq Blocks
  /\ pc \in [Threads -> {"idle", "search", "found", "taken", "free", "push", "give"}]
  /\ loc \in [Threads -> [kind : Kinds \cup {None}, todo : SUBSET Pages,
                          page : Pages \cup {None}, block : Blocks \cup {None},
                          seg : Segs \cup {None}]]
  /\ mode \in [Threads -> {"live", "crashed", "recover", "gone"}]

(* A block of a page in use is in one place at a time: on free, local_free *)
(* or thread_free, referred to, or in the hands of a thread that frees it. *)
(* It is never handed out twice and, short of a crash, never lost, however *)
(* its owner and others free, collect and release (cxl_free,               *)
(* cxl_page_free_collect, cxl_page_free).                                  *)
Freeing(b) == {t \in Threads : loc[t].block = b}
Places(b) ==
  LET p == PageOf[b]
  IN (IF b \in free[p] THEN {"free"} ELSE {})
     \cup (IF b \in localFree[p] THEN {"local"} ELSE {})
     \cup (IF b \in threadFree[SegOf[p]] THEN {"thread"} ELSE {})
     \cup (IF holders[b] # {} THEN {"held"} ELSE {})
     \cup Freeing(b)
OnePlace ==
  \A t \in Threads : mode[t] = "live" =>
    \A p \in Listed(t) : \A b \in BlocksOf(p) : Cardinality(Places(b)) = 1

(* used of a page is the number of blocks that are out, those on           *)
(* thread_free included, and used of a segment the number of pages in      *)
(* queues: the page and the segment are released at zero.                  *)
UsedExact ==
  \A t \in Threads : mode[t] = "live" =>
    /\ \A p \in Listed(t) :
         used[p] = Cardinality(BlocksOf(p) \ (free[p] \cup localFree[p]))
    /\ \A s \in Segs : header[s] = t =>
         segUsed[s] = Cardinality(Listed(t) \cap PagesOf(s))

(* No two threads have one page on their lists, and no page of a segment   *)
(* that a thread does not own, however segments are given back and taken   *)
(* again.                                                                  *)
PageOwned ==
  \A t \in Threads : mode[t] = "live" =>
    \A p \in Listed(t) \cup freePages[t] :
      /\ owner[SegOf[p]] = t
      /\ \A u \in Threads \ {t} : p \notin Listed(u) \cup freePages[u]

(* README: no wild pointer.  What a thread that was not recovered refers   *)
(* to lies in a page in use of a segment in use.                           *)
HeldSafe ==
  \A b \in Blocks : (\E t \in holders[b] : mode[t] # "gone") =>
    kind[PageOf[b]] # None /\ owner[Seg(b)] # 0

(* When every client has stopped the monitor gets every segment back       *)
(* (check_recovery: free all successfully), but for one in which           *)
(* cxl_page_init left a header uncleared that reads as a count.            *)
AllReclaimed ==
  (\A t \in Threads : mode[t] # "live") ~>
    (\A s \in Segs : owner[s] = 0 \/ \E b \in Blocks : Seg(b) = s /\ Stale(b))
=============================================================================
