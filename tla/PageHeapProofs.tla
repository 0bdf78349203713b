--------------------------- MODULE PageHeapProofs ---------------------------
(***************************************************************************)
(* IInv of PageHeapInv is an inductive invariant of PageHeap, for any      *)
(* threads, segments, pages, blocks and size classes, with a monitor that  *)
(* runs after the clients: no block is in two places or lost, the counters *)
(* that release pages and segments are exact, and no page belongs to two   *)
(* threads.                                                                *)
(***************************************************************************)
EXTENDS PageHeapInv, FiniteSetTheorems, TLAPS

-----------------------------------------------------------------------------
(* Where things lie, and how many there are.                               *)

LEMMA PlaceIs ==
  /\ \A b \in Blocks : PageOf[b] \in Pages /\ Seg(b) \in Segs /\ b \in BlocksOf(PageOf[b])
  /\ \A p \in Pages : SegOf[p] \in Segs /\ p \in PagesOf(SegOf[p])
  /\ \A p \in Pages : \A b \in BlocksOf(p) : b \in Blocks /\ PageOf[b] = p
  /\ 0 \notin Threads /\ Root \in Kinds /\ None \notin Kinds /\ Sizes \subseteq Kinds
BY PlaceAssumption, IdsAssumption, KindAssumption DEF Seg, BlocksOf, PagesOf, Kinds

(* Sets of blocks of a page and of pages of a segment are finite.          *)
LEMMA Finite ==
  /\ \A S : S \subseteq Blocks \/ S \subseteq Pages =>
       IsFiniteSet(S) /\ Cardinality(S) \in Nat /\ (Cardinality(S) = 0 <=> S = {})
  /\ \A p : BlocksOf(p) \subseteq Blocks /\ Outside(p) \subseteq Blocks
  /\ \A s : PagesOf(s) \subseteq Pages /\ PagesUsed(s) \subseteq Pages
<1>1. ASSUME NEW S, S \subseteq Blocks \/ S \subseteq Pages
      PROVE  IsFiniteSet(S) /\ Cardinality(S) \in Nat /\ (Cardinality(S) = 0 <=> S = {})
  <2>1. IsFiniteSet(S)
    BY <1>1, IdsAssumption, FS_Subset
  <2> QED
    BY <2>1, FS_CardinalityType, FS_EmptySet
<1>2. \A p : BlocksOf(p) \subseteq Blocks /\ Outside(p) \subseteq Blocks
  BY DEF BlocksOf, Outside
<1>3. \A s : PagesOf(s) \subseteq Pages /\ PagesUsed(s) \subseteq Pages
  BY DEF PagesOf, PagesUsed
<1> QED
  BY <1>1, <1>2, <1>3

(* One more and one less.                                                  *)
LEMMA OneMore ==
  ASSUME NEW S, NEW x, S \subseteq Blocks \/ S \subseteq Pages
  PROVE  /\ x \notin S => Cardinality(S \cup {x}) = Cardinality(S) + 1
         /\ x \in S => Cardinality(S \ {x}) = Cardinality(S) - 1 /\ Cardinality(S) > 0
         /\ Cardinality(S) = 1 => \E y : S = {y}
<1>1. IsFiniteSet(S) /\ Cardinality(S) \in Nat /\ (Cardinality(S) = 0 <=> S = {})
  BY Finite
<1>2. x \notin S => Cardinality(S \cup {x}) = Cardinality(S) + 1
  BY <1>1, FS_AddElement
<1>3. x \in S => Cardinality(S \ {x}) = Cardinality(S) - 1 /\ Cardinality(S) > 0
  BY <1>1, FS_RemoveElement
<1>4. Cardinality(S) = 1 => \E y : S = {y}
  BY <1>1, FS_Singleton
<1> QED
  BY <1>2, <1>3, <1>4

-----------------------------------------------------------------------------
(* What an action of one thread leaves alone.                              *)

(* Only t acts, on segments that it owns or takes.                         *)
Alone(t) ==
  /\ \A u \in Threads \ {t} :
       /\ pc'[u] = pc[u] /\ loc'[u] = loc[u] /\ mode'[u] = mode[u]
       /\ pq'[u] = pq[u] /\ freePages'[u] = freePages[u]
  /\ \A s \in Segs : /\ owner[s] \notin {0, t} => owner'[s] = owner[s] /\ header'[s] = header[s]
                     /\ header'[s] \in {header[s], 0, t}
  /\ \A p \in Pages : header[SegOf[p]] \notin {0, t} => kind'[p] = kind[p]

(* The registers of the others keep their meaning.                         *)
LEMMA RegFrame ==
  ASSUME IInv, NEW t \in Threads, Alone(t), RegOK(t)'
  PROVE  RegInv'
<1>1. ASSUME NEW u \in Threads \ {t} PROVE RegOK(u)'
  <2>1. RegOK(u)
    BY DEF IInv, RegInv
  <2>2. /\ pc'[u] = pc[u] /\ loc'[u] = loc[u] /\ mode'[u] = mode[u]
        /\ pq'[u] = pq[u] /\ freePages'[u] = freePages[u]
    BY DEF Alone
  <2>3. pc[u] \in {"taken", "give"} =>
          owner'[loc[u].seg] = u /\ header'[loc[u].seg] = 0
    <3>1. SUFFICES ASSUME pc[u] \in {"taken", "give"}
                   PROVE  owner'[loc[u].seg] = u /\ header'[loc[u].seg] = 0
      OBVIOUS
    <3>2. loc[u].seg \in Segs /\ owner[loc[u].seg] = u /\ header[loc[u].seg] = 0
      BY <2>1, <3>1 DEF RegOK
    <3> QED
      BY <3>2, PlaceIs DEF Alone
  <2>4. pc[u] = "push" => header'[Seg(loc[u].block)] # u
    <3>1. SUFFICES ASSUME pc[u] = "push" PROVE header'[Seg(loc[u].block)] # u
      OBVIOUS
    <3>2. loc[u].block \in Blocks /\ header[Seg(loc[u].block)] # u
      BY <2>1, <3>1 DEF RegOK, IInv, TypeOK
    <3>3. Seg(loc[u].block) \in Segs
      BY <3>2, PlaceIs
    <3> QED
      BY <3>2, <3>3, PlaceIs DEF Alone
  <2> QED
    BY <2>1, <2>2, <2>3, <2>4 DEF RegOK
<1> QED
  BY <1>1 DEF RegInv

(* So do their lists.                                                      *)
ListOK(t) ==
  IF mode[t] = "gone"
  THEN freePages[t] = {} /\ \A k \in Kinds : pq[t][k] = {}
  ELSE /\ freePages[t] = Mine(t, None)
       /\ \A k \in Kinds : /\ pq[t][k] \subseteq Mine(t, k)
                           /\ mode[t] = "live" => pq[t][k] = Mine(t, k)

LEMMA ListFrame ==
  ASSUME IInv, NEW t \in Threads, Alone(t), ListOK(t)'
  PROVE  ListInv'
<1>1. ASSUME NEW u \in Threads \ {t} PROVE ListOK(u)'
  <2>1. ListOK(u)
    BY DEF IInv, ListInv, ListOK
  <2>2. mode'[u] = mode[u] /\ pq'[u] = pq[u] /\ freePages'[u] = freePages[u]
    BY DEF Alone
  <2>3. \A p \in Pages : /\ header'[SegOf[p]] = u <=> header[SegOf[p]] = u
                         /\ header[SegOf[p]] = u => kind'[p] = kind[p]
    <3> TAKE p \in Pages
    <3>1. SegOf[p] \in Segs /\ u \notin {0, t}
      BY PlaceIs
    <3>2. header[SegOf[p]] = u => owner[SegOf[p]] = u
      BY <3>1 DEF IInv, SegInv
    <3> QED
      BY <3>1, <3>2 DEF Alone
  <2>4. \A k \in Kinds \cup {None} : Mine(u, k)' = Mine(u, k)
    BY <2>3 DEF Mine
  <2> QED
    BY <2>1, <2>2, <2>4 DEF ListOK
<1> QED
  BY <1>1 DEF ListInv, ListOK

(* The thread that owns the segment of a block of a page in use.           *)
LEMMA OwnerIs ==
  ASSUME IInv, NEW b \in Blocks, InUse(PageOf[b])
  PROVE  header[Seg(b)] \in Threads /\ kind[PageOf[b]] \in Kinds
<1>1. PageOf[b] \in Pages /\ Seg(b) \in Segs /\ Seg(b) = SegOf[PageOf[b]]
  BY PlaceIs DEF Seg
<1> QED
  BY <1>1 DEF IInv, TypeOK, SegInv, InUse

(* A block that is not touched stays where it is.                          *)
Stays(b) ==
  /\ InUse(PageOf[b])' <=> InUse(PageOf[b])
  /\ b \in free'[PageOf[b]] <=> b \in free[PageOf[b]]
  /\ b \in localFree'[PageOf[b]] <=> b \in localFree[PageOf[b]]
  /\ Pushed(b)' <=> Pushed(b)
  /\ Held(b)' <=> Held(b)
  /\ \A t \in Threads : loc'[t].block = b <=> loc[t].block = b

LEMMA StayFrame ==
  ASSUME NEW b \in Blocks, PlaceOK(b), Stays(b)
  PROVE  PlaceOK(b)'
<1>1. (Inside(b)' <=> Inside(b)) /\ (Leaving(b)' <=> Leaving(b))
  BY DEF Stays, Inside, Leaving
<1> QED
  BY <1>1 DEF Stays, PlaceOK

(* A running client is there before any recovery; nobody is recovered then *)
(* or gone.                                                                *)
LEMMA CalmNow ==
  ASSUME IInv, NEW t \in Threads, mode[t] = "live"
  PROVE  /\ Calm /\ \A b \in Blocks : PlaceOK(b)
         /\ \A p \in Pages : InUse(p) => used[p] = Cardinality(Outside(p))
         /\ \A s \in Segs : header[s] # 0 => segUsed[s] = Cardinality(PagesUsed(s))
         /\ \A u \in Threads : mode[u] \notin {"recover", "gone"} /\ ListOK(u) /\ RegOK(u)
BY DEF IInv, PhaseInv, Calm, PlaceInv, CountInv, RegInv, ListInv, ListOK

(* A phase does not end while a client runs.                               *)
LEMMA PhaseFrame ==
  ASSUME IInv, NEW t \in Threads, mode[t] = "live", mode' = mode
  PROVE  PhaseInv' /\ Calm'
BY CalmNow DEF PhaseInv, Calm

(* The counters, when no page or block that they count changes.            *)
LEMMA CountFrame ==
  ASSUME CountInv, Calm' => Calm,
         \A p \in Pages : InUse(p)' =>
           InUse(p) /\ used'[p] = used[p] /\ Outside(p)' = Outside(p),
         \A s \in Segs : header'[s] # 0 =>
           header[s] # 0 /\ segUsed'[s] = segUsed[s] /\ PagesUsed(s)' = PagesUsed(s)
  PROVE  CountInv'
BY DEF CountInv

-----------------------------------------------------------------------------
(* Types.                                                                  *)
Locs == [kind : Kinds \cup {None}, todo : SUBSET Pages, page : Pages \cup {None},
         block : Blocks \cup {None}, seg : Segs \cup {None}]
Labels == {"idle", "search", "found", "taken", "free", "push", "give"}

(* A register set at a time.                                               *)
LEMMA LocField ==
  ASSUME TypeOK, NEW t \in Threads
  PROVE  /\ loc \in [Threads -> Locs] /\ loc[t] \in Locs /\ NoLocals \in Locs
         /\ \A k \in Kinds, S \in SUBSET Pages : [loc[t] EXCEPT !.kind = k, !.todo = S] \in Locs
         /\ \A S \in SUBSET Pages : [loc[t] EXCEPT !.todo = S] \in Locs
         /\ \A p \in Pages : [loc[t] EXCEPT !.page = p] \in Locs
         /\ \A b \in Blocks : [loc[t] EXCEPT !.block = b] \in Locs
         /\ \A s \in Segs : /\ [loc[t] EXCEPT !.seg = s] \in Locs
                            /\ [NoLocals EXCEPT !.seg = s] \in Locs
<1>1. loc \in [Threads -> Locs]
  BY DEF TypeOK, Locs
<1>2. loc[t] \in Locs /\ NoLocals \in Locs
  BY <1>1 DEF NoLocals, Locs
<1> QED
  BY <1>1, <1>2 DEF Locs

(* Registers and owners keep their types.                                  *)
LEMMA RegType ==
  ASSUME TypeOK, pc' \in [Threads -> Labels], loc' \in [Threads -> Locs],
         mode' \in [Threads -> {"live", "crashed", "recover", "gone"}],
         owner' \in [Segs -> Threads \cup {0}],
         UNCHANGED <<state, threadFree, header, segUsed, kind, free, localFree, used>>,
         UNCHANGED <<pq, freePages, holders, junk>>
  PROVE  TypeOK'
BY DEF TypeOK, Labels, Locs

-----------------------------------------------------------------------------
(* Actions that change registers and owners only.                          *)

LEMMA Quiet ==
  ASSUME IInv, NEW t \in Threads, Alone(t), TypeOK', PhaseInv', RegOK(t)',
         UNCHANGED <<header, segUsed, kind, free, localFree, used, threadFree>>,
         UNCHANGED <<pq, freePages, holders>>,
         mode'[t] = "gone" <=> mode[t] = "gone", mode'[t] = "live" => mode[t] = "live",
         \A s \in Segs : owner'[s] = owner[s] \/ header[s] = 0,
         Calm' => Calm /\ loc'[t].block = loc[t].block
  PROVE  IInv'
<1>1. SegInv'
  BY DEF IInv, SegInv, InUse
<1>2. ListOK(t)'
  BY DEF IInv, ListInv, ListOK, Mine
<1>3. ListInv' /\ RegInv'
  BY <1>2, ListFrame, RegFrame
<1>m. \A u \in Threads : mode'[u] = "gone" <=> mode[u] = "gone"
  BY DEF Alone
<1>4. HomeInv' /\ HeldInv'
  <2>1. HomeInv'
    BY DEF IInv, HomeInv
  <2>2. ASSUME NEW b \in Blocks, Held(b) PROVE HeldOK(b)'
    <3>1. HeldOK(b)
      BY DEF IInv, HeldInv
    <3>2. header[Seg(b)] \in Threads
      BY <2>2, <3>1, OwnerIs DEF HeldOK
    <3> QED
      BY <1>m, <2>2, <3>1, <3>2 DEF HeldOK, InUse, Queue, Seg
  <2> QED
    BY <2>1, <2>2 DEF HeldInv, HeldOK, Held
<1>5. PlaceInv'
  <2> SUFFICES ASSUME Calm', NEW b \in Blocks PROVE PlaceOK(b)'
    BY DEF PlaceInv
  <2>1. PlaceOK(b)
    BY DEF IInv, PlaceInv
  <2>2. \A u \in Threads : loc'[u].block = b <=> loc[u].block = b
    BY DEF Alone
  <2>3. Stays(b)
    BY <2>2 DEF Stays, InUse, Pushed, Held
  <2> QED
    BY <2>1, <2>3, StayFrame
<1>6. CountInv'
  <2>1. CountInv
    BY DEF IInv
  <2>2. \A p \in Pages : (InUse(p)' <=> InUse(p)) /\ Outside(p)' = Outside(p)
    BY DEF InUse, Outside, BlocksOf
  <2>3. \A s \in Segs : PagesUsed(s)' = PagesUsed(s)
    BY <2>2 DEF PagesUsed, PagesOf
  <2> QED
    BY <2>1, <2>2, <2>3, CountFrame
<1> QED
  BY <1>1, <1>3, <1>4, <1>5, <1>6 DEF IInv

(* cxl_page_queue_find_free_ex starts to look through the queue.           *)
LEMMA SearchStep ==
  ASSUME IInv, NEW t \in Threads, NEW k \in Kinds, Search(t, k)
  PROVE  IInv'
<1>0. /\ mode[t] = "live" /\ pc[t] = "idle"
      /\ UNCHANGED <<owner, state, threadFree, header, segUsed, kind, free, localFree, used>>
      /\ UNCHANGED <<pq, freePages, holders, junk, mode>>
      /\ pc' = [pc EXCEPT ![t] = "search"]
      /\ loc' = [loc EXCEPT ![t].kind = k, ![t].todo = pq[t][k]]
  BY DEF Search, At, Goto, sas, meta, tls, memory
<1>1. TypeOK'
  <2>1. TypeOK /\ pq[t][k] \in SUBSET Pages
    BY DEF IInv, TypeOK
  <2>2. loc' \in [Threads -> Locs]
    <3>1. [loc[t] EXCEPT !.kind = k, !.todo = pq[t][k]] \in Locs /\ loc \in [Threads -> Locs]
      BY <2>1, LocField
    <3> QED
      BY <1>0, <3>1
  <2>3. pc' \in [Threads -> Labels]
    BY <1>0, <2>1 DEF TypeOK, Labels
  <2> QED
    BY <1>0, <2>1, <2>2, <2>3, RegType DEF TypeOK
<1>2. /\ pc'[t] = "search" /\ loc'[t] = [loc[t] EXCEPT !.kind = k, !.todo = pq[t][k]]
      /\ \A u \in Threads \ {t} : pc'[u] = pc[u] /\ loc'[u] = loc[u]
  BY <1>0 DEF IInv, TypeOK
<1>3. /\ loc'[t].kind = k /\ loc'[t].todo = pq[t][k]
      /\ loc'[t].block = loc[t].block /\ loc[t].block = None
  <2>1. RegOK(t)
    BY DEF IInv, RegInv
  <2> QED
    BY <1>0, <1>2, <2>1 DEF IInv, TypeOK, RegOK
<1>4. RegOK(t)'
  BY <1>0, <1>2, <1>3 DEF RegOK
<1>5. PhaseInv' /\ (Calm' => Calm)
  BY <1>0, PhaseFrame, CalmNow
<1>6. Alone(t)
  BY <1>0, <1>2 DEF Alone
<1> QED
  BY <1>0, <1>1, <1>3, <1>4, <1>5, <1>6, Quiet

(* cxl_segment_alloc swaps the owner.                                      *)
LEMMA TakeSegmentStep ==
  ASSUME IInv, NEW t \in Threads, NEW s \in Segs, TakeSegment(t, s)
  PROVE  IInv'
<1>0. /\ mode[t] = "live" /\ pc[t] = "search" /\ loc[t].todo = {} /\ freePages[t] = {}
      /\ owner[s] = 0 /\ owner' = [owner EXCEPT ![s] = t]
      /\ UNCHANGED <<state, threadFree, header, segUsed, kind, free, localFree, used>>
      /\ UNCHANGED <<pq, freePages, holders, junk, mode>>
      /\ pc' = [pc EXCEPT ![t] = "taken"] /\ loc' = [loc EXCEPT ![t].seg = s]
  BY DEF TakeSegment, Vacant, At, Goto, meta, tls, memory
<1>1. TypeOK'
  <2>1. TypeOK
    BY DEF IInv
  <2>2. loc' \in [Threads -> Locs]
    BY <1>0, <2>1, LocField
  <2>3. pc' \in [Threads -> Labels] /\ owner' \in [Segs -> Threads \cup {0}]
    BY <1>0, <2>1 DEF TypeOK, Labels
  <2> QED
    BY <1>0, <2>1, <2>2, <2>3, RegType DEF TypeOK
<1>2. /\ pc'[t] = "taken" /\ loc'[t] = [loc[t] EXCEPT !.seg = s]
      /\ \A u \in Threads \ {t} : pc'[u] = pc[u] /\ loc'[u] = loc[u]
      /\ owner'[s] = t /\ \A r \in Segs \ {s} : owner'[r] = owner[r]
  BY <1>0 DEF IInv, TypeOK
<1>3. /\ loc'[t].kind = loc[t].kind /\ loc'[t].todo = loc[t].todo
      /\ loc'[t].block = loc[t].block /\ loc'[t].seg = s
  BY <1>2 DEF IInv, TypeOK
<1>4. header[s] = 0
  BY <1>0 DEF IInv, SegInv
<1>5. RegOK(t)'
  <2>1. RegOK(t)
    BY DEF IInv, RegInv
  <2> QED
    BY <1>0, <1>2, <1>3, <1>4, <2>1 DEF RegOK
<1>6. PhaseInv' /\ (Calm' => Calm)
  BY <1>0, PhaseFrame, CalmNow
<1>7. Alone(t)
  BY <1>0, <1>2 DEF Alone
<1>8. \A r \in Segs : owner'[r] = owner[r] \/ header[r] = 0
  BY <1>2, <1>4
<1> QED
  BY <1>0, <1>1, <1>3, <1>5, <1>6, <1>7, <1>8, Quiet

(* A client stops, also for want of memory.                                *)
LEMMA CrashStep ==
  ASSUME IInv, NEW t \in Threads, Crash(t) \/ NoMemory(t)
  PROVE  IInv'
<1>0. /\ mode[t] = "live" /\ mode' = [mode EXCEPT ![t] = "crashed"]
      /\ UNCHANGED <<owner, state, threadFree, header, segUsed, kind, free, localFree, used>>
      /\ UNCHANGED <<pq, freePages, holders, junk, pc, loc>>
  BY DEF Crash, NoMemory, At, sas, meta, tls, memory
<1>1. TypeOK'
  BY <1>0 DEF IInv, TypeOK
<1>2. mode'[t] = "crashed" /\ \A u \in Threads \ {t} : mode'[u] = mode[u]
  BY <1>0 DEF IInv, TypeOK
<1>3. Calm /\ Calm' /\ PhaseInv'
  BY <1>0, <1>2, CalmNow DEF Calm, PhaseInv
<1>4. RegOK(t)'
  <2>1. RegOK(t)
    BY DEF IInv, RegInv
  <2> QED
    BY <1>0, <1>2, <2>1 DEF RegOK
<1>5. Alone(t)
  BY <1>0, <1>2 DEF Alone
<1> QED
  BY <1>0, <1>1, <1>2, <1>3, <1>4, <1>5, Quiet

(* cxl_free finds the block in a segment of another thread.                *)
LEMMA FreeRemoteStep ==
  ASSUME IInv, NEW t \in Threads, FreeRemote(t)
  PROVE  IInv'
<1>0. /\ mode[t] = "live" /\ pc[t] = "free" /\ header[Seg(loc[t].block)] # t
      /\ UNCHANGED <<owner, state, threadFree, header, segUsed, kind, free, localFree, used>>
      /\ UNCHANGED <<pq, freePages, holders, junk, loc, mode>>
      /\ pc' = [pc EXCEPT ![t] = "push"]
  BY DEF FreeRemote, At, Goto, sas, meta, tls, memory
<1>1. TypeOK'
  BY <1>0 DEF IInv, TypeOK
<1>2. pc'[t] = "push" /\ \A u \in Threads \ {t} : pc'[u] = pc[u]
  BY <1>0 DEF IInv, TypeOK
<1>3. RegOK(t)'
  <2>1. RegOK(t)
    BY DEF IInv, RegInv
  <2>2. Seg(loc[t].block)' = Seg(loc[t].block)
    BY <1>0 DEF Seg
  <2> QED
    BY <1>0, <1>2, <2>1, <2>2 DEF RegOK
<1>4. PhaseInv' /\ (Calm' => Calm)
  BY <1>0, PhaseFrame, CalmNow
<1>5. Alone(t)
  BY <1>0, <1>2 DEF Alone
<1> QED
  BY <1>0, <1>1, <1>3, <1>4, <1>5, Quiet

(* Return clears the registers.                                            *)
LEMMA ReturnIs ==
  ASSUME IInv, NEW t \in Threads, Return(t)
  PROVE  /\ pc' = [pc EXCEPT ![t] = "idle"] /\ loc' = [loc EXCEPT ![t] = NoLocals]
         /\ pc'[t] = "idle" /\ loc'[t] = NoLocals /\ loc'[t].block = None
         /\ \A u \in Threads \ {t} : pc'[u] = pc[u] /\ loc'[u] = loc[u]
         /\ pc' \in [Threads -> Labels] /\ loc' \in [Threads -> Locs]
         /\ RegOK(t)'
<1>1. /\ pc' = [pc EXCEPT ![t] = "idle"] /\ loc' = [loc EXCEPT ![t] = NoLocals]
      /\ pc'[t] = "idle" /\ loc'[t] = NoLocals
      /\ \A u \in Threads \ {t} : pc'[u] = pc[u] /\ loc'[u] = loc[u]
  BY DEF Return, Goto, IInv, TypeOK
<1>2. NoLocals.block = None
  BY DEF NoLocals
<1>3. RegOK(t)'
  BY <1>1, <1>2 DEF RegOK
<1>4. pc' \in [Threads -> Labels] /\ loc' \in [Threads -> Locs]
  BY <1>1, LocField DEF IInv, TypeOK, Labels
<1> QED
  BY <1>1, <1>2, <1>3, <1>4

(* cxl_segment_free gives the segment back.                                *)
LEMMA GiveStep ==
  ASSUME IInv, NEW t \in Threads, Give(t)
  PROVE  IInv'
<1> DEFINE s == loc[t].seg
<1>0. /\ mode[t] = "live" /\ pc[t] = "give" /\ owner' = [owner EXCEPT ![s] = 0]
      /\ UNCHANGED <<state, threadFree, header, segUsed, kind, free, localFree, used>>
      /\ UNCHANGED <<pq, freePages, holders, junk, mode>> /\ Return(t)
  BY DEF Give, At, meta, tls, memory
<1>1. TypeOK'
  <2>1. TypeOK /\ owner' \in [Segs -> Threads \cup {0}]
    BY <1>0 DEF IInv, TypeOK
  <2> QED
    BY <1>0, <2>1, ReturnIs, RegType DEF TypeOK
<1>2. RegOK(t)
  BY DEF IInv, RegInv
<1>3. s \in Segs /\ owner[s] = t /\ header[s] = 0 /\ loc[t].block = None
  BY <1>0, <1>2 DEF RegOK
<1>4. \A r \in Segs : owner'[r] = owner[r] \/ (owner[r] = t /\ header[r] = 0)
  BY <1>0, <1>3 DEF IInv, TypeOK
<1>5. PhaseInv' /\ (Calm' => Calm)
  BY <1>0, PhaseFrame, CalmNow
<1>6. Alone(t)
  BY <1>0, <1>4, ReturnIs DEF Alone
<1> QED
  BY <1>0, <1>1, <1>3, <1>4, <1>5, <1>6, ReturnIs, Quiet

(* The monitor turns to a thread.                                          *)
LEMMA RecoverStep ==
  ASSUME IInv, NEW t \in Threads, Recover(t)
  PROVE  IInv'
<1>0. /\ mode[t] = "crashed" /\ mode' = [mode EXCEPT ![t] = "recover"] /\ Return(t)
      /\ \A u \in Threads : mode[u] # "live"
      /\ UNCHANGED <<owner, state, threadFree, header, segUsed, kind, free, localFree, used>>
      /\ UNCHANGED <<pq, freePages, holders, junk>>
  BY DEF Recover, Turn, sas, meta, tls, memory
<1>1. mode'[t] = "recover" /\ \A u \in Threads \ {t} : mode'[u] = mode[u]
  BY <1>0 DEF IInv, TypeOK
<1>2. TypeOK'
  <2>1. TypeOK /\ mode' \in [Threads -> {"live", "crashed", "recover", "gone"}]
    BY <1>0 DEF IInv, TypeOK
  <2> QED
    BY <1>0, <2>1, ReturnIs, RegType DEF TypeOK
<1>3. ~Calm' /\ PhaseInv'
  BY <1>0, <1>1 DEF Calm, PhaseInv, IInv
<1>4. Alone(t)
  BY <1>0, <1>1, ReturnIs DEF Alone
<1> QED
  BY <1>0, <1>1, <1>2, <1>3, <1>4, ReturnIs, Quiet

-----------------------------------------------------------------------------
(* Actions that move blocks of pages that stay in use.                     *)

(* A page on a queue is in use, in a segment of the thread.                *)
LEMMA Queued ==
  ASSUME IInv, NEW t \in Threads, mode[t] = "live", NEW k \in Kinds, NEW p \in pq[t][k]
  PROVE  p \in Pages /\ kind[p] = k /\ InUse(p) /\ header[SegOf[p]] = t
BY CalmNow, PlaceIs DEF ListOK, Mine, InUse

(* The blocks of t or of its pages change hands.                           *)
LEMMA Moved ==
  ASSUME IInv, NEW t \in Threads, mode[t] = "live", TypeOK', RegOK(t)', HomeInv',
         UNCHANGED <<owner, header, segUsed, kind, pq, freePages, mode>>,
         \A u \in Threads \ {t} : pc'[u] = pc[u] /\ loc'[u] = loc[u],
         \A b \in Blocks : PlaceOK(b)',
         \A p \in Pages : InUse(p) => used'[p] = Cardinality(Outside(p)'),
         \A b \in Blocks : \/ holders'[b] \in {holders[b], {}, {header[Seg(b)]}}
                           \/ kind[PageOf[b]] # Root,
         \A b \in Blocks : Held(b)' => Held(b) \/ PageOf[b] \in pq[t][kind[PageOf[b]]]
  PROVE  IInv'
<1>1. Alone(t)
  BY DEF Alone
<1>2. ListOK(t)'
  BY DEF IInv, ListInv, ListOK, Mine
<1>3. ListInv' /\ RegInv'
  BY <1>1, <1>2, ListFrame, RegFrame
<1>4. PhaseInv' /\ SegInv'
  BY PhaseFrame DEF IInv, SegInv, InUse
<1>5. PlaceInv'
  BY DEF PlaceInv
<1>6. CountInv'
  <2>1. \A p \in Pages : InUse(p)' <=> InUse(p)
    BY DEF InUse
  <2>2. \A s \in Segs : PagesUsed(s)' = PagesUsed(s)
    BY DEF PagesUsed, PagesOf, InUse
  <2>3. \A s \in Segs : header[s] # 0 => segUsed[s] = Cardinality(PagesUsed(s))
    BY CalmNow
  <2> QED
    BY <2>1, <2>2, <2>3 DEF CountInv
<1>7. HeldInv'
  <2> SUFFICES ASSUME NEW b \in Blocks, Held(b)' PROVE HeldOK(b)'
    BY DEF HeldInv, HeldOK
  <2>1. InUse(PageOf[b])' /\ b \notin free'[PageOf[b]]
    BY DEF PlaceOK, Inside
  <2>2. Held(b) => HeldOK(b)
    BY DEF IInv, HeldInv
  <2>3. kind[PageOf[b]] = Root => holders'[b] = {header[Seg(b)]}
    BY <2>2 DEF HeldOK, Held
  <2>4. Seg(b)' = Seg(b)
    BY DEF Seg
  <2>5. mode[header[Seg(b)]] # "gone" => PageOf[b] \in pq[header[Seg(b)]][kind[PageOf[b]]]
    <3>1. CASE Held(b)
      BY <2>2, <3>1 DEF HeldOK, Queue
    <3>2. CASE PageOf[b] \in pq[t][kind[PageOf[b]]]
      <4>1. kind[PageOf[b]] \in Kinds
        BY <2>1, OwnerIs DEF InUse
      <4>2. header[Seg(b)] = t
        BY <3>2, <4>1, Queued DEF Seg
      <4> QED
        BY <3>2, <4>2
    <3> QED
      BY <3>1, <3>2
  <2> QED
    BY <2>1, <2>3, <2>4, <2>5 DEF HeldOK, Queue
<1> QED
  BY <1>3, <1>4, <1>5, <1>6, <1>7 DEF IInv

(* block_to_cxlobj and the RootRef of a block from free.                   *)
LEMMA PopStep ==
  ASSUME IInv, NEW t \in Threads, mode[t] = "live", NEW k \in Kinds, NEW p \in pq[t][k],
         Pop(t, p), pc' \in [Threads -> Labels], loc' \in [Threads -> Locs], RegOK(t)',
         \A u \in Threads \ {t} : pc'[u] = pc[u] /\ loc'[u] = loc[u],
         loc'[t].block = loc[t].block
  PROVE  IInv'
<1>0. PICK b \in free[p] :
        /\ free' = [free EXCEPT ![p] = @ \ {b}]
        /\ used' = [used EXCEPT ![p] = @ + 1]
        /\ holders' = [holders EXCEPT ![b] = {t}]
        /\ junk' = junk \ {b}
  BY DEF Pop
<1>1. UNCHANGED <<owner, state, threadFree, header, segUsed, kind, localFree, pq, freePages, mode>>
  BY DEF Pop, sas, tls
<1>2. p \in Pages /\ kind[p] = k /\ InUse(p) /\ header[SegOf[p]] = t
  BY Queued
<1>3. b \in Blocks /\ PageOf[b] = p /\ Seg(b) = SegOf[p] /\ b \in BlocksOf(p)
  BY <1>2, PlaceIs DEF IInv, HomeInv, Seg
<1>4. TypeOK'
  <2>1. /\ free' \in [Pages -> SUBSET Blocks] /\ used' \in [Pages -> Nat]
        /\ holders' \in [Blocks -> SUBSET Threads] /\ junk' \subseteq Blocks
    BY <1>0 DEF IInv, TypeOK
  <2> QED
    BY <1>1, <2>1 DEF IInv, TypeOK, Labels, Locs
<1>5. /\ free'[p] = free[p] \ {b} /\ \A q \in Pages \ {p} : free'[q] = free[q]
      /\ used'[p] = used[p] + 1 /\ \A q \in Pages \ {p} : used'[q] = used[q]
      /\ holders'[b] = {t} /\ \A c \in Blocks \ {b} : holders'[c] = holders[c]
  BY <1>0, <1>2, <1>3 DEF IInv, TypeOK
<1>6. HomeInv'
  BY <1>1, <1>5 DEF IInv, HomeInv, BlocksOf, Seg
<1>7. ASSUME NEW c \in Blocks PROVE PlaceOK(c)'
  <2>1. PlaceOK(c) /\ PlaceOK(b) /\ PageOf[c] \in Pages
    BY <1>3, CalmNow, PlaceIs
  <2>2. CASE c = b
    <3>1. ~Inside(b)'
      BY <1>0, <1>1, <1>3, <1>5, <2>1 DEF PlaceOK, Inside
    <3>2. ~Pushed(b)' /\ Held(b)' /\ InUse(PageOf[b])' /\ b \notin free'[PageOf[b]]
      BY <1>0, <1>1, <1>2, <1>3, <1>5, <2>1 DEF PlaceOK, Inside, Pushed, Held, InUse, Seg
    <3>3. \A u \in Threads : loc'[u].block # b
      BY <1>0, <1>3, <2>1 DEF PlaceOK, Inside, Leaving
    <3> QED
      BY <2>2, <3>1, <3>2, <3>3 DEF PlaceOK, Leaving
  <2>3. CASE c # b
    <3>1. c \in free'[PageOf[c]] <=> c \in free[PageOf[c]]
      BY <1>5, <2>1, <2>3
    <3>2. Stays(c)
      BY <1>1, <1>5, <2>3, <3>1 DEF Stays, InUse, Pushed, Held, Seg
    <3> QED
      BY <2>1, <3>2, StayFrame
  <2> QED
    BY <2>2, <2>3
<1>8. ASSUME NEW q \in Pages, InUse(q) PROVE used'[q] = Cardinality(Outside(q)')
  <2>1. used[q] = Cardinality(Outside(q))
    BY <1>8, CalmNow
  <2>2. CASE q = p
    <3>1. b \notin Outside(p) /\ b \notin localFree[p]
      BY <1>0, <1>3, CalmNow DEF Outside, PlaceOK
    <3>2. Outside(p)' = Outside(p) \cup {b}
      BY <1>0, <1>1, <1>3, <1>5, <3>1 DEF Outside, BlocksOf
    <3> QED
      BY <1>5, <2>1, <2>2, <3>1, <3>2, OneMore, Finite
  <2>3. CASE q # p
    BY <1>1, <1>5, <2>1, <2>3 DEF Outside, BlocksOf
  <2> QED
    BY <2>2, <2>3
<1>9. \A c \in Blocks : holders'[c] \in {holders[c], {}, {header[Seg(c)]}}
  BY <1>2, <1>3, <1>5
<1>10. \A c \in Blocks : Held(c)' => Held(c) \/ PageOf[c] \in pq[t][kind[PageOf[c]]]
  BY <1>2, <1>3, <1>5 DEF Held
<1> QED
  BY <1>1, <1>4, <1>6, <1>7, <1>8, <1>9, <1>10, Moved

LEMMA MallocStep ==
  ASSUME IInv, NEW t \in Threads, NEW k \in Kinds, Malloc(t, k)
  PROVE  IInv'
<1>1. mode[t] = "live" /\ pc' = pc /\ loc' = loc
  BY DEF Malloc, At
<1>2. PICK p \in pq[t][k] : Pop(t, p)
  BY DEF Malloc
<1>3. RegOK(t)'
  <2>1. RegOK(t) /\ UNCHANGED <<owner, header, pq, freePages, mode>>
    BY <1>2 DEF IInv, RegInv, Pop, sas, tls
  <2> QED
    BY <1>1, <2>1 DEF RegOK, Seg
<1>4. pc' \in [Threads -> Labels] /\ loc' \in [Threads -> Locs]
  BY <1>1 DEF IInv, TypeOK, Labels, Locs
<1> QED
  BY <1>1, <1>2, <1>3, <1>4, PopStep

LEMMA FoundStep ==
  ASSUME IInv, NEW t \in Threads, Found(t)
  PROVE  IInv'
<1>1. mode[t] = "live" /\ pc[t] = "found" /\ Pop(t, loc[t].page) /\ Return(t)
  BY DEF Found, At
<1>2. RegOK(t)
  BY DEF IInv, RegInv
<1>3. loc[t].kind \in Kinds /\ loc[t].page \in pq[t][loc[t].kind] /\ loc[t].block = None
  BY <1>1, <1>2 DEF RegOK
<1> QED
  BY <1>1, <1>3, ReturnIs, PopStep

(* cxl_page_free_collect: what thread_free of the segment gives back was   *)
(* out, page by page.                                                      *)
LEMMA ReturnedIs ==
  ASSUME IInv, NEW t \in Threads, mode[t] = "live", NEW p \in Pages, NEW q \in Pages
  PROVE  /\ Returned(q, p) \subseteq Outside(q) /\ Returned(q, p) \subseteq BlocksOf(q)
         /\ SegOf[q] # SegOf[p] => Returned(q, p) = {}
         /\ SegOf[q] = SegOf[p] =>
              \A b \in Blocks : PageOf[b] = q => (b \in Returned(q, p) <=> Pushed(b))
         /\ ~InUse(q) => Returned(q, p) = {}
         /\ Cardinality(Outside(q) \ Returned(q, p))
              = Cardinality(Outside(q)) - Cardinality(Returned(q, p))
         /\ Cardinality(Outside(q) \ Returned(q, p)) \in Nat /\ Cardinality(Returned(q, p)) \in Nat
         /\ Cardinality({}) = 0
<1>1. \A b \in Returned(q, p) : /\ b \in Blocks /\ PageOf[b] = q /\ SegOf[q] = SegOf[p]
                                /\ Pushed(b) /\ b \in BlocksOf(q)
  <2>1. \A b \in threadFree[SegOf[p]] : b \in Blocks /\ Seg(b) = SegOf[p]
    BY PlaceIs DEF IInv, TypeOK, HomeInv
  <2> QED
    BY <2>1 DEF Returned, Pushed, Seg, BlocksOf
<1>2. \A b \in Returned(q, p) : ~Inside(b) /\ InUse(q)
  BY <1>1, CalmNow DEF PlaceOK
<1>3. Returned(q, p) \subseteq Outside(q)
  BY <1>1, <1>2 DEF Outside, Inside
<1>4. \A b \in Blocks : PageOf[b] = q /\ SegOf[q] = SegOf[p] => (b \in Returned(q, p) <=> Pushed(b))
  BY DEF Returned, Pushed, Seg
<1>5. Outside(q) \subseteq Blocks
  BY Finite
<1>6. IsFiniteSet(Outside(q)) /\ Outside(q) \cap Returned(q, p) = Returned(q, p)
  BY <1>3, <1>5, Finite
<1>7. Cardinality(Outside(q) \ Returned(q, p))
        = Cardinality(Outside(q)) - Cardinality(Returned(q, p))
  BY <1>6, FS_Difference
<1>8. /\ Cardinality(Outside(q) \ Returned(q, p)) \in Nat /\ Cardinality(Returned(q, p)) \in Nat
      /\ Cardinality({}) = 0
  <2>1. Returned(q, p) \subseteq Blocks /\ (Outside(q) \ Returned(q, p)) \subseteq Blocks
    BY <1>3, <1>5
  <2> QED
    BY <2>1, Finite, FS_EmptySet
<1> QED
  BY <1>1, <1>2, <1>3, <1>4, <1>7, <1>8

LEMMA CollectStep ==
  ASSUME IInv, NEW t \in Threads, NEW p \in Pages, Collect(t, p)
  PROVE  IInv'
<1> DEFINE s == SegOf[p]
           back == [q \in Pages |-> Returned(q, p)]
           lf == [q \in Pages |-> localFree[q] \cup back[q]]
<1>0. /\ mode[t] = "live" /\ pc[t] = "search" /\ p \in loc[t].todo
      /\ threadFree' = [threadFree EXCEPT ![s] = {}]
      /\ used' = [q \in Pages |-> used[q] - Cardinality(back[q])]
      /\ localFree' = IF free[p] = {} THEN [lf EXCEPT ![p] = {}] ELSE lf
      /\ free' = IF free[p] = {} THEN [free EXCEPT ![p] = lf[p]] ELSE free
      /\ IF free'[p] # {}
         THEN pc' = [pc EXCEPT ![t] = "found"] /\ loc' = [loc EXCEPT ![t].page = p]
         ELSE loc' = [loc EXCEPT ![t].todo = @ \ {p}] /\ pc' = pc
  BY DEF Collect, At, Goto
<1>1. UNCHANGED <<owner, state, header, segUsed, kind, pq, freePages, holders, junk, mode>>
  BY DEF Collect, tls, memory
<1>2. TypeOK /\ RegOK(t) /\ s \in Segs /\ \A b \in Blocks : PlaceOK(b)
  BY <1>0, CalmNow, PlaceIs DEF IInv
<1>3. loc[t].kind \in Kinds /\ loc[t].todo \subseteq pq[t][loc[t].kind] /\ loc[t].block = None
  BY <1>0, <1>2 DEF RegOK
<1>4. InUse(p) /\ header[s] = t
  BY <1>0, <1>3, Queued
<1>5. \A q \in Pages : /\ used'[q] = used[q] - Cardinality(Returned(q, p))
                       /\ localFree'[q] = IF free[p] = {} /\ q = p THEN {}
                                          ELSE localFree[q] \cup Returned(q, p)
                       /\ free'[q] = IF free[p] = {} /\ q = p
                                     THEN localFree[q] \cup Returned(q, p) ELSE free[q]
  BY <1>0, <1>2 DEF TypeOK
<1>6. threadFree'[s] = {} /\ \A r \in Segs \ {s} : threadFree'[r] = threadFree[r]
  BY <1>0, <1>2 DEF TypeOK
<1>7. /\ pc' \in [Threads -> Labels] /\ loc' \in [Threads -> Locs]
      /\ \A u \in Threads \ {t} : pc'[u] = pc[u] /\ loc'[u] = loc[u]
      /\ loc'[t].block = None
  <2>1. loc[t] \in Locs /\ loc \in [Threads -> Locs] /\ pc \in [Threads -> Labels]
    BY <1>2, LocField DEF TypeOK, Labels
  <2>2. [loc[t] EXCEPT !.page = p] \in Locs /\ [loc[t] EXCEPT !.todo = @ \ {p}] \in Locs
    BY <2>1 DEF Locs
  <2> QED
    BY <1>0, <1>3, <2>1, <2>2 DEF Labels, Locs
<1>8. RegOK(t)'
  <2>0. loc \in [Threads -> Locs] /\ loc[t] \in Locs /\ pc \in [Threads -> Labels]
    BY <1>2, LocField DEF TypeOK, Labels
  <2>1. CASE free'[p] # {}
    <3>0. pc'[t] = "found" /\ loc'[t] = [loc[t] EXCEPT !.page = p]
      BY <1>0, <2>0, <2>1
    <3>1. pc'[t] = "found" /\ loc'[t].page = p /\ loc'[t].kind = loc[t].kind
      BY <2>0, <3>0 DEF Locs
    <3> QED
      BY <1>0, <1>1, <1>3, <1>7, <3>1 DEF RegOK
  <2>2. CASE free'[p] = {}
    <3>0. pc'[t] = "search" /\ loc'[t] = [loc[t] EXCEPT !.todo = @ \ {p}]
      BY <1>0, <2>0, <2>2
    <3>1. pc'[t] = "search" /\ loc'[t].todo = loc[t].todo \ {p} /\ loc'[t].kind = loc[t].kind
      BY <2>0, <3>0 DEF Locs
    <3> QED
      BY <1>0, <1>1, <1>3, <1>7, <3>1 DEF RegOK
  <2> QED
    BY <2>1, <2>2
<1> HIDE DEF back, lf
<1>r. \A q \in Pages :
        /\ Returned(q, p) \subseteq BlocksOf(q)
        /\ SegOf[q] # SegOf[p] \/ ~InUse(q) => Returned(q, p) = {}
        /\ SegOf[q] = SegOf[p] =>
             \A b \in Blocks : PageOf[b] = q => (b \in Returned(q, p) <=> Pushed(b))
  BY <1>0, ReturnedIs
<1>9. \A q \in Pages : /\ Outside(q)' = Outside(q) \ Returned(q, p)
                       /\ used'[q] \in Nat /\ (InUse(q) => used'[q] = Cardinality(Outside(q)'))
  <2> TAKE q \in Pages
  <2>1. Outside(q)' = Outside(q) \ Returned(q, p)
    <3>1. free'[q] \cup localFree'[q] = free[q] \cup localFree[q] \cup Returned(q, p)
      BY <1>5
    <3> QED
      BY <3>1 DEF Outside, BlocksOf
  <2>2. InUse(q) => used[q] = Cardinality(Outside(q))
    BY <1>0, CalmNow
  <2>3. InUse(q) => used'[q] = Cardinality(Outside(q) \ Returned(q, p))
    BY <1>0, <1>5, <2>2, ReturnedIs
  <2>4. ~InUse(q) => used'[q] \in Nat
    <3>1. used[q] \in Nat /\ Cardinality({}) = 0
      BY <1>2, FS_EmptySet DEF TypeOK
    <3>2. ~InUse(q) => Returned(q, p) = {}
      BY <1>r
    <3>3. ~InUse(q) => Cardinality(Returned(q, p)) = 0
      BY <3>1, <3>2
    <3>4. used'[q] = used[q] - Cardinality(Returned(q, p))
      BY <1>5
    <3> QED
      BY <3>1, <3>3, <3>4
  <2> QED
    BY <1>0, <2>1, <2>3, <2>4, ReturnedIs
<1>10. TypeOK'
  <2>1. used' \in [Pages -> Nat]
    BY <1>0, <1>9
  <2>2. \A q \in Pages : Returned(q, p) \subseteq Blocks
    BY <1>2, PlaceIs DEF Returned, TypeOK
  <2>3. /\ free' \in [Pages -> SUBSET Blocks] /\ localFree' \in [Pages -> SUBSET Blocks]
        /\ threadFree' \in [Segs -> SUBSET Blocks]
    <3>1. lf \in [Pages -> SUBSET Blocks]
      BY <1>2, <2>2 DEF TypeOK, lf, back
    <3> QED
      BY <1>0, <1>2, <3>1 DEF TypeOK
  <2> QED
    BY <1>1, <1>2, <1>7, <2>1, <2>3 DEF TypeOK, Labels, Locs
<1>11. HomeInv'
  <2>1. \A q \in Pages : free'[q] \cup localFree'[q] \subseteq BlocksOf(q)
    <3>1. \A q \in Pages : free[q] \cup localFree[q] \subseteq BlocksOf(q)
      BY DEF IInv, HomeInv
    <3> QED
      BY <1>5, <1>r, <3>1
  <2>2. \A r \in Segs : \A b \in threadFree'[r] : Seg(b) = r
    BY <1>6 DEF IInv, HomeInv
  <2> QED
    BY <2>1, <2>2 DEF HomeInv, BlocksOf, Seg
<1>12. ASSUME NEW b \in Blocks PROVE PlaceOK(b)'
  <2> DEFINE q == PageOf[b]
  <2>0. q \in Pages /\ Seg(b) = SegOf[q] /\ PlaceOK(b)
    BY <1>2, PlaceIs DEF Seg
  <2>1. InUse(q)' = InUse(q) /\ Held(b)' = Held(b) /\ Leaving(b)' = Leaving(b)
    BY <1>1, <1>3, <1>7 DEF InUse, Held, Leaving
  <2>2. \A u, v \in Threads : loc'[u].block = b /\ loc'[v].block = b => u = v
    BY <1>3, <1>7, <2>0 DEF PlaceOK
  <2>3. CASE b \in Returned(q, p)
    <3>1. Pushed(b) /\ SegOf[q] = s
      BY <1>0, <2>0, <2>3, ReturnedIs
    <3>2. ~Inside(b) /\ ~Held(b) /\ ~Leaving(b) /\ InUse(q)
      BY <2>0, <3>1 DEF PlaceOK
    <3>3. Inside(b)' /\ ~(b \in free'[q] /\ b \in localFree'[q])
      BY <1>5, <2>0, <2>3, <3>2 DEF Inside
    <3>4. ~Pushed(b)'
      BY <1>6, <2>0, <3>1 DEF Pushed, Seg
    <3> QED
      BY <2>1, <2>2, <3>2, <3>3, <3>4 DEF PlaceOK
  <2>4. CASE b \notin Returned(q, p)
    <3>1. /\ Inside(b)' <=> Inside(b)
          /\ b \in free'[q] /\ b \in localFree'[q] => b \in free[q] /\ b \in localFree[q]
      BY <1>5, <2>0, <2>4 DEF Inside
    <3>2. Pushed(b)' <=> Pushed(b)
      <4>1. Pushed(b)' = (b \in threadFree'[SegOf[q]]) /\ Pushed(b) = (b \in threadFree[SegOf[q]])
        BY DEF Pushed, Seg
      <4>2. SegOf[q] \in Segs
        BY <2>0, PlaceIs
      <4> QED
        BY <1>6, <1>r, <2>0, <2>4, <4>1, <4>2
    <3> QED
      BY <2>0, <2>1, <2>2, <3>1, <3>2 DEF PlaceOK
  <2> QED
    BY <2>3, <2>4
<1>13. \A c \in Blocks : Held(c)' => Held(c)
  BY <1>1 DEF Held
<1> QED
  BY <1>0, <1>1, <1>7, <1>8, <1>9, <1>10, <1>11, <1>12, <1>13, Moved

(* A thread gets a reference; the count of a block goes from one to two.   *)
LEMMA ShareStep ==
  ASSUME IInv, NEW t \in Threads, NEW u \in Threads, NEW b \in Blocks, Share(t, u, b)
  PROVE  IInv'
<1>0. /\ mode[u] = "live" /\ t \in holders[b] /\ kind[PageOf[b]] \in Sizes
      /\ holders' = [holders EXCEPT ![b] = @ \cup {u}]
      /\ UNCHANGED <<owner, state, threadFree, header, segUsed, kind, free, localFree, used>>
      /\ UNCHANGED <<pq, freePages, junk, pc, loc, mode>>
  BY DEF Share, At, sas, meta, tls
<1>1. holders' \in [Blocks -> SUBSET Threads]
  BY <1>0 DEF IInv, TypeOK
<1>2. TypeOK'
  BY <1>0, <1>1 DEF IInv, TypeOK
<1>3. RegOK(u)'
  <2>1. RegOK(u)
    BY DEF IInv, RegInv
  <2> QED
    BY <1>0, <2>1 DEF RegOK, Seg
<1>4. HomeInv'
  BY <1>0 DEF IInv, HomeInv, BlocksOf, Seg
<1>5. ASSUME NEW c \in Blocks
      PROVE  /\ PlaceOK(c)' /\ (Held(c)' => Held(c))
             /\ holders'[c] = holders[c] \/ kind[PageOf[c]] # Root
  <2>1. holders'[c] = IF c = b THEN holders[b] \cup {u} ELSE holders[c]
    BY <1>0 DEF IInv, TypeOK
  <2>2. Stays(c)
    BY <1>0, <2>1 DEF Stays, InUse, Pushed, Held, Seg
  <2>3. PlaceOK(c)
    BY <1>0, CalmNow
  <2> QED
    BY <1>0, <2>1, <2>2, <2>3, StayFrame, KindAssumption DEF Stays
<1>6. \A p \in Pages : InUse(p) => used'[p] = Cardinality(Outside(p)')
  BY <1>0, CalmNow DEF Outside, BlocksOf
<1> QED
  BY <1>0, <1>2, <1>3, <1>4, <1>5, <1>6, Moved

(* A reference goes; the last one leaves the block in the hands of t.      *)
LEMMA DropStep ==
  ASSUME IInv, NEW t \in Threads, NEW b \in Blocks, Drop(t, b)
  PROVE  IInv'
<1>0. /\ mode[t] = "live" /\ pc[t] = "idle" /\ t \in holders[b]
      /\ holders' = [holders EXCEPT ![b] = @ \ {t}]
      /\ IF holders[b] = {t}
         THEN pc' = [pc EXCEPT ![t] = "free"] /\ loc' = [loc EXCEPT ![t].block = b]
         ELSE pc' = pc /\ loc' = loc
      /\ UNCHANGED <<owner, state, threadFree, header, segUsed, kind, free, localFree, used>>
      /\ UNCHANGED <<pq, freePages, junk, mode>>
  BY DEF Drop, At, Goto, sas, meta, tls
<1>1. TypeOK /\ RegOK(t) /\ loc[t].block = None /\ PlaceOK(b)
  BY <1>0, CalmNow DEF IInv, RegOK
<1>2. /\ loc \in [Threads -> Locs] /\ pc \in [Threads -> Labels] /\ loc[t] \in Locs
      /\ [loc[t] EXCEPT !.block = b] \in Locs
  BY <1>1, LocField DEF TypeOK, Labels
<1>3. CASE holders[b] = {t}
  <2>1. /\ pc' \in [Threads -> Labels] /\ loc' \in [Threads -> Locs]
        /\ pc'[t] = "free" /\ loc'[t] = [loc[t] EXCEPT !.block = b]
        /\ \A u \in Threads \ {t} : pc'[u] = pc[u] /\ loc'[u] = loc[u]
    BY <1>0, <1>2, <1>3 DEF Labels
  <2>2. loc'[t].block = b
    BY <1>2, <2>1 DEF Locs
  <2>3. holders' \in [Blocks -> SUBSET Threads]
        /\ \A c \in Blocks : holders'[c] = IF c = b THEN {} ELSE holders[c]
    BY <1>0, <1>1, <1>3 DEF TypeOK
  <2>4. TypeOK'
    BY <1>0, <1>1, <2>1, <2>3 DEF TypeOK, Labels, Locs
  <2>5. RegOK(t)'
    BY <1>0, <2>1, <2>2, PlaceAssumption DEF RegOK
  <2>6. HomeInv'
    BY <1>0 DEF IInv, HomeInv, BlocksOf, Seg
  <2>7. ASSUME NEW c \in Blocks PROVE PlaceOK(c)'
    <3>1. PlaceOK(c)
      BY <1>0, CalmNow
    <3>2. CASE c = b
      <4>1. Held(b) /\ InUse(PageOf[b]) /\ ~Inside(b) /\ ~Pushed(b) /\ ~Leaving(b)
        BY <1>0, <1>1 DEF PlaceOK, Held
      <4>2. InUse(PageOf[b])' /\ ~Inside(b)' /\ ~Pushed(b)' /\ ~Held(b)'
        BY <1>0, <2>3, <4>1 DEF InUse, Inside, Pushed, Held, Seg
      <4>3. \A u \in Threads : loc'[u].block = b <=> u = t
        BY <2>1, <2>2, <4>1 DEF Leaving
      <4> QED
        BY <3>2, <4>1, <4>2, <4>3 DEF PlaceOK, Inside, Leaving
    <3>3. CASE c # b
      <4>1. \A u \in Threads : loc'[u].block = c <=> loc[u].block = c
        BY <1>1, <2>1, <2>2, <3>3, PlaceAssumption
      <4>2. Stays(c)
        BY <1>0, <2>3, <3>3, <4>1 DEF Stays, InUse, Pushed, Held, Seg
      <4> QED
        BY <3>1, <4>2, StayFrame
    <3> QED
      BY <3>2, <3>3
  <2>8. \A p \in Pages : InUse(p) => used'[p] = Cardinality(Outside(p)')
    BY <1>0, CalmNow DEF Outside, BlocksOf
  <2>9. \A c \in Blocks : Held(c)' => Held(c)
    BY <2>3 DEF Held
  <2> QED
    BY <1>0, <2>1, <2>3, <2>4, <2>5, <2>6, <2>7, <2>8, <2>9, Moved
<1>4. CASE holders[b] # {t}
  <2>1. holders' \in [Blocks -> SUBSET Threads]
        /\ \A c \in Blocks : holders'[c] = IF c = b THEN holders[b] \ {t} ELSE holders[c]
    BY <1>0, <1>1 DEF TypeOK
  <2>2. TypeOK'
    BY <1>0, <1>1, <1>4, <2>1 DEF TypeOK
  <2>3. RegOK(t)'
    BY <1>0, <1>1, <1>4 DEF RegOK, Seg
  <2>4. HomeInv'
    BY <1>0 DEF IInv, HomeInv, BlocksOf, Seg
  <2>5. ASSUME NEW c \in Blocks PROVE PlaceOK(c)'
    <3>1. Held(c)' <=> Held(c)
      BY <1>0, <1>4, <2>1 DEF Held
    <3>2. Stays(c)
      BY <1>0, <1>4, <3>1 DEF Stays, InUse, Pushed, Seg
    <3> QED
      BY <1>0, <3>2, CalmNow, StayFrame
  <2>6. kind[PageOf[b]] # Root
    <3>1. HeldOK(b)
      BY DEF IInv, HeldInv
    <3> QED
      BY <1>0, <1>4, <3>1 DEF HeldOK, Held
  <2>7. \A p \in Pages : InUse(p) => used'[p] = Cardinality(Outside(p)')
    BY <1>0, CalmNow DEF Outside, BlocksOf
  <2>8. \A c \in Blocks : Held(c)' => Held(c)
    BY <2>1 DEF Held
  <2> QED
    BY <1>0, <1>4, <2>1, <2>2, <2>3, <2>4, <2>5, <2>6, <2>7, <2>8, Moved
<1> QED
  BY <1>3, <1>4

(* cxl_free of a block of this thread, when others of the page are out.    *)
LEMMA KeepPageStep ==
  ASSUME IInv, NEW t \in Threads, FreeLocal(t), ~LastBlock(PageOf[loc[t].block])
  PROVE  IInv'
<1>b. PICK b : b = loc[t].block
  OBVIOUS
<1> DEFINE p == PageOf[b]
<1>0. /\ mode[t] = "live" /\ pc[t] = "free" /\ header[Seg(b)] = t
      /\ localFree' = [localFree EXCEPT ![p] = @ \cup {b}]
      /\ used' = [used EXCEPT ![p] = @ - 1] /\ Return(t)
      /\ UNCHANGED <<owner, state, threadFree, header, segUsed, kind, free>>
      /\ UNCHANGED <<pq, freePages, holders, junk, mode>>
  BY <1>b DEF FreeLocal, KeepPage, At, sas, memory, tls
<1>1. TypeOK /\ RegOK(t) /\ \A c \in Blocks : PlaceOK(c)
  BY <1>0, CalmNow DEF IInv
<1>2. b \in Blocks /\ p \in Pages /\ b \in BlocksOf(p)
  <2>1. b \in Blocks
    BY <1>b, <1>0, <1>1 DEF RegOK, TypeOK
  <2> QED
    BY <2>1, PlaceIs
<1>3. InUse(p) /\ ~Inside(b) /\ ~Pushed(b) /\ ~Held(b) /\ Leaving(b)
  BY <1>b, <1>1, <1>2 DEF PlaceOK, Leaving
<1> HIDE DEF p
<1>4. /\ used[p] = Cardinality(Outside(p)) /\ b \in Outside(p)
      /\ Cardinality(Outside(p) \ {b}) = used[p] - 1 /\ used[p] > 0
  <2>1. used[p] = Cardinality(Outside(p)) /\ b \in Outside(p)
    BY <1>0, <1>2, <1>3, CalmNow DEF Outside, Inside, p
  <2> QED
    BY <2>1, Finite, OneMore
<1>5. /\ \A q \in Pages : localFree'[q] = IF q = p THEN localFree[p] \cup {b} ELSE localFree[q]
      /\ \A q \in Pages : used'[q] = IF q = p THEN used[p] - 1 ELSE used[q]
      /\ localFree' \in [Pages -> SUBSET Blocks] /\ used' \in [Pages -> Nat]
  BY <1>0, <1>1, <1>2, <1>4 DEF TypeOK
<1>6. TypeOK'
  BY <1>0, <1>1, <1>5, ReturnIs DEF TypeOK, Labels, Locs
<1>7. HomeInv'
  BY <1>0, <1>2, <1>5 DEF IInv, HomeInv, BlocksOf, Seg
<1>8. ASSUME NEW c \in Blocks PROVE PlaceOK(c)'
  <2>1. PlaceOK(c) /\ PageOf[c] \in Pages
    BY <1>1, PlaceIs
  <2>2. CASE c = b
    <3>1. Inside(b)' /\ b \notin free'[PageOf[b]] /\ InUse(PageOf[b])' /\ ~Pushed(b)' /\ ~Held(b)'
      BY <1>0, <1>2, <1>3, <1>5 DEF Inside, InUse, Pushed, Held, p, Seg
    <3>2. \A u \in Threads : loc'[u].block # b
      <4>1. \A u \in Threads \ {t} : loc[u].block # b
        BY <1>b, <2>1, <2>2 DEF PlaceOK
      <4>2. \A u \in Threads \ {t} : loc'[u].block # b
        BY <1>0, <4>1, ReturnIs
      <4> QED
        BY <1>0, <1>2, <4>2, ReturnIs, PlaceAssumption
    <3> QED
      BY <2>2, <3>1, <3>2 DEF PlaceOK, Leaving
  <2>3. CASE c # b
    <3>1. \A u \in Threads : loc'[u].block = c <=> loc[u].block = c
      BY <1>b, <1>0, <2>3, ReturnIs, PlaceAssumption
    <3>2. c \in localFree'[PageOf[c]] <=> c \in localFree[PageOf[c]]
      BY <1>5, <2>1, <2>3
    <3>3. Stays(c)
      BY <1>0, <3>1, <3>2 DEF Stays, InUse, Pushed, Held, Seg
    <3> QED
      BY <2>1, <3>3, StayFrame
  <2> QED
    BY <2>2, <2>3
<1>9. ASSUME NEW q \in Pages, InUse(q) PROVE used'[q] = Cardinality(Outside(q)')
  <2>1. Outside(q)' = IF q = p THEN Outside(p) \ {b} ELSE Outside(q)
    BY <1>0, <1>5 DEF Outside, BlocksOf
  <2>2. used[q] = Cardinality(Outside(q))
    BY <1>0, <1>9, CalmNow
  <2> QED
    BY <1>4, <1>5, <2>1, <2>2
<1>10. \A c \in Blocks : Held(c)' => Held(c)
  BY <1>0 DEF Held
<1> QED
  BY <1>0, <1>6, <1>7, <1>8, <1>9, <1>10, ReturnIs, Moved

(* cxl_free of a block of another thread.                                  *)
LEMMA PushStep ==
  ASSUME IInv, NEW t \in Threads, Push(t)
  PROVE  IInv'
<1>b. PICK b : b = loc[t].block
  OBVIOUS
<1> DEFINE s == Seg(b)
<1>0. /\ mode[t] = "live" /\ pc[t] = "push" /\ Return(t)
      /\ threadFree' = [threadFree EXCEPT ![s] = @ \cup {b}]
      /\ UNCHANGED <<owner, state, header, segUsed, kind, free, localFree, used>>
      /\ UNCHANGED <<pq, freePages, holders, junk, mode>>
  BY <1>b DEF Push, At, meta, memory, tls
<1>1. TypeOK /\ RegOK(t) /\ \A c \in Blocks : PlaceOK(c)
  BY <1>0, CalmNow DEF IInv
<1>2. b \in Blocks /\ s \in Segs
  <2>1. b \in Blocks
    BY <1>b, <1>0, <1>1 DEF RegOK, TypeOK
  <2> QED
    BY <2>1, PlaceIs
<1>3. InUse(PageOf[b]) /\ ~Inside(b) /\ ~Pushed(b) /\ ~Held(b) /\ Leaving(b)
  BY <1>b, <1>1, <1>2 DEF PlaceOK, Leaving
<1>4. /\ \A r \in Segs : threadFree'[r] = IF r = s THEN threadFree[s] \cup {b} ELSE threadFree[r]
      /\ threadFree' \in [Segs -> SUBSET Blocks]
  BY <1>0, <1>1, <1>2 DEF TypeOK
<1>5. TypeOK'
  BY <1>0, <1>1, <1>4, ReturnIs DEF TypeOK, Labels, Locs
<1>6. HomeInv'
  BY <1>0, <1>2, <1>4 DEF IInv, HomeInv, BlocksOf, Seg
<1>7. ASSUME NEW c \in Blocks PROVE PlaceOK(c)'
  <2>1. PlaceOK(c) /\ Seg(c) \in Segs
    BY <1>1, PlaceIs
  <2>2. CASE c = b
    <3>1. ~Inside(b)' /\ InUse(PageOf[b])' /\ Pushed(b)' /\ ~Held(b)'
      BY <1>0, <1>2, <1>3, <1>4 DEF Inside, InUse, Pushed, Held, Seg
    <3>2. \A u \in Threads : loc'[u].block # b
      <4>1. \A u \in Threads \ {t} : loc[u].block # b
        BY <1>b, <2>1, <2>2 DEF PlaceOK
      <4>2. \A u \in Threads \ {t} : loc'[u].block # b
        BY <1>0, <4>1, ReturnIs
      <4> QED
        BY <1>0, <1>2, <4>2, ReturnIs, PlaceAssumption
    <3> QED
      BY <2>2, <3>1, <3>2 DEF PlaceOK, Leaving, Inside
  <2>3. CASE c # b
    <3>1. \A u \in Threads : loc'[u].block = c <=> loc[u].block = c
      BY <1>b, <1>0, <2>3, ReturnIs, PlaceAssumption
    <3>2. Pushed(c)' <=> Pushed(c)
      BY <1>4, <2>1, <2>3 DEF Pushed, Seg
    <3>3. Stays(c)
      BY <1>0, <3>1, <3>2 DEF Stays, InUse, Held
    <3> QED
      BY <2>1, <3>3, StayFrame
  <2> QED
    BY <2>2, <2>3
<1>8. \A p \in Pages : InUse(p) => used'[p] = Cardinality(Outside(p)')
  BY <1>0, CalmNow DEF Outside, BlocksOf
<1>9. \A c \in Blocks : Held(c)' => Held(c)
  BY <1>0 DEF Held
<1> QED
  BY <1>0, <1>5, <1>6, <1>7, <1>8, <1>9, ReturnIs, Moved

(* The monitor drops a reference of a dead thread.                         *)
LEMMA DropDeadStep ==
  ASSUME IInv, NEW t \in Threads, NEW b \in Blocks, DropDead(t, b)
  PROVE  IInv'
<1>0. /\ mode[t] = "recover" /\ t \in holders[b]
      /\ holders' = [holders EXCEPT ![b] = @ \ {t}]
      /\ threadFree' = IF holders[b] = {t} /\ header[Seg(b)] # t
                       THEN [threadFree EXCEPT ![Seg(b)] = @ \cup {b}] ELSE threadFree
      /\ UNCHANGED <<owner, state, header, segUsed, kind, free, localFree, used>>
      /\ UNCHANGED <<pq, freePages, junk, pc, loc, mode>>
  BY DEF DropDead, meta, tls
<1>1. TypeOK /\ ~Calm /\ ~Calm'
  BY <1>0 DEF IInv, Calm
<1>2. /\ holders' \in [Blocks -> SUBSET Threads]
      /\ \A c \in Blocks : holders'[c] = IF c = b THEN holders[b] \ {t} ELSE holders[c]
  BY <1>0, <1>1 DEF TypeOK
<1>3. /\ threadFree' \in [Segs -> SUBSET Blocks]
      /\ \A s \in Segs : \A c \in threadFree'[s] : c \in threadFree[s] \/ (c = b /\ s = Seg(b))
  BY <1>0, <1>1 DEF TypeOK
<1>4. TypeOK'
  BY <1>0, <1>1, <1>2, <1>3 DEF TypeOK
<1>5. PhaseInv' /\ PlaceInv' /\ CountInv'
  BY <1>0, <1>1, <1>2 DEF IInv, PhaseInv, PlaceInv, CountInv
<1>6. SegInv' /\ ListInv' /\ RegInv'
  <2>1. SegInv' /\ ListInv'
    BY <1>0 DEF IInv, SegInv, ListInv, Mine, InUse
  <2>2. RegInv'
    BY <1>0 DEF IInv, RegInv, RegOK, Seg
  <2> QED
    BY <2>1, <2>2
<1>7. HomeInv'
  <2>1. \A p \in Pages : free'[p] \cup localFree'[p] \subseteq BlocksOf(p)
    BY <1>0 DEF IInv, HomeInv
  <2>2. \A s \in Segs : \A c \in threadFree'[s] : Seg(c) = s
    BY <1>3 DEF IInv, HomeInv
  <2> QED
    BY <2>1, <2>2 DEF HomeInv, BlocksOf, Seg
<1>8. HeldInv'
  <2> SUFFICES ASSUME NEW c \in Blocks, Held(c)' PROVE HeldOK(c)'
    BY DEF HeldInv, HeldOK
  <2>1. Held(c) /\ HeldOK(c)
    BY <1>2 DEF Held, IInv, HeldInv
  <2>2. kind[PageOf[c]] = Root => holders'[c] = {header[Seg(c)]}
    BY <1>0, <1>2, <2>1 DEF HeldOK, Held
  <2> QED
    BY <1>0, <2>1, <2>2 DEF HeldOK, InUse, Queue, Seg
<1> QED
  BY <1>4, <1>5, <1>6, <1>7, <1>8 DEF IInv

-----------------------------------------------------------------------------
(* Actions that give pages to threads and take them back.                  *)

(* cxl_page_fresh and cxl_page_init, up to the push or a stop before it.   *)
LEMMA FreshStep ==
  ASSUME IInv, NEW t \in Threads, NEW p \in Pages, Fresh(t, p) \/ StopInFresh(t, p)
  PROVE  IInv'
<1> DEFINE k == loc[t].kind
           s == SegOf[p]
           Pushes == /\ pq' = [pq EXCEPT ![t][k] = @ \cup {p}]
                     /\ pc' = [pc EXCEPT ![t] = "found"]
                     /\ loc' = [loc EXCEPT ![t].page = p] /\ mode' = mode
           Stops == /\ pq' = pq /\ pc' = pc /\ loc' = loc
                    /\ mode' = [mode EXCEPT ![t] = "crashed"]
<1>0. /\ mode[t] = "live" /\ pc[t] = "search" /\ p \in freePages[t] /\ loc[t].todo = {}
      /\ kind' = [kind EXCEPT ![p] = k]
      /\ free' = [free EXCEPT ![p] = BlocksOf(p)]
      /\ localFree' = [localFree EXCEPT ![p] = {}]
      /\ used' = [used EXCEPT ![p] = 0]
      /\ freePages' = [freePages EXCEPT ![t] = @ \ {p}]
      /\ segUsed' = [segUsed EXCEPT ![s] = @ + 1]
      /\ UNCHANGED <<owner, state, threadFree, header, holders>>
  <2>1. Prepare(t, p)
    BY DEF Fresh, StopInFresh
  <2> QED
    BY <2>1 DEF Prepare, At, sas
<1>c. Pushes \/ Stops
  BY DEF Fresh, StopInFresh, Goto
<1>j. \E J \in SUBSET BlocksOf(p) : junk' = (junk \ BlocksOf(p)) \cup J
  <2>1. \E J \in SUBSET Uncleared(p, k) : junk' = (junk \ BlocksOf(p)) \cup J
    BY DEF Fresh, StopInFresh
  <2> QED
    BY <2>1 DEF Uncleared
<1>1. TypeOK /\ RegOK(t) /\ ListOK(t) /\ \A c \in Blocks : PlaceOK(c)
  BY <1>0, CalmNow DEF IInv
<1>2. k \in Kinds /\ loc[t].block = None /\ s \in Segs /\ header[s] = t /\ kind[p] = None
  BY <1>0, <1>1, PlaceIs, CalmNow DEF RegOK, ListOK, Mine
<1>3. /\ pc' \in [Threads -> Labels] /\ loc' \in [Threads -> Locs]
      /\ loc'[t].block = None
      /\ Pushes => pc'[t] = "found" /\ loc'[t].page = p /\ loc'[t].kind = k
      /\ \A u \in Threads \ {t} : pc'[u] = pc[u] /\ loc'[u] = loc[u]
  <2>1. loc \in [Threads -> Locs] /\ loc[t] \in Locs /\ pc \in [Threads -> Labels]
        /\ [loc[t] EXCEPT !.page = p] \in Locs
    BY <1>1, LocField DEF TypeOK, Labels
  <2>2. CASE Pushes
    <3>1. loc'[t] = [loc[t] EXCEPT !.page = p]
      BY <2>1, <2>2
    <3>2. loc'[t].page = p /\ loc'[t].kind = k /\ loc'[t].block = loc[t].block
      BY <2>1, <3>1 DEF Locs
    <3> QED
      BY <1>2, <2>1, <2>2, <3>2 DEF Labels
  <2>3. CASE Stops
    <3>1. ~Pushes
      BY <1>0, <2>1, <2>3
    <3> QED
      BY <1>2, <2>1, <2>3, <3>1
  <2> QED
    BY <1>c, <2>2, <2>3
<1>m. /\ mode' \in [Threads -> {"live", "crashed", "recover", "gone"}]
      /\ mode'[t] \in {"live", "crashed"} /\ (mode'[t] = "live" => Pushes)
      /\ \A u \in Threads \ {t} : mode'[u] = mode[u]
  BY <1>0, <1>1, <1>c DEF TypeOK
<1>9. RegOK(t)'
  <2>1. CASE Pushes
    <3>1. p \in pq'[t][k]
      BY <1>1, <1>2, <2>1 DEF TypeOK
    <3> QED
      BY <1>0, <1>2, <1>3, <1>m, <2>1, <3>1 DEF RegOK
  <2>2. CASE Stops
    BY <1>0, <1>1, <1>m, <2>2 DEF RegOK
  <2> QED
    BY <1>c, <2>1, <2>2
<1>4. /\ \A q \in Pages : kind'[q] = IF q = p THEN k ELSE kind[q]
      /\ \A q \in Pages : free'[q] = IF q = p THEN BlocksOf(p) ELSE free[q]
      /\ \A q \in Pages : localFree'[q] = IF q = p THEN {} ELSE localFree[q]
      /\ \A q \in Pages : used'[q] = IF q = p THEN 0 ELSE used[q]
      /\ \A r \in Segs : segUsed'[r] = IF r = s THEN segUsed[s] + 1 ELSE segUsed[r]
  BY <1>0, <1>1 DEF TypeOK
<1>5. /\ freePages'[t] = freePages[t] \ {p}
      /\ \A j \in Kinds : /\ pq[t][j] \subseteq pq'[t][j]
                          /\ pq'[t][j] \subseteq pq[t][j] \cup (IF j = k THEN {p} ELSE {})
                          /\ Pushes => pq'[t][j] = pq[t][j] \cup (IF j = k THEN {p} ELSE {})
      /\ \A u \in Threads \ {t} : pq'[u] = pq[u] /\ freePages'[u] = freePages[u]
  BY <1>0, <1>1, <1>2, <1>c DEF TypeOK
<1>q. pq' \in [Threads -> [Kinds -> SUBSET Pages]]
  <2>1. pq \in [Threads -> [Kinds -> SUBSET Pages]]
    BY <1>1 DEF TypeOK
  <2> QED
    BY <1>2, <1>c, <2>1
<1> HIDE DEF k, Pushes, Stops
<1>6. TypeOK'
  <2>1. BlocksOf(p) \subseteq Blocks
    BY Finite
  <2>2. junk' \subseteq Blocks
    BY <1>1, <1>j, <2>1 DEF TypeOK
  <2>3. /\ kind' \in [Pages -> Kinds \cup {None}] /\ used' \in [Pages -> Nat]
        /\ free' \in [Pages -> SUBSET Blocks] /\ localFree' \in [Pages -> SUBSET Blocks]
        /\ segUsed' \in [Segs -> Nat] /\ freePages' \in [Threads -> SUBSET Pages]
    BY <1>0, <1>1, <1>2, <2>1 DEF TypeOK
  <2> QED
    BY <1>0, <1>1, <1>3, <1>m, <1>q, <2>2, <2>3 DEF TypeOK, Labels, Locs
<1>7. \A c \in Blocks : PageOf[c] = p => ~Inside(c) /\ ~Pushed(c) /\ ~Held(c) /\ ~Leaving(c)
  BY <1>1, <1>2 DEF PlaceOK, InUse
<1>8. Alone(t)
  BY <1>0, <1>2, <1>3, <1>4, <1>5, <1>m DEF Alone
<1>10. ListOK(t)'
  <2>1. /\ freePages[t] = Mine(t, None)
        /\ \A j \in Kinds : pq[t][j] = Mine(t, j)
        /\ mode'[t] # "gone"
    BY <1>0, <1>1, <1>m DEF ListOK
  <2>2. k # None /\ (\A j \in Kinds : j # None) /\ header' = header
    BY <1>0, <1>2, PlaceIs
  <2>3. Mine(t, None)' = Mine(t, None) \ {p}
    BY <1>4, <2>2 DEF Mine
  <2>4. \A j \in Kinds : Mine(t, j)' = Mine(t, j) \cup (IF j = k THEN {p} ELSE {})
    BY <1>2, <1>4, <2>2 DEF Mine, s
  <2>5. freePages'[t] = Mine(t, None)'
    BY <1>5, <2>1, <2>3
  <2>6. ASSUME NEW j \in Kinds
        PROVE  /\ pq'[t][j] \subseteq Mine(t, j)'
               /\ mode'[t] = "live" => pq'[t][j] = Mine(t, j)'
    BY <1>5, <1>m, <2>1, <2>4
  <2>7. mode'[t] # "gone"
    BY <2>1
  <2> QED
    BY <2>5, <2>6, <2>7 DEF ListOK
<1>11. ListInv' /\ RegInv'
  BY <1>8, <1>9, <1>10, ListFrame, RegFrame
<1>12. PhaseInv' /\ SegInv'
  <2>1. SegInv'
    BY <1>0, <1>2, <1>4, PlaceIs DEF IInv, SegInv, InUse
  <2>2. Calm /\ Calm'
    BY <1>0, <1>m, CalmNow DEF Calm
  <2> QED
    BY <1>0, <1>m, <2>1, <2>2, CalmNow DEF PhaseInv
<1>13. HomeInv'
  BY <1>0, <1>4 DEF IInv, HomeInv, BlocksOf, Seg
<1>14. ASSUME NEW c \in Blocks PROVE PlaceOK(c)' /\ HeldOK(c)'
  <2>1. PlaceOK(c) /\ HeldOK(c) /\ PageOf[c] \in Pages /\ c \in BlocksOf(PageOf[c])
    BY <1>1, PlaceIs DEF IInv, HeldInv
  <2>2. CASE PageOf[c] = p
    <3>1. /\ c \in free'[p] /\ c \notin localFree'[p] /\ InUse(p)'
          /\ ~Pushed(c)' /\ ~Held(c)' /\ ~Leaving(c)'
      <4>1. c \in free'[p] /\ c \notin localFree'[p] /\ InUse(p)'
        BY <1>2, <1>4, <2>1, <2>2, PlaceIs DEF InUse
      <4>2. ~Pushed(c)' /\ ~Held(c)'
        BY <1>0, <1>7, <2>2 DEF Pushed, Held, Seg
      <4>3. ~Leaving(c)'
        BY <1>3, <1>7, <2>2, PlaceAssumption DEF Leaving
      <4> QED
        BY <4>1, <4>2, <4>3
    <3>2. \A u \in Threads : loc'[u].block # c
      BY <3>1 DEF Leaving
    <3>3. HeldOK(c)'
      BY <3>1 DEF HeldOK
    <3> QED
      BY <2>2, <3>1, <3>2, <3>3 DEF PlaceOK, Inside
  <2>3. CASE PageOf[c] # p
    <3>1. \A u \in Threads : loc'[u].block = c <=> loc[u].block = c
      BY <1>2, <1>3
    <3>2. Stays(c)
      BY <1>0, <1>4, <2>1, <2>3, <3>1 DEF Stays, InUse, Pushed, Held, Seg
    <3>3. HeldOK(c)'
      <4>1. SUFFICES ASSUME Held(c) PROVE HeldOK(c)'
        BY <1>0 DEF HeldOK, Held
      <4>2. /\ HeldOK(c) /\ InUse(PageOf[c])
            /\ header[Seg(c)] \in Threads /\ kind[PageOf[c]] \in Kinds
        BY <2>1, <4>1, OwnerIs DEF HeldOK
      <4>3. mode[header[Seg(c)]] # "gone"
        BY <1>0, <4>2, CalmNow
      <4>4. PageOf[c] \in pq[header[Seg(c)]][kind[PageOf[c]]]
        BY <4>1, <4>2, <4>3 DEF HeldOK, Queue
      <4>5. PageOf[c] \in pq'[header[Seg(c)]][kind[PageOf[c]]]
        BY <1>5, <4>2, <4>4
      <4>6. /\ kind'[PageOf[c]] = kind[PageOf[c]] /\ free'[PageOf[c]] = free[PageOf[c]]
            /\ Seg(c)' = Seg(c)
        BY <1>4, <2>1, <2>3 DEF Seg
      <4> QED
        BY <1>0, <4>1, <4>2, <4>5, <4>6 DEF HeldOK, InUse, Queue
    <3> QED
      BY <2>1, <3>2, <3>3, StayFrame
  <2> QED
    BY <2>2, <2>3
<1>15. PlaceInv' /\ HeldInv'
  BY <1>14 DEF PlaceInv, HeldInv
<1>16. CountInv'
  <2>1. ASSUME NEW q \in Pages, InUse(q)' PROVE used'[q] = Cardinality(Outside(q)')
    <3>1. CASE q = p
      <4>1. Outside(p)' = {}
        BY <1>4 DEF Outside, BlocksOf
      <4> QED
        BY <1>4, <3>1, <4>1, FS_EmptySet
    <3>2. CASE q # p
      <4>1. Outside(q)' = Outside(q) /\ InUse(q)
        BY <1>4, <2>1, <3>2 DEF Outside, BlocksOf, InUse
      <4> QED
        BY <1>0, <1>4, <3>2, <4>1, CalmNow
    <3> QED
      BY <3>1, <3>2
  <2>2. ASSUME NEW r \in Segs, header'[r] # 0 PROVE segUsed'[r] = Cardinality(PagesUsed(r)')
    <3>1. segUsed[r] = Cardinality(PagesUsed(r))
      BY <1>0, <2>2, CalmNow
    <3>2. CASE r = s
      <4>1. p \notin PagesUsed(s)
        BY <1>2 DEF PagesUsed, InUse
      <4>2. PagesUsed(s)' = PagesUsed(s) \cup {p}
        BY <1>2, <1>4, PlaceIs DEF PagesUsed, PagesOf, InUse
      <4> QED
        BY <1>4, <3>1, <3>2, <4>1, <4>2, OneMore, Finite
    <3>3. CASE r # s
      <4>1. PagesUsed(r)' = PagesUsed(r)
        BY <1>4, <3>3 DEF PagesUsed, PagesOf, InUse
      <4> QED
        BY <1>4, <3>1, <3>3, <4>1
    <3> QED
      BY <3>2, <3>3
  <2> QED
    BY <2>1, <2>2 DEF CountInv
<1> QED
  BY <1>6, <1>11, <1>12, <1>13, <1>15, <1>16 DEF IInv

(* The stores of cxl_segment_alloc after its swap.                         *)
LEMMA InitSegmentStep ==
  ASSUME IInv, NEW t \in Threads, InitSegment(t)
  PROVE  IInv'
<1>s. PICK s : s = loc[t].seg
  OBVIOUS
<1>0. /\ mode[t] = "live" /\ pc[t] = "taken"
      /\ state' = [state EXCEPT ![s] = "normal"]
      /\ threadFree' = [threadFree EXCEPT ![s] = {}]
      /\ header' = [header EXCEPT ![s] = t]
      /\ segUsed' = [segUsed EXCEPT ![s] = 0]
      /\ freePages' = [freePages EXCEPT ![t] = PagesOf(s)]
      /\ pc' = [pc EXCEPT ![t] = "search"]
      /\ UNCHANGED <<owner, kind, free, localFree, used, pq, holders, junk, loc, mode>>
  BY <1>s DEF InitSegment, At, Goto, memory
<1>1. TypeOK /\ RegOK(t) /\ ListOK(t) /\ \A c \in Blocks : PlaceOK(c)
  BY <1>0, CalmNow DEF IInv
<1>2. /\ s \in Segs /\ owner[s] = t /\ header[s] = 0 /\ freePages[t] = {}
      /\ loc[t].kind \in Kinds /\ loc[t].todo \subseteq pq[t][loc[t].kind]
      /\ loc[t].block = None
  BY <1>s, <1>0, <1>1 DEF RegOK
<1>3. \A p \in Pages : SegOf[p] = s => ~InUse(p)
  BY <1>2 DEF IInv, SegInv
<1>4. /\ \A r \in Segs : header'[r] = IF r = s THEN t ELSE header[r]
      /\ \A r \in Segs : threadFree'[r] = IF r = s THEN {} ELSE threadFree[r]
      /\ \A r \in Segs : segUsed'[r] = IF r = s THEN 0 ELSE segUsed[r]
      /\ freePages'[t] = PagesOf(s)
      /\ \A u \in Threads \ {t} : pc'[u] = pc[u] /\ freePages'[u] = freePages[u]
      /\ pc'[t] = "search"
  BY <1>0, <1>1, <1>2 DEF TypeOK
<1>5. TypeOK'
  <2>1. PagesOf(s) \subseteq Pages
    BY Finite
  <2>2. /\ state' \in [Segs -> {"normal", "abandon"}] /\ segUsed' \in [Segs -> Nat]
        /\ threadFree' \in [Segs -> SUBSET Blocks] /\ header' \in [Segs -> Threads \cup {0}]
        /\ freePages' \in [Threads -> SUBSET Pages] /\ pc' \in [Threads -> Labels]
    BY <1>0, <1>1, <2>1 DEF TypeOK, Labels
  <2> QED
    BY <1>0, <1>1, <2>2 DEF TypeOK, Labels
<1>6. Alone(t)
  BY <1>0, <1>2, <1>4 DEF Alone
<1>7. RegOK(t)'
  BY <1>0, <1>2, <1>4 DEF RegOK
<1>8. ListOK(t)'
  <2>1. /\ Mine(t, None) = {} /\ \A j \in Kinds : pq[t][j] = Mine(t, j)
        /\ mode'[t] = "live"
    BY <1>0, <1>1, <1>2, CalmNow DEF ListOK
  <2>2. \A q \in Pages : header'[SegOf[q]] = IF SegOf[q] = s THEN t ELSE header[SegOf[q]]
    BY <1>4, PlaceIs
  <2>3. \A q \in Pages : SegOf[q] = s => kind[q] = None
    BY <1>3 DEF InUse
  <2>4. Mine(t, None)' = PagesOf(s)
    BY <1>0, <2>1, <2>2, <2>3 DEF PagesOf, Mine
  <2>5. \A j \in Kinds : Mine(t, j)' = Mine(t, j)
    BY <1>0, <1>2, <2>2, <2>3, PlaceIs DEF Mine
  <2> QED
    BY <1>0, <1>4, <2>1, <2>4, <2>5 DEF ListOK
<1>9. ListInv' /\ RegInv'
  BY <1>6, <1>7, <1>8, ListFrame, RegFrame
<1>10. PhaseInv' /\ SegInv'
  <2>1. SegInv'
    BY <1>0, <1>2, <1>4, PlaceIs DEF IInv, SegInv, InUse
  <2> QED
    BY <1>0, <2>1, PhaseFrame
<1>11. HomeInv'
  BY <1>0, <1>4 DEF IInv, HomeInv, BlocksOf, Seg
<1>12. ASSUME NEW c \in Blocks PROVE PlaceOK(c)' /\ HeldOK(c)'
  <2>1. PlaceOK(c) /\ HeldOK(c) /\ PageOf[c] \in Pages /\ Seg(c) = SegOf[PageOf[c]]
        /\ Seg(c) \in Segs
    BY <1>1, PlaceIs DEF IInv, HeldInv, Seg
  <2>2. Seg(c) = s => ~Pushed(c) /\ ~Held(c)
    BY <1>3, <2>1 DEF PlaceOK
  <2>3. Pushed(c)' <=> Pushed(c)
    <3>1. Pushed(c)' = (c \in threadFree'[Seg(c)]) /\ Pushed(c) = (c \in threadFree[Seg(c)])
      BY DEF Pushed, Seg
    <3> QED
      BY <1>4, <2>1, <2>2, <3>1
  <2>4. Stays(c)
    BY <1>0, <2>3 DEF Stays, InUse, Held
  <2>5. HeldOK(c)'
    <3>1. (Held(c)' <=> Held(c)) /\ Seg(c)' = Seg(c) /\ (InUse(PageOf[c])' <=> InUse(PageOf[c]))
      BY <1>0 DEF Held, Seg, InUse
    <3>2. Held(c) => header'[Seg(c)] = header[Seg(c)]
      BY <1>4, <2>1, <2>2
    <3> QED
      BY <1>0, <2>1, <3>1, <3>2 DEF HeldOK, Queue
  <2> QED
    BY <2>1, <2>4, <2>5, StayFrame
<1>13. PlaceInv' /\ HeldInv'
  BY <1>12 DEF PlaceInv, HeldInv
<1>14. CountInv'
  <2>1. \A q \in Pages : InUse(q)' => used'[q] = Cardinality(Outside(q)')
    <3>1. \A q \in Pages : Outside(q)' = Outside(q) /\ (InUse(q)' <=> InUse(q))
      BY <1>0 DEF Outside, BlocksOf, InUse
    <3> QED
      BY <1>0, <3>1, CalmNow
  <2>2. ASSUME NEW r \in Segs, header'[r] # 0 PROVE segUsed'[r] = Cardinality(PagesUsed(r)')
    <3>1. PagesUsed(r)' = PagesUsed(r)
      BY <1>0 DEF PagesUsed, PagesOf, InUse
    <3>2. CASE r = s
      <4>1. PagesUsed(s) = {}
        BY <1>3 DEF PagesUsed, PagesOf
      <4> QED
        BY <1>4, <3>1, <3>2, <4>1, FS_EmptySet
    <3>3. CASE r # s
      BY <1>0, <1>4, <2>2, <3>1, <3>3, CalmNow
    <3> QED
      BY <3>2, <3>3
  <2> QED
    BY <2>1, <2>2 DEF CountInv
<1> QED
  BY <1>5, <1>9, <1>10, <1>11, <1>13, <1>14 DEF IInv

(* cxl_page_free when the last block in use is freed, and                  *)
(* cxl_segment_free when that was the last page in use.                    *)
LEMMA ReleasePageStep ==
  ASSUME IInv, NEW t \in Threads, FreeLocal(t), LastBlock(PageOf[loc[t].block])
  PROVE  IInv'
<1>b. PICK b : b = loc[t].block
  OBVIOUS
<1> DEFINE p == PageOf[b]
           s == SegOf[p]
<1>0. /\ mode[t] = "live" /\ pc[t] = "free" /\ header[s] = t /\ used[p] = 1
      /\ kind' = [kind EXCEPT ![p] = None]
      /\ free' = [free EXCEPT ![p] = {}]
      /\ localFree' = [localFree EXCEPT ![p] = {}]
      /\ used' = [used EXCEPT ![p] = 0]
      /\ pq' = [pq EXCEPT ![t] = [k \in Kinds |-> pq[t][k] \ {p}]]
      /\ segUsed' = [segUsed EXCEPT ![s] = @ - 1]
      /\ UNCHANGED <<owner, state, threadFree, holders, junk, mode>>
  BY <1>b DEF FreeLocal, LastBlock, ReleasePage, At, sas, memory, Seg
<1>c. IF segUsed[s] = 1
      THEN /\ freePages' = [freePages EXCEPT ![t] = @ \ PagesOf(s)]
           /\ header' = [header EXCEPT ![s] = 0]
           /\ loc' = [loc EXCEPT ![t] = [NoLocals EXCEPT !.seg = s]]
           /\ pc' = [pc EXCEPT ![t] = "give"]
      ELSE /\ freePages' = [freePages EXCEPT ![t] = @ \cup {p}]
           /\ Return(t) /\ header' = header
  BY <1>b DEF FreeLocal, LastBlock, ReleasePage, Goto
<1>1. TypeOK /\ RegOK(t) /\ ListOK(t) /\ \A c \in Blocks : PlaceOK(c)
  BY <1>0, CalmNow DEF IInv
<1>2. b \in Blocks /\ p \in Pages /\ b \in BlocksOf(p) /\ s \in Segs /\ p \in PagesOf(s)
  <2>1. b \in Blocks
    BY <1>b, <1>0, <1>1 DEF RegOK, TypeOK
  <2> QED
    BY <2>1, PlaceIs
<1>3. InUse(p) /\ ~Inside(b) /\ ~Pushed(b) /\ ~Held(b) /\ b \in Outside(p)
  <2>1. InUse(p) /\ ~Inside(b) /\ ~Pushed(b) /\ ~Held(b)
    BY <1>b, <1>1, <1>2 DEF PlaceOK, Leaving
  <2> QED
    BY <1>2, <2>1 DEF Outside, Inside
<1> HIDE DEF p, s
<1>4. Outside(p) = {b}
  <2>1. Cardinality(Outside(p)) = 1
    BY <1>0, <1>2, <1>3, CalmNow
  <2>2. \E y : Outside(p) = {y}
    BY <2>1, OneMore, Finite
  <2> QED
    BY <1>3, <2>2
<1>5. \A c \in Blocks : PageOf[c] = p /\ c # b =>
        Inside(c) /\ ~Pushed(c) /\ ~Held(c) /\ ~Leaving(c)
  <2> TAKE c \in Blocks
  <2>1. PageOf[c] = p /\ c # b => Inside(c)
    BY <1>4 DEF Outside, Inside, BlocksOf
  <2> QED
    BY <1>1, <2>1 DEF PlaceOK
<1>6. segUsed[s] = Cardinality(PagesUsed(s)) /\ p \in PagesUsed(s) /\ segUsed[s] - 1 \in Nat
      /\ Cardinality(PagesUsed(s) \ {p}) = segUsed[s] - 1
  <2>1. segUsed[s] = Cardinality(PagesUsed(s)) /\ p \in PagesUsed(s)
    BY <1>0, <1>2, <1>3, CalmNow, PlaceIs DEF PagesUsed
  <2>2. segUsed[s] \in Nat
    BY <1>1, <1>2 DEF TypeOK
  <2>3. Cardinality(PagesUsed(s)) > 0 /\ Cardinality(PagesUsed(s) \ {p}) = Cardinality(PagesUsed(s)) - 1
    BY <2>1, Finite, OneMore
  <2> QED
    BY <2>1, <2>2, <2>3
<1>7. /\ \A q \in Pages : kind'[q] = IF q = p THEN None ELSE kind[q]
      /\ \A q \in Pages : free'[q] = IF q = p THEN {} ELSE free[q]
      /\ \A q \in Pages : localFree'[q] = IF q = p THEN {} ELSE localFree[q]
      /\ \A q \in Pages : used'[q] = IF q = p THEN 0 ELSE used[q]
      /\ \A r \in Segs : segUsed'[r] = IF r = s THEN segUsed[s] - 1 ELSE segUsed[r]
      /\ \A j \in Kinds : pq'[t][j] = pq[t][j] \ {p}
      /\ \A u \in Threads \ {t} : pq'[u] = pq[u]
  BY <1>0, <1>1 DEF TypeOK
<1>8. segUsed[s] = 1 => \A q \in Pages : SegOf[q] = s /\ InUse(q) => q = p
  <2>1. segUsed[s] = 1 => \E y : PagesUsed(s) = {y}
    BY <1>6, OneMore, Finite
  <2> QED
    BY <1>6, <2>1 DEF PagesUsed, PagesOf
<1>9. /\ pc' \in [Threads -> Labels] /\ loc' \in [Threads -> Locs]
      /\ \A u \in Threads \ {t} : pc'[u] = pc[u] /\ loc'[u] = loc[u]
      /\ loc'[t].block = None
      /\ segUsed[s] = 1 => pc'[t] = "give" /\ loc'[t].seg = s
      /\ segUsed[s] # 1 => RegOK(t)'
  <2>1. CASE segUsed[s] = 1
    <3>1. /\ loc \in [Threads -> Locs] /\ [NoLocals EXCEPT !.seg = s] \in Locs
          /\ pc \in [Threads -> Labels]
      BY <1>1, <1>2, LocField DEF TypeOK, Labels
    <3>2. loc'[t] = [NoLocals EXCEPT !.seg = s]
      BY <1>c, <2>1, <3>1
    <3>3. loc'[t].block = None /\ loc'[t].seg = s
      BY <3>2 DEF NoLocals
    <3> QED
      BY <1>c, <2>1, <3>1, <3>3 DEF Labels
  <2>2. CASE segUsed[s] # 1
    BY <1>c, <2>2, ReturnIs
  <2> QED
    BY <2>1, <2>2
<1>10. /\ \A r \in Segs : header'[r] = IF r = s /\ segUsed[s] = 1 THEN 0 ELSE header[r]
       /\ freePages'[t] = IF segUsed[s] = 1 THEN freePages[t] \ PagesOf(s)
                                            ELSE freePages[t] \cup {p}
       /\ \A u \in Threads \ {t} : freePages'[u] = freePages[u]
       /\ header' \in [Segs -> Threads \cup {0}] /\ freePages' \in [Threads -> SUBSET Pages]
  <2>1. header \in [Segs -> Threads \cup {0}] /\ freePages \in [Threads -> SUBSET Pages]
    BY <1>1 DEF TypeOK
  <2>2. CASE segUsed[s] = 1
    BY <1>c, <1>2, <2>1, <2>2
  <2>3. CASE segUsed[s] # 1
    BY <1>c, <1>2, <2>1, <2>3
  <2> QED
    BY <2>2, <2>3
<1>11. TypeOK'
  <2>1. /\ kind' \in [Pages -> Kinds \cup {None}] /\ used' \in [Pages -> Nat]
        /\ free' \in [Pages -> SUBSET Blocks] /\ localFree' \in [Pages -> SUBSET Blocks]
        /\ segUsed' \in [Segs -> Nat]
    BY <1>0, <1>1, <1>6 DEF TypeOK
  <2>2. pq' \in [Threads -> [Kinds -> SUBSET Pages]]
    <3>1. pq \in [Threads -> [Kinds -> SUBSET Pages]]
      BY <1>1 DEF TypeOK
    <3>2. [k \in Kinds |-> pq[t][k] \ {p}] \in [Kinds -> SUBSET Pages]
      BY <3>1
    <3> QED
      BY <1>0, <3>1, <3>2
  <2> QED
    BY <1>0, <1>1, <1>9, <1>10, <2>1, <2>2 DEF TypeOK, Labels, Locs
<1>12. Alone(t)
  <2>1. \A r \in Segs : header'[r] \in {header[r], 0} /\ (owner[r] # t => header'[r] = header[r])
    BY <1>0, <1>2, <1>10, PlaceIs DEF IInv, SegInv
  <2>2. \A q \in Pages : header[SegOf[q]] # t => kind'[q] = kind[q]
    BY <1>0, <1>7 DEF s
  <2> QED
    BY <1>0, <1>7, <1>9, <1>10, <2>1, <2>2 DEF Alone
<1>13. RegOK(t)'
  <2>1. CASE segUsed[s] = 1
    <3>1. owner'[s] = t /\ header'[s] = 0
      BY <1>0, <1>2, <1>10, <2>1, PlaceIs DEF IInv, SegInv
    <3> QED
      BY <1>0, <1>2, <1>9, <2>1, <3>1 DEF RegOK
  <2> QED
    BY <1>9, <2>1
<1>14. ListOK(t)'
  <2>1. /\ freePages[t] = Mine(t, None) /\ \A j \in Kinds : pq[t][j] = Mine(t, j)
        /\ mode'[t] = "live"
    BY <1>0, <1>1, CalmNow DEF ListOK
  <2>2. /\ \A j \in Kinds : j # None
        /\ \A q \in Pages : header'[SegOf[q]] = t <=>
             header[SegOf[q]] = t /\ ~(SegOf[q] = s /\ segUsed[s] = 1)
    BY <1>10, PlaceIs
  <2>3. freePages'[t] = Mine(t, None)'
    <3>1. header[SegOf[p]] = t /\ SegOf[p] = s
      BY <1>0 DEF s
    <3>2. CASE segUsed[s] = 1
      BY <1>7, <1>10, <2>1, <2>2, <3>1, <3>2 DEF PagesOf, Mine
    <3>3. CASE segUsed[s] # 1
      BY <1>2, <1>7, <1>10, <2>1, <2>2, <3>1, <3>3 DEF Mine
    <3> QED
      BY <3>2, <3>3
  <2>4. \A j \in Kinds : pq'[t][j] = Mine(t, j)'
    <3> TAKE j \in Kinds
    <3>1. \A q \in Pages : q \in pq[t][j] /\ q # p => ~(SegOf[q] = s /\ segUsed[s] = 1)
      BY <1>8, <2>1, <2>2 DEF InUse, Mine
    <3>2. pq[t][j] = {q \in Pages : header[SegOf[q]] = t /\ kind[q] = j}
      BY <2>1 DEF Mine
    <3> QED
      BY <1>7, <2>2, <3>1, <3>2 DEF Mine
  <2> QED
    BY <2>1, <2>3, <2>4 DEF ListOK
<1>15. ListInv' /\ RegInv'
  BY <1>12, <1>13, <1>14, ListFrame, RegFrame
<1>16. PhaseInv' /\ SegInv'
  <2>1. \A r \in Segs : header'[r] \in {0, owner[r]}
    BY <1>10 DEF IInv, SegInv
  <2>2. \A q \in Pages : InUse(q)' => InUse(q) /\ ~(SegOf[q] = s /\ segUsed[s] = 1)
    BY <1>7, <1>8 DEF InUse
  <2>3. SegInv'
    BY <1>0, <1>10, <2>1, <2>2, PlaceIs DEF IInv, SegInv
  <2> QED
    BY <1>0, <2>3, PhaseFrame
<1>17. HomeInv'
  BY <1>0, <1>7 DEF IInv, HomeInv, BlocksOf, Seg
<1>18. ASSUME NEW c \in Blocks PROVE PlaceOK(c)' /\ HeldOK(c)'
  <2>1. PlaceOK(c) /\ HeldOK(c) /\ PageOf[c] \in Pages /\ Seg(c) \in Segs
        /\ Seg(c) = SegOf[PageOf[c]]
    BY <1>1, PlaceIs DEF IInv, HeldInv, Seg
  <2>2. \A u \in Threads : loc'[u].block = c <=> loc[u].block = c /\ c # b
    <3>1. \A u \in Threads \ {t} : loc[u].block # b
      BY <1>b, <1>1, <1>2 DEF PlaceOK
    <3> QED
      BY <1>b, <1>9, <3>1, PlaceAssumption
  <2>3. (Pushed(c)' <=> Pushed(c)) /\ (Held(c)' <=> Held(c))
    BY <1>0 DEF Pushed, Held, Seg
  <2>4. CASE PageOf[c] = p
    <3>1. ~InUse(p)' /\ c \notin free'[p] /\ c \notin localFree'[p]
      BY <1>2, <1>7 DEF InUse
    <3>2. ~Pushed(c) /\ ~Held(c) /\ (c = b \/ ~Leaving(c))
      BY <1>3, <1>5, <2>4
    <3>3. \A u \in Threads : loc'[u].block # c
      BY <2>2, <3>2 DEF Leaving
    <3> QED
      BY <2>3, <2>4, <3>1, <3>2, <3>3 DEF PlaceOK, HeldOK, Inside, Leaving
  <2>5. CASE PageOf[c] # p
    <3>1. c # b
      BY <2>5 DEF p
    <3>2. Stays(c)
      BY <1>7, <2>1, <2>2, <2>3, <2>5, <3>1 DEF Stays, InUse
    <3>3. Held(c) => header'[Seg(c)] = header[Seg(c)]
      <4>1. Held(c) => InUse(PageOf[c])
        BY <2>1 DEF HeldOK
      <4> QED
        BY <1>8, <1>10, <2>1, <2>5, <4>1
    <3>4. HeldOK(c)'
      <4>1. /\ InUse(PageOf[c])' <=> InUse(PageOf[c])
            /\ kind'[PageOf[c]] = kind[PageOf[c]] /\ free'[PageOf[c]] = free[PageOf[c]]
        BY <1>7, <2>1, <2>5 DEF InUse
      <4>2. Seg(c)' = Seg(c)
        BY DEF Seg
      <4>3. ASSUME Held(c)
            PROVE  PageOf[c] \in pq'[header[Seg(c)]][kind[PageOf[c]]]
        <5>1. header[Seg(c)] \in Threads /\ kind[PageOf[c]] \in Kinds
          BY <2>1, <4>3, OwnerIs DEF HeldOK
        <5>2. PageOf[c] \in pq[header[Seg(c)]][kind[PageOf[c]]]
          BY <1>0, <2>1, <4>3, <5>1, CalmNow DEF HeldOK, Queue
        <5> QED
          BY <1>7, <2>5, <5>1, <5>2
      <4> QED
        BY <1>0, <2>1, <2>3, <3>3, <4>1, <4>2, <4>3 DEF HeldOK, Queue
    <3> QED
      BY <2>1, <3>2, <3>4, StayFrame
  <2> QED
    BY <2>4, <2>5
<1>19. PlaceInv' /\ HeldInv'
  BY <1>18 DEF PlaceInv, HeldInv
<1>20. CountInv'
  <2>1. ASSUME NEW q \in Pages, InUse(q)' PROVE used'[q] = Cardinality(Outside(q)')
    <3>1. q # p /\ InUse(q)
      BY <1>7, <2>1 DEF InUse
    <3>2. Outside(q)' = Outside(q) /\ used'[q] = used[q]
      BY <1>7, <3>1 DEF Outside, BlocksOf
    <3> QED
      BY <1>0, <3>1, <3>2, CalmNow
  <2>2. ASSUME NEW r \in Segs, header'[r] # 0 PROVE segUsed'[r] = Cardinality(PagesUsed(r)')
    <3>0. header[r] # 0
      BY <1>10, <2>2
    <3>1. CASE r = s
      <4>1. PagesUsed(s)' = PagesUsed(s) \ {p}
        BY <1>7 DEF PagesUsed, PagesOf, InUse
      <4> QED
        BY <1>6, <1>7, <3>1, <4>1
    <3>2. CASE r # s
      <4>1. PagesUsed(r)' = PagesUsed(r)
        BY <1>7, <3>2 DEF PagesUsed, PagesOf, InUse, s
      <4> QED
        BY <1>0, <1>7, <3>0, <3>2, <4>1, CalmNow
    <3> QED
      BY <3>1, <3>2
  <2> QED
    BY <2>1, <2>2 DEF CountInv
<1> QED
  BY <1>11, <1>15, <1>16, <1>17, <1>19, <1>20 DEF IInv

-----------------------------------------------------------------------------
(* What the monitor zeroes.                                                *)

Z(P, S) == P \cup {p \in Pages : SegOf[p] \in S}

LEMMA ZeroedIs ==
  ASSUME TypeOK, NEW P, NEW S, Zeroed(P, S)
  PROVE  /\ kind' \in [Pages -> Kinds \cup {None}] /\ used' \in [Pages -> Nat]
         /\ free' \in [Pages -> SUBSET Blocks] /\ localFree' \in [Pages -> SUBSET Blocks]
         /\ header' \in [Segs -> Threads \cup {0}] /\ segUsed' \in [Segs -> Nat]
         /\ \A p \in Pages : kind'[p] = IF p \in Z(P, S) THEN None ELSE kind[p]
         /\ \A p \in Pages : /\ free'[p] \subseteq free[p] /\ localFree'[p] \subseteq localFree[p]
         /\ \A s \in Segs : header'[s] = IF s \in S THEN 0 ELSE header[s]
<1>1. /\ kind' = [p \in Pages |-> IF p \in Z(P, S) THEN None ELSE kind[p]]
      /\ free' = [p \in Pages |-> IF p \in Z(P, S) THEN {} ELSE free[p]]
      /\ localFree' = [p \in Pages |-> IF p \in Z(P, S) THEN {} ELSE localFree[p]]
      /\ used' = [p \in Pages |-> IF p \in Z(P, S) THEN 0 ELSE used[p]]
      /\ header' = [s \in Segs |-> IF s \in S THEN 0 ELSE header[s]]
      /\ segUsed' = [s \in Segs |-> IF s \in S THEN 0 ELSE segUsed[s]]
  BY DEF Zeroed, Z
<1> QED
  BY <1>1 DEF TypeOK

(* A dead thread without references: its pages without an object are       *)
(* zeroed, its segments without a page that is kept given back.            *)
LEMMA FinishStep ==
  ASSUME IInv, NEW t \in Threads, Finish(t)
  PROVE  IInv'
<1> DEFINE gone == {s \in Segs : owner[s] = t /\ state[s] # "abandon" /\ s \notin Kept(t)}
           dead == {p \in Listed(t) : ~Alive(p)}
<1>0. /\ mode[t] = "recover" /\ \A b \in Blocks : t \notin holders[b]
      /\ Zeroed(dead, gone)
      /\ owner' = [s \in Segs |-> IF s \in gone THEN 0 ELSE owner[s]]
      /\ state' = [s \in Segs |-> IF s \in Kept(t) THEN "abandon" ELSE state[s]]
      /\ pq' = [pq EXCEPT ![t] = [k \in Kinds |-> {}]]
      /\ freePages' = [freePages EXCEPT ![t] = {}]
      /\ junk' = {b \in junk : PageOf[b] \in Listed(t) => ~First(b)}
      /\ mode' = [mode EXCEPT ![t] = "gone"]
      /\ UNCHANGED <<threadFree, holders, pc, loc>>
  BY DEF Finish
<1>1. TypeOK /\ ~Calm /\ \A u \in Threads : mode[u] # "live"
  BY <1>0 DEF IInv, PhaseInv, Calm
<1>2. \A s \in gone : s \in Segs /\ owner[s] = t /\ s \notin Kept(t)
  OBVIOUS
<1>3. \A p \in dead : p \in Listed(t) /\ ~Alive(p)
  OBVIOUS
<1>4. /\ kind' \in [Pages -> Kinds \cup {None}] /\ used' \in [Pages -> Nat]
      /\ free' \in [Pages -> SUBSET Blocks] /\ localFree' \in [Pages -> SUBSET Blocks]
      /\ header' \in [Segs -> Threads \cup {0}] /\ segUsed' \in [Segs -> Nat]
  BY <1>0, <1>1, ZeroedIs
<1>5. /\ \A p \in Pages : kind'[p] = IF p \in dead \/ SegOf[p] \in gone THEN None ELSE kind[p]
      /\ \A p \in Pages : free'[p] \subseteq free[p] /\ localFree'[p] \subseteq localFree[p]
      /\ \A s \in Segs : header'[s] = IF s \in gone THEN 0 ELSE header[s]
  <2>1. \A p \in Pages : p \in Z(dead, gone) <=> p \in dead \/ SegOf[p] \in gone
    BY DEF Z
  <2> HIDE DEF dead, gone
  <2>2. /\ \A p \in Pages : kind'[p] = IF p \in Z(dead, gone) THEN None ELSE kind[p]
        /\ \A p \in Pages : free'[p] \subseteq free[p] /\ localFree'[p] \subseteq localFree[p]
        /\ \A s \in Segs : header'[s] = IF s \in gone THEN 0 ELSE header[s]
    BY <1>0, <1>1, ZeroedIs
  <2> QED
    BY <2>1, <2>2
<1>6. \A p \in Pages : p \in Listed(t) => header[SegOf[p]] = t
  <2>1. \A k \in Kinds : pq[t][k] \subseteq Mine(t, k)
    BY <1>0 DEF IInv, ListInv
  <2> QED
    BY <2>1 DEF Listed, Mine
<1> HIDE DEF gone, dead
<1>7. /\ \A s \in Segs : owner'[s] = IF s \in gone THEN 0 ELSE owner[s]
      /\ owner' \in [Segs -> Threads \cup {0}] /\ state' \in [Segs -> {"normal", "abandon"}]
      /\ mode'[t] = "gone" /\ \A u \in Threads \ {t} : mode'[u] = mode[u]
      /\ mode' \in [Threads -> {"live", "crashed", "recover", "gone"}]
  BY <1>0, <1>1 DEF TypeOK
<1>8. /\ \A k \in Kinds : pq'[t][k] = {}
      /\ freePages'[t] = {}
      /\ \A u \in Threads \ {t} : pq'[u] = pq[u] /\ freePages'[u] = freePages[u]
      /\ freePages' \in [Threads -> SUBSET Pages]
  BY <1>0, <1>1 DEF TypeOK
<1>9. TypeOK'
  <2>1. pq' \in [Threads -> [Kinds -> SUBSET Pages]]
    <3>1. pq \in [Threads -> [Kinds -> SUBSET Pages]] /\ [k \in Kinds |-> {}] \in [Kinds -> SUBSET Pages]
      BY <1>1 DEF TypeOK
    <3> QED
      BY <1>0, <3>1
  <2>2. junk' \subseteq Blocks
    BY <1>0, <1>1 DEF TypeOK
  <2> QED
    BY <1>0, <1>1, <1>4, <1>7, <1>8, <2>1, <2>2 DEF TypeOK
<1>10. PhaseInv' /\ PlaceInv' /\ CountInv'
  <2>1. ~Calm'
    BY <1>7 DEF Calm
  <2>2. PhaseInv'
    BY <1>0, <1>1, <1>7 DEF IInv, PhaseInv
  <2> QED
    BY <2>1, <2>2 DEF PlaceInv, CountInv
<1>11. \A p \in Pages : InUse(p)' => InUse(p) /\ SegOf[p] \notin gone
  BY <1>5 DEF InUse
<1>12. SegInv'
  <2>1. \A s \in Segs : header'[s] \in {0, owner'[s]}
    BY <1>5, <1>7 DEF IInv, SegInv
  <2>2. \A p \in Pages : InUse(p)' => header'[SegOf[p]] # 0
    BY <1>5, <1>11, PlaceIs DEF IInv, SegInv
  <2> QED
    BY <2>1, <2>2 DEF SegInv
<1>13. Alone(t)
  <2>1. \A s \in Segs : header[s] \in {0, owner[s]}
    BY DEF IInv, SegInv
  <2>2. \A p \in Pages : header[SegOf[p]] \notin {0, t} => kind'[p] = kind[p]
    <3> SUFFICES ASSUME NEW p \in Pages, header[SegOf[p]] \notin {0, t} PROVE kind'[p] = kind[p]
      OBVIOUS
    <3>1. p \notin dead
      BY <1>3, <1>6
    <3>2. SegOf[p] \notin gone
      BY <1>2, <2>1, PlaceIs
    <3> QED
      BY <1>5, <3>1, <3>2
  <2> QED
    BY <1>0, <1>2, <1>5, <1>7, <1>8, <2>2 DEF Alone
<1>14. ListInv' /\ RegInv'
  <2>1. RegOK(t)'
    <3>1. RegOK(t)
      BY DEF IInv, RegInv
    <3> QED
      BY <1>0, <3>1 DEF RegOK
  <2>2. ListOK(t)'
    BY <1>7, <1>8 DEF ListOK
  <2> QED
    BY <1>13, <2>1, <2>2, ListFrame, RegFrame
<1>15. HomeInv'
  BY <1>0, <1>5 DEF IInv, HomeInv, BlocksOf, Seg
<1>16. HeldInv'
  <2> SUFFICES ASSUME NEW b \in Blocks, Held(b)' PROVE HeldOK(b)'
    BY DEF HeldInv, HeldOK
  <2> DEFINE p == PageOf[b]
  <2>1. p \in Pages /\ Seg(b) = SegOf[p] /\ Seg(b) \in Segs /\ b \in BlocksOf(p)
    BY PlaceIs DEF Seg
  <2>2. /\ Held(b) /\ InUse(p) /\ b \notin free[p]
        /\ kind[p] = Root => holders[b] = {header[Seg(b)]}
        /\ mode[header[Seg(b)]] # "gone" => p \in pq[header[Seg(b)]][kind[p]]
    BY <1>0 DEF Held, IInv, HeldInv, HeldOK, Queue
  <2>0. header[Seg(b)] \in Threads /\ kind[p] \in Kinds
    BY <2>2, OwnerIs
  <2>3. SegOf[p] \notin gone /\ p \notin dead
    <3>1. CASE header[SegOf[p]] = t
      <4>1. kind[p] # Root
        BY <1>0, <2>1, <2>2, <3>1
      <4>2. kind[p] \in Sizes
        BY <1>1, <2>1, <2>2, <4>1 DEF TypeOK, InUse, Kinds
      <4>3. Counted(b) /\ ~First(b)
        BY <2>2, <4>2 DEF Counted, Held, First
      <4>4. Alive(p) /\ p \in Listed(t)
        BY <1>0, <2>0, <2>1, <2>2, <3>1, <4>2, <4>3 DEF Alive, Listed
      <4>5. SegOf[p] \in Kept(t)
        BY <4>4 DEF Kept
      <4> QED
        BY <1>2, <1>3, <4>4, <4>5
    <3>2. CASE header[SegOf[p]] # t
      <4>1. header[SegOf[p]] = owner[SegOf[p]]
        BY <2>1, <2>2 DEF IInv, SegInv
      <4> QED
        BY <1>2, <1>3, <1>6, <2>1, <3>2, <4>1
    <3> QED
      BY <3>1, <3>2
  <2>4. kind'[p] = kind[p] /\ header'[Seg(b)] = header[Seg(b)] /\ b \notin free'[p]
    BY <1>5, <2>1, <2>2, <2>3
  <2>5. Seg(b)' = Seg(b)
    BY DEF Seg
  <2>6. mode'[header[Seg(b)]] # "gone" => p \in pq'[header[Seg(b)]][kind[p]]
    BY <1>7, <1>8, <2>0, <2>2
  <2> QED
    BY <1>0, <2>2, <2>4, <2>5, <2>6 DEF HeldOK, InUse, Queue
<1> QED
  BY <1>9, <1>10, <1>12, <1>14, <1>15, <1>16 DEF IInv

(* The segment pass, when every client is gone.                            *)
LEMMA SegmentPassStep ==
  ASSUME IInv, NEW s \in Segs, SegmentPass(s)
  PROVE  IInv'
<1>0. /\ \A u \in Threads : mode[u] = "gone"
      /\ owner[s] # 0
      /\ UNCHANGED <<pq, freePages, holders, junk, pc, loc, mode>>
  BY DEF SegmentPass, Vacant, tls, memory
<1>1. TypeOK
  BY DEF IInv
<1>2. ~Calm /\ ~Calm' /\ \A b \in Blocks : ~Held(b)
  <2>1. owner[s] \in Threads
    BY <1>0, <1>1 DEF TypeOK
  <2>2. \A b \in Blocks : holders[b] = {}
    BY <1>0, <1>1 DEF IInv, PhaseInv, TypeOK
  <2> QED
    BY <1>0, <2>1, <2>2 DEF Calm, Held
<1>3. \E P \in SUBSET Pages, S \in SUBSET {s} :
        /\ Zeroed(P, S)
        /\ \A r \in Segs : owner'[r] = IF r \in S THEN 0 ELSE owner[r]
        /\ owner' \in [Segs -> Threads \cup {0}] /\ state' \in [Segs -> {"normal", "abandon"}]
        /\ threadFree' \in [Segs -> SUBSET Blocks]
        /\ \A r \in Segs : threadFree'[r] \subseteq threadFree[r]
  <2> DEFINE live == {p \in PagesOf(s) : Live(p)}
             dead == {p \in PagesOf(s) : kind[p] # None /\ \A q \in live : p < q}
  <2>1. CASE live = {}
    <3>1. /\ Zeroed({}, {s}) /\ owner' = [owner EXCEPT ![s] = 0]
          /\ state' = [state EXCEPT ![s] = "normal"]
          /\ threadFree' = [threadFree EXCEPT ![s] = {}]
      BY <2>1 DEF SegmentPass
    <3>2. /\ \A r \in Segs : owner'[r] = IF r \in {s} THEN 0 ELSE owner[r]
          /\ owner' \in [Segs -> Threads \cup {0}] /\ state' \in [Segs -> {"normal", "abandon"}]
          /\ threadFree' \in [Segs -> SUBSET Blocks]
          /\ \A r \in Segs : threadFree'[r] \subseteq threadFree[r]
      BY <1>1, <3>1 DEF TypeOK
    <3>3. {} \in SUBSET Pages /\ {s} \in SUBSET {s}
      OBVIOUS
    <3> QED
      BY <3>1, <3>2, <3>3
  <2>2. CASE live # {}
    <3>1. Zeroed(dead, {}) /\ UNCHANGED <<owner, state, threadFree>>
      BY <2>2 DEF SegmentPass, sas
    <3>2. dead \in SUBSET Pages
      BY DEF PagesOf
    <3> HIDE DEF dead, live
    <3>3. /\ \A r \in Segs : owner'[r] = IF r \in {} THEN 0 ELSE owner[r]
          /\ owner' \in [Segs -> Threads \cup {0}] /\ state' \in [Segs -> {"normal", "abandon"}]
          /\ threadFree' \in [Segs -> SUBSET Blocks]
          /\ \A r \in Segs : threadFree'[r] \subseteq threadFree[r]
      BY <1>1, <3>1 DEF TypeOK
    <3>4. {} \in SUBSET {s}
      OBVIOUS
    <3> QED
      BY <3>1, <3>2, <3>3, <3>4
  <2> QED
    BY <2>1, <2>2
<1>4. PICK P \in SUBSET Pages, S \in SUBSET {s} :
        /\ Zeroed(P, S)
        /\ \A r \in Segs : owner'[r] = IF r \in S THEN 0 ELSE owner[r]
        /\ owner' \in [Segs -> Threads \cup {0}] /\ state' \in [Segs -> {"normal", "abandon"}]
        /\ threadFree' \in [Segs -> SUBSET Blocks]
        /\ \A r \in Segs : threadFree'[r] \subseteq threadFree[r]
  BY <1>3
<1>5. /\ kind' \in [Pages -> Kinds \cup {None}] /\ used' \in [Pages -> Nat]
      /\ free' \in [Pages -> SUBSET Blocks] /\ localFree' \in [Pages -> SUBSET Blocks]
      /\ header' \in [Segs -> Threads \cup {0}] /\ segUsed' \in [Segs -> Nat]
      /\ \A p \in Pages : kind'[p] = IF p \in P \/ SegOf[p] \in S THEN None ELSE kind[p]
      /\ \A p \in Pages : free'[p] \subseteq free[p] /\ localFree'[p] \subseteq localFree[p]
      /\ \A r \in Segs : header'[r] = IF r \in S THEN 0 ELSE header[r]
  BY <1>1, <1>4, ZeroedIs DEF Z
<1>6. TypeOK'
  BY <1>0, <1>1, <1>4, <1>5 DEF TypeOK
<1>7. PhaseInv' /\ PlaceInv' /\ CountInv' /\ HeldInv'
  <2>1. PhaseInv'
    BY <1>0 DEF IInv, PhaseInv, Calm
  <2>2. HeldInv'
    BY <1>0, <1>2 DEF HeldInv, HeldOK, Held
  <2> QED
    BY <1>2, <2>1, <2>2 DEF PlaceInv, CountInv
<1>8. SegInv'
  <2>1. \A r \in Segs : header'[r] \in {0, owner'[r]}
    BY <1>4, <1>5 DEF IInv, SegInv
  <2>2. \A p \in Pages : InUse(p)' => header'[SegOf[p]] # 0
    BY <1>5, PlaceIs DEF IInv, SegInv, InUse
  <2> QED
    BY <2>1, <2>2 DEF SegInv
<1>9. ListInv'
  BY <1>0 DEF IInv, ListInv
<1>10. RegInv'
  <2> SUFFICES ASSUME NEW u \in Threads PROVE RegOK(u)'
    BY DEF RegInv
  <2>1. RegOK(u)
    BY DEF IInv, RegInv
  <2> QED
    BY <1>0, <2>1 DEF RegOK
<1>11. HomeInv'
  BY <1>4, <1>5 DEF IInv, HomeInv, BlocksOf, Seg
<1> QED
  BY <1>6, <1>7, <1>8, <1>9, <1>10, <1>11 DEF IInv

-----------------------------------------------------------------------------
(* The theorems.                                                           *)

LEMMA InitInv == Init => IInv
<1> SUFFICES ASSUME Init PROVE IInv
  OBVIOUS
<1>0. /\ owner = [s \in Segs |-> 0] /\ state = [s \in Segs |-> "normal"]
      /\ threadFree = [s \in Segs |-> {}]
      /\ header = [s \in Segs |-> 0] /\ segUsed = [s \in Segs |-> 0]
      /\ kind = [p \in Pages |-> None]
      /\ free = [p \in Pages |-> {}] /\ localFree = [p \in Pages |-> {}]
      /\ used = [p \in Pages |-> 0]
      /\ pq = [t \in Threads |-> [k \in Kinds |-> {}]]
      /\ freePages = [t \in Threads |-> {}]
      /\ holders = [b \in Blocks |-> {}]
      /\ junk = {}
      /\ pc = [t \in Threads |-> "idle"]
      /\ loc = [t \in Threads |-> NoLocals]
      /\ mode = [t \in Threads |-> "live"]
  BY DEF Init
<1>1. NoLocals \in Locs /\ NoLocals.block = None
  BY DEF NoLocals, Locs
<1>2. TypeOK
  BY <1>0, <1>1 DEF TypeOK, Locs
<1>3. PhaseInv /\ SegInv /\ HomeInv
  BY <1>0, PlaceIs DEF PhaseInv, Calm, SegInv, InUse, HomeInv
<1>4. ListInv
  BY <1>0, PlaceIs DEF ListInv, Mine
<1>5. RegInv
  BY <1>0, <1>1 DEF RegInv, RegOK
<1>6. PlaceInv
  BY <1>0, <1>1, PlaceIs, PlaceAssumption DEF PlaceInv, PlaceOK, InUse, Inside, Pushed, Held, Leaving
<1>7. CountInv /\ HeldInv
  BY <1>0, PlaceIs DEF CountInv, InUse, HeldInv, HeldOK, Held
<1> QED
  BY <1>2, <1>3, <1>4, <1>5, <1>6, <1>7 DEF IInv

(* No step of a client or of the monitor breaks the invariant.             *)
LEMMA NextInv ==
  ASSUME IInv, [Next]_vars
  PROVE  IInv'
<1>1. ASSUME NEW t \in Threads, Client(t) PROVE IInv'
  <2>1. ASSUME FreeLocal(t) PROVE IInv'
    BY <2>1, KeepPageStep, ReleasePageStep
  <2> QED
    BY <1>1, <2>1, MallocStep, SearchStep, CollectStep, FreshStep, TakeSegmentStep,
       FoundStep, InitSegmentStep, CrashStep, DropStep, ShareStep, GiveStep,
       FreeRemoteStep, PushStep DEF Client
<1>2. CASE Monitor
  BY <1>2, RecoverStep, FinishStep, DropDeadStep, SegmentPassStep DEF Monitor
<1>3. CASE UNCHANGED vars
  <2>1. /\ UNCHANGED <<owner, state, threadFree, header, segUsed, kind, free, localFree, used>>
        /\ UNCHANGED <<pq, freePages, holders, junk, pc, loc, mode>>
    BY <1>3 DEF vars, sas, meta, tls, memory
  <2>2. TypeOK'
    BY <2>1 DEF IInv, TypeOK
  <2>3. PhaseInv' /\ SegInv' /\ HomeInv'
    BY <2>1 DEF IInv, PhaseInv, Calm, SegInv, InUse, HomeInv, BlocksOf, Seg
  <2>4. ListInv' /\ RegInv'
    BY <2>1 DEF IInv, ListInv, Mine, RegInv, RegOK, Seg
  <2>5. PlaceInv' /\ HeldInv'
    BY <2>1 DEF IInv, PlaceInv, PlaceOK, Calm, InUse, Inside, Pushed, Held, Leaving,
       HeldInv, HeldOK, Queue, Seg
  <2>6. CountInv'
    BY <2>1 DEF IInv, CountInv, Calm, InUse, Outside, BlocksOf, PagesUsed, PagesOf
  <2> QED
    BY <2>2, <2>3, <2>4, <2>5, <2>6 DEF IInv
<1> QED
  BY <1>1, <1>2, <1>3 DEF Next

(* The invariant holds in every state, for a monitor that works when no    *)
(* client is running.                                                      *)
THEOREM Inductive == Spec => []IInv
<1>1. IInv /\ [Next]_vars => IInv'
  BY NextInv
<1> QED
  BY InitInv, <1>1, PTL DEF Spec

(* The variables keep their types; in particular no counter of blocks or   *)
(* pages goes below zero.                                                  *)
THEOREM TypeCorrect == Spec => []TypeOK
<1>1. IInv => TypeOK
  BY DEF IInv
<1> QED
  BY <1>1, Inductive, PTL

(* A page on a queue is in use.                                            *)
LEMMA ListedIs ==
  ASSUME IInv, NEW t \in Threads, mode[t] = "live"
  PROVE  /\ \A p \in Listed(t) : p \in Pages /\ InUse(p)
         /\ \A p \in Pages : p \in Listed(t) <=> InUse(p) /\ header[SegOf[p]] = t
         /\ \A p \in freePages[t] : p \in Pages /\ header[SegOf[p]] = t
<1>1. ListOK(t) /\ mode[t] # "gone"
  BY CalmNow
<1>2. \A p : p \in Listed(t) <=> \E k \in Kinds : p \in pq[t][k]
  BY DEF Listed
<1>3. \A p \in Pages : InUse(p) <=> kind[p] \in Kinds
  BY PlaceIs DEF IInv, TypeOK, InUse
<1> QED
  BY <1>1, <1>2, <1>3 DEF ListOK, Mine

(* A block is in one place: it is never handed out twice and never lost    *)
(* (cxl_free, cxl_page_free_collect, cxl_page_free).                       *)
THEOREM PlaceCorrect == Spec => []OnePlace
<1>1. ASSUME IInv PROVE OnePlace
  <2> SUFFICES ASSUME NEW t \in Threads, mode[t] = "live",
                      NEW p \in Listed(t), NEW b \in BlocksOf(p)
               PROVE  Cardinality(Places(b)) = 1
    BY DEF OnePlace
  <2>1. InUse(p) /\ b \in Blocks /\ PageOf[b] = p
    BY <1>1, ListedIs, PlaceIs
  <2>2. PlaceOK(b)
    BY <1>1, <2>1, CalmNow
  <2>3. Freeing(b) # {} <=> Leaving(b)
    BY DEF Freeing, Leaving
  <2>4. \A u \in Freeing(b) : Freeing(b) = {u}
    BY <2>2 DEF Freeing, PlaceOK
  <2>5. \E x : Places(b) = {x}
    <3>1. /\ b \in threadFree[SegOf[PageOf[b]]] <=> Pushed(b)
          /\ b \in free[PageOf[b]] \/ b \in localFree[PageOf[b]] <=> Inside(b)
          /\ holders[b] # {} <=> Held(b)
      BY DEF Pushed, Seg, Inside, Held
    <3>2. CASE b \in free[PageOf[b]]
      <4>1. Places(b) = {"free"}
        BY <2>2, <2>3, <3>1, <3>2 DEF Places, PlaceOK
      <4> QED
        BY <4>1
    <3>3. CASE b \in localFree[PageOf[b]]
      <4>1. Places(b) = {"local"}
        BY <2>2, <2>3, <3>1, <3>3 DEF Places, PlaceOK
      <4> QED
        BY <4>1
    <3>4. CASE Pushed(b)
      <4>1. Places(b) = {"thread"}
        BY <2>2, <2>3, <3>1, <3>4 DEF Places, PlaceOK
      <4> QED
        BY <4>1
    <3>5. CASE Held(b)
      <4>1. Places(b) = {"held"}
        BY <2>2, <2>3, <3>1, <3>5 DEF Places, PlaceOK
      <4> QED
        BY <4>1
    <3>6. CASE Leaving(b)
      <4>1. PICK u \in Freeing(b) : TRUE
        BY <2>3, <3>6
      <4>2. Places(b) = {u}
        BY <2>2, <2>4, <3>1, <3>6, <4>1 DEF Places, PlaceOK
      <4> QED
        BY <4>2
    <3> QED
      BY <2>1, <2>2, <3>1, <3>2, <3>3, <3>4, <3>5, <3>6 DEF PlaceOK
  <2> QED
    BY <2>5, FS_Singleton
<1> QED
  BY <1>1, Inductive, PTL

(* used of a page counts its blocks that are out, used of a segment its    *)
(* pages in queues.                                                        *)
THEOREM UsedCorrect == Spec => []UsedExact
<1>1. ASSUME IInv PROVE UsedExact
  <2> SUFFICES ASSUME NEW t \in Threads, mode[t] = "live"
               PROVE  /\ \A p \in Listed(t) :
                           used[p] = Cardinality(BlocksOf(p) \ (free[p] \cup localFree[p]))
                      /\ \A s \in Segs : header[s] = t =>
                           segUsed[s] = Cardinality(Listed(t) \cap PagesOf(s))
    BY DEF UsedExact
  <2>1. \A p \in Listed(t) : used[p] = Cardinality(Outside(p))
    BY <1>1, ListedIs, CalmNow
  <2>2. ASSUME NEW s \in Segs, header[s] = t
        PROVE  segUsed[s] = Cardinality(Listed(t) \cap PagesOf(s))
    <3>1. Listed(t) \cap PagesOf(s) = PagesUsed(s)
      BY <1>1, <2>2, ListedIs DEF PagesUsed, PagesOf
    <3>2. header[s] # 0
      BY <2>2, PlaceIs
    <3> QED
      BY <1>1, <3>1, <3>2, CalmNow
  <2> QED
    BY <2>1, <2>2 DEF Outside
<1> QED
  BY <1>1, Inductive, PTL

(* A page is on the lists of one thread, the owner of its segment.         *)
THEOREM OwnedCorrect == Spec => []PageOwned
<1>1. ASSUME IInv PROVE PageOwned
  <2> SUFFICES ASSUME NEW t \in Threads, mode[t] = "live",
                      NEW p \in Listed(t) \cup freePages[t]
               PROVE  /\ owner[SegOf[p]] = t
                      /\ \A u \in Threads \ {t} : p \notin Listed(u) \cup freePages[u]
    BY DEF PageOwned
  <2>1. p \in Pages /\ header[SegOf[p]] = t
    BY <1>1, ListedIs
  <2>2. owner[SegOf[p]] = t
    BY <1>1, <2>1, PlaceIs DEF IInv, SegInv
  <2>3. \A u \in Threads : ListOK(u) /\ mode[u] # "gone"
    BY <1>1, CalmNow
  <2>4. \A u \in Threads \ {t} : p \notin Listed(u) \cup freePages[u]
    BY <2>1, <2>3 DEF ListOK, Listed, Mine
  <2> QED
    BY <2>2, <2>4
<1> QED
  BY <1>1, Inductive, PTL

(* README: no wild pointer.                                                *)
THEOREM HeldCorrect == Spec => []HeldSafe
<1>1. ASSUME IInv PROVE HeldSafe
  <2> SUFFICES ASSUME NEW b \in Blocks, holders[b] # {}
               PROVE  kind[PageOf[b]] # None /\ owner[Seg(b)] # 0
    BY DEF HeldSafe
  <2>1. InUse(PageOf[b])
    BY <1>1 DEF IInv, HeldInv, HeldOK, Held
  <2>2. header[Seg(b)] # 0 /\ Seg(b) \in Segs
    BY <1>1, <2>1, PlaceIs DEF IInv, SegInv, Seg
  <2> QED
    BY <1>1, <2>1, <2>2 DEF IInv, SegInv, InUse
<1> QED
  BY <1>1, Inductive, PTL
=============================================================================
