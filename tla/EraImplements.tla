--------------------------- MODULE EraImplements ---------------------------
(***************************************************************************)
(* EraRefCount implements RefSpec: seen through eff and heap (EraRefines)  *)
(* clients, crashes and recoveries together take steps of RefSpec, or      *)
(* stutter.  The proof goes by action over the inductive invariant of      *)
(* EraProofs: the swaps share and drop, the header attaches, the allocator *)
(* takes, loses and gets back; every other step is quiet.                  *)
(***************************************************************************)
EXTENDS EraProofs, EraRefines

Filling(t)  == mode[t] \in Working /\ pc[t] \in {"pptr", "taken"}
Filled(o)   == \E t \in Threads : Filling(t) /\ loc[t].obj = o
Referred(o) == \E r \in Slots : eff[r] = o

(* What the allocator knows of a block, in the terms of the invariant.     *)
LEMMA HeapOf ==
  /\ heap = [o \in Objs |-> IF o \in pool THEN "free"
                            ELSE IF Referred(o) THEN "live"
                            ELSE IF Filled(o) THEN "fresh" ELSE "dead"]
  /\ heap' = [o \in Objs |-> IF o \in pool' THEN "free"
                             ELSE IF Referred(o)' THEN "live"
                             ELSE IF Filled(o)' THEN "fresh" ELSE "dead"]
<1>1. \A o \in Objs : /\ Refs(o) # {} <=> Referred(o)
                      /\ Refs(o)' # {} <=> Referred(o)'
  BY DEF Refs, Referred
<1>2. QED
  BY <1>1 DEF heap, Filled, Filling

(* A step that changes the part of one block changes heap there only.      *)
LEMMA HeapChange ==
  ASSUME NEW o \in Objs, NEW v,
         \A p \in Objs \ {o} : /\ p \in pool' <=> p \in pool
                               /\ Referred(p)' <=> Referred(p)
                               /\ Filled(p)' <=> Filled(p),
         v = IF o \in pool' THEN "free" ELSE IF Referred(o)' THEN "live"
             ELSE IF Filled(o)' THEN "fresh" ELSE "dead"
  PROVE  heap' = [heap EXCEPT ![o] = v]
  BY HeapOf

(* A step that leaves the references, the pool and who fills which block   *)
(* alone is a stuttering step.                                             *)
LEMMA HeapFrame ==
  ASSUME eff' = eff, pool' = pool,
         \A u \in Threads : /\ Filling(u)' <=> Filling(u)
                            /\ Filling(u) => loc'[u].obj = loc[u].obj
  PROVE  UNCHANGED RS!vars
<1>1. \A o \in Objs : Refs(o)' = Refs(o)
  BY DEF Refs
<1>2. heap' = heap
  BY <1>1 DEF heap, Filling
<1>3. QED
  BY <1>2 DEF RS!vars

(* The steps of cxl_malloc that hand out no block.                         *)
LEMMA AllocQuiet ==
  ASSUME MaxThread \notin Threads, IInv, NEW t \in Threads
  PROVE  /\ \A r \in Slots : TbrFast(t, r) \/ Collect(t, r) => UNCHANGED
               RS!vars
         /\ \A i \in RedoIndex : ClearOne(t, i) => UNCHANGED RS!vars
         /\ TbrSlow(t) \/ ObjSlow(t) \/ ObjPage(t) \/ OutOfMemory(t) \/
               Take(t) => UNCHANGED RS!vars
<1> USE ThreadsAssumption, DataAssumption, OwnerAssumption, BoundsAssumption
<1>0. TypeOK /\ LocInv
  BY DEF IInv
<1>1. ASSUME NEW r \in Slots, TbrFast(t, r)
      PROVE  UNCHANGED RS!vars
  <2>1. eff' = eff /\ pool' = pool
    BY <1>0, <1>1 DEF TbrFast, At, Goto, TypeOK, eff, Committed, LocInv,
       LocOK, LinkPC
  <2>2. \A u \in Threads : /\ Filling(u)' <=> Filling(u)
                           /\ Filling(u) => loc'[u].obj = loc[u].obj
    BY <1>0, <1>1 DEF TbrFast, At, Goto, TypeOK, Locals, Filling, Working,
       LocInv, LocOK
  <2>3. QED
    BY <2>1, <2>2, HeapFrame
<1>2. ASSUME TbrSlow(t)
      PROVE  UNCHANGED RS!vars
  <2>1. eff' = eff /\ pool' = pool
    BY <1>0, <1>2 DEF TbrSlow, At, Goto, TypeOK, eff, Committed, LocInv,
       LocOK, LinkPC
  <2>2. \A u \in Threads : /\ Filling(u)' <=> Filling(u)
                           /\ Filling(u) => loc'[u].obj = loc[u].obj
    BY <1>0, <1>2 DEF TbrSlow, At, Goto, TypeOK, Locals, Filling, Working,
       LocInv, LocOK
  <2>3. QED
    BY <2>1, <2>2, HeapFrame
<1>3. ASSUME NEW i \in RedoIndex, ClearOne(t, i)
      PROVE  UNCHANGED RS!vars
  <2>1. eff' = eff /\ pool' = pool
    BY <1>0, <1>3 DEF ClearOne, At, Clear, TypeOK, eff, Committed, LocInv,
       LocOK, LinkPC
  <2>2. \A u \in Threads : /\ Filling(u)' <=> Filling(u)
                           /\ Filling(u) => loc'[u].obj = loc[u].obj
    BY <1>0, <1>3 DEF ClearOne, At, Clear, TypeOK, Locals, Filling, Working,
       LocInv, LocOK
  <2>3. QED
    BY <2>1, <2>2, HeapFrame
<1>4. ASSUME NEW r \in Slots, Collect(t, r)
      PROVE  UNCHANGED RS!vars
  <2>1. eff' = eff /\ pool' = pool
    BY <1>0, <1>4 DEF Collect, At, Goto, Clear, TypeOK, eff, Committed,
       LocInv, LocOK, LinkPC
  <2>2. \A u \in Threads : /\ Filling(u)' <=> Filling(u)
                           /\ Filling(u) => loc'[u].obj = loc[u].obj
    BY <1>0, <1>4 DEF Collect, At, Goto, Clear, TypeOK, Locals, Filling,
       Working, LocInv, LocOK
  <2>3. QED
    BY <2>1, <2>2, HeapFrame
<1>5. ASSUME ObjSlow(t)
      PROVE  UNCHANGED RS!vars
  <2>1. eff' = eff /\ pool' = pool
    BY <1>0, <1>5 DEF ObjSlow, At, Goto, TypeOK, eff, Committed, LocInv,
       LocOK, LinkPC
  <2>2. \A u \in Threads : /\ Filling(u)' <=> Filling(u)
                           /\ Filling(u) => loc'[u].obj = loc[u].obj
    BY <1>0, <1>5 DEF ObjSlow, At, Goto, TypeOK, Locals, Filling, Working,
       LocInv, LocOK
  <2>3. QED
    BY <2>1, <2>2, HeapFrame
<1>6. ASSUME ObjPage(t)
      PROVE  UNCHANGED RS!vars
  <2>1. eff' = eff /\ pool' = pool
    BY <1>0, <1>6 DEF ObjPage, At, Goto, TypeOK, eff, Committed, LocInv,
       LocOK, LinkPC
  <2>2. \A u \in Threads : /\ Filling(u)' <=> Filling(u)
                           /\ Filling(u) => loc'[u].obj = loc[u].obj
    BY <1>0, <1>6 DEF ObjPage, At, Goto, TypeOK, Locals, Filling, Working,
       LocInv, LocOK
  <2>3. QED
    BY <2>1, <2>2, HeapFrame
<1>7. ASSUME OutOfMemory(t)
      PROVE  UNCHANGED RS!vars
  <2>1. eff' = eff /\ pool' = pool
    BY <1>0, <1>7 DEF OutOfMemory, TypeOK, eff, Committed, LocInv, LocOK,
       LinkPC
  <2>2. \A u \in Threads : /\ Filling(u)' <=> Filling(u)
                           /\ Filling(u) => loc'[u].obj = loc[u].obj
    BY <1>0, <1>7 DEF OutOfMemory, TypeOK, Locals, Filling, Working, LocInv,
       LocOK
  <2>3. QED
    BY <2>1, <2>2, HeapFrame
<1>8. ASSUME Take(t)
      PROVE  UNCHANGED RS!vars
  <2>1. eff' = eff /\ pool' = pool
    BY <1>0, <1>8 DEF Take, At, Goto, Tick, TypeOK, eff, Committed, LocInv,
       LocOK, LinkPC
  <2>2. \A u \in Threads : /\ Filling(u)' <=> Filling(u)
                           /\ Filling(u) => loc'[u].obj = loc[u].obj
    BY <1>0, <1>8 DEF Take, At, Goto, Tick, TypeOK, Locals, Filling, Working,
       LocInv, LocOK
  <2>3. QED
    BY <2>1, <2>2, HeapFrame
<1>9. QED
  BY <1>1, <1>2, <1>3, <1>4, <1>5, <1>6, <1>7, <1>8

(* The steps of link_reference and unlink_reference but the swap.          *)
LEMMA LinkQuiet ==
  ASSUME MaxThread \notin Threads, IInv, NEW t \in Threads
  PROVE  /\ \A r \in Slots : StartLink(t, r) \/ StartDrop(t, r) =>
               UNCHANGED RS!vars
         /\ Prepare(t) \/ CasFail(t) \/ WriteRef(t) \/ FinishLink(t) \/
               FinishUnlink(t) \/ Release(t) => UNCHANGED RS!vars
<1> USE ThreadsAssumption, DataAssumption, OwnerAssumption, BoundsAssumption
<1>0. TypeOK /\ LocInv
  BY DEF IInv
<1>1. ASSUME NEW r \in Slots, StartLink(t, r)
      PROVE  UNCHANGED RS!vars
  <2>1. eff' = eff /\ pool' = pool
    BY <1>0, <1>1 DEF StartLink, At, Goto, Begin, Settled, TypeOK, eff,
       Committed, LocInv, LocOK, LinkPC
  <2>2. \A u \in Threads : /\ Filling(u)' <=> Filling(u)
                           /\ Filling(u) => loc'[u].obj = loc[u].obj
    BY <1>0, <1>1 DEF StartLink, At, Goto, Begin, Settled, TypeOK, Locals,
       Filling, Working, LocInv, LocOK
  <2>3. QED
    BY <2>1, <2>2, HeapFrame
<1>2. ASSUME NEW r \in Slots, StartDrop(t, r)
      PROVE  UNCHANGED RS!vars
  <2>1. eff' = eff /\ pool' = pool
    BY <1>0, <1>2 DEF StartDrop, At, Goto, Begin, Settled, Pinned, TypeOK,
       eff, Committed, LocInv, LocOK, LinkPC
  <2>2. \A u \in Threads : /\ Filling(u)' <=> Filling(u)
                           /\ Filling(u) => loc'[u].obj = loc[u].obj
    BY <1>0, <1>2 DEF StartDrop, At, Goto, Begin, Settled, Pinned, TypeOK,
       Locals, Filling, Working, LocInv, LocOK
  <2>3. QED
    BY <2>1, <2>2, HeapFrame
<1>3. ASSUME Prepare(t)
      PROVE  UNCHANGED RS!vars
  <2>1. eff' = eff /\ pool' = pool
    BY <1>0, <1>3 DEF Prepare, At, Goto, Publish, TypeOK, eff, Committed,
       LocInv, LocOK, LinkPC
  <2>2. \A u \in Threads : /\ Filling(u)' <=> Filling(u)
                           /\ Filling(u) => loc'[u].obj = loc[u].obj
    BY <1>0, <1>3 DEF Prepare, At, Goto, Publish, TypeOK, Locals, Filling,
       Working, LocInv, LocOK
  <2>3. QED
    BY <2>1, <2>2, HeapFrame
<1>4. ASSUME CasFail(t)
      PROVE  UNCHANGED RS!vars
  <2>1. eff' = eff /\ pool' = pool
    BY <1>0, <1>4 DEF CasFail, At, Goto, TypeOK, eff, Committed, LocInv,
       LocOK, LinkPC
  <2>2. \A u \in Threads : /\ Filling(u)' <=> Filling(u)
                           /\ Filling(u) => loc'[u].obj = loc[u].obj
    BY <1>0, <1>4 DEF CasFail, At, Goto, TypeOK, Locals, Filling, Working,
       LocInv, LocOK
  <2>3. QED
    BY <2>1, <2>2, HeapFrame
<1>5. ASSUME WriteRef(t)
      PROVE  UNCHANGED RS!vars
  <2>1. eff' = eff /\ pool' = pool
    BY <1>0, <1>5 DEF WriteRef, At, Goto, TypeOK, eff, Committed, LocInv,
       LocOK, LinkPC
  <2>2. \A u \in Threads : /\ Filling(u)' <=> Filling(u)
                           /\ Filling(u) => loc'[u].obj = loc[u].obj
    BY <1>0, <1>5 DEF WriteRef, At, Goto, TypeOK, Locals, Filling, Working,
       LocInv, LocOK
  <2>3. QED
    BY <2>1, <2>2, HeapFrame
<1>6. ASSUME FinishLink(t)
      PROVE  UNCHANGED RS!vars
  <2>1. eff' = eff /\ pool' = pool
    BY <1>0, <1>6 DEF FinishLink, At, Goto, Return, Tick, TypeOK, eff,
       Committed, LocInv, LocOK, LinkPC
  <2>2. \A u \in Threads : /\ Filling(u)' <=> Filling(u)
                           /\ Filling(u) => loc'[u].obj = loc[u].obj
    BY <1>0, <1>6 DEF FinishLink, At, Goto, Return, Tick, TypeOK, Locals,
       Filling, Working, LocInv, LocOK
  <2>3. QED
    BY <2>1, <2>2, HeapFrame
<1>7. ASSUME FinishUnlink(t)
      PROVE  UNCHANGED RS!vars
  <2>1. eff' = eff /\ pool' = pool
    BY <1>0, <1>7 DEF FinishUnlink, At, Goto, Tick, LastDrop, TypeOK, eff,
       Committed, LocInv, LocOK, LinkPC
  <2>2. \A u \in Threads : /\ Filling(u)' <=> Filling(u)
                           /\ Filling(u) => loc'[u].obj = loc[u].obj
    BY <1>0, <1>7 DEF FinishUnlink, At, Goto, Tick, LastDrop, TypeOK, Locals,
       Filling, Working, LocInv, LocOK
  <2>3. QED
    BY <2>1, <2>2, HeapFrame
<1>8. ASSUME Release(t)
      PROVE  UNCHANGED RS!vars
  <2>1. eff' = eff /\ pool' = pool
    BY <1>0, <1>8 DEF Release, At, Goto, Return, InUse, Owned, TypeOK, eff,
       Committed, LocInv, LocOK, LinkPC
  <2>2. \A u \in Threads : /\ Filling(u)' <=> Filling(u)
                           /\ Filling(u) => loc'[u].obj = loc[u].obj
    BY <1>0, <1>8 DEF Release, At, Goto, Return, InUse, Owned, TypeOK, Locals,
       Filling, Working, LocInv, LocOK
  <2>3. QED
    BY <2>1, <2>2, HeapFrame
<1>9. QED
  BY <1>1, <1>2, <1>3, <1>4, <1>5, <1>6, <1>7, <1>8

(* A stop, the steps of the recovery that drop nothing, a new life of the id.*)
LEMMA RecoverQuiet ==
  ASSUME MaxThread \notin Threads, IInv, NEW t \in Threads
  PROVE  /\ \A r \in Slots : RecoverRead(t, r) => UNCHANGED RS!vars
         /\ \A i \in RedoIndex : RedoLoad(t, i) => UNCHANGED RS!vars
         /\ Crash(t) \/ RecoverCasFail(t) \/ TlsRelease(t) \/ ThreadInit(t)
               => UNCHANGED RS!vars
<1> USE ThreadsAssumption, DataAssumption, OwnerAssumption, BoundsAssumption
<1>0. TypeOK /\ LocInv
  BY DEF IInv
<1>1. ASSUME Crash(t)
      PROVE  UNCHANGED RS!vars
  <2>1. eff' = eff /\ pool' = pool
    BY <1>0, <1>1 DEF Crash, TypeOK, eff, Committed, LocInv, LocOK, LinkPC
  <2>2. \A u \in Threads : /\ Filling(u)' <=> Filling(u)
                           /\ Filling(u) => loc'[u].obj = loc[u].obj
    BY <1>0, <1>1 DEF Crash, TypeOK, Locals, Filling, Working, LocInv, LocOK
  <2>3. QED
    BY <2>1, <2>2, HeapFrame
<1>2. ASSUME NEW i \in RedoIndex, RedoLoad(t, i)
      PROVE  UNCHANGED RS!vars
  <2>1. eff' = eff /\ pool' = pool
    BY <1>0, <1>2 DEF RedoLoad, MonitorFree, Turn, TypeOK, eff, Committed,
       LocInv, LocOK, LinkPC
  <2>2. \A u \in Threads : /\ Filling(u)' <=> Filling(u)
                           /\ Filling(u) => loc'[u].obj = loc[u].obj
    BY <1>0, <1>2 DEF RedoLoad, MonitorFree, Turn, TypeOK, Locals, Filling,
       Working, LocInv, LocOK
  <2>3. QED
    BY <2>1, <2>2, HeapFrame
<1>3. ASSUME NEW r \in Slots, RecoverRead(t, r)
      PROVE  UNCHANGED RS!vars
  <2>1. eff' = eff /\ pool' = pool
    BY <1>0, <1>3 DEF RecoverRead, At, InUse, Goto, Pinned, TypeOK, eff,
       Committed, LocInv, LocOK, LinkPC
  <2>2. \A u \in Threads : /\ Filling(u)' <=> Filling(u)
                           /\ Filling(u) => loc'[u].obj = loc[u].obj
    BY <1>0, <1>3 DEF RecoverRead, At, InUse, Goto, Pinned, TypeOK, Locals,
       Filling, Working, LocInv, LocOK
  <2>3. QED
    BY <2>1, <2>2, HeapFrame
<1>4. ASSUME RecoverCasFail(t)
      PROVE  UNCHANGED RS!vars
  <2>1. eff' = eff /\ pool' = pool
    BY <1>0, <1>4 DEF RecoverCasFail, At, TypeOK, eff, Committed, LocInv,
       LocOK, LinkPC
  <2>2. \A u \in Threads : /\ Filling(u)' <=> Filling(u)
                           /\ Filling(u) => loc'[u].obj = loc[u].obj
    BY <1>0, <1>4 DEF RecoverCasFail, At, TypeOK, Locals, Filling, Working,
       LocInv, LocOK
  <2>3. QED
    BY <2>1, <2>2, HeapFrame
<1>5. ASSUME TlsRelease(t)
      PROVE  UNCHANGED RS!vars
  <2>1. eff' = eff /\ pool' = pool
    BY <1>0, <1>5 DEF TlsRelease, At, Goto, InUse, Owned, TypeOK, eff,
       Committed, LocInv, LocOK, LinkPC
  <2>2. \A u \in Threads : /\ Filling(u)' <=> Filling(u)
                           /\ Filling(u) => loc'[u].obj = loc[u].obj
    BY <1>0, <1>5 DEF TlsRelease, At, Goto, InUse, Owned, TypeOK, Locals,
       Filling, Working, LocInv, LocOK
  <2>3. QED
    BY <2>1, <2>2, HeapFrame
<1>6. ASSUME ThreadInit(t)
      PROVE  UNCHANGED RS!vars
  <2>1. eff' = eff /\ pool' = pool
    BY <1>0, <1>6 DEF ThreadInit, MonitorFree, Tick, TypeOK, eff, Committed,
       LocInv, LocOK, LinkPC
  <2>2. \A u \in Threads : /\ Filling(u)' <=> Filling(u)
                           /\ Filling(u) => loc'[u].obj = loc[u].obj
    BY <1>0, <1>6 DEF ThreadInit, MonitorFree, Tick, TypeOK, Locals, Filling,
       Working, LocInv, LocOK
  <2>3. QED
    BY <2>1, <2>2, HeapFrame
<1>7. QED
  BY <1>1, <1>2, <1>3, <1>4, <1>5, <1>6

LEMMA EffChange ==
  ASSUME NEW r \in Slots, NEW v, eff'[r] = v,
         \A q \in Slots \ {r} : eff'[q] = eff[q]
  PROVE  eff' = [eff EXCEPT ![r] = v]
<1>1. eff = [q \in Slots |-> eff[q]] /\ eff' = [q \in Slots |-> eff'[q]]
  BY DEF eff
<1>2. QED
  BY <1>1

(* A counted block is live, and nobody fills it.                           *)
LEMMA Counted ==
  ASSUME IInv, NEW r \in Slots, eff[r] # Null
  PROVE  /\ eff[r] \in Objs /\ Referred(eff[r])
         /\ eff[r] \notin pool /\ ~Filled(eff[r])
<1>0. TypeOK /\ LocInv /\ CountExact /\ PoolSound
  BY PoolFromInv DEF IInv
<1>1. eff[r] \in Objs
  BY <1>0, OwnerAssumption DEF eff, TypeOK, Locals
<1>2. info[eff[r]].cnt # 0
  BY <1>0, <1>1, Unreferenced
<1>3. QED
  BY <1>0, <1>1, <1>2 DEF PoolSound, Referred, Filled, Filling, Holding, Refs

(* cxl_malloc takes a block of the pool.                                   *)
LEMMA PptrTakes ==
  ASSUME IInv, NEW t \in Threads, NEW o \in Objs, Pptr(t, o)
  PROVE  RS!Take(o)
<1> USE ThreadsAssumption, DataAssumption, OwnerAssumption
<1>0. TypeOK /\ LocInv /\ PoolSound
  BY PoolFromInv DEF IInv
<1>p. mode[t] = "live" /\ pc[t] \in {"tbr", "obj"} /\ LocOK(t)
  BY <1>0 DEF Pptr, LocInv
<1>r. /\ loc[t].ref \in Slots /\ Owner[loc[t].ref] = t
      /\ slot[loc[t].ref] = "used" /\ ref[loc[t].ref] = Null
  <2>1. loc[t].ref \in Slots \cup {Null}
    BY <1>0 DEF TypeOK, Locals
  <2>2. QED
    BY <1>p, <2>1 DEF LocOK
<1>l. /\ pc'[t] = "pptr" /\ loc'[t].obj = o /\ loc'[t].ref = loc[t].ref
      /\ \A u \in Threads : u # t => loc'[u] = loc[u] /\ pc'[u] = pc[u]
      /\ mode' = mode /\ pool' = pool \ {o} /\ o \in pool
  BY <1>0 DEF Pptr, Goto, TypeOK, Locals
<1>c. \A q \in Slots : IF q = loc[t].ref THEN slot'[q] = "pending"
                       ELSE slot'[q] = slot[q] /\ ref'[q] = ref[q]
  BY <1>0, <1>r DEF Pptr, TypeOK
<1>1. eff' = eff
  <2>1. eff[loc[t].ref] = Null /\ eff'[loc[t].ref] = Null
    BY <1>p, <1>r, <1>c DEF eff, Committed
  <2>2. \A q \in Slots \ {loc[t].ref} : eff'[q] = eff[q]
    BY <1>p, <1>r, <1>l, <1>c DEF eff, Committed
  <2>3. QED
    BY <2>1, <2>2 DEF eff
<1>2. \A p \in Objs : Referred(p)' <=> Referred(p)
  BY <1>1 DEF Referred
<1>3. ~Referred(o)' /\ Filled(o)' /\ o \notin pool'
  BY <1>0, <1>2, <1>p, <1>r, <1>l DEF PoolSound, Refs, Referred, Filled, Filling, Working
<1>4. \A p \in Objs \ {o} : Filled(p)' <=> Filled(p)
  BY <1>p, <1>r, <1>l DEF Filled, Filling
<1>5. heap' = [heap EXCEPT ![o] = "fresh"]
  BY <1>2, <1>3, <1>4, <1>l, HeapChange
<1>6. QED
  BY <1>1, <1>5, <1>l, HeapOf DEF RS!Take

(* block_to_cxlobj turns the block into an object with one reference.      *)
LEMMA WriteHeaderAttaches ==
  ASSUME IInv, NEW t \in Threads, WriteHeader(t)
  PROVE  \E r \in Slots, o \in Objs : RS!Attach(r, o)
<1> USE ThreadsAssumption, DataAssumption, OwnerAssumption
<1>0. TypeOK /\ LocInv /\ BlankInv /\ CountExact
  BY DEF IInv
<1>p. /\ loc[t].ref \in Slots /\ Owner[loc[t].ref] = t /\ slot[loc[t].ref] = "pending"
      /\ loc[t].obj \in Objs /\ ref[loc[t].ref] = loc[t].obj
      /\ info[loc[t].obj] = ZeroInfo /\ loc[t].obj \notin pool
      /\ mode[t] = "live" /\ pc[t] = "taken"
  BY <1>0 DEF WriteHeader, At, TypeOK, LocInv, LocOK, Locals, BlankInv
<1>r. PICK r \in Slots, o \in Objs : r = loc[t].ref /\ o = loc[t].obj
  BY <1>p
<1>l. /\ loc'[t] = NoLocals /\ pc'[t] = "idle"
      /\ \A u \in Threads : u # t => loc'[u] = loc[u] /\ pc'[u] = pc[u]
      /\ mode' = mode /\ ref' = ref /\ pool' = pool
      /\ \A q \in Slots : slot'[q] = IF q = r THEN "used" ELSE slot[q]
  BY <1>0, <1>r DEF WriteHeader, Goto, Return, TypeOK
<1>1. eff[r] = Null /\ eff'[r] = o
  BY <1>p, <1>r, <1>l DEF eff, Committed
<1>2. ASSUME NEW q \in Slots, q # r
      PROVE  eff'[q] = eff[q]
  <2>1. slot'[q] = slot[q] /\ ref'[q] = ref[q]
    BY <1>2, <1>l
  <2>2. CASE Owner[q] = t
    BY <1>p, <1>l, <2>1, <2>2 DEF eff, Committed
  <2>3. CASE Owner[q] # t
    BY <1>l, <2>1, <2>3 DEF eff, Committed
  <2>4. QED
    BY <2>2, <2>3
<1>3. eff' = [eff EXCEPT ![r] = o]
  BY <1>1, <1>2, EffChange
<1>4. /\ Referred(o)' /\ ~Referred(o)
      /\ \A p \in Objs \ {o} : Referred(p)' <=> Referred(p)
  <2>1. \A q \in Slots : eff[q] # o
    BY <1>0, <1>p, <1>r, Unreferenced DEF ZeroInfo
  <2>2. QED
    BY <1>1, <1>2, <2>1 DEF Referred
<1>5. /\ Filled(o) /\ \A p \in Objs \ {o} : Filled(p)' <=> Filled(p)
  BY <1>p, <1>r, <1>l DEF Filled, Filling, Working
<1>6. heap' = [heap EXCEPT ![o] = "live"]
  BY <1>p, <1>r, <1>l, <1>4, <1>5, HeapChange
<1>7. heap[o] = "fresh"
  BY <1>p, <1>r, <1>4, <1>5, HeapOf
<1>8. QED
  BY <1>1, <1>3, <1>6, <1>7 DEF RS!Attach

(* Between steps of the allocator the filled blocks stay the same.         *)
LEMMA FilledFrame ==
  ASSUME \A u \in Threads : /\ Filling(u)' <=> Filling(u)
                            /\ Filling(u) => loc'[u].obj = loc[u].obj
  PROVE  \A p \in Objs : Filled(p)' <=> Filled(p)
  BY DEF Filled

(* A reference that a count no longer stands for is dropped.               *)
LEMMA Drops ==
  ASSUME IInv, NEW r \in Slots, eff[r] # Null, eff'[r] = Null, pool' = pool,
         \A q \in Slots \ {r} : eff'[q] = eff[q],
         \A u \in Threads : /\ Filling(u)' <=> Filling(u)
                            /\ Filling(u) => loc'[u].obj = loc[u].obj
  PROVE  RS!Drop(r)
<1>1. PICK o \in Objs : o = eff[r]
  BY Counted
<1>2. eff' = [eff EXCEPT ![r] = Null]
  BY EffChange
<1>3. \A p \in Objs : Filled(p)' <=> Filled(p)
  BY FilledFrame
<1>4. o \notin pool /\ Referred(o) /\ ~Filled(o)
  BY <1>1, Counted
<1>5. \A p \in Objs \ {o} : Referred(p)' <=> Referred(p)
  BY <1>1, DataAssumption DEF Referred
<1>6. RS!Referenced(o, eff') <=> Referred(o)'
  BY DEF RS!Referenced, Referred
<1>7. CASE Referred(o)'
  <2>1. heap' = heap
    BY <1>3, <1>4, <1>5, <1>7, HeapOf
  <2>2. QED
    BY <1>1, <1>2, <1>6, <1>7, <2>1 DEF RS!Drop
<1>8. CASE ~Referred(o)'
  <2>1. heap' = [heap EXCEPT ![o] = "dead"]
    BY <1>3, <1>4, <1>5, <1>8, HeapChange
  <2>2. QED
    BY <1>1, <1>2, <1>6, <1>8, <2>1 DEF RS!Drop
<1>9. QED
  BY <1>7, <1>8

(* The swap of link_reference makes a reference, that of unlink_reference  *)
(* takes one away.                                                         *)
LEMMA CasSharesOrDrops ==
  ASSUME MaxThread \notin Threads, IInv, NEW t \in Threads, Cas(t)
  PROVE  \E r \in Slots : RS!Drop(r) \/ \E q \in Slots : RS!Share(r, q)
<1> USE ThreadsAssumption, DataAssumption, OwnerAssumption
<1>0. TypeOK /\ LocInv /\ PinInv
  BY DEF IInv
<1>p. /\ loc[t].ref \in Slots /\ Owner[loc[t].ref] = t /\ slot[loc[t].ref] = "used"
      /\ loc[t].obj \in Objs /\ loc[t].op \in {"link", "unlink"}
      /\ pc[t] = "logged" /\ mode[t] = "live"
  BY <1>0 DEF Cas, At, TypeOK, LocInv, LocOK, Locals, LinkPC
<1>r. PICK r \in Slots : r = loc[t].ref
  BY <1>p
<1>l. /\ pc'[t] = "cased" /\ \A u \in Threads : u # t => pc'[u] = pc[u]
      /\ mode' = mode /\ loc' = loc /\ ref' = ref /\ slot' = slot /\ pool' = pool
  BY <1>0 DEF Cas, Goto, TypeOK
<1>1. \A q \in Slots \ {r} : eff'[q] = eff[q]
  BY <1>p, <1>r, <1>l DEF eff, Committed
<1>2. \A u \in Threads : /\ Filling(u)' <=> Filling(u)
                         /\ Filling(u) => loc'[u].obj = loc[u].obj
  BY <1>p, <1>l DEF Filling
<1>3. CASE loc[t].op = "unlink"
  <2>1. eff[r] = loc[t].obj /\ eff'[r] = Null
    BY <1>0, <1>p, <1>r, <1>l, <1>3 DEF eff, Committed, LocInv, LocOK, LinkPC
  <2>2. QED
    BY <1>p, <1>l, <1>1, <1>2, <2>1, Drops
<1>4. CASE loc[t].op = "link"
  <2>1. eff[r] = Null /\ eff'[r] = loc[t].obj
    BY <1>0, <1>p, <1>r, <1>l, <1>4 DEF eff, Committed, LocInv, LocOK, LinkPC
  <2>2. loc[t].src \in Slots /\ loc[t].src # Null
    BY <1>0, <1>p, <1>4 DEF LocInv, LocOK, LinkPC, TypeOK, Locals
  <2>3. PICK q \in Slots : q = loc[t].src
    BY <2>2
  <2>4. eff[q] = loc[t].obj
    BY <1>0, <1>p, <2>2, <2>3 DEF eff, PinInv
  <2>5. eff' = [eff EXCEPT ![r] = eff[q]]
    BY <1>1, <2>1, <2>4, EffChange
  <2>6. \A p \in Objs : Referred(p)' <=> Referred(p)
    BY <1>1, <2>1, <2>4 DEF Referred
  <2>7. heap' = heap
    BY <1>l, <1>2, <2>6, FilledFrame, HeapOf
  <2>8. QED
    BY <1>p, <2>1, <2>4, <2>5, <2>7 DEF RS!Share
<1>5. QED
  BY <1>p, <1>3, <1>4

(* The swap of recovery_unlink_reference takes a reference away.           *)
LEMMA RecoverCasDrops ==
  ASSUME MaxThread \notin Threads, IInv, NEW t \in Threads, RecoverCas(t)
  PROVE  \E r \in Slots : RS!Drop(r)
<1> USE ThreadsAssumption, DataAssumption, OwnerAssumption
<1>0. TypeOK /\ LocInv
  BY DEF IInv
<1>p. /\ loc[t].ref \in Slots /\ Owner[loc[t].ref] = t /\ slot[loc[t].ref] = "used"
      /\ loc[t].obj \in Objs /\ loc[t].op = "unlink" /\ ref[loc[t].ref] = loc[t].obj
      /\ pc[t] = "rread" /\ mode[t] = "recover"
  BY <1>0 DEF RecoverCas, At, TypeOK, LocInv, LocOK, Locals, LinkPC
<1>r. PICK r \in Slots : r = loc[t].ref
  BY <1>p
<1>l. /\ pc'[t] = "rcased" /\ \A u \in Threads : u # t => pc'[u] = pc[u]
      /\ mode' = mode /\ loc' = loc /\ ref' = ref /\ slot' = slot /\ pool' = pool
  BY <1>0 DEF RecoverCas, Goto, TypeOK
<1>1. \A q \in Slots \ {r} : eff'[q] = eff[q]
  BY <1>p, <1>r, <1>l DEF eff, Committed
<1>2. eff[r] # Null /\ eff'[r] = Null
  BY <1>p, <1>r, <1>l, DataAssumption DEF eff, Committed
<1>3. \A u \in Threads : /\ Filling(u)' <=> Filling(u)
                         /\ Filling(u) => loc'[u].obj = loc[u].obj
  BY <1>p, <1>l DEF Filling
<1>4. QED
  BY <1>l, <1>1, <1>2, <1>3, Drops

(* The thread that dropped the last reference is alone with the block.     *)
LEMMA AloneWithBlock ==
  ASSUME IInv, NEW t \in Threads, DropsLast(t)
  PROVE  /\ loc[t].obj \in Objs \ pool
         /\ ~Referred(loc[t].obj) /\ ~Filled(loc[t].obj)
<1>0. TypeOK /\ LocInv /\ BlankInv /\ CountExact
  BY DEF IInv
<1>1. loc[t].obj \in Objs
  BY <1>0 DEF DropsLast, LocInv, LocOK, LinkPC, TypeOK, Locals
<1>2. info[loc[t].obj].lcid # 0 /\ info[loc[t].obj].cnt = 0
  BY ThreadsAssumption DEF IInv, LastInv
<1>3. loc[t].obj \notin pool
  BY <1>0, <1>2 DEF BlankInv, ZeroInfo
<1>4. ~Referred(loc[t].obj)
  BY <1>0, <1>1, <1>2, Unreferenced DEF Referred
<1>5. ASSUME NEW u \in Threads, Filling(u)
      PROVE  loc[u].obj # loc[t].obj
  <2>1. /\ loc[u].ref \in Slots /\ slot[loc[u].ref] = "pending"
        /\ ref[loc[u].ref] = loc[u].obj
    <3>1. LocOK(u) /\ loc[u].ref \in Slots \cup {Null}
      BY <1>0 DEF LocInv, TypeOK, Locals
    <3>2. QED
      BY <1>5, <3>1 DEF Filling, LocOK
  <2>2. info[loc[u].obj].lcid = 0
    BY <1>0, <2>1 DEF BlankInv, ZeroInfo
  <2>3. QED
    BY <1>2, <2>2
<1>6. QED
  BY <1>1, <1>3, <1>4, <1>5 DEF Filled

(* Blocks that nobody refers to or fills go back to the pool.              *)
LEMMA Reuses ==
  ASSUME NEW O \in SUBSET Objs, O # {}, eff' = eff, pool' = pool \cup O,
         \A o \in O : o \notin pool /\ ~Referred(o) /\ ~Filled(o),
         \A u \in Threads : /\ Filling(u)' <=> Filling(u)
                            /\ Filling(u) => loc'[u].obj = loc[u].obj
  PROVE  RS!Reuse
<1>1. \A p \in Objs : Referred(p)' <=> Referred(p)
  BY DEF Referred
<1>2. \A p \in Objs : Filled(p)' <=> Filled(p)
  BY FilledFrame
<1>3. \A o \in O : heap[o] = "dead"
  BY HeapOf
<1>4. heap' = [o \in Objs |-> IF o \in O THEN "free" ELSE heap[o]]
  BY <1>1, <1>2, HeapOf
<1>5. QED
  BY <1>3, <1>4 DEF RS!Reuse

(* cxl_free, recovery_cxl_free and the segment pass.                       *)
LEMMA FreesReuse ==
  ASSUME IInv
  PROVE  /\ \A t \in Threads : FreeBlock(t) => RS!Reuse
         /\ \A t \in Threads : RecoverDrop(t) => RS!Reuse \/ UNCHANGED RS!vars
         /\ Sweep => RS!Reuse
<1> USE ThreadsAssumption, DataAssumption, OwnerAssumption
<1>0. TypeOK /\ LocInv /\ CountExact
  BY DEF IInv
<1>1. ASSUME NEW t \in Threads, FreeBlock(t)
      PROVE  RS!Reuse
  <2>1. DropsLast(t) /\ pc[t] = "free"
    BY <1>1 DEF FreeBlock, At, DropsLast, Working
  <2>2. PICK o \in Objs : o = loc[t].obj
    BY <2>1, AloneWithBlock
  <2>3. /\ pc'[t] = "unlinked" /\ \A u \in Threads : u # t => pc'[u] = pc[u]
        /\ mode' = mode /\ loc' = loc /\ ref' = ref /\ slot' = slot
        /\ pool' = pool \cup {o}
    BY <1>0, <1>1, <2>2 DEF FreeBlock, Goto, TypeOK
  <2>4. eff' = eff
    BY <2>1, <2>3 DEF eff, Committed
  <2>5. \A u \in Threads : /\ Filling(u)' <=> Filling(u)
                           /\ Filling(u) => loc'[u].obj = loc[u].obj
    BY <2>1, <2>3 DEF Filling
  <2>6. o \notin pool /\ ~Referred(o) /\ ~Filled(o)
    BY <2>1, <2>2, AloneWithBlock
  <2>7. PICK O \in SUBSET Objs : O = {o}
    OBVIOUS
  <2>8. QED
    BY <2>3, <2>4, <2>5, <2>6, <2>7, Reuses
<1>2. ASSUME NEW t \in Threads, RecoverDrop(t)
      PROVE  RS!Reuse \/ UNCHANGED RS!vars
  <2>1. /\ pc[t] = "rcased" /\ mode[t] = "recover" /\ loc[t].op = "unlink"
        /\ loc[t].ref \in Slots /\ Owner[loc[t].ref] = t
    BY <1>0, <1>2 DEF RecoverDrop, At, LocInv, LocOK, LinkPC, TypeOK, Locals
  <2>2. /\ pc'[t] = "scan" /\ mode' = mode
        /\ \A u \in Threads : u # t => pc'[u] = pc[u] /\ loc'[u] = loc[u]
        /\ \A q \in Slots : /\ slot'[q] = IF q = loc[t].ref THEN "local" ELSE slot[q]
                            /\ ref'[q] = IF q = loc[t].ref THEN Null ELSE ref[q]
    BY <1>0, <1>2 DEF RecoverDrop, DropSlot, Goto, TypeOK
  <2>3. eff' = eff
    <3>1. eff[loc[t].ref] = Null /\ eff'[loc[t].ref] = Null
      BY <2>1, <2>2 DEF eff, Committed
    <3>2. ASSUME NEW q \in Slots, q # loc[t].ref
          PROVE  eff'[q] = eff[q]
      <4>1. slot'[q] = slot[q] /\ ref'[q] = ref[q]
        BY <3>2, <2>2
      <4>2. CASE Owner[q] = t
        BY <3>2, <2>1, <2>2, <4>1, <4>2 DEF eff, Committed
      <4>3. CASE Owner[q] # t
        BY <2>2, <4>1, <4>3 DEF eff, Committed
      <4>4. QED
        BY <4>2, <4>3
    <3>3. QED
      BY <3>1, <3>2 DEF eff
  <2>4. \A u \in Threads : /\ Filling(u)' <=> Filling(u)
                           /\ Filling(u) => loc'[u].obj = loc[u].obj
    BY <2>1, <2>2 DEF Filling, Working
  <2>5. CASE pool' = pool
    <3>1. UNCHANGED RS!vars
      BY <2>3, <2>4, <2>5, HeapFrame
    <3>2. QED
      BY <3>1
  <2>6. CASE LastDrop(t) /\ pool' = pool \cup {loc[t].obj}
    <3>1. DropsLast(t)
      BY <2>1, <2>6 DEF LastDrop, DropsLast
    <3>2. PICK o \in Objs : o = loc[t].obj
      BY <3>1, AloneWithBlock
    <3>3. o \notin pool /\ ~Referred(o) /\ ~Filled(o)
      BY <3>1, <3>2, AloneWithBlock
    <3>4. PICK O \in SUBSET Objs : O = {o}
      OBVIOUS
    <3>5. QED
      BY <2>3, <2>4, <2>6, <3>2, <3>3, <3>4, Reuses
  <2>7. QED
    BY <1>2, <2>5, <2>6 DEF RecoverDrop
<1>3. ASSUME Sweep
      PROVE  RS!Reuse
  <2>1. eff' = eff /\ pool' = Objs /\ pool \subseteq Objs /\ pool # Objs
    BY <1>0, <1>3 DEF Sweep, eff, Committed, TypeOK
  <2>2. \A u \in Threads : ~Filling(u) /\ ~Filling(u)'
    BY <1>3 DEF Sweep, Filling, Working
  <2>3. \A o \in Objs : ~Referred(o) /\ ~Filled(o)
    BY <1>0, <1>3, <2>2, Unreferenced DEF Sweep, Referred, Filled
  <2>4. PICK O \in SUBSET Objs : O = Objs \ pool
    OBVIOUS
  <2>5. QED
    BY <2>1, <2>2, <2>3, <2>4, Reuses
<1>4. QED
  BY <1>1, <1>2, <1>3

(* The monitor decides about the log of a dead client: a block the client  *)
(* was filling is lost for now.                                            *)
LEMMA RedoLoses ==
  ASSUME ~Concurrent, OwnMemory, MaxThread \notin Threads, IInv, NEW t \in Threads,
         NEW i \in RedoIndex, RedoApply(t, i)
  PROVE  UNCHANGED RS!vars \/ \E o \in Objs : RS!Lose(o)
<1>0. TypeOK /\ LocInv /\ PoolSound /\ CountExact
  BY PoolFromInv DEF IInv
<1>1. eff' = eff
  BY RedoKeepsStep
<1>l. /\ mode[t] = "redo" /\ mode'[t] = "recover" /\ pool' = pool
      /\ \A u \in Threads : u # t =>
           mode'[u] = mode[u] /\ pc'[u] = pc[u] /\ loc'[u] = loc[u]
  BY <1>0 DEF RedoApply, TypeOK
<1>2. \A u \in Threads : u # t => /\ Filling(u)' <=> Filling(u)
                                  /\ Filling(u) => loc'[u].obj = loc[u].obj
  BY <1>l DEF Filling
<1>3. ~Filling(t)'
  BY <1>l DEF Filling, Working
<1>4. CASE ~Filling(t)
  BY <1>1, <1>2, <1>3, <1>4, <1>l, HeapFrame
<1>5. CASE Filling(t)
  <2>1. /\ loc[t].obj \in Objs \ pool /\ info[loc[t].obj].cnt = 0
        /\ \A u \in Threads \ {t} : Filling(u) => loc[u].obj # loc[t].obj
    <3>1. /\ loc[t].ref \in Slots \cup {Null} /\ loc[t].obj \in Objs \cup {Null}
          /\ loc[t].ref # Null /\ slot[loc[t].ref] = "pending"
          /\ ref[loc[t].ref] = loc[t].obj
      <4>1. LocOK(t)
        BY <1>0 DEF LocInv
      <4>2. loc[t].ref \in Slots \cup {Null} /\ loc[t].obj \in Objs \cup {Null}
        BY <1>0 DEF TypeOK, Locals
      <4>3. QED
        BY <1>5, <4>1, <4>2 DEF Filling, LocOK
    <3>2. loc[t].obj # Null
      BY <3>1 DEF IInv, BlankInv
    <3>3. QED
      BY <1>0, <1>5, <3>1, <3>2 DEF PoolSound, Holding, Filling
  <2>2. PICK o \in Objs : o = loc[t].obj
    BY <2>1
  <2>3. \A p \in Objs : Referred(p)' <=> Referred(p)
    BY <1>1 DEF Referred
  <2>4. /\ Filled(o) /\ ~Filled(o)'
        /\ \A p \in Objs \ {o} : Filled(p)' <=> Filled(p)
    BY <1>2, <1>3, <1>5, <2>1, <2>2 DEF Filled
  <2>5. ~Referred(o)
    BY <1>0, <2>1, <2>2, Unreferenced DEF Referred
  <2>6. heap[o] = "fresh" /\ heap' = [heap EXCEPT ![o] = "dead"]
    BY <1>l, <2>1, <2>2, <2>3, <2>4, <2>5, HeapOf, HeapChange
  <2>7. QED
    BY <1>1, <2>6 DEF RS!Lose
<1>6. QED
  BY <1>4, <1>5

(* recovery_test_free passes over a RootRef that stands for nothing.       *)
LEMMA SkipQuiet ==
  ASSUME IInv, NEW t \in Threads, NEW r \in Slots, RecoverSkip(t, r)
  PROVE  UNCHANGED RS!vars
<1> USE ThreadsAssumption, DataAssumption, OwnerAssumption
<1>0. TypeOK /\ LocInv /\ CountExact
  BY DEF IInv
<1>r. pc[t] = "scan" /\ mode[t] = "recover" /\ Owner[r] = t
  BY DEF RecoverSkip, At
<1>l. /\ UNCHANGED <<info, pool, pc, loc, mode>>
      /\ \A q \in Slots : /\ slot'[q] = IF q = r THEN "local" ELSE slot[q]
                          /\ ref'[q] = IF q = r THEN Null ELSE ref[q]
  BY <1>0 DEF RecoverSkip, DropSlot, TypeOK
<1>1. eff[r] = Null
  <2>1. CASE slot[r] # "used"
    BY <2>1 DEF eff
  <2>2. CASE slot[r] = "used"
    <3>1. eff[r] = ref[r]
      BY <1>r, <2>2 DEF eff, Committed
    <3>2. ref[r] \in Objs => info[ref[r]].cnt = 0
      BY DEF RecoverSkip
    <3>3. QED
      BY <1>0, <3>1, <3>2, Unreferenced DEF TypeOK
  <2>3. QED
    BY <2>1, <2>2
<1>2. eff' = eff
  <2>1. \A q \in Slots : eff'[q] = eff[q]
    BY <1>l, <1>1 DEF eff, Committed
  <2>2. QED
    BY <2>1 DEF eff
<1>3. QED
  BY <1>2, <1>l, HeapFrame DEF Filling

-----------------------------------------------------------------------------
(* One case per disjunct of Next.                                          *)
LEMMA StepImplements ==
  ASSUME ~Concurrent, OwnMemory, MaxThread \notin Threads, IInv, [Next]_vars
  PROVE  [RS!Next]_(RS!vars)
<1>1. CASE \E t \in Threads : StartOp(t)
  BY <1>1, AllocQuiet, LinkQuiet DEF StartOp
<1>2. ASSUME NEW t \in Threads, ClientStep(t)
      PROVE  [RS!Next]_(RS!vars)
  <2>1. CASE \/ \E i \in RedoIndex : ClearOne(t, i)
             \/ \E r \in Slots : Collect(t, r) \/ StartLink(t, r)
    BY <2>1, AllocQuiet, LinkQuiet
  <2>2. CASE ObjSlow(t) \/ ObjPage(t) \/ OutOfMemory(t) \/ Take(t)
    BY <2>2, AllocQuiet
  <2>3. CASE \/ Prepare(t) \/ CasFail(t) \/ WriteRef(t) \/ FinishLink(t)
             \/ FinishUnlink(t) \/ Release(t)
    BY <2>3, LinkQuiet
  <2>4. CASE \E o \in Objs : Pptr(t, o)
    BY <2>4, PptrTakes DEF RS!Next
  <2>5. CASE WriteHeader(t)
    BY <2>5, WriteHeaderAttaches DEF RS!Next
  <2>6. CASE Cas(t)
    BY <2>6, CasSharesOrDrops DEF RS!Next
  <2>7. CASE FreeBlock(t)
    BY <2>7, FreesReuse DEF RS!Next
  <2>8. QED
    BY <1>2, <2>1, <2>2, <2>3, <2>4, <2>5, <2>6, <2>7 DEF ClientStep
<1>3. CASE \E t \in Threads : Crash(t) \/ ThreadInit(t)
  BY <1>3, RecoverQuiet
<1>4. ASSUME NEW t \in Threads, MonitorStep(t)
      PROVE  [RS!Next]_(RS!vars)
  <2>1. CASE \/ \E i \in RedoIndex : RedoLoad(t, i)
             \/ \E r \in Slots : RecoverRead(t, r)
             \/ RecoverCasFail(t) \/ TlsRelease(t)
    BY <2>1, RecoverQuiet
  <2>2. CASE \E i \in RedoIndex : RedoApply(t, i)
    BY <2>2, RedoLoses DEF RS!Next
  <2>3. CASE \E r \in Slots : RecoverSkip(t, r)
    BY <2>3, SkipQuiet
  <2>4. CASE RecoverCas(t)
    BY <2>4, RecoverCasDrops DEF RS!Next
  <2>5. CASE RecoverDrop(t)
    BY <2>5, FreesReuse DEF RS!Next
  <2>6. QED
    BY <1>4, <2>1, <2>2, <2>3, <2>4, <2>5 DEF MonitorStep
<1>5. CASE Sweep
  BY <1>5, FreesReuse DEF RS!Next
<1>6. CASE UNCHANGED vars
  <2>1. eff' = eff /\ pool' = pool /\ loc' = loc /\ mode' = mode /\ pc' = pc
    BY <1>6 DEF vars, eff, Committed
  <2>2. QED
    BY <2>1, HeapFrame DEF Filling
<1>7. QED
  BY <1>1, <1>2, <1>3, <1>4, <1>5, <1>6 DEF Next

(* All references empty, all blocks free.                                  *)
LEMMA InitImplements ==
  Init => RS!Init
<1> SUFFICES ASSUME Init
             PROVE  RS!Init
  OBVIOUS
<1>1. eff = [r \in Slots |-> Null]
  BY DEF Init, eff
<1>2. heap = [o \in Objs |-> "free"]
  BY DEF Init, heap
<1>3. QED
  BY <1>1, <1>2 DEF RS!Init

(* Whatever the interleaving of clients, wherever they stop, and with the  *)
(* recovery of what they leave, link_reference, unlink_reference and       *)
(* recovery.cpp do to references and blocks only what RefSpec allows.      *)
THEOREM Implements ==
  ASSUME ~Concurrent, OwnMemory, MaxThread \notin Threads
  PROVE  Spec => ImplementsRefSpec
<1>1. IInv /\ [Next]_vars => [RS!Next]_(RS!vars)
  BY StepImplements
<1>2. QED
  BY <1>1, InitImplements, Inductive, PTL DEF Spec, ImplementsRefSpec, RS!Spec

-----------------------------------------------------------------------------
(* No leak.  Who changes pool, eff, or lets a block out of its hands leaves*)
(* the block with somebody.                                                *)
LEMMA SafeFrame ==
  ASSUME eff' = eff, pool \subseteq pool',
         \A u \in Threads : Has(u) =>
           \/ Has(u)' /\ loc'[u].obj = loc[u].obj
           \/ loc[u].obj \in pool'
  PROVE  \A o \in Objs : Safe(o) => Safe(o)'
BY DEF Safe

(* The steps that leave eff and pool alone and take nothing out of hands.  *)
LEMMA QuietSafe ==
  ASSUME MaxThread \notin Threads, IInv, NEW t \in Threads
  PROVE  /\ StartOp(t) => \A o \in Objs : Safe(o) => Safe(o)'
         /\ Crash(t) \/ ThreadInit(t) => \A o \in Objs : Safe(o) => Safe(o)'
         /\ \A i \in RedoIndex : ClearOne(t, i) =>
              \A o \in Objs : Safe(o) => Safe(o)'
         /\ \A r \in Slots : Collect(t, r) \/ StartLink(t, r) =>
              \A o \in Objs : Safe(o) => Safe(o)'
         /\ \/ ObjSlow(t) \/ ObjPage(t) \/ OutOfMemory(t) \/ Take(t)
            \/ Prepare(t) \/ CasFail(t) \/ WriteRef(t) \/ Release(t)
            => \A o \in Objs : Safe(o) => Safe(o)'
<1>0. TypeOK /\ LocInv
  BY DEF IInv
<1>1. ASSUME StartOp(t)
      PROVE  \A o \in Objs : Safe(o) => Safe(o)'
  <2>1. eff' = eff
    BY <1>1, AllocQuiet, LinkQuiet DEF StartOp, RS!vars
  <2>2. pool' = pool
    BY <1>1 DEF StartOp, TbrSlow, TbrFast, StartDrop, Begin
  <2>3. \A u \in Threads : Has(u) => Has(u)' /\ loc'[u].obj = loc[u].obj
    <3>1. CASE TbrSlow(t) \/ \E r \in Slots : TbrFast(t, r)
      BY <1>0, <3>1 DEF TbrSlow, TbrFast, At, Goto, TypeOK, Locals, Has
    <3>2. CASE \E r \in Slots : StartDrop(t, r)
      BY <1>0, <3>2 DEF StartDrop, Begin, At, Goto, TypeOK, Has
    <3>3. QED
      BY <1>1, <3>1, <3>2 DEF StartOp
  <2>4. QED
    BY <2>1, <2>2, <2>3, SafeFrame
<1>2. ASSUME Crash(t) \/ ThreadInit(t)
      PROVE  \A o \in Objs : Safe(o) => Safe(o)'
  <2>1. eff' = eff
    BY <1>2, RecoverQuiet DEF RS!vars
  <2>2. pool' = pool /\ pc' = pc /\ loc' = loc
    BY <1>2 DEF Crash, ThreadInit
  <2>3. QED
    BY <2>1, <2>2, SafeFrame DEF Has
<1>3. ASSUME NEW i \in RedoIndex, ClearOne(t, i)
      PROVE  \A o \in Objs : Safe(o) => Safe(o)'
  <2>1. eff' = eff
    BY <1>3, AllocQuiet DEF RS!vars
  <2>2. pool' = pool /\ pc' = pc /\ loc' = loc
    BY <1>3 DEF ClearOne
  <2>3. QED
    BY <2>1, <2>2, SafeFrame DEF Has
<1>4. ASSUME NEW r \in Slots, Collect(t, r) \/ StartLink(t, r)
      PROVE  \A o \in Objs : Safe(o) => Safe(o)'
  <2>1. eff' = eff
    BY <1>4, AllocQuiet, LinkQuiet DEF RS!vars
  <2>2. pool' = pool
    BY <1>4 DEF Collect, StartLink, Begin
  <2>3. \A u \in Threads : Has(u) => Has(u)' /\ loc'[u].obj = loc[u].obj
    BY <1>0, <1>4 DEF Collect, StartLink, Begin, At, Goto, TypeOK, Has
  <2>4. QED
    BY <2>1, <2>2, <2>3, SafeFrame
<1>5. ASSUME \/ ObjSlow(t) \/ ObjPage(t) \/ OutOfMemory(t) \/ Take(t)
             \/ Prepare(t) \/ CasFail(t) \/ WriteRef(t) \/ Release(t)
      PROVE  \A o \in Objs : Safe(o) => Safe(o)'
  <2>1. eff' = eff
    BY <1>5, AllocQuiet, LinkQuiet DEF RS!vars
  <2>2. pool' = pool
    BY <1>5 DEF ObjSlow, ObjPage, OutOfMemory, Take, Prepare, CasFail,
       WriteRef, Release
  <2>3. \A u \in Threads : Has(u) => Has(u)' /\ loc'[u].obj = loc[u].obj
    <3>1. CASE ObjSlow(t) \/ ObjPage(t) \/ OutOfMemory(t)
      BY <1>0, <3>1 DEF ObjSlow, ObjPage, OutOfMemory, At, Goto, TypeOK, Has
    <3>2. CASE Take(t)
      BY <1>0, <3>2 DEF Take, At, Goto, TypeOK, Locals, Has
    <3>3. CASE Prepare(t) \/ CasFail(t)
      BY <1>0, <3>3 DEF Prepare, CasFail, At, Goto, TypeOK, Locals, Has
    <3>4. CASE WriteRef(t) \/ Release(t)
      BY <1>0, <3>4 DEF WriteRef, Release, Return, At, Goto, TypeOK, Has
    <3>5. QED
      BY <1>5, <3>1, <3>2, <3>3, <3>4
  <2>4. QED
    BY <2>1, <2>2, <2>3, SafeFrame
<1>6. QED
  BY <1>1, <1>2, <1>3, <1>4, <1>5

(* cxl_malloc: the block goes from the pool to the client's hands.         *)
LEMMA PptrSafe ==
  ASSUME IInv, NEW t \in Threads, NEW b \in Objs, Pptr(t, b)
  PROVE  \A o \in Objs : Safe(o) => Safe(o)'
<1>0. TypeOK
  BY DEF IInv
<1>1. eff' = eff
  BY PptrTakes DEF RS!Take
<1>2. /\ pool' = pool \ {b} /\ loc'[t].obj = b /\ pc'[t] = "pptr"
      /\ ~Has(t)
      /\ \A u \in Threads : u # t => loc'[u] = loc[u] /\ pc'[u] = pc[u]
  BY <1>0 DEF Pptr, Goto, TypeOK, Locals, Has
<1>3. Has(t)' /\ \A u \in Threads : Has(u) => Has(u)' /\ loc'[u] = loc[u]
  BY <1>2 DEF Has
<1>4. QED
  BY <1>1, <1>2, <1>3 DEF Safe

(* The header is written: from the client's hands to its reference.        *)
LEMMA WriteHeaderSafe ==
  ASSUME IInv, NEW t \in Threads, WriteHeader(t)
  PROVE  \A o \in Objs : Safe(o) => Safe(o)'
<1> USE OwnerAssumption
<1>0. TypeOK /\ LocInv
  BY DEF IInv
<1>p. /\ loc[t].ref \in Slots /\ Owner[loc[t].ref] = t
      /\ slot[loc[t].ref] = "pending" /\ ref[loc[t].ref] = loc[t].obj
      /\ pc[t] = "taken"
  <2>1. LocOK(t) /\ pc[t] = "taken" /\ loc[t].ref \in Slots \cup {Null}
    BY <1>0 DEF WriteHeader, At, TypeOK, LocInv, Locals
  <2>2. QED
    BY <2>1 DEF LocOK
<1>r. PICK r \in Slots : r = loc[t].ref
  BY <1>p
<1>l. /\ loc'[t] = NoLocals /\ pc'[t] = "idle"
      /\ \A u \in Threads : u # t => loc'[u] = loc[u] /\ pc'[u] = pc[u]
      /\ ref' = ref /\ pool' = pool
      /\ \A q \in Slots : slot'[q] = IF q = r THEN "used" ELSE slot[q]
  BY <1>0, <1>r DEF WriteHeader, Goto, Return, TypeOK
<1>1. eff[r] = Null /\ eff'[r] = loc[t].obj
  BY <1>p, <1>r, <1>l DEF eff, Committed
<1>2. \A q \in Slots \ {r} : eff'[q] = eff[q]
  BY <1>p, <1>r, <1>l DEF eff, Committed
<1>3. \A u \in Threads \ {t} : Has(u) => Has(u)' /\ loc'[u] = loc[u]
  BY <1>l DEF Has
<1>4. QED
  BY <1>1, <1>2, <1>3, <1>l, DataAssumption DEF Safe

(* The swap: a reference appears, or goes, and the count tells what is left.*)
LEMMA CasSafe ==
  ASSUME MaxThread \notin Threads, IInv, CountExact', NEW t \in Threads, Cas(t)
  PROVE  /\ \A o \in Objs : Safe(o) => Safe(o)'
         /\ Safe(loc[t].obj)'
<1> USE ThreadsAssumption, DataAssumption, OwnerAssumption
<1>0. TypeOK /\ LocInv /\ CountExact
  BY DEF IInv
<1>p. /\ loc[t].ref \in Slots /\ Owner[loc[t].ref] = t /\ slot[loc[t].ref] = "used"
      /\ loc[t].obj \in Objs /\ loc[t].op \in {"link", "unlink"}
      /\ pc[t] = "logged" /\ mode[t] = "live"
  BY <1>0 DEF Cas, At, TypeOK, LocInv, LocOK, Locals, LinkPC
<1>r. PICK r \in Slots, b \in Objs : r = loc[t].ref /\ b = loc[t].obj
  BY <1>p
<1>l. /\ pc'[t] = "cased" /\ \A u \in Threads : u # t => pc'[u] = pc[u]
      /\ mode' = mode /\ loc' = loc /\ ref' = ref /\ slot' = slot /\ pool' = pool
  BY <1>0 DEF Cas, Goto, TypeOK
<1>1. \A q \in Slots \ {r} : eff'[q] = eff[q]
  BY <1>p, <1>r, <1>l DEF eff, Committed
<1>2. \A u \in Threads : Has(u) => Has(u)'
  BY <1>p, <1>l DEF Has
<1>3. CASE loc[t].op = "link"
  <2>1. eff[r] = Null /\ eff'[r] = b
    BY <1>0, <1>p, <1>r, <1>l, <1>3 DEF eff, Committed, LocInv, LocOK, LinkPC
  <2>2. QED
    BY <1>1, <1>2, <1>l, <1>r, <2>1 DEF Safe
<1>4. CASE loc[t].op = "unlink"
  <2>1. eff[r] = b
    BY <1>0, <1>p, <1>r, <1>l, <1>4 DEF eff, Committed, LocInv, LocOK, LinkPC
  <2>2. Safe(b)'
    <3>1. CASE loc[t].saw.cnt = 1
      BY <1>4, <1>l, <1>r, <3>1 DEF Safe, Has
    <3>2. CASE loc[t].saw.cnt # 1
      <4>1. info'[b].cnt = loc[t].saw.cnt - 1
        BY <1>0, <1>4, <1>r DEF Cas, NewCount, TypeOK
      <4>2. loc[t].saw.cnt \in Nat /\ info'[b].cnt # 0
        BY <1>0, <3>2, <4>1 DEF TypeOK, Locals, Info
      <4>3. (info[b].cnt = 0)' <=> \A q \in Slots : (eff[q] # b)'
        <5>1. Cardinality(Refs(b)') = 0 <=> Refs(b)' = {}
          <6>1. IsFiniteSet(Refs(b)')
            <7>1. Refs(b)' \subseteq Slots
              BY DEF Refs
            <7>2. QED
              BY <7>1, FS_Subset
          <6>2. QED
            BY <6>1, FS_EmptySet
        <5>2. QED
          BY <5>1 DEF CountExact, Refs
      <4>4. QED
        BY <4>2, <4>3 DEF Safe
    <3>3. QED
      BY <3>1, <3>2
  <2>3. \A o \in Objs \ {b} : Safe(o) => Safe(o)'
    BY <1>1, <1>2, <1>l, <2>1 DEF Safe
  <2>4. QED
    BY <1>r, <1>l, <2>2, <2>3
<1>5. QED
  BY <1>p, <1>3, <1>4

(* The ends of link_reference, unlink_reference and cxl_free.              *)
LEMMA FinishSafe ==
  ASSUME MaxThread \notin Threads, IInv, NEW t \in Threads,
         FinishLink(t) \/ FinishUnlink(t) \/ FreeBlock(t)
  PROVE  \A o \in Objs : Safe(o) => Safe(o)'
<1>0. TypeOK /\ LocInv
  BY DEF IInv
<1>1. eff' = eff
  BY LinkQuiet, FreesReuse DEF RS!vars, RS!Reuse
<1>2. pool \subseteq pool' /\ (FreeBlock(t) => loc[t].obj \in pool')
  BY DEF FinishLink, FinishUnlink, FreeBlock
<1>3. \A u \in Threads : Has(u) => \/ Has(u)' /\ loc'[u].obj = loc[u].obj
                                   \/ loc[u].obj \in pool'
  <2>1. CASE FinishLink(t)
    BY <1>0, <2>1 DEF FinishLink, Return, At, Goto, TypeOK, Has
  <2>2. CASE FinishUnlink(t)
    BY <1>0, <2>2 DEF FinishUnlink, LastDrop, At, Goto, TypeOK, Has
  <2>3. CASE FreeBlock(t)
    BY <1>0, <1>2, <2>3 DEF FreeBlock, At, Goto, TypeOK, Has
  <2>4. QED
    BY <2>1, <2>2, <2>3
<1>4. QED
  BY <1>1, <1>2, <1>3, SafeFrame

ClientMoves(t) == StartOp(t) \/ ClientStep(t) \/ Crash(t) \/ ThreadInit(t)

(* A client never lets go of a block that nobody else has.                 *)
LEMMA ClientSafe ==
  ASSUME MaxThread \notin Threads, IInv, CountExact', NEW t \in Threads,
         ClientMoves(t)
  PROVE  \A o \in Objs : Safe(o) => Safe(o)'
<1>1. CASE StartOp(t) \/ Crash(t) \/ ThreadInit(t)
  BY <1>1, QuietSafe
<1>2. CASE ClientStep(t)
  <2>1. CASE \/ \E i \in RedoIndex : ClearOne(t, i)
             \/ \E r \in Slots : Collect(t, r) \/ StartLink(t, r)
    BY <2>1, QuietSafe
  <2>2. CASE \/ ObjSlow(t) \/ ObjPage(t) \/ OutOfMemory(t) \/ Take(t)
             \/ Prepare(t) \/ CasFail(t) \/ WriteRef(t) \/ Release(t)
    BY <2>2, QuietSafe
  <2>3. CASE \E o \in Objs : Pptr(t, o)
    BY <2>3, PptrSafe
  <2>4. CASE WriteHeader(t)
    BY <2>4, WriteHeaderSafe
  <2>5. CASE Cas(t)
    BY <2>5, CasSafe
  <2>6. CASE FinishLink(t) \/ FinishUnlink(t) \/ FreeBlock(t)
    BY <2>6, FinishSafe
  <2>7. QED
    BY <1>2, <2>1, <2>2, <2>3, <2>4, <2>5, <2>6 DEF ClientStep
<1>3. QED
  BY <1>1, <1>2 DEF ClientMoves

(* A client moves its own registers only; nobody but the swap comes to     *)
(* "cased", nobody but the write of pptr from there to "written".          *)
LEMMA OthersStay ==
  ASSUME TypeOK, NEW t \in Threads, ClientMoves(t), NEW u \in Threads, u # t
  PROVE  mode'[u] = mode[u] /\ pc'[u] = pc[u] /\ loc'[u] = loc[u]
<1>1. CASE StartOp(t) \/ Crash(t) \/ ThreadInit(t)
  BY <1>1 DEF TypeOK, StartOp, TbrSlow, TbrFast, StartDrop, Begin, Crash,
     ThreadInit, Goto
<1>2. CASE ClientStep(t)
  <2>1. CASE \/ \E i \in RedoIndex : ClearOne(t, i)
             \/ \E r \in Slots : Collect(t, r) \/ StartLink(t, r)
    BY <2>1 DEF TypeOK, ClearOne, Collect, StartLink, Begin, Goto
  <2>2. CASE \/ \E o \in Objs : Pptr(t, o)
             \/ ObjSlow(t) \/ ObjPage(t) \/ OutOfMemory(t) \/ Take(t)
             \/ WriteHeader(t)
    BY <2>2 DEF TypeOK, Pptr, ObjSlow, ObjPage, OutOfMemory, Take,
       WriteHeader, Return, Goto
  <2>3. CASE \/ Prepare(t) \/ Cas(t) \/ CasFail(t) \/ WriteRef(t)
             \/ FinishLink(t) \/ FinishUnlink(t) \/ FreeBlock(t) \/ Release(t)
    BY <2>3 DEF TypeOK, Prepare, Cas, CasFail, WriteRef, FinishLink,
       FinishUnlink, FreeBlock, Release, Return, Goto
  <2>4. QED
    BY <1>2, <2>1, <2>2, <2>3 DEF ClientStep
<1>3. QED
  BY <1>1, <1>2 DEF ClientMoves

LEMMA OwnStay ==
  ASSUME TypeOK, LocInv, NEW t \in Threads, ClientMoves(t), ~Cas(t),
         (mode[t] = "live")', pc'[t] \in {"cased", "written"}
  PROVE  mode[t] = "live" /\ pc[t] \in {"cased", "written"} /\ loc'[t] = loc[t]
<1>1. CASE StartOp(t) \/ Crash(t) \/ ThreadInit(t)
  BY <1>1 DEF TypeOK, StartOp, TbrSlow, TbrFast, StartDrop, Begin, Crash,
     ThreadInit, Goto, LocInv, LocOK
<1>2. CASE ClientStep(t)
  <2>1. CASE \/ \E i \in RedoIndex : ClearOne(t, i)
             \/ \E r \in Slots : Collect(t, r) \/ StartLink(t, r)
    BY <2>1 DEF TypeOK, ClearOne, Collect, StartLink, Begin, At, Goto
  <2>2. CASE \/ \E o \in Objs : Pptr(t, o)
             \/ ObjSlow(t) \/ ObjPage(t) \/ OutOfMemory(t) \/ Take(t)
             \/ WriteHeader(t)
    BY <2>2 DEF TypeOK, Pptr, ObjSlow, ObjPage, OutOfMemory, Take,
       WriteHeader, Return, At, Goto
  <2>3. CASE \/ Prepare(t) \/ CasFail(t) \/ WriteRef(t)
             \/ FinishLink(t) \/ FinishUnlink(t) \/ FreeBlock(t) \/ Release(t)
    BY <2>3 DEF TypeOK, Prepare, CasFail, WriteRef, FinishLink,
       FinishUnlink, FreeBlock, Release, Return, At, Goto
  <2>4. QED
    BY <1>2, <2>1, <2>2, <2>3 DEF ClientStep
<1>3. QED
  BY <1>1, <1>2 DEF ClientMoves

(* What a step of a client needs besides.                                  *)
LEMMA ClientHands ==
  ASSUME MaxThread \notin Threads, IInv, HandInv, CountExact',
         NEW t \in Threads, ClientMoves(t)
  PROVE  HandInv'
<1>0. TypeOK /\ LocInv
  BY DEF IInv
<1>1. \A o \in Objs : Safe(o) => Safe(o)'
  BY ClientSafe
<1>2. ASSUME NEW u \in Threads, (mode[u] = "live")', pc'[u] \in {"cased", "written"}
      PROVE  Safe(loc[u].obj)'
  <2>1. CASE u = t /\ Cas(t)
    <3>1. loc' = loc
      BY <2>1 DEF Cas
    <3>2. QED
      BY <2>1, <3>1, CasSafe
  <2>2. CASE ~(u = t /\ Cas(t))
    <3>1. /\ mode[u] = "live" /\ pc[u] \in {"cased", "written"}
          /\ loc'[u] = loc[u]
      <4>1. CASE u # t
        BY <1>0, <1>2, <4>1, OthersStay
      <4>2. CASE u = t
        BY <1>0, <1>2, <2>2, <4>2, OwnStay
      <4>3. QED
        BY <4>1, <4>2
    <3>2. loc[u].obj \in Objs
      BY <1>0, <3>1 DEF LocInv, LocOK, LinkPC, TypeOK, Locals
    <3>3. QED
      BY <1>1, <1>2, <3>1, <3>2 DEF HandInv, Safe
  <2>3. QED
    BY <2>1, <2>2
<1>3. QED
  BY <1>2 DEF HandInv

(* The monitor and the segment pass run when no client does.               *)
LEMMA MonitorHands ==
  ASSUME ~Concurrent, IInv, \/ \E t \in Threads : MonitorStep(t)
                           \/ Sweep
  PROVE  HandInv'
<1>0. TypeOK /\ MonitorInv
  BY DEF IInv
<1>1. ASSUME NEW t \in Threads, MonitorStep(t), NEW u \in Threads
      PROVE  mode'[u] # "live"
  <2>1. CASE \E i \in RedoIndex : RedoLoad(t, i)
    BY <1>0, <2>1 DEF RedoLoad, Turn, TypeOK
  <2>2. CASE \E i \in RedoIndex : RedoApply(t, i)
    BY <1>0, <2>2 DEF RedoApply, MonitorInv, Stopping, TypeOK
  <2>3. CASE \/ \E r \in Slots : RecoverSkip(t, r) \/ RecoverRead(t, r)
             \/ RecoverCas(t) \/ RecoverCasFail(t) \/ RecoverDrop(t)
             \/ TlsRelease(t)
    BY <1>0, <2>3 DEF RecoverSkip, RecoverRead, RecoverCas, RecoverCasFail,
       RecoverDrop, TlsRelease, At, MonitorInv, Stopping, TypeOK
  <2>4. QED
    BY <1>1, <2>1, <2>2, <2>3 DEF MonitorStep
<1>2. CASE Sweep
  BY <1>2 DEF Sweep, HandInv
<1>3. QED
  BY <1>1, <1>2 DEF HandInv

LEMMA HandNext ==
  ASSUME ~Concurrent, OwnMemory, MaxThread \notin Threads, IInv, HandInv, [Next]_vars
  PROVE  HandInv'
<1>0. CountExact'
  BY NextInv DEF IInv
<1>1. CASE \E t \in Threads : ClientMoves(t)
  BY <1>0, <1>1, ClientHands
<1>2. CASE (\E t \in Threads : MonitorStep(t)) \/ Sweep
  BY <1>2, MonitorHands
<1>3. CASE UNCHANGED vars
  BY <1>3 DEF vars, HandInv, Safe, Has, eff, Committed
<1>4. QED
  BY <1>1, <1>2, <1>3 DEF Next, ClientMoves

(* LeakInv holds in every reachable state.                                 *)
THEOREM HandCorrect ==
  ASSUME ~Concurrent, OwnMemory, MaxThread \notin Threads
  PROVE  Spec => []LeakInv
<1>1. Init => HandInv
  BY DEF Init, HandInv
<1>2. Init => IInv
  BY InitInv
<1>3. LeakInv /\ [Next]_vars => LeakInv'
  BY NextInv, HandNext DEF LeakInv
<1>4. QED
  BY <1>1, <1>2, <1>3, PTL DEF Spec, LeakInv

Hands == {"pptr", "taken", "cased", "written", "free", "rcased"}

LEMMA LostIs ==
  /\ Lost = {o \in Objs : /\ o \notin pool /\ ~Referred(o)
                         /\ \A u \in Threads : loc[u].obj = o => pc[u] \notin Hands}
  /\ Lost' = {o \in Objs : /\ o \notin pool' /\ ~Referred(o)'
                          /\ \A u \in Threads : loc'[u].obj = o => pc'[u] \notin Hands}
BY DEF Lost, Referred, Refs, Hands

(* A client loses nothing, whether it goes on or stops.                    *)
LEMMA ClientLoses ==
  ASSUME MaxThread \notin Threads, IInv, HandInv, CountExact',
         NEW t \in Threads, ClientMoves(t)
  PROVE  Lost' \subseteq Lost
<1>0. TypeOK /\ LocInv
  BY DEF IInv
<1>1. SUFFICES ASSUME NEW o \in Objs, o \in Lost', o \notin Lost
               PROVE  FALSE
  BY DEF Lost
<1>2. ~Safe(o)'
  BY <1>1, LostIs DEF Safe, Has, Hands, Referred
<1>3. ~Safe(o)
  BY <1>2, ClientSafe
<1>4. PICK u \in Threads : loc[u].obj = o /\ pc[u] \in Hands
  BY <1>1, <1>3, LostIs DEF Safe, Referred
<1>5. ~(mode[u] = "live" /\ pc[u] \in {"cased", "written"})
  BY <1>3, <1>4 DEF HandInv
<1>6. pc[u] \in {"cased", "written", "rcased"}
  BY <1>3, <1>4 DEF Safe, Has, Hands
<1>7. pc'[u] = pc[u] /\ loc'[u] = loc[u]
  <2>1. CASE u # t
    BY <1>0, <2>1, OthersStay
  <2>2. CASE u = t
    <3>1. ~(mode[t] = "live" /\ pc[t] = "rcased")
      BY <1>0 DEF LocInv, LocOK, Working, ClientPC
    <3>2. mode[t] # "live"
      BY <1>5, <1>6, <2>2, <3>1
    <3>3. ThreadInit(t)
      BY <3>2 DEF ClientMoves, StartOp, ClientStep, Crash, TbrSlow, TbrFast,
         StartDrop, ClearOne, Collect, StartLink, Pptr, ObjSlow, ObjPage,
         OutOfMemory, Take, WriteHeader, Prepare, Cas, CasFail, WriteRef,
         FinishLink, FinishUnlink, FreeBlock, Release, At
    <3>4. QED
      BY <2>2, <3>3 DEF ThreadInit
  <2>3. QED
    BY <2>1, <2>2
<1>8. QED
  BY <1>1, <1>4, <1>7, LostIs

(* A step that touches the registers of t only.                            *)
LEMMA LosesOwn ==
  ASSUME NEW t \in Threads, eff' = eff, pool \subseteq pool',
         \A u \in Threads \ {t} : pc'[u] = pc[u] /\ loc'[u] = loc[u]
  PROVE  /\ Lost' \ Lost \subseteq {loc[t].obj}
         /\ pc[t] \notin Hands => Lost' \subseteq Lost
<1>1. \A o \in Objs : Referred(o)' <=> Referred(o)
  BY DEF Referred
<1>2. QED
  BY <1>1, LostIs

(* The monitor loses at most the block of the thread it recovers.          *)
LEMMA MonitorLoses ==
  ASSUME ~Concurrent, OwnMemory, MaxThread \notin Threads, IInv, NEW t \in Threads,
         MonitorStep(t)
  PROVE  \/ Lost' \subseteq Lost
         \/ /\ Lost' \ Lost = {loc[t].obj}
            /\ \/ mode[t] = "redo" /\ pc[t] \in {"pptr", "taken", "cased", "written", "free"}
               \/ pc[t] = "rcased"
<1>0. TypeOK /\ LocInv
  BY DEF IInv
<1>1. CASE \E i \in RedoIndex : RedoLoad(t, i)
  <2>1. eff' = eff
    BY <1>1, RecoverQuiet DEF RS!vars
  <2>2. /\ pool' = pool /\ pc' = pc
        /\ \A u \in Threads : loc'[u].obj = loc[u].obj
    BY <1>0, <1>1 DEF RedoLoad, TypeOK, Locals
  <2>3. QED
    BY <2>1, <2>2, LostIs DEF Referred
<1>2. CASE \E i \in RedoIndex : RedoApply(t, i)
  <2>1. eff' = eff
    BY <1>2, RedoKeepsStep
  <2>2. /\ pool' = pool /\ mode[t] = "redo"
        /\ \A u \in Threads \ {t} : pc'[u] = pc[u] /\ loc'[u] = loc[u]
    BY <1>0, <1>2 DEF RedoApply, TypeOK
  <2>3. Lost' \ Lost \subseteq {loc[t].obj} /\ (pc[t] \notin Hands => Lost' \subseteq Lost)
    BY <2>1, <2>2, LosesOwn
  <2>4. pc[t] \in Hands => pc[t] \in {"pptr", "taken", "cased", "written", "free"}
    BY <1>0, <2>2 DEF LocInv, LocOK, Working, ClientPC, Hands
  <2>5. QED
    BY <2>2, <2>3, <2>4
<1>3. CASE \E r \in Slots : RecoverSkip(t, r) \/ RecoverRead(t, r)
  <2>1. eff' = eff
    BY <1>3, SkipQuiet, RecoverQuiet DEF RS!vars
  <2>2. /\ pool' = pool /\ pc[t] = "scan"
        /\ \A u \in Threads \ {t} : pc'[u] = pc[u] /\ loc'[u] = loc[u]
    BY <1>0, <1>3 DEF RecoverSkip, RecoverRead, At, Goto, TypeOK
  <2>3. QED
    BY <2>1, <2>2, LosesOwn DEF Hands
<1>4. CASE RecoverCasFail(t) \/ TlsRelease(t)
  <2>1. eff' = eff
    BY <1>4, RecoverQuiet DEF RS!vars
  <2>2. /\ pool' = pool /\ pc[t] \in {"rread", "scan"}
        /\ \A u \in Threads \ {t} : pc'[u] = pc[u] /\ loc'[u] = loc[u]
    BY <1>0, <1>4 DEF RecoverCasFail, TlsRelease, At, Goto, TypeOK
  <2>3. QED
    BY <2>1, <2>2, LosesOwn DEF Hands
<1>5. CASE RecoverDrop(t)
  <2>1. eff' = eff
    BY <1>5, FreesReuse DEF RS!vars, RS!Reuse
  <2>2. /\ pool \subseteq pool' /\ pc[t] = "rcased"
        /\ \A u \in Threads \ {t} : pc'[u] = pc[u] /\ loc'[u] = loc[u]
    BY <1>0, <1>5 DEF RecoverDrop, At, Goto, TypeOK
  <2>3. QED
    BY <2>1, <2>2, LosesOwn
<1>6. CASE RecoverCas(t)
  <2>p. /\ loc[t].ref \in Slots /\ Owner[loc[t].ref] = t
        /\ slot[loc[t].ref] = "used" /\ ref[loc[t].ref] = loc[t].obj
        /\ pc[t] = "rread"
    <3>1. LocOK(t) /\ pc[t] = "rread" /\ loc[t].ref \in Slots \cup {Null}
      BY <1>0, <1>6 DEF RecoverCas, At, TypeOK, LocInv, Locals
    <3>2. QED
      BY <3>1 DEF LocOK
  <2>l. /\ pc'[t] = "rcased" /\ \A u \in Threads : u # t => pc'[u] = pc[u]
        /\ loc' = loc /\ ref' = ref /\ slot' = slot /\ pool' = pool
    BY <1>0, <1>6 DEF RecoverCas, Goto, TypeOK
  <2>1. \A q \in Slots \ {loc[t].ref} : eff'[q] = eff[q]
    BY <2>p, <2>l, OwnerAssumption DEF eff, Committed
  <2>2. eff[loc[t].ref] = loc[t].obj
    BY <2>p DEF eff, Committed
  <2>3. \A o \in Objs : Referred(o) => Referred(o)' \/ o = loc[t].obj
    BY <2>1, <2>2 DEF Referred
  <2>4. \A u \in Threads : pc[u] \in Hands => pc'[u] \in Hands
    BY <2>l, <2>p DEF Hands
  <2>5. pc'[t] \in Hands
    BY <2>l DEF Hands
  <2>6. QED
    BY <2>3, <2>4, <2>5, <2>l, LostIs
<1>7. QED
  BY <1>1, <1>2, <1>3, <1>4, <1>5, <1>6 DEF MonitorStep

(* No step of cxl_malloc, get_ref, the drop of a CXLRef or a crash loses a *)
(* block; recovery.cpp loses at most the one its dead client held.         *)
THEOREM LeakFree ==
  ASSUME ~Concurrent, OwnMemory, MaxThread \notin Threads
  PROVE  Spec => NoLeak
<1>1. ASSUME LeakInv, [Next]_vars
      PROVE  [Lost' \subseteq Lost \/ \E t \in Threads :
                /\ Lost' \ Lost = {loc[t].obj}
                /\ \/ mode[t] = "redo" /\ pc[t] \in {"pptr", "taken", "cased", "written", "free"}
                   \/ pc[t] = "rcased"]_vars
  <2>0. IInv /\ HandInv /\ CountExact'
    BY <1>1, NextInv DEF LeakInv, IInv
  <2>1. CASE \E t \in Threads : ClientMoves(t)
    BY <2>0, <2>1, ClientLoses
  <2>2. CASE \E t \in Threads : MonitorStep(t)
    BY <2>0, <2>2, MonitorLoses
  <2>3. CASE Sweep
    <3>1. Lost' = {}
      BY <2>3, LostIs DEF Sweep
    <3>2. QED
      BY <3>1
  <2>4. CASE UNCHANGED vars
    BY <2>4
  <2>5. QED
    BY <1>1, <2>1, <2>2, <2>3, <2>4 DEF Next, ClientMoves
<1>2. QED
  BY <1>1, HandCorrect, PTL DEF Spec, NoLeak
=============================================================================
