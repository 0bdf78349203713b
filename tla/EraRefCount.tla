---------------------------- MODULE EraRefCount ----------------------------
(***************************************************************************)
(* The era-based reference counting of cxl-shm: cxl_malloc, get_ref and    *)
(* the drop of a CXLRef by client threads (src/src/cxl_shm.cpp, alloc.cpp, *)
(* cxl_ref.cpp), their crash between any two steps, and the recovery of a  *)
(* crashed thread by the monitor (src/src/recovery.cpp).                   *)
(*                                                                         *)
(* A thread changes the count of an object with one compare-and-swap of    *)
(* the object's header (its own id, the count, its own era) and then       *)
(* writes the reference.  Before the swap it publishes in its row of the   *)
(* era matrix the era it saw in the header, and writes a redo log.  The    *)
(* monitor decides from the header, the matrix and the log alone whether a *)
(* crashed thread had passed its swap.                                     *)
(*                                                                         *)
(* Abstractions.  Blocks come from one pool: free lists, pages and         *)
(* segments are the business of other modules, but for one thing: a        *)
(* RootRef lies in a page, and once that page and its segment are given    *)
(* back (page.cpp:224-231) another thread may take the memory; Addr says   *)
(* which RootRefs of two threads share memory that way.  An object has no  *)
(* embedded references.  A reference is a RootRef of the thread that owns  *)
(* it; an object spreads from thread to thread by get_ref, whose caller    *)
(* must know a reference that outlives the call (src below).               *)
(***************************************************************************)
EXTENDS Integers, FiniteSets

CONSTANTS Threads,      \* thread ids, as thread_init numbers them from 1
          MaxThread,    \* MAX_THREAD
          Objs,         \* blocks that hold a CXLObj
          Slots,        \* blocks that hold a RootRef
          Owner,        \* the thread that allocates a RootRef
          Addr,         \* the memory a RootRef lies in
          RedoCnt,      \* REDO_CACHELINE_CNT
          MaxEra,       \* bound: no client operation starts at this era
          Concurrent,   \* FALSE: the monitor runs once every client stopped,
                        \* as the recovery test does; TRUE: beside survivors
          Null

ASSUME ThreadsAssumption == MaxThread \in Nat /\ Threads \subseteq 1..MaxThread
ASSUME DataAssumption == /\ IsFiniteSet(Objs) /\ IsFiniteSet(Slots)
                         /\ Null \notin Objs \cup Slots
ASSUME OwnerAssumption == Owner \in [Slots -> Threads]
ASSUME AddrAssumption ==
  \A r, q \in Slots : Addr[r] = Addr[q] /\ Owner[r] = Owner[q] => r = q
ASSUME BoundsAssumption == RedoCnt \in Nat \ {0} /\ MaxEra \in Nat
                           /\ Concurrent \in BOOLEAN

VARIABLES era,    \* era[i][j]: the era matrix; row i is written for thread i
          info,   \* CXLObj.ref_info, unpacked
          ref,    \* RootRef.pptr
          slot,   \* "free": on page->free; "used", "pending": in_use is 1;
                  \* "local": reachable by cxl_malloc_generic only
          redo,   \* cxl_thread_local_state_t.redo
          pool,   \* blocks the allocator may hand out
          pc,     \* where a thread, or the monitor on its behalf, stands
          loc,    \* the local variables of that code
          mode    \* of a thread and its thread-local state

vars == <<era, info, ref, slot, redo, pool, pc, loc, mode>>

-----------------------------------------------------------------------------
(* Data.  "pending" is "used" for the code: it marks, for eff below, the   *)
(* RootRef of a cxl_malloc whose object has no header yet.                 *)

ZeroInfo == [lcid |-> 0, cnt |-> 0, lenum |-> 0]
NoEntry  == [func |-> "none", era |-> 0, ref |-> Null, refed |-> Null]
NoLocals == [op |-> "none", ref |-> Null, obj |-> Null, src |-> Null,
             saw |-> ZeroInfo]

Info    == [lcid : Threads \cup {0}, cnt : Nat, lenum : Nat]
Entry   == [func : {"none", "link", "unlink"}, era : Nat,
            ref : Slots \cup {Null}, refed : Objs \cup {Null}]
Locals  == [op : {"none", "link", "unlink"}, ref : Slots \cup {Null},
            obj : Objs \cup {Null}, src : Slots \cup {Null}, saw : Info]
ClientPC  == {"idle", "clear", "tbr", "obj", "pptr", "taken", "read", "logged",
              "cased", "written", "free", "unlinked"}
MonitorPC == {"scan", "rread", "rcased"}
RedoIndex == 0..(RedoCnt - 1)
Line(n)   == n % RedoCnt       \* the line of the log for era n

Owned(t) == {r \in Slots : Owner[r] = t}
InUse(r) == slot[r] \in {"used", "pending"}
Era(t)   == era[t][t]

(* No memory serves two threads for their RootRefs, one after the other.   *)
OwnMemory == \A r, q \in Slots : Addr[r] = Addr[q] => r = q
(* The memory of r is not in a page that another thread has now.           *)
Vacant(r) == \A q \in Slots : Addr[q] = Addr[r] /\ q # r =>
               \A p \in Owned(Owner[q]) : slot[p] = "local"
Working  == {"live", "crashed", "redo"}

(* The matrix after thread t publishes the era it saw in a header.         *)
MutPublish(t, saw) == era       \* mutant: the row is never written
Publish(t, saw) ==
  IF saw.lcid \in Threads /\ saw.lenum > era[t][saw.lcid]
  THEN [era EXCEPT ![t][saw.lcid] = saw.lenum]
  ELSE era

Tick(t) == [era EXCEPT ![t][t] = @ + 1]

Init == /\ era  = [t \in Threads |-> [u \in Threads |-> IF u = t THEN 1 ELSE 0]]
        /\ info = [o \in Objs |-> ZeroInfo]
        /\ ref  = [r \in Slots |-> Null]
        /\ slot = [r \in Slots |-> "local"]
        /\ redo = [t \in Threads |-> [i \in RedoIndex |-> NoEntry]]
        /\ pool = Objs
        /\ pc   = [t \in Threads |-> "idle"]
        /\ loc  = [t \in Threads |-> NoLocals]
        /\ mode = [t \in Threads |-> "live"]

At(t, m, p) == mode[t] = m /\ pc[t] = p
Goto(t, p)  == pc' = [pc EXCEPT ![t] = p]
Return(t)   == Goto(t, "idle") /\ loc' = [loc EXCEPT ![t] = NoLocals]

-----------------------------------------------------------------------------
(* Allocation of a RootRef: the head of page->free when there is one, else *)
(* cxl_malloc_generic, which clears the redo log before it makes any freed *)
(* RootRef reachable again.                                                *)

MutClear(i, t) == TRUE          \* mutant: the memset is forgotten
Clear(i, t) == redo[t][i] = NoEntry

TbrFast(t, r) ==
  /\ At(t, "live", "idle") /\ Era(t) < MaxEra
  /\ Owner[r] = t /\ slot[r] = "free"
  /\ slot' = [slot EXCEPT ![r] = "used"]
  /\ ref'  = [ref EXCEPT ![r] = Null]
  /\ loc'  = [loc EXCEPT ![t].ref = r]
  /\ Goto(t, "tbr")
  /\ UNCHANGED <<era, info, redo, pool, mode>>

TbrSlow(t) ==
  /\ At(t, "live", "idle") /\ Era(t) < MaxEra
  /\ \A r \in Owned(t) : slot[r] # "free"
  /\ \E r \in Owned(t) : slot[r] = "local" /\ Vacant(r)
  /\ Goto(t, "clear")
  /\ UNCHANGED <<era, info, ref, slot, redo, pool, loc, mode>>

(* The memset of the log, one cache line at a time in any order.           *)
ClearOne(t, i) ==
  /\ At(t, "live", "clear") /\ ~Clear(i, t)
  /\ redo' = [redo EXCEPT ![t][i] = NoEntry]
  /\ UNCHANGED <<era, info, ref, slot, pool, pc, loc, mode>>

Collect(t, r) ==
  /\ At(t, "live", "clear") /\ loc[t].ref = Null
  /\ \A i \in RedoIndex : Clear(i, t)
  /\ Owner[r] = t /\ slot[r] = "local" /\ Vacant(r)
  /\ slot' = [q \in Slots |->
                IF q = r THEN "used"
                ELSE IF Owner[q] = t /\ slot[q] = "local" /\ Vacant(q) THEN "free"
                ELSE slot[q]]
  /\ ref'  = [ref EXCEPT ![r] = Null]
  /\ loc'  = [loc EXCEPT ![t].ref = r]
  /\ Goto(t, "tbr")
  /\ UNCHANGED <<era, info, redo, pool, mode>>

-----------------------------------------------------------------------------
(* cxl_ref_alloc: the block of the object, its RootRef, its header.        *)

ObjSlow(t) ==
  /\ At(t, "live", "tbr")
  /\ Goto(t, "clear")
  /\ UNCHANGED <<era, info, ref, slot, redo, pool, loc, mode>>

ObjPage(t) ==
  /\ At(t, "live", "clear") /\ loc[t].ref # Null
  /\ \A i \in RedoIndex : Clear(i, t)
  /\ Goto(t, "obj")
  /\ UNCHANGED <<era, info, ref, slot, redo, pool, loc, mode>>

Pptr(t, o) ==
  /\ mode[t] = "live" /\ pc[t] \in {"tbr", "obj"}
  /\ o \in pool
  /\ pool' = pool \ {o}
  /\ ref'  = [ref EXCEPT ![loc[t].ref] = o]
  /\ slot' = [slot EXCEPT ![loc[t].ref] = "pending"]
  /\ loc'  = [loc EXCEPT ![t].obj = o]
  /\ Goto(t, "pptr")
  /\ UNCHANGED <<era, info, redo, mode>>

(* No block: cxl_page_init dereferences a null page and the client dies.   *)
OutOfMemory(t) ==
  /\ mode[t] = "live" /\ pc[t] \in {"tbr", "obj"}
  /\ pool = {}
  /\ mode' = [mode EXCEPT ![t] = "crashed"]
  /\ UNCHANGED <<era, info, ref, slot, redo, pool, pc, loc>>

Take(t) ==
  /\ At(t, "live", "pptr")
  /\ loc' = [loc EXCEPT ![t].saw = [lcid |-> t, cnt |-> 1, lenum |-> Era(t)]]
  /\ era' = Tick(t)
  /\ Goto(t, "taken")
  /\ UNCHANGED <<info, ref, slot, redo, pool, mode>>

WriteHeader(t) ==
  /\ At(t, "live", "taken")
  /\ info' = [info EXCEPT ![loc[t].obj] = loc[t].saw]
  /\ slot' = [slot EXCEPT ![loc[t].ref] = "used"]
  /\ Return(t)
  /\ UNCHANGED <<era, ref, redo, pool, mode>>

-----------------------------------------------------------------------------
(* link_reference and unlink_reference.  Registers need no copy of         *)
(* cur_era: nobody but t changes Era(t) while t runs.                      *)

Pinned(r) == \E u \in Threads : mode[u] = "live" /\ loc[u].src = r
Settled(r) == /\ slot[r] = "used" /\ ref[r] # Null
              /\ \A u \in Threads : loc[u].ref # r

Begin(t, f, r, o, s) ==
  /\ loc' = [loc EXCEPT ![t] = [op |-> f, ref |-> r, obj |-> o, src |-> s,
                                saw |-> info[o]]]
  /\ Goto(t, "read")
  /\ UNCHANGED <<era, info, ref, slot, redo, pool, mode>>

(* get_ref of the object that reference s keeps alive.                     *)
StartLink(t, s) ==
  /\ At(t, "live", "tbr")
  /\ Settled(s) /\ mode[Owner[s]] = "live"
  /\ Begin(t, "link", loc[t].ref, ref[s], s)

(* The last CXLRef of RootRef r goes away: test_free, unlink_reference.    *)
StartDrop(t, r) ==
  /\ At(t, "live", "idle") /\ Era(t) < MaxEra
  /\ Owner[r] = t /\ Settled(r) /\ ~Pinned(r)
  /\ Begin(t, "unlink", r, ref[r], Null)

Prepare(t) ==
  /\ At(t, "live", "read")
  /\ era'  = Publish(t, loc[t].saw)
  /\ redo' = [redo EXCEPT ![t][Line(Era(t))] =
                [func |-> loc[t].op, era |-> Era(t),
                 ref |-> loc[t].ref, refed |-> loc[t].obj]]
  /\ Goto(t, "logged")
  /\ UNCHANGED <<info, ref, slot, pool, loc, mode>>

NewCount(t) == IF loc[t].op = "link" THEN loc[t].saw.cnt + 1
                                     ELSE loc[t].saw.cnt - 1

Cas(t) ==
  /\ At(t, "live", "logged")
  /\ info[loc[t].obj] = loc[t].saw
  /\ info' = [info EXCEPT ![loc[t].obj] =
                [lcid |-> t, cnt |-> NewCount(t), lenum |-> Era(t)]]
  /\ Goto(t, "cased")
  /\ UNCHANGED <<era, ref, slot, redo, pool, loc, mode>>

(* mutant: the loop keeps the header it read first                         *)
MutCasFail(t) ==
  /\ At(t, "live", "logged")
  /\ info[loc[t].obj] # loc[t].saw
  /\ Goto(t, "read")
  /\ UNCHANGED <<era, info, ref, slot, redo, pool, loc, mode>>

CasFail(t) ==
  /\ At(t, "live", "logged")
  /\ info[loc[t].obj] # loc[t].saw
  /\ loc' = [loc EXCEPT ![t].saw = info[loc[t].obj]]
  /\ Goto(t, "read")
  /\ UNCHANGED <<era, info, ref, slot, redo, pool, mode>>

WriteRef(t) ==
  /\ At(t, "live", "cased")
  /\ ref' = [ref EXCEPT ![loc[t].ref] =
               IF loc[t].op = "link" THEN loc[t].obj ELSE Null]
  /\ Goto(t, "written")
  /\ UNCHANGED <<era, info, slot, redo, pool, loc, mode>>

FinishLink(t) ==
  /\ At(t, "live", "written") /\ loc[t].op = "link"
  /\ era' = Tick(t)
  /\ Return(t)
  /\ UNCHANGED <<info, ref, slot, redo, pool, mode>>

(* The reference dropped was the last one; mutants: freed one reference    *)
(* too early; never freed.                                                 *)
MutFreeEarly(t) == loc[t].saw.cnt <= 2
MutFreeNever(t) == FALSE
LastDrop(t) == loc[t].saw.cnt = 1

FinishUnlink(t) ==
  /\ At(t, "live", "written") /\ loc[t].op = "unlink"
  /\ era' = Tick(t)
  /\ Goto(t, IF LastDrop(t) THEN "free" ELSE "unlinked")
  /\ UNCHANGED <<info, ref, slot, redo, pool, loc, mode>>

(* cxl_free of the object: its header is cleared, its block listed.        *)
FreeBlock(t) ==
  /\ At(t, "live", "free")
  /\ info' = [info EXCEPT ![loc[t].obj] = ZeroInfo]
  /\ pool' = pool \cup {loc[t].obj}
  /\ Goto(t, "unlinked")
  /\ UNCHANGED <<era, ref, slot, redo, loc, mode>>

(* in_use = 0 and cxl_free of the RootRef; a page with no RootRef in use   *)
(* is given back, which puts its free blocks out of reach as well, and its *)
(* memory within the reach of others (Vacant).  The log is not cleared.    *)
Release(t) ==
  /\ At(t, "live", "unlinked")
  /\ LET r == loc[t].ref
         retire == \A q \in Owned(t) \ {r} : ~InUse(q)
     IN slot' = [q \in Slots |-> IF q = r \/ (retire /\ Owner[q] = t)
                                 THEN "local" ELSE slot[q]]
  /\ Return(t)
  /\ UNCHANGED <<era, info, ref, redo, pool, mode>>

(* The client stops for good, between any two of the steps above.          *)
Crash(t) ==
  /\ mode[t] = "live"
  /\ mode' = [mode EXCEPT ![t] = "crashed"]
  /\ UNCHANGED <<era, info, ref, slot, redo, pool, pc, loc>>

-----------------------------------------------------------------------------
(* single_recovery_loop for one crashed thread: redo_ref_cnt, then the     *)
(* RootRefs of recovery_garbage_collection, then the thread-local state.   *)

IsLast(t, i) ==
  \A j \in RedoIndex : /\ redo[t][j].era <= redo[t][i].era
                       /\ j < i => redo[t][j].era < redo[t][i].era

(* Rows j = 0 .. MAX_THREAD-1 of the matrix; row 0 does not exist.         *)
ScannedRows(t) == (Threads \cap 0..(MaxThread - 1)) \ {t}

(* mutants: a strict comparison; the header alone                          *)
MutNeedRedoStrict(t, e, lo_cid, lo_era) ==
  \/ lo_cid = t /\ lo_era = e.era
  \/ \E j \in ScannedRows(t) : era[j][t] > e.era
MutNeedRedoHeader(t, e, lo_cid, lo_era) ==
  lo_cid = t /\ lo_era = e.era

NeedRedo(t, e, lo_cid, lo_era) ==
  \/ lo_cid = t /\ lo_era = e.era
  \/ \E j \in ScannedRows(t) : era[j][t] >= e.era

MonitorFree == \A u \in Threads : mode[u] \notin {"redo", "recover"}

(* One pass visits the thread-local states in order; beside survivors, a   *)
(* thread may also crash behind the pass and be found by the next one.     *)
Turn(t) ==
  \/ Concurrent
  \/ \A u \in Threads : /\ mode[u] # "live"
                        /\ mode[u] = "crashed" => t <= u

(* redo_ref_cnt loads the header twice, once for the id, once for the era. *)
RedoLoad(t, i) ==
  /\ mode[t] = "crashed" /\ MonitorFree /\ Turn(t) /\ IsLast(t, i)
  /\ mode' = [mode EXCEPT ![t] = "redo"]
  /\ loc'  = [loc EXCEPT ![t].saw = IF redo[t][i].func = "none" THEN ZeroInfo
                                    ELSE info[redo[t][i].refed]]
  /\ UNCHANGED <<era, info, ref, slot, redo, pool, pc>>

(* pptr of r written by its address, whoever uses that memory now.         *)
Store(r, o) == [q \in Slots |-> IF Addr[q] = Addr[r] THEN o ELSE ref[q]]

RedoApply(t, i) ==
  /\ mode[t] = "redo" /\ IsLast(t, i)
  /\ LET e == redo[t][i]
         again == /\ e.func # "none"
                  /\ NeedRedo(t, e, loc[t].saw.lcid, info[e.refed].lenum)
     IN ref' = IF again
               THEN Store(e.ref, IF e.func = "link" THEN e.refed ELSE Null)
               ELSE ref
  /\ mode' = [mode EXCEPT ![t] = "recover"]
  /\ pc'   = [pc EXCEPT ![t] = "scan"]
  /\ loc'  = [loc EXCEPT ![t] = NoLocals]
  /\ UNCHANGED <<era, info, slot, redo, pool>>

DropSlot(r) == /\ slot' = [slot EXCEPT ![r] = "local"]
               /\ ref'  = [ref EXCEPT ![r] = Null]

(* recovery_test_free returns at once when the count is zero.              *)
RecoverSkip(t, r) ==
  /\ At(t, "recover", "scan")
  /\ Owner[r] = t /\ InUse(r)
  /\ ref[r] # Null => info[ref[r]].cnt = 0
  /\ DropSlot(r)
  /\ UNCHANGED <<era, info, redo, pool, pc, loc, mode>>

RecoverRead(t, r) ==
  /\ At(t, "recover", "scan")
  /\ Owner[r] = t /\ InUse(r) /\ ~Pinned(r)
  /\ ref[r] # Null /\ info[ref[r]].cnt # 0
  /\ loc' = [loc EXCEPT ![t] = [op |-> "unlink", ref |-> r, obj |-> ref[r],
                                src |-> Null, saw |-> info[ref[r]]]]
  /\ Goto(t, "rread")
  /\ UNCHANGED <<era, info, ref, slot, redo, pool, mode>>

RecoverCas(t) ==
  /\ At(t, "recover", "rread")
  /\ info[loc[t].obj] = loc[t].saw
  /\ era'  = Publish(t, loc[t].saw)
  /\ info' = [info EXCEPT ![loc[t].obj] =
                [lcid |-> t, cnt |-> NewCount(t), lenum |-> Era(t)]]
  /\ Goto(t, "rcased")
  /\ UNCHANGED <<ref, slot, redo, pool, loc, mode>>

(* The swap fails when somebody replaced the header, and may fail when     *)
(* nobody did (compare_exchange_weak; in CasFail that would only repeat the*)
(* two steps before it).  The era it saw is published anyway.              *)
RecoverCasFail(t) ==
  /\ At(t, "recover", "rread")
  /\ era' = Publish(t, loc[t].saw)
  /\ loc' = [loc EXCEPT ![t].saw = info[loc[t].obj]]
  /\ UNCHANGED <<info, ref, slot, redo, pool, pc, mode>>

(* recovery_cxl_free lists the block only when it lies in the segment of   *)
(* another thread; a block of the dead thread waits for Sweep.             *)
RecoverDrop(t) ==
  /\ At(t, "recover", "rcased")
  /\ DropSlot(loc[t].ref)
  /\ era' = Tick(t)
  /\ IF LastDrop(t)
     THEN /\ info' = [info EXCEPT ![loc[t].obj] = ZeroInfo]
          /\ pool' \in {pool, pool \cup {loc[t].obj}}
     ELSE UNCHANGED <<info, pool>>
  /\ loc' = [loc EXCEPT ![t] = NoLocals]
  /\ Goto(t, "scan")
  /\ UNCHANGED <<redo, mode>>

TlsRelease(t) ==
  /\ At(t, "recover", "scan")
  /\ \A r \in Owned(t) : ~InUse(r)
  /\ slot' = [r \in Slots |-> IF Owner[r] = t THEN "local" ELSE slot[r]]
  /\ mode' = [mode EXCEPT ![t] = "gone"]
  /\ Goto(t, "idle")
  /\ UNCHANGED <<era, info, ref, redo, pool, loc>>

(* The segment pass, once every thread-local state is released: a segment  *)
(* without a live block is given back, its blocks are initialised anew.    *)
Sweep ==
  /\ \A t \in Threads : mode[t] = "gone"
  /\ pool # Objs /\ \A o \in Objs : info[o].cnt = 0
  /\ pool' = Objs
  /\ info' = [o \in Objs |-> ZeroInfo]
  /\ UNCHANGED <<era, ref, slot, redo, pc, loc, mode>>

(* A new client takes the id; the old redo log stays.                      *)
ThreadInit(t) ==
  /\ mode[t] = "gone" /\ MonitorFree /\ Era(t) < MaxEra
  /\ era'  = Tick(t)
  /\ mode' = [mode EXCEPT ![t] = "live"]
  /\ UNCHANGED <<info, ref, slot, redo, pool, pc, loc>>

-----------------------------------------------------------------------------
StartOp(t) ==
  \/ TbrSlow(t)
  \/ \E r \in Slots : TbrFast(t, r) \/ StartDrop(t, r)

(* The rest of an operation a client has begun.                            *)
ClientStep(t) ==
  \/ \E i \in RedoIndex : ClearOne(t, i)
  \/ \E r \in Slots : Collect(t, r) \/ StartLink(t, r)
  \/ \E o \in Objs : Pptr(t, o)
  \/ ObjSlow(t) \/ ObjPage(t) \/ OutOfMemory(t) \/ Take(t) \/ WriteHeader(t)
  \/ Prepare(t) \/ Cas(t) \/ CasFail(t) \/ WriteRef(t)
  \/ FinishLink(t) \/ FinishUnlink(t) \/ FreeBlock(t) \/ Release(t)

MonitorStep(t) ==
  \/ \E i \in RedoIndex : RedoLoad(t, i) \/ RedoApply(t, i)
  \/ \E r \in Slots : RecoverSkip(t, r) \/ RecoverRead(t, r)
  \/ RecoverCas(t) \/ RecoverCasFail(t) \/ RecoverDrop(t) \/ TlsRelease(t)

Next == \/ \E t \in Threads : \/ StartOp(t) \/ ClientStep(t) \/ Crash(t)
                              \/ MonitorStep(t) \/ ThreadInit(t)
        \/ Sweep

Spec == Init /\ [][Next]_vars

(* A client that is not stopped goes on with its call, and the monitor is  *)
(* one loop that never stops; nothing makes a client start, crash or join. *)
Fairness == /\ \A t \in Threads : WF_vars(ClientStep(t))
            /\ WF_vars(Sweep \/ \E t \in Threads : MonitorStep(t))

FairSpec == Spec /\ Fairness

-----------------------------------------------------------------------------
(* What the counts stand for.  The swap is the moment a reference appears  *)
(* or disappears; until pptr is written the header knows more than pptr.   *)

Committed(t) == pc[t] \in {"cased", "rcased"}

eff == [r \in Slots |->
          LET t == Owner[r]
          IN IF slot[r] # "used" THEN Null
             ELSE IF Committed(t) /\ loc[t].ref = r
                  THEN IF loc[t].op = "link" THEN loc[t].obj ELSE Null
             ELSE ref[r]]

Refs(o) == {r \in Slots : eff[r] = o}

(* Type correctness of the state.                                          *)
TypeOK ==
  /\ era  \in [Threads -> [Threads -> Nat]]
  /\ info \in [Objs -> Info]
  /\ ref  \in [Slots -> Objs \cup {Null}]
  /\ slot \in [Slots -> {"free", "used", "pending", "local"}]
  /\ redo \in [Threads -> [RedoIndex -> Entry]]
  /\ pool \subseteq Objs
  /\ pc   \in [Threads -> ClientPC \cup MonitorPC]
  /\ loc  \in [Threads -> Locals]
  /\ mode \in [Threads -> Working \cup {"recover", "gone"}]

(* The count in the header of an object is the number of references to it, *)
(* whatever operations, crashes and recoveries are under way: no leak, no  *)
(* early free (link_reference, unlink_reference, recovery).                *)
CountExact == \A o \in Objs : info[o].cnt = Cardinality(Refs(o))

(* While a thread is between its log and the end of its operation, the     *)
(* test of redo_ref_cnt answers exactly whether the swap has happened,     *)
(* although other threads may have replaced the header since.              *)
Evidence(t) ==
  \E i \in RedoIndex :
    LET e == redo[t][i]
    IN /\ IsLast(t, i) /\ e.func # "none"
       /\ NeedRedo(t, e, info[e.refed].lcid, info[e.refed].lenum)
RedoDecides ==
  \A t \in Threads :
    mode[t] \in Working /\ pc[t] \in {"logged", "cased", "written"}
      => (Evidence(t) <=> pc[t] # "logged")

(* A redo restores the references the counts stand for and changes none of *)
(* them: not that of a later operation, not a RootRef its own thread has   *)
(* recycled (redo_ref_cnt, the memset of page.cpp:11).  It needs OwnMemory:*)
(* a RootRef whose memory has gone to another thread is overwritten.       *)
RedoKeeps ==
  [][\A t \in Threads, i \in RedoIndex : RedoApply(t, i) => eff' = eff]_vars

(* A block the allocator may hand out has no reference, no count, and is   *)
(* in nobody's hands; no two threads hold one block to free or fill it.    *)
Holding(t) == mode[t] \in Working /\ pc[t] \in {"pptr", "taken", "free"}
PoolSound ==
  /\ \A o \in pool : info[o] = ZeroInfo /\ Refs(o) = {}
  /\ \A t \in Threads : Holding(t) =>
       /\ loc[t].obj \notin pool /\ info[loc[t].obj].cnt = 0
       /\ \A u \in Threads \ {t} : Holding(u) => loc[u].obj # loc[t].obj

(* No step of a client, its death included, leaves a block that is neither *)
(* free, nor referenced, nor in the hands of one thread.  A recovery loses *)
(* at most the block its dead client held, or frees into the dead client's *)
(* own pages; Sweep finds those.                                           *)
Lost == {o \in Objs \ pool :
           /\ Refs(o) = {}
           /\ \A t \in Threads : loc[t].obj = o =>
                pc[t] \notin {"pptr", "taken", "cased", "written", "free", "rcased"}}
NoLeak ==
  [][Lost' \subseteq Lost \/ \E t \in Threads :
       /\ Lost' \ Lost = {loc[t].obj}
       /\ \/ mode[t] = "redo" /\ pc[t] \in {"pptr", "taken", "cased", "written", "free"}
          \/ pc[t] = "rcased"]_vars

(* README: no wild pointer, even if some clients unexpectedly fail.  The   *)
(* reference a running client holds leads to a block that is counted and   *)
(* that the allocator does not hand out.                                   *)
NoWildPointer ==
  \A r \in Slots :
    mode[Owner[r]] = "live" /\ Settled(r)
      => info[ref[r]].cnt > 0 /\ ref[r] \notin pool

(* Every call of a client that is not stopped returns, whatever the others *)
(* do and wherever they die (README: no global blocking).                  *)
NonBlocking ==
  \A t \in Threads :
    (mode[t] = "live" /\ pc[t] # "idle") ~> (pc[t] = "idle" \/ mode[t] # "live")

(* When every client has stopped the monitor gets all blocks back          *)
(* (check_recovery: free all successfully), unless a new client arrives.   *)
AllReclaimed ==
  (\A t \in Threads : mode[t] # "live")
     ~> (pool = Objs \/ \E t \in Threads : mode[t] = "live")
=============================================================================
