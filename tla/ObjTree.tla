------------------------------- MODULE ObjTree -------------------------------
(***************************************************************************)
(* Objects that hold references to other objects (cxl_malloc with an       *)
(* embedded_ref_cnt, src/src/cxl_shm.cpp), the handles through which a     *)
(* client uses them (src/src/cxl_ref.cpp), the recursive drop of test_free *)
(* and what the monitor makes of a tree whose users have stopped between   *)
(* any two steps of that (recovery_test_free, src/src/recovery.cpp).       *)
(*                                                                         *)
(* Abstractions.  A place is a reference word: a RootRef, or one of the    *)
(* embedded words of a block, whose number a block has once for all.       *)
(* cxl_malloc is one step.  As in Transfer, a log record tells whether its *)
(* swap happened (EraProofs shows that the monitor can tell).  test_free   *)
(* is a stack of the places its activations were called for: the loop over *)
(* the words of a parent replaces the top by the next word.  As in         *)
(* EraRefCount, Addr says which RootRefs of two threads share memory when  *)
(* pages and segments of RootRefs are given back (page.cpp:224-231).       *)
(***************************************************************************)
EXTENDS Integers, FiniteSets, SequencesExt

CONSTANTS Threads,     \* thread ids
          Roots,       \* RootRefs
          Owner,       \* the thread that allocates a RootRef
          Addr,        \* the memory a RootRef lies in
          Objs,        \* blocks for objects
          Home,        \* the thread in whose segment a block lies
          Words,       \* embedded references of all blocks
          In,          \* the block an embedded reference lies in
          Nr,          \* its number there
          Level,       \* references lead to lower levels: there are no cycles
          MaxHandles,  \* bound: handles on a RootRef
          Overlap,     \* may two clients drop references to parents at once
          Null

ASSUME TreeAssumption  == /\ IsFiniteSet(Roots) /\ IsFiniteSet(Objs)
                          /\ IsFiniteSet(Threads) /\ Threads \subseteq Nat
                          /\ IsFiniteSet(Words) /\ Roots \cap Words = {}
                          /\ Null \notin Roots \cup Objs \cup Words
ASSUME WordAssumption  == /\ In \in [Words -> Objs] /\ Nr \in [Words -> Nat]
                          /\ \A v, w \in Words : In[v] = In[w] /\ Nr[v] = Nr[w] => v = w
ASSUME OwnerAssumption == /\ Owner \in [Roots -> Threads] /\ Home \in [Objs -> Threads]
                          /\ Level \in [Objs -> Nat] /\ MaxHandles \in [Roots -> Nat]
                          /\ Overlap \in BOOLEAN
ASSUME AddrAssumption ==
  \A r, q \in Roots : Addr[r] = Addr[q] /\ Owner[r] = Owner[q] => r = q

VARIABLES word,      \* what a place refers to
          count,     \* the count in the header of an object
          pool,      \* blocks on a free list
          handles,   \* ref_cnt of a RootRef: the CXLRefs that share it
          log,       \* the last record of a thread's redo log
          stack,     \* the activations of test_free, or of recovery_test_free
          pc, loc, mode

heap == <<word, count, pool>>
ctl  == <<pc, loc, stack>>
vars == <<heap, handles, log, ctl, mode>>

-----------------------------------------------------------------------------
Places   == Roots \cup Words
WordsOf(o) == {w \in Words : In[w] = o}
Parents  == {o \in Objs : WordsOf(o) # {}}
MutLater(w) == {}                 \* mutant: the first word of a parent only
Later(w) == {v \in Words : w \in Words /\ In[v] = In[w] /\ Nr[v] > Nr[w]}
Foremost(W) == {w \in W : \A v \in W : Nr[w] <= Nr[v]}
NoLog    == [func |-> "none", place |-> Null, obj |-> Null, done |-> FALSE]
NoLocals == [func |-> "none", place |-> Null, obj |-> Null, from |-> Null,
             last |-> FALSE]

Init == /\ word  = [w \in Places |-> Null]
        /\ count = [o \in Objs |-> 0]
        /\ pool  = Objs
        /\ handles = [r \in Roots |-> 0]
        /\ log   = [t \in Threads |-> NoLog]
        /\ stack = [t \in Threads |-> <<>>]
        /\ pc    = [t \in Threads |-> "idle"]
        /\ loc   = [t \in Threads |-> NoLocals]
        /\ mode  = [t \in Threads |-> "live"]

At(t, p)   == mode[t] = "live" /\ pc[t] = p
Goto(t, p) == pc' = [pc EXCEPT ![t] = p]
Top(t)     == Last(stack[t])

Holds(t, o)  == \E r \in Roots : Owner[r] = t /\ handles[r] > 0 /\ word[r] = o
Unused(r) == /\ handles[r] = 0 /\ word[r] = Null
             /\ \A u \in Threads : loc[u].place # r /\ r \notin ToSet(stack[u])

(* No memory serves two threads for their RootRefs, one after the other.   *)
OwnMemory == \A r, q \in Roots : Addr[r] = Addr[q] => r = q
(* The memory of r is not in a page that another thread has now.           *)
Vacant(r) == \A q \in Roots : Addr[q] = Addr[r] /\ q # r =>
               \A p \in Roots : Owner[p] = Owner[q] => Unused(p)
FreeRoot(t, r) == Owner[r] = t /\ handles[r] = 0 /\ word[r] = Null /\ Vacant(r)

(* A released RootRef waits on local_free for the slow path of the         *)
(* allocator, which clears the log before it searches.                     *)
Cleared(t) == [log EXCEPT ![t] = NoLog]
MutTakeRoot(t, r) == log' \in {log, Cleared(t)}   \* mutant: not cleared
TakeRoot(t, r) ==
  log' \in (IF log[t].place = r THEN {} ELSE {log}) \cup {Cleared(t)}

(* The client a reference is copied from keeps it until the copy counts.   *)
Pinned(r) == \E u \in Threads : mode[u] = "live" /\ loc[u].from = r

-----------------------------------------------------------------------------
(* Handles: made by cxl_malloc and get_ref, copied, destroyed.             *)

Malloc(t, r, o) ==
  /\ At(t, "idle") /\ FreeRoot(t, r) /\ o \in pool /\ Home[o] = t
  /\ TakeRoot(t, r)
  /\ word'  = [word EXCEPT ![r] = o]
  /\ count' = [count EXCEPT ![o] = 1]
  /\ pool'  = pool \ {o}
  /\ handles' = [handles EXCEPT ![r] = 1]
  /\ UNCHANGED <<ctl, mode>>

CopyHandle(t, r) ==
  /\ At(t, "idle") /\ Owner[r] = t /\ handles[r] \in 1..(MaxHandles[r] - 1)
  /\ handles' = [handles EXCEPT ![r] = @ + 1]
  /\ UNCHANGED <<heap, log, ctl, mode>>

Operate(t, f, w, o, s) ==
  /\ loc' = [loc EXCEPT ![t] = [func |-> f, place |-> w, obj |-> o,
                                from |-> s, last |-> FALSE]]
  /\ Goto(t, "log")

(* get_ref of an object that a RootRef s, of any client, leads to.         *)
GetRef(t, r, s) ==
  /\ At(t, "idle") /\ FreeRoot(t, r)
  /\ handles[s] > 0 /\ word[s] # Null
  /\ TakeRoot(t, r)
  /\ Operate(t, "link", r, word[s], s)
  /\ UNCHANGED <<heap, handles, stack, mode>>

(* link_reference of an embedded word of an object, to an object, by a     *)
(* client that has handles on both (test/benchmark/rpc_client.cpp:98).     *)
Attach(t, w, s) ==
  /\ At(t, "idle") /\ Holds(t, In[w]) /\ word[w] = Null
  /\ Owner[s] = t /\ handles[s] > 0 /\ word[s] # Null
  /\ Level[word[s]] < Level[In[w]]
  /\ \A u \in Threads : loc[u].place # w
  /\ Operate(t, "link", w, word[s], s)
  /\ UNCHANGED <<heap, handles, log, stack, mode>>

(* ~CXLRef: the last handle of a RootRef drops its reference.              *)
DropsTree(u) == mode[u] = "live" /\ stack[u] # <<>> /\ word[stack[u][1]] \in Parents
MayDrop(t, o) == o \in Parents => Overlap \/ \A u \in Threads \ {t} : ~DropsTree(u)

MutDestroyAny(t, r) ==            \* mutant: the reference goes with any handle
  /\ At(t, "idle") /\ Owner[r] = t /\ handles[r] > 0
  /\ handles' = [handles EXCEPT ![r] = @ - 1]
  /\ ~Pinned(r) /\ MayDrop(t, word[r])
  /\ stack' = [stack EXCEPT ![t] = <<r>>]
  /\ Goto(t, "test") /\ UNCHANGED loc
  /\ UNCHANGED <<heap, log, mode>>

Destroy(t, r) ==
  /\ At(t, "idle") /\ Owner[r] = t /\ handles[r] > 0
  /\ handles' = [handles EXCEPT ![r] = @ - 1]
  /\ IF handles[r] > 1
     THEN UNCHANGED ctl
     ELSE /\ ~Pinned(r) /\ MayDrop(t, word[r])
          /\ stack' = [stack EXCEPT ![t] = <<r>>]
          /\ Goto(t, "test") /\ UNCHANGED loc
  /\ UNCHANGED <<heap, log, mode>>

-----------------------------------------------------------------------------
(* test_free.  When an activation returns its caller goes on to the next   *)
(* word of the parent; after the last one it unlinks the reference it was  *)
(* called for, whatever the count has become.                              *)

Unlink(t, w) == Operate(t, "unlink", w, word[w], Null)

NextWord(t, w) == /\ w \in Foremost(Later(Top(t)))
                  /\ stack' = [stack EXCEPT ![t] = Append(Front(@), w)]
LastWord(t) == Later(Top(t)) = {} /\ stack' = [stack EXCEPT ![t] = Front(@)]

Pop(t) ==
  \/ /\ \E w \in Words : NextWord(t, w)
     /\ Goto(t, "test") /\ loc' = [loc EXCEPT ![t] = NoLocals]
  \/ /\ LastWord(t)
     /\ IF Len(stack[t]) = 1
        THEN Goto(t, "idle") /\ loc' = [loc EXCEPT ![t] = NoLocals]
        ELSE Unlink(t, Last(Front(stack[t])))

Descend(t, o) == \E w \in Foremost(WordsOf(o)) :
                   stack' = [stack EXCEPT ![t] = Append(@, w)]

MutTest(t) ==                     \* mutant: the embedded words are left alone
  /\ At(t, "test")
  /\ IF word[Top(t)] = Null THEN Pop(t)
                            ELSE Unlink(t, Top(t)) /\ UNCHANGED stack
  /\ UNCHANGED <<heap, handles, log, mode>>

Test(t) ==
  /\ At(t, "test")
  /\ LET o == word[Top(t)]
     IN \/ o = Null /\ Pop(t)
        \/ /\ o # Null /\ count[o] > (IF o \in Parents THEN 1 ELSE 0)
           /\ Unlink(t, Top(t)) /\ UNCHANGED stack
        \/ /\ o \in Parents /\ count[o] = 1
           /\ Descend(t, o) /\ UNCHANGED <<pc, loc>>
  /\ UNCHANGED <<heap, handles, log, mode>>

-----------------------------------------------------------------------------
(* link_reference and unlink_reference of loc[t].                          *)

Log(t) ==
  /\ At(t, "log")
  /\ log' = [log EXCEPT ![t] = [func |-> loc[t].func, place |-> loc[t].place,
                                obj |-> loc[t].obj, done |-> FALSE]]
  /\ Goto(t, "swap")
  /\ UNCHANGED <<heap, handles, loc, stack, mode>>

Swap(t) ==
  LET o == loc[t].obj
  IN /\ At(t, "swap")
     /\ count' = [count EXCEPT ![o] = IF loc[t].func = "link" THEN @ + 1 ELSE @ - 1]
     /\ loc' = [loc EXCEPT ![t].last = loc[t].func = "unlink" /\ count[o] = 1]
     /\ log' = [log EXCEPT ![t].done = TRUE]
     /\ Goto(t, "store")
     /\ UNCHANGED <<word, pool, handles, stack, mode>>

MutPut(f, w, o) ==                \* mutant: unlink leaves the word
  word' = [word EXCEPT ![w] = o]
Put(f, w, o) == word' = [word EXCEPT ![w] = IF f = "link" THEN o ELSE Null]

(* After a link, get_ref counts its first handle and the call returns;     *)
(* after an unlink, the block is freed if the count has become zero.       *)
Store(t) ==
  LET l == loc[t]
  IN /\ At(t, "store")
     /\ Put(l.func, l.place, l.obj)
     /\ \/ /\ l.func = "link"
           /\ handles' = IF l.place \in Roots
                         THEN [handles EXCEPT ![l.place] = 1] ELSE handles
           /\ Goto(t, "idle") /\ loc' = [loc EXCEPT ![t] = NoLocals]
           /\ UNCHANGED stack
        \/ /\ l.func = "unlink" /\ l.last
           /\ Goto(t, "free") /\ UNCHANGED <<loc, stack, handles>>
        \/ l.func = "unlink" /\ ~l.last /\ Pop(t) /\ UNCHANGED handles
     /\ UNCHANGED <<count, pool, log, mode>>

Free(t) ==
  /\ At(t, "free")
  /\ pool' = pool \cup {loc[t].obj}
  /\ Pop(t)
  /\ UNCHANGED <<word, count, handles, log, mode>>

Crash(t) ==
  /\ mode[t] = "live"
  /\ mode' = [mode EXCEPT ![t] = "crashed"]
  /\ UNCHANGED <<heap, handles, log, ctl>>

-----------------------------------------------------------------------------
(* The monitor, when every client has stopped: by ascending id, the redo   *)
(* of the last record and then the RootRefs of the thread.                 *)

Turn(t) == \A u \in Threads : /\ mode[u] \in {"crashed", "gone"}
                              /\ mode[u] = "crashed" => t <= u

(* The word of place w written by its address, whoever uses it now.        *)
Memory(w) == {v \in Places : v = w \/ ({v, w} \subseteq Roots /\ Addr[v] = Addr[w])}
Repeat(f, w, o) == word' = [v \in Places |-> IF v \notin Memory(w) THEN word[v]
                                             ELSE IF f = "link" THEN o ELSE Null]

Redo(t) ==
  /\ mode[t] = "crashed" /\ Turn(t)
  /\ IF log[t].done THEN Repeat(log[t].func, log[t].place, log[t].obj)
                    ELSE UNCHANGED word
  /\ mode'  = [mode EXCEPT ![t] = "recover"]
  /\ stack' = [stack EXCEPT ![t] = <<>>]
  /\ loc' = [loc EXCEPT ![t] = NoLocals] /\ Goto(t, "idle")
  /\ UNCHANGED <<count, pool, handles, log>>

Recovering(t, p) == mode[t] = "recover" /\ pc[t] = p

Visit(t, r) ==
  /\ Recovering(t, "idle") /\ Owner[r] = t /\ word[r] # Null
  /\ stack' = [stack EXCEPT ![t] = <<r>>] /\ Goto(t, "test")
  /\ UNCHANGED <<heap, handles, log, loc, mode>>

(* An activation of recovery_test_free is over, with the same loop; with   *)
(* the first one, the RootRef is over too: it is cleared whatever its word *)
(* is.                                                                     *)
Leave(t, words) ==
  \/ /\ \E w \in Words : NextWord(t, w)
     /\ word' = words /\ UNCHANGED handles /\ Goto(t, "test")
  \/ /\ LastWord(t)
     /\ IF Len(stack[t]) = 1
        THEN /\ word' = [words EXCEPT ![Top(t)] = Null]
             /\ handles' = [handles EXCEPT ![Top(t)] = 0]
             /\ Goto(t, "idle")
        ELSE word' = words /\ UNCHANGED handles /\ Goto(t, "unlink")

(* recovery_unlink_reference with recovery_cxl_free.                       *)
RecoveryUnlink(t) ==
  LET o == word[Top(t)]
  IN /\ count' = [count EXCEPT ![o] = @ - 1]
     /\ pool' = IF count[o] = 1 THEN pool \cup {o} ELSE pool
     /\ Leave(t, [word EXCEPT ![Top(t)] = Null])

MutRecoveryTest(t) ==             \* mutant: no descent
  /\ Recovering(t, "test")
  /\ LET o == word[Top(t)]
     IN IF IF o = Null THEN TRUE ELSE count[o] = 0
        THEN Leave(t, word) /\ UNCHANGED <<count, pool>>
        ELSE RecoveryUnlink(t)
  /\ UNCHANGED <<log, loc, mode>>

RecoveryTest(t) ==
  /\ Recovering(t, "test")
  /\ LET o == word[Top(t)]
     IN \/ /\ IF o = Null THEN TRUE ELSE count[o] = 0
           /\ Leave(t, word) /\ UNCHANGED <<count, pool>>
        \/ o # Null /\ count[o] > (IF o \in Parents THEN 1 ELSE 0)
           /\ RecoveryUnlink(t)
        \/ /\ o \in Parents /\ count[o] = 1
           /\ Descend(t, o) /\ UNCHANGED <<heap, handles, pc>>
  /\ UNCHANGED <<log, loc, mode>>

RecoveryReturn(t) ==
  /\ Recovering(t, "unlink") /\ RecoveryUnlink(t)
  /\ UNCHANGED <<log, loc, mode>>

Finish(t) ==
  /\ Recovering(t, "idle") /\ \A r \in Roots : Owner[r] = t => word[r] = Null
  /\ mode' = [mode EXCEPT ![t] = "gone"]
  /\ UNCHANGED <<heap, handles, log, ctl>>

-----------------------------------------------------------------------------
StartOp(t) ==
  \E r \in Roots : \/ CopyHandle(t, r) \/ Destroy(t, r)
                   \/ \E o \in Objs : Malloc(t, r, o)
                   \/ \E s \in Roots : GetRef(t, r, s)
                   \/ \E w \in Words : Attach(t, w, r)

ClientStep(t)  == Test(t) \/ Log(t) \/ Swap(t) \/ Store(t) \/ Free(t)
MonitorStep(t) == \/ Redo(t) \/ RecoveryTest(t) \/ RecoveryReturn(t) \/ Finish(t)
                  \/ \E r \in Roots : Visit(t, r)

Next == \E t \in Threads : StartOp(t) \/ ClientStep(t) \/ Crash(t) \/ MonitorStep(t)
Spec == Init /\ [][Next]_vars

(* The monitor never stops; nothing makes a client go on or crash.         *)
FairSpec == Spec /\ \A t \in Threads : WF_vars(MonitorStep(t))

-----------------------------------------------------------------------------
(* Type correctness of the state.                                          *)
TypeOK ==
  /\ word \in [Places -> Objs \cup {Null}]
  /\ count \in [Objs -> Nat] /\ pool \subseteq Objs
  /\ handles \in [Roots -> Nat]
  /\ log \in [Threads -> [func : {"none", "link", "unlink"},
                          place : Places \cup {Null},
                          obj : Objs \cup {Null}, done : BOOLEAN]]
  /\ stack \in [Threads -> Seq(Places)]
  /\ pc \in [Threads -> {"idle", "test", "log", "swap", "store", "free", "unlink"}]
  /\ loc \in [Threads -> [func : {"none", "link", "unlink"},
                          place : Places \cup {Null}, obj : Objs \cup {Null},
                          from : Roots \cup {Null}, last : BOOLEAN]]
  /\ mode \in [Threads -> {"live", "crashed", "recover", "gone"}]

(* The count of an object is the number of RootRefs and embedded words     *)
(* that refer to it, an operation counting from its swap on: whichever of  *)
(* several droppers of a tree and makers of references stop, between two   *)
(* words of a parent too, and however far the monitor has come.            *)
Referring(o) == {w \in Places : word[w] = o}
Pending(o, f) == {t \in Threads : pc[t] = "store" /\ loc[t].obj = o /\ loc[t].func = f}
CountExact ==
  \A o \in Objs : count[o] = Cardinality(Referring(o)) + Cardinality(Pending(o, "link"))
                             - Cardinality(Pending(o, "unlink"))

(* README: no memory leak.  An object that counts is reached from a        *)
(* RootRef through embedded words, or is about to be: test_free has        *)
(* dropped the embedded references of a parent before it gave it back.     *)
(* What is reached is what every set has that has the objects RootRefs     *)
(* lead to and, with a parent, what its embedded words lead to.            *)
Rooted(S) == /\ \A r \in Roots : word[r] \in S \cup {Null}
             /\ \A o \in Objs : Pending(o, "link") # {} => o \in S
             /\ \A w \in Words : In[w] \in S => word[w] \in S \cup {Null}
NoOrphan == \A S \in SUBSET Objs : Rooted(S) => \A o \in Objs : count[o] > 0 => o \in S

(* README: no wild pointer.  No reference, of a client or in an object,    *)
(* leads to a block on a free list, a word that only waits for its store   *)
(* or its redo apart; and a block on a free list holds none: cxl_malloc    *)
(* does not clear the embedded words of the block it hands out.            *)
Unlinked(w) == \E t \in Threads : pc[t] = "store" /\ loc[t].func = "unlink" /\ loc[t].place = w
PoolClean ==
  /\ \A w \in Places : ~Unlinked(w) => word[w] \notin pool
  /\ \A w \in Words : In[w] \in pool => word[w] = Null

(* As long as a running client has a handle, the object it leads to counts *)
(* (RootRef.ref_cnt: the reference goes with the last handle only).        *)
HandleSafe ==
  \A r \in Roots : mode[Owner[r]] = "live" /\ handles[r] > 0
                     => word[r] # Null /\ count[word[r]] > 0

(* The redo of the last record changes a word only if the operation was    *)
(* under way: one that was over, whose word has since been dropped by      *)
(* others or lies in a RootRef of the same thread or a parent recycled, is *)
(* not repeated with effect (redo_ref_cnt does not look at the word it     *)
(* writes).  It needs OwnMemory, as in EraRefCount.                        *)
RedoKeeps ==
  [][\A t \in Threads : mode[t] = "crashed" /\ mode'[t] = "recover" /\ pc[t] # "store"
                          => word' = word]_vars

(* README: no memory leak even if clients fail.  When all clients have     *)
(* stopped, every count of every tree returns to zero.                     *)
AllReclaimed ==
  (\A t \in Threads : mode[t] # "live")
    ~> (\A o \in Objs : count[o] = 0) /\ \A t \in Threads : mode[t] = "gone"
=============================================================================
