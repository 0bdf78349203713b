----------------------------- MODULE ObjTreeInv -----------------------------
(***************************************************************************)
(* The inductive invariant behind ObjTreeProofs: which references count,   *)
(* that a thread that drops a tree has it for itself, what the registers   *)
(* of a call say, and what the last record of a thread's log would redo.   *)
(***************************************************************************)
EXTENDS ObjTree

Calm    == \A t \in Threads : mode[t] \in {"live", "crashed"}
Before(t) == mode[t] \in {"live", "crashed"}     \* not recovered yet
Busy(t) == pc[t] \in {"log", "swap", "store"}

(* The monitor starts when nobody runs.                                    *)
PhaseInv == Calm \/ \A t \in Threads : mode[t] # "live"

(* The references that count: a link from its swap on, an unlink until it. *)
Linked(w, o) == \E t \in Threads : /\ pc[t] = "store" /\ loc[t].func = "link"
                                   /\ loc[t].place = w /\ loc[t].obj = o
Refs == [o \in Objs |-> {w \in Places : (word[w] = o /\ ~Unlinked(w)) \/ Linked(w, o)}]
CountInv == \A o \in Objs : count[o] = Cardinality(Refs[o])

(* References in objects lead down, and none is left in an object that no  *)
(* reference leads to.                                                     *)
TreeInv ==
  \A w \in Words : /\ word[w] # Null => Level[word[w]] < Level[In[w]]
                   /\ Refs[In[w]] = {} => word[w] = Null

PoolInv == \A o \in pool : Refs[o] = {}

(* A RootRef with a handle refers to an object.                            *)
HandleInv == Calm => \A r \in Roots : handles[r] > 0 => word[r] # Null

(* The activations of test_free go down from a RootRef of the thread that  *)
(* has no handle, along references that are the only ones to their object, *)
(* of which the words before have been dropped.                            *)
Bare(o) == \A w \in WordsOf(o) : word[w] = Null
StackOK(t) ==
  LET s == stack[t]
  IN /\ s # <<>> => s[1] \in Roots /\ Owner[s[1]] = t /\ (Before(t) => handles[s[1]] = 0)
     /\ \A i \in DOMAIN s : i > 1 =>
          /\ s[i] \in Words /\ word[s[i - 1]] = In[s[i]] /\ Refs[In[s[i]]] = {s[i - 1]}
          /\ \A w \in WordsOf(In[s[i]]) : Nr[w] < Nr[s[i]] => word[w] = Null
     /\ \A i, j \in DOMAIN s : s[i] = s[j] => i = j
On(w, t) == \E i \in DOMAIN stack[t] : stack[t][i] = w
StackInv ==
  /\ \A t \in Threads : StackOK(t)
  /\ \A t, u \in Threads, w \in Places : On(w, t) /\ On(w, u) => t = u

(* One client at a time drops a parent.                                    *)
AloneInv ==
  \A t, u \in Threads : DropsTree(t) /\ DropsTree(u) => t = u

(* Where a thread stands.                                                  *)
PcOK(t) ==
  /\ Before(t) => pc[t] # "unlink"
  /\ ~Before(t) => pc[t] \in {"idle", "test", "unlink"}
  /\ mode[t] = "gone" => pc[t] = "idle"
  /\ pc[t] = "idle" => stack[t] = <<>>
  /\ pc[t] \in {"test", "free", "unlink"} => stack[t] # <<>>
  /\ pc[t] \in {"idle", "test", "unlink"} => loc[t] = NoLocals
  /\ Busy(t) => loc[t].func # "none" /\ loc[t].place # Null /\ loc[t].obj # Null

(* A link: the word is empty and nobody else's, and the reference that is  *)
(* copied stays until the copy counts.                                     *)
LinkOK(t) ==
  LET l == loc[t]
  IN Busy(t) /\ l.func = "link" =>
       /\ stack[t] = <<>> /\ word[l.place] = Null
       /\ l.place \in Roots => Owner[l.place] = t /\ handles[l.place] = 0
       /\ l.place \in Words => /\ Holds(t, In[l.place]) /\ Level[l.obj] < Level[In[l.place]]
                               /\ \A u \in Threads \ {t} : loc[u].place # l.place
       /\ mode[t] = "live" /\ pc[t] # "store" =>
            l.from # Null /\ handles[l.from] > 0 /\ word[l.from] = l.obj

(* An unlink: it is the last one only for an object without references in  *)
(* it, and a block that is to be freed has no reference left.              *)
Releasing(t, o) == /\ loc[t].obj = o
                   /\ \/ pc[t] = "free"
                      \/ pc[t] = "store" /\ loc[t].func = "unlink" /\ loc[t].last
UnlinkOK(t) ==
  LET l == loc[t]
  IN /\ Busy(t) /\ l.func = "unlink" =>
          /\ stack[t] # <<>> /\ l.place = Top(t) /\ word[l.place] = l.obj
          /\ mode[t] = "live" /\ pc[t] # "store" /\ l.obj \in Parents =>
               Bare(l.obj) \/ \E w \in Refs[l.obj] : w # l.place
     /\ pc[t] = "free" => l.obj # Null /\ word[Top(t)] = Null
     /\ \A o \in Objs : Releasing(t, o) => Refs[o] = {} /\ o \notin pool
     /\ pc[t] = "unlink" => /\ word[Top(t)] \in Parents /\ Bare(word[Top(t)])
                            /\ Refs[word[Top(t)]] = {Top(t)}
LocInv ==
  /\ \A t \in Threads : PcOK(t) /\ LinkOK(t) /\ UnlinkOK(t)
  /\ \A t, u \in Threads, o \in Objs : Releasing(t, o) /\ Releasing(u, o) => t = u

(* The last record is that of the operation under way; or its word is what *)
(* a redo would make it, and nobody else can change it.                    *)
LogOK(t) ==
  LET g == log[t]
      l == loc[t]
  IN /\ pc[t] = "swap" => ~g.done
     /\ pc[t] \in {"swap", "store"} => g.func = l.func /\ g.place = l.place /\ g.obj = l.obj
     /\ g.done => g.func # "none" /\ g.place # Null /\ g.obj # Null
     /\ pc[t] = "store" => g.done
     /\ pc[t] # "store" /\ g.done =>
          /\ word[g.place] = IF g.func = "link" THEN g.obj ELSE Null
          /\ g.place \in Roots => Owner[g.place] = t
          /\ g.place \in Words =>
               IF g.func = "link"
               THEN \E r \in Roots : Owner[r] = t /\ r \in Refs[In[g.place]]
               ELSE \E i \in DOMAIN stack[t] : Refs[In[g.place]] = {stack[t][i]}
LogInv == \A t \in Threads : Before(t) => LogOK(t)

IInv == /\ TypeOK /\ PhaseInv /\ CountInv /\ TreeInv /\ PoolInv /\ HandleInv
        /\ StackInv /\ AloneInv /\ LocInv /\ LogInv
=============================================================================
