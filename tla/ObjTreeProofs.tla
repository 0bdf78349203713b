--------------------------- MODULE ObjTreeProofs ---------------------------
(***************************************************************************)
(* IInv of ObjTreeInv is an inductive invariant of ObjTree, for any        *)
(* threads, objects with any number of embedded words, RootRefs and any    *)
(* graph of references that goes down in Level, as long as one client at a *)
(* time drops a parent (~Overlap) and no memory serves two threads for     *)
(* their RootRefs (OwnMemory): counts are exact, nothing counted is cut    *)
(* off, nothing refers to a free block, and a redo repeats nothing that    *)
(* was over.                                                               *)
(***************************************************************************)
EXTENDS ObjTreeInv, LinkLemmas

-----------------------------------------------------------------------------
(* Stacks of activations, and how many places there are.                   *)

LEMMA PlaceIs ==
  /\ Roots \cap Words = {} /\ Parents \subseteq Objs /\ Null \notin Places /\ Null \notin Objs
  /\ Roots \subseteq Places /\ Words \subseteq Places
  /\ \A w \in Places : w \in Roots \/ w \in Words
  /\ Null \notin Roots /\ Null \notin Words /\ Null \notin Parents
BY TreeAssumption DEF Places, Parents

(* The words of an object, and the order in which they are dropped.        *)
LEMMA WordIs ==
  /\ \A w \in Words : In[w] \in Objs /\ In[w] \in Parents /\ Nr[w] \in Nat
  /\ \A o : \A w : w \in WordsOf(o) <=> w \in Words /\ In[w] = o
BY WordAssumption DEF Parents, WordsOf

LEMMA LaterIs ==
  /\ \A w \in Roots : Later(w) = {}
  /\ \A w \in Words : Later(w) = {} =>
       \A x \in WordsOf(In[w]) : x = w \/ Nr[x] < Nr[w]
  /\ \A w \in Words : \A v \in Foremost(Later(w)) :
       /\ v \in Words /\ In[v] = In[w] /\ v # w
       /\ \A x \in WordsOf(In[v]) : Nr[x] < Nr[v] => x = w \/ Nr[x] < Nr[w]
  /\ \A o : \A v \in Foremost(WordsOf(o)) :
       /\ v \in Words /\ In[v] = o
       /\ \A x \in WordsOf(o) : ~(Nr[x] < Nr[v])
<1>0. /\ \A w \in Words : Nr[w] \in Nat
      /\ \A o : \A w : w \in WordsOf(o) <=> w \in Words /\ In[w] = o
      /\ \A v, w \in Words : In[v] = In[w] /\ Nr[v] = Nr[w] => v = w
      /\ \A w, v : v \in Later(w) <=> v \in Words /\ w \in Words /\ In[v] = In[w] /\ Nr[v] > Nr[w]
  BY WordIs, WordAssumption DEF Later
<1>1. ASSUME NEW w \in Roots PROVE Later(w) = {}
  BY <1>0, PlaceIs
<1>2. ASSUME NEW w \in Words, Later(w) = {}, NEW x \in WordsOf(In[w]) PROVE x = w \/ Nr[x] < Nr[w]
  <2>1. x \in Words /\ In[x] = In[w] /\ ~(Nr[x] > Nr[w])
    BY <1>0, <1>2
  <2>2. Nr[x] = Nr[w] => x = w
    BY <1>0, <2>1
  <2> QED
    BY <1>0, <2>1, <2>2
<1>3. ASSUME NEW w \in Words, NEW v \in Foremost(Later(w))
      PROVE  /\ v \in Words /\ In[v] = In[w] /\ v # w
             /\ \A x \in WordsOf(In[v]) : Nr[x] < Nr[v] => x = w \/ Nr[x] < Nr[w]
  <2>1. v \in Later(w) /\ \A x \in Later(w) : Nr[v] <= Nr[x]
    BY DEF Foremost
  <2>2. v \in Words /\ In[v] = In[w] /\ Nr[v] > Nr[w]
    BY <1>0, <2>1
  <2>3. ASSUME NEW x \in WordsOf(In[v]), Nr[x] < Nr[v] PROVE x = w \/ Nr[x] < Nr[w]
    <3>1. x \in Words /\ In[x] = In[w] /\ Nr[x] \in Nat /\ Nr[v] \in Nat /\ Nr[w] \in Nat
      BY <1>0, <2>2
    <3>2. x \notin Later(w)
      BY <2>1, <2>3, <3>1
    <3>3. ~(Nr[x] > Nr[w])
      BY <1>0, <3>1, <3>2
    <3>4. Nr[x] = Nr[w] => x = w
      BY <1>0, <3>1
    <3> QED
      BY <3>1, <3>3, <3>4
  <2> QED
    BY <1>0, <2>2, <2>3
<1>4. ASSUME NEW o, NEW v \in Foremost(WordsOf(o))
      PROVE  v \in Words /\ In[v] = o /\ \A x \in WordsOf(o) : ~(Nr[x] < Nr[v])
  <2>1. v \in WordsOf(o) /\ \A x \in WordsOf(o) : Nr[v] <= Nr[x]
    BY DEF Foremost
  <2> QED
    BY <1>0, <2>1
<1> QED
  BY <1>1, <1>2, <1>3, <1>4

LEMMA SeqIs ==
  ASSUME NEW s \in Seq(Places), s # <<>>
  PROVE  /\ Len(s) \in Nat /\ Len(s) > 0 /\ DOMAIN s = 1..Len(s)
         /\ Last(s) = s[Len(s)] /\ Last(s) \in Places
         /\ \A i \in DOMAIN s : s[i] \in Places
<1>1. Len(s) \in Nat /\ DOMAIN s = 1..Len(s)
  BY LenProperties
<1>2. Len(s) > 0
  BY <1>1, EmptySeq
<1>3. \A i \in DOMAIN s : s[i] \in Places
  BY <1>1, ElementOfSeq
<1>4. Last(s) = s[Len(s)]
  BY DEF Last
<1> QED
  BY <1>1, <1>2, <1>3, <1>4

LEMMA FrontIs ==
  ASSUME NEW s \in Seq(Places), s # <<>>
  PROVE  /\ Front(s) \in Seq(Places) /\ Len(Front(s)) = Len(s) - 1
         /\ DOMAIN Front(s) = 1..(Len(s) - 1)
         /\ \A i \in DOMAIN Front(s) : Front(s)[i] = s[i]
         /\ Len(s) = 1 <=> Front(s) = <<>>
         /\ Len(s) > 1 => Last(Front(s)) = s[Len(s) - 1]
<1>1. Len(s) \in Nat /\ Len(s) > 0 /\ DOMAIN s = 1..Len(s) /\ \A i \in DOMAIN s : s[i] \in Places
  BY SeqIs
<1>2. Front(s) = SubSeq(s, 1, Len(s) - 1)
  BY DEF Front
<1>3. /\ Front(s) \in Seq(Places) /\ Len(Front(s)) = Len(s) - 1
      /\ \A i \in 1..(Len(s) - 1) : Front(s)[i] = s[i]
  BY <1>1, <1>2, SubSeqProperties
<1>4. DOMAIN Front(s) = 1..(Len(s) - 1)
  BY <1>3, LenProperties
<1>5. Len(s) = 1 <=> Front(s) = <<>>
  BY <1>1, <1>3, EmptySeq
<1>6. Len(s) > 1 => Last(Front(s)) = s[Len(s) - 1]
  BY <1>1, <1>3 DEF Last
<1> QED
  BY <1>1, <1>3, <1>4, <1>5, <1>6

LEMMA AppendIs ==
  ASSUME NEW s \in Seq(Places), NEW x \in Places
  PROVE  /\ Append(s, x) \in Seq(Places) /\ Append(s, x) # <<>>
         /\ Len(Append(s, x)) = Len(s) + 1 /\ Len(s) \in Nat
         /\ DOMAIN Append(s, x) = 1..(Len(s) + 1) /\ DOMAIN s = 1..Len(s)
         /\ \A i \in 1..Len(s) : Append(s, x)[i] = s[i]
         /\ Append(s, x)[Len(s) + 1] = x /\ Last(Append(s, x)) = x
<1>1. Len(s) \in Nat /\ DOMAIN s = 1..Len(s)
  BY LenProperties
<1>2. /\ Append(s, x) \in Seq(Places) /\ Len(Append(s, x)) = Len(s) + 1
      /\ \A i \in 1..Len(s) : Append(s, x)[i] = s[i]
      /\ Append(s, x)[Len(s) + 1] = x
  BY AppendProperties
<1>3. DOMAIN Append(s, x) = 1..(Len(s) + 1)
  BY <1>2, LenProperties
<1>4. Append(s, x) # <<>>
  BY <1>1, <1>2, EmptySeq
<1>5. Last(Append(s, x)) = x
  BY <1>1, <1>2 DEF Last
<1> QED
  BY <1>1, <1>2, <1>3, <1>4, <1>5

LEMMA OneIs ==
  ASSUME NEW x \in Places
  PROVE  /\ <<x>> \in Seq(Places) /\ <<x>> # <<>> /\ Len(<<x>>) = 1
         /\ DOMAIN <<x>> = {1} /\ <<x>>[1] = x /\ Last(<<x>>) = x
BY DEF Last

(* Sets of places are finite; one more, one less, one, and several.        *)
LEMMA Counting ==
  ASSUME NEW S, S \subseteq Places
  PROVE  /\ IsFiniteSet(S) /\ Cardinality(S) \in Nat /\ (Cardinality(S) = 0 <=> S = {})
         /\ \A x : x \notin S => Cardinality(S \cup {x}) = Cardinality(S) + 1
         /\ \A x \in S : Cardinality(S \ {x}) = Cardinality(S) - 1
         /\ Cardinality(S) = 1 => \A x \in S : S = {x}
         /\ Cardinality(S) > 1 => \A x \in S : \E y \in S : y # x
<1>1. IsFiniteSet(S)
  <2>1. IsFiniteSet(Places)
    BY TreeAssumption, FS_Union DEF Places
  <2> QED
    BY <2>1, FS_Subset
<1>2. Cardinality(S) \in Nat /\ (Cardinality(S) = 0 <=> S = {})
  BY <1>1, FS_CardinalityType, FS_EmptySet
<1>3. \A x : x \notin S => Cardinality(S \cup {x}) = Cardinality(S) + 1
  BY <1>1, FS_AddElement
<1>4. \A x \in S : Cardinality(S \ {x}) = Cardinality(S) - 1
  BY <1>1, FS_RemoveElement
<1>5. ASSUME NEW x \in S, Cardinality(S) = 1 PROVE S = {x}
  <2>1. PICK y : S = {y}
    BY <1>1, <1>5, FS_Singleton
  <2> QED
    BY <2>1
<1>6. ASSUME NEW x \in S, Cardinality(S) > 1 PROVE \E y \in S : y # x
  <2>1. Cardinality({x}) = 1
    BY FS_Singleton
  <2>2. S # {x}
    BY <2>1, <1>6
  <2> QED
    BY <2>2
<1> QED
  BY <1>1, <1>2, <1>3, <1>4, <1>5, <1>6

-----------------------------------------------------------------------------
(* What the invariant says of one thread and its stack.                    *)

LEMMA StackIs ==
  ASSUME IInv, NEW t \in Threads
  PROVE  /\ stack[t] \in Seq(Places) /\ DOMAIN stack[t] = 1..Len(stack[t]) /\ Len(stack[t]) \in Nat
         /\ \A i \in DOMAIN stack[t] : stack[t][i] \in Places /\ On(stack[t][i], t)
         /\ stack[t] # <<>> =>
              /\ Len(stack[t]) > 0 /\ Top(t) = stack[t][Len(stack[t])] /\ Top(t) \in Places
              /\ On(Top(t), t) /\ stack[t][1] \in Roots /\ Owner[stack[t][1]] = t
              /\ 1 \in DOMAIN stack[t] /\ Len(stack[t]) \in DOMAIN stack[t]
<1>1. stack[t] \in Seq(Places)
  BY DEF IInv, TypeOK
<1>2. DOMAIN stack[t] = 1..Len(stack[t]) /\ Len(stack[t]) \in Nat
  BY <1>1, LenProperties
<1>3. \A i \in DOMAIN stack[t] : stack[t][i] \in Places /\ On(stack[t][i], t)
  BY <1>1, <1>2, ElementOfSeq DEF On
<1>4. ASSUME stack[t] # <<>>
      PROVE  /\ Len(stack[t]) > 0 /\ Top(t) = stack[t][Len(stack[t])] /\ Top(t) \in Places
             /\ On(Top(t), t) /\ stack[t][1] \in Roots /\ Owner[stack[t][1]] = t
             /\ 1 \in DOMAIN stack[t] /\ Len(stack[t]) \in DOMAIN stack[t]
  <2>1. Len(stack[t]) > 0 /\ Top(t) = stack[t][Len(stack[t])] /\ Top(t) \in Places
    BY <1>1, <1>4, SeqIs DEF Top
  <2>2. StackOK(t)
    BY DEF IInv, StackInv
  <2>3. stack[t][1] \in Roots /\ Owner[stack[t][1]] = t
    BY <1>4, <2>2 DEF StackOK
  <2>4. 1 \in DOMAIN stack[t] /\ Len(stack[t]) \in DOMAIN stack[t]
    BY <1>2, <2>1
  <2> QED
    BY <2>1, <2>3, <2>4, <1>3
<1> QED
  BY <1>1, <1>2, <1>3, <1>4

(* The first activation is that of a RootRef, the others of words.      *)
LEMMA OnIs ==
  ASSUME IInv, NEW t \in Threads, NEW w, On(w, t)
  PROVE  /\ w \in Places /\ stack[t] # <<>>
         /\ \A u \in Threads : On(w, u) => u = t
         /\ w \in Roots => Owner[w] = t /\ (Before(t) => handles[w] = 0) /\ w = stack[t][1]
         /\ w \in Words => \E v : On(v, t) /\ word[v] = In[w] /\ Refs[In[w]] = {v}
<1>1. PICK i \in DOMAIN stack[t] : stack[t][i] = w
  BY DEF On
<1>2. /\ DOMAIN stack[t] = 1..Len(stack[t]) /\ Len(stack[t]) \in Nat
      /\ \A k \in DOMAIN stack[t] : stack[t][k] \in Places /\ On(stack[t][k], t)
  BY StackIs
<1>3. w \in Places /\ stack[t] # <<>>
  BY <1>1, <1>2
<1>4. \A u \in Threads : On(w, u) => u = t
  BY <1>3 DEF IInv, StackInv
<1>5. StackOK(t)
  BY DEF IInv, StackInv
<1>6. i > 1 => w \in Words /\ word[stack[t][i - 1]] = In[w] /\ Refs[In[w]] = {stack[t][i - 1]}
  BY <1>1, <1>5 DEF StackOK
<1>7. i = 1 => w \in Roots /\ Owner[w] = t /\ (Before(t) => handles[w] = 0)
  BY <1>1, <1>3, <1>5 DEF StackOK
<1>8. w \in Roots => i = 1
  BY <1>1, <1>2, <1>6, PlaceIs
<1>9. ASSUME w \in Words PROVE \E v : On(v, t) /\ word[v] = In[w] /\ Refs[In[w]] = {v}
  <2>1. i > 1
    BY <1>1, <1>2, <1>7, <1>9, PlaceIs
  <2>2. i - 1 \in DOMAIN stack[t]
    BY <1>1, <1>2, <2>1
  <2>3. On(stack[t][i - 1], t)
    BY <1>2, <2>2
  <2> QED
    BY <1>6, <2>1, <2>3
<1> QED
  BY <1>1, <1>3, <1>4, <1>7, <1>8, <1>9

(* A word that waits for the store of its unlink is on top of a stack.     *)
LEMMA UnlinkedIs ==
  ASSUME IInv, NEW w
  PROVE  /\ \A t \in Threads : pc[t] = "store" /\ loc[t].func = "unlink" /\ loc[t].place = w
              => On(w, t) /\ w = Top(t) /\ stack[t] # <<>>
         /\ \A t \in Threads : On(w, t) /\ (pc[t] # "store" \/ loc[t].func # "unlink" \/ w # Top(t))
              => ~Unlinked(w)
         /\ (\A t \in Threads : ~On(w, t)) => ~Unlinked(w)
<1>1. ASSUME NEW t \in Threads, pc[t] = "store", loc[t].func = "unlink", loc[t].place = w
      PROVE  On(w, t) /\ w = Top(t) /\ stack[t] # <<>>
  <2>1. UnlinkOK(t)
    BY DEF IInv, LocInv
  <2>2. w = Top(t) /\ stack[t] # <<>>
    BY <1>1, <2>1 DEF UnlinkOK, Busy
  <2> QED
    BY <2>2, StackIs
<1>2. ASSUME NEW t \in Threads, On(w, t), Unlinked(w),
             pc[t] # "store" \/ loc[t].func # "unlink" \/ w # Top(t)
      PROVE  FALSE
  <2>1. PICK u \in Threads : pc[u] = "store" /\ loc[u].func = "unlink" /\ loc[u].place = w
    BY <1>2 DEF Unlinked
  <2>2. On(w, u) /\ w = Top(u)
    BY <1>1, <2>1
  <2>3. u = t
    BY <1>2, <2>2, OnIs
  <2> QED
    BY <1>2, <2>1, <2>2, <2>3
<1>3. ASSUME \A t \in Threads : ~On(w, t), Unlinked(w) PROVE FALSE
  <2>1. PICK u \in Threads : pc[u] = "store" /\ loc[u].func = "unlink" /\ loc[u].place = w
    BY <1>3 DEF Unlinked
  <2> QED
    BY <1>1, <1>3, <2>1
<1> QED
  BY <1>1, <1>2, <1>3

(* The reference of a RootRef counts as long as a handle uses it, and as   *)
(* long as the thread drops nothing.                                       *)
LEMMA HeldIs ==
  ASSUME IInv, NEW r \in Roots, word[r] # Null,
         stack[Owner[r]] = <<>> \/ (handles[r] > 0 /\ Before(Owner[r]))
  PROVE  /\ word[r] \in Objs /\ r \in Refs[word[r]] /\ ~Unlinked(r)
         /\ \A u \in Threads : ~On(r, u)
<1>1. word[r] \in Objs /\ r \in Places /\ handles[r] \in Nat
  BY PlaceIs, OwnerAssumption DEF IInv, TypeOK
<1>2. ASSUME NEW u \in Threads, On(r, u) PROVE FALSE
  <2>1. Owner[r] = u /\ (Before(u) => handles[r] = 0) /\ stack[u] # <<>>
    BY <1>2, OnIs
  <2> QED
    BY <1>1, <2>1
<1>3. ~Unlinked(r)
  BY <1>2, UnlinkedIs
<1> QED
  BY <1>1, <1>2, <1>3 DEF Refs

(* The word a link is for is nobody else's.                                *)
LEMMA LinkIs ==
  ASSUME IInv, NEW t \in Threads, Busy(t), loc[t].func = "link"
  PROVE  /\ loc[t].place \in Places /\ loc[t].obj \in Objs /\ word[loc[t].place] = Null
         /\ Before(t) /\ stack[t] = <<>> /\ ~Unlinked(loc[t].place)
         /\ \A u \in Threads : ~On(loc[t].place, u)
         /\ \A u \in Threads \ {t} : Busy(u) => loc[u].place # loc[t].place
         /\ loc[t].place \in Roots => Owner[loc[t].place] = t /\ handles[loc[t].place] = 0
         /\ loc[t].place \in Words =>
              /\ Level[loc[t].obj] < Level[In[loc[t].place]] /\ Holds(t, In[loc[t].place])
              /\ \E r \in Roots : /\ Owner[r] = t /\ handles[r] > 0 /\ word[r] = In[loc[t].place]
                                  /\ r \in Refs[In[loc[t].place]] /\ \A u \in Threads : ~On(r, u)
<1> DEFINE l == loc[t]
<1>1. PcOK(t) /\ LinkOK(t)
  BY DEF IInv, LocInv
<1>2. l.place \in Places /\ l.obj \in Objs
  <2>1. l.place \in Places \cup {Null} /\ l.obj \in Objs \cup {Null}
    BY DEF IInv, TypeOK
  <2>2. l.place # Null /\ l.obj # Null
    BY <1>1 DEF PcOK
  <2> QED
    BY <2>1, <2>2
<1>3. Before(t)
  BY <1>1 DEF PcOK, Busy
<1>4. /\ stack[t] = <<>> /\ word[l.place] = Null
      /\ l.place \in Roots => Owner[l.place] = t /\ handles[l.place] = 0
      /\ l.place \in Words => /\ Holds(t, In[l.place]) /\ Level[l.obj] < Level[In[l.place]]
                                /\ \A u \in Threads \ {t} : loc[u].place # l.place
  BY <1>1 DEF LinkOK
<1>5. ASSUME l.place \in Words
      PROVE  \E r \in Roots : /\ Owner[r] = t /\ handles[r] > 0 /\ word[r] = In[l.place]
                              /\ r \in Refs[In[l.place]] /\ \A u \in Threads : ~On(r, u)
  <2>1. PICK r \in Roots : Owner[r] = t /\ handles[r] > 0 /\ word[r] = In[l.place]
    BY <1>4, <1>5 DEF Holds
  <2>2. word[r] # Null /\ stack[Owner[r]] = <<>>
    BY <2>1, <1>4, <1>5, PlaceIs, WordIs
  <2>3. r \in Refs[In[l.place]] /\ \A u \in Threads : ~On(r, u)
    BY <2>1, <2>2, HeldIs
  <2> QED
    BY <2>1, <2>3
<1>6. ASSUME NEW u \in Threads, On(l.place, u) PROVE FALSE
  <2>1. CASE l.place \in Roots
    BY <2>1, <1>4, <1>6, OnIs
  <2>2. CASE l.place \in Words
    <3>1. PICK r \in Roots : r \in Refs[In[l.place]] /\ ~On(r, u)
      BY <2>2, <1>5
    <3>2. PICK v : On(v, u) /\ Refs[In[l.place]] = {v}
      BY <2>2, <1>6, OnIs
    <3> QED
      BY <3>1, <3>2
  <2> QED
    BY <1>2, <2>1, <2>2, PlaceIs
<1>7. ~Unlinked(l.place)
  BY <1>6, UnlinkedIs
<1>8. ASSUME NEW u \in Threads \ {t}, Busy(u), loc[u].place = l.place PROVE FALSE
  <2>1. l.place \in Roots
    BY <1>2, <1>4, <1>8, PlaceIs
  <2>2. PcOK(u) /\ LinkOK(u) /\ UnlinkOK(u)
    BY DEF IInv, LocInv
  <2>3. loc[u].func \in {"link", "unlink"}
    <3>1. loc[u].func \in {"none", "link", "unlink"}
      BY DEF IInv, TypeOK
    <3>2. loc[u].func # "none"
      BY <1>8, <2>2 DEF PcOK
    <3> QED
      BY <3>1, <3>2
  <2>4. CASE loc[u].func = "link"
    <3>1. Owner[loc[u].place] = u
      BY <2>4, <2>1, <2>2, <1>8 DEF LinkOK
    <3> QED
      BY <3>1, <2>1, <1>4, <1>8
  <2>5. CASE loc[u].func = "unlink"
    <3>1. stack[u] # <<>> /\ loc[u].place = Top(u)
      BY <2>5, <2>2, <1>8 DEF UnlinkOK
    <3>2. On(l.place, u)
      BY <3>1, <1>8, StackIs
    <3> QED
      BY <3>2, <1>6
  <2> QED
    BY <2>3, <2>4, <2>5
<1> QED
  BY <1>2, <1>3, <1>4, <1>5, <1>6, <1>7, <1>8

LEMMA LinkedIs ==
  ASSUME IInv, NEW w, NEW o, Linked(w, o)
  PROVE  /\ w \in Places /\ o \in Objs /\ word[w] = Null /\ ~Unlinked(w)
         /\ \A u \in Threads : ~On(w, u)
         /\ \A p : Linked(w, p) => p = o
<1>1. PICK t \in Threads : /\ pc[t] = "store" /\ loc[t].func = "link"
                           /\ loc[t].place = w /\ loc[t].obj = o
  BY DEF Linked
<1>2. Busy(t)
  BY <1>1 DEF Busy
<1>3. /\ w \in Places /\ o \in Objs /\ word[w] = Null /\ ~Unlinked(w)
      /\ \A u \in Threads : ~On(w, u)
      /\ \A u \in Threads \ {t} : Busy(u) => loc[u].place # w
  BY <1>1, <1>2, LinkIs
<1>4. ASSUME NEW p, Linked(w, p) PROVE p = o
  <2>1. PICK u \in Threads : pc[u] = "store" /\ loc[u].place = w /\ loc[u].obj = p
    BY <1>4 DEF Linked
  <2>2. u = t
    BY <2>1, <1>3 DEF Busy
  <2> QED
    BY <2>1, <2>2, <1>1
<1> QED
  BY <1>3, <1>4

(* The word of an activation counts until its unlink.                      *)
LEMMA OnRefs ==
  ASSUME IInv, NEW t \in Threads, NEW w, On(w, t)
  PROVE  /\ \A o : ~Linked(w, o)
         /\ \A o \in Objs : w \in Refs[o] <=> (w \in Places /\ word[w] = o /\ ~Unlinked(w))
         /\ (pc[t] # "store" \/ loc[t].func # "unlink" \/ w # Top(t)) /\ word[w] # Null
              => word[w] \in Objs /\ w \in Refs[word[w]]
<1>1. \A o : ~Linked(w, o)
  BY LinkedIs
<1>2. w \in Places
  BY OnIs
<1>3. \A o \in Objs : w \in Refs[o] <=> (w \in Places /\ word[w] = o /\ ~Unlinked(w))
  BY <1>1 DEF Refs
<1>4. (pc[t] # "store" \/ loc[t].func # "unlink" \/ w # Top(t)) => ~Unlinked(w)
  BY UnlinkedIs
<1>5. word[w] # Null => word[w] \in Objs
  BY <1>2 DEF IInv, TypeOK
<1> QED
  BY <1>1, <1>2, <1>3, <1>4, <1>5

(* An unlink drops the word on top of the stack.                           *)
LEMMA UnlinkIs ==
  ASSUME IInv, NEW t \in Threads, Busy(t), loc[t].func # "link"
  PROVE  /\ loc[t].func = "unlink" /\ loc[t].place = Top(t) /\ stack[t] # <<>>
         /\ loc[t].place \in Places /\ loc[t].obj \in Objs /\ word[Top(t)] = loc[t].obj
         /\ On(Top(t), t) /\ Before(t)
<1>1. PcOK(t) /\ UnlinkOK(t)
  BY DEF IInv, LocInv
<1>2. loc[t].func = "unlink" /\ loc[t].place # Null /\ loc[t].obj # Null
  <2>1. loc[t].func # "none" /\ loc[t].place # Null /\ loc[t].obj # Null
    BY <1>1 DEF PcOK
  <2>2. loc[t].func \in {"none", "link", "unlink"}
    BY DEF IInv, TypeOK
  <2> QED
    BY <2>1, <2>2
<1>3. loc[t].place \in Places /\ loc[t].obj \in Objs
  <2>1. loc[t].place \in Places \cup {Null} /\ loc[t].obj \in Objs \cup {Null}
    BY DEF IInv, TypeOK
  <2> QED
    BY <1>2, <2>1
<1>4. stack[t] # <<>> /\ loc[t].place = Top(t) /\ word[Top(t)] = loc[t].obj
  BY <1>1, <1>2 DEF UnlinkOK
<1>5. On(Top(t), t)
  BY <1>4, StackIs
<1>6. Before(t)
  BY <1>1 DEF PcOK, Busy
<1> QED
  BY <1>2, <1>3, <1>4, <1>5, <1>6

-----------------------------------------------------------------------------
(* What a step of thread t leaves to the others.                           *)

Apart(t) ==
  \A u \in Threads \ {t} : /\ pc'[u] = pc[u] /\ loc'[u] = loc[u] /\ stack'[u] = stack[u]
                           /\ mode'[u] = mode[u] /\ log'[u] = log[u]

(* It writes its own RootRefs, embedded words that it drops, and the empty *)
(* one it links; a handle in use is left alone.                            *)
WordFrame(t) ==
  /\ \A r \in Roots : Owner[r] # t => word'[r] = word[r] /\ handles'[r] = handles[r]
  /\ \A p \in Words : word'[p] # word[p] =>
       \/ word'[p] = Null /\ On(p, t)
       \/ Busy(t) /\ loc[t].func = "link" /\ loc[t].place = p
  /\ \A r \in Roots : handles[r] > 0 =>
       \/ word'[r] = word[r] /\ (handles'[r] > 0 \/ ~Pinned(r))
       \/ ~Before(t)

(* It ends the references of its stack, and copies those of handles.       *)
RefsFrame(t) ==
  /\ \A o \in Objs : \A w \in Refs[o] :
       \/ w \in Refs'[o]
       \/ On(w, t) /\ (o \in Parents => DropsTree(t) \/ ~Before(t))
  /\ \A o \in Objs : \/ Refs'[o] \subseteq Refs[o]
                     \/ o \in pool
                     \/ \E r \in Roots \cap Refs[o] : handles[r] > 0 /\ mode[t] = "live"
  /\ \A o \in pool' : o \in pool \/ Refs[o] # {} \/ Releasing(t, o)

(* What it takes up is nobody else's.                                      *)
TakeFrame(t) ==
  /\ \A w : On(w, t)' => \/ On(w, t)
                         \/ w \in Roots /\ Owner[w] = t
                         \/ w \in Words /\ \E v : On(v, t) /\ Refs[In[w]] = {v}
  /\ DropsTree(t)' => DropsTree(t) \/ \A u \in Threads \ {t} : ~DropsTree(u)
  /\ \A o \in Objs : Releasing(t, o)' => Releasing(t, o) \/ Refs[o] # {}
  /\ loc'[t].place \in Words => \/ loc'[t].place = loc[t].place
                                  \/ word[loc'[t].place] # Null
                                  \/ \A u \in Threads : loc[u].place # loc'[t].place
Frame(t) == Apart(t) /\ WordFrame(t) /\ RefsFrame(t) /\ TakeFrame(t)

LEMMA CalmIs ==
  ASSUME IInv, NEW t \in Threads, mode[t] = "live"
  PROVE  \A u \in Threads : Before(u)
BY DEF IInv, PhaseInv, Calm, Before

(* The stack of another keeps its words, and the references it drops.      *)
LEMMA OtherStack ==
  ASSUME IInv, NEW t \in Threads, Frame(t), NEW u \in Threads \ {t}
  PROVE  /\ \A w : On(w, u)' <=> On(w, u)
         /\ \A w : On(w, u) => word'[w] = word[w]
         /\ \A w : \A o \in Objs : On(w, u) /\ Refs[o] = {w} => Refs'[o] = {w}
<1>1. \A w : On(w, u)' <=> On(w, u)
  BY DEF Frame, Apart, On
<1>2. ASSUME NEW w, On(w, u) PROVE word'[w] = word[w]
  <2>1. w \in Places /\ (w \in Roots => Owner[w] = u) /\ ~On(w, t)
    BY <1>2, OnIs
  <2>2. CASE w \in Roots
    BY <2>1, <2>2 DEF Frame, WordFrame
  <2>3. CASE w \in Words
    <3>1. ~(Busy(t) /\ loc[t].func = "link" /\ loc[t].place = w)
      BY <1>2, LinkIs
    <3> QED
      BY <2>1, <2>3, <3>1 DEF Frame, WordFrame
  <2> QED
    BY <2>1, <2>2, <2>3, PlaceIs
<1>3. ASSUME NEW w, NEW o \in Objs, On(w, u), Refs[o] = {w} PROVE Refs'[o] = {w}
  <2>1. w \in Refs'[o]
    <3>1. ~On(w, t)
      BY <1>3, OnIs
    <3> QED
      BY <3>1, <1>3 DEF Frame, RefsFrame
  <2>2. o \notin pool
    BY <1>3 DEF IInv, PoolInv
  <2>3. ASSUME NEW r \in Roots \cap Refs[o], handles[r] > 0, mode[t] = "live" PROVE FALSE
    <3>1. r = w /\ Before(u)
      BY <1>3, <2>3, CalmIs
    <3>2. handles[r] = 0
      BY <3>1, <1>3, <2>3, OnIs
    <3> QED
      BY <3>2, <2>3
  <2>4. Refs'[o] \subseteq Refs[o]
    BY <2>2, <2>3 DEF Frame, RefsFrame
  <2> QED
    BY <1>3, <2>1, <2>4
<1> QED
  BY <1>1, <1>2, <1>3

(* The reference of a RootRef of another counts on; one without a          *)
(* reference stays so.                                                     *)
LEMMA OtherRefs ==
  ASSUME IInv, NEW t \in Threads, Frame(t), NEW u \in Threads \ {t}
  PROVE  /\ \A o \in Objs : \A r \in Roots : Owner[r] = u /\ r \in Refs[o] => r \in Refs'[o]
         /\ \A o \in Objs : Refs[o] = {} /\ o \notin pool => Refs'[o] = {}
<1>1. ASSUME NEW o \in Objs, NEW r \in Roots, Owner[r] = u, r \in Refs[o] PROVE r \in Refs'[o]
  <2>1. ~On(r, t)
    BY <1>1, OnIs
  <2> QED
    BY <2>1, <1>1 DEF Frame, RefsFrame
<1>2. ASSUME NEW o \in Objs, Refs[o] = {}, o \notin pool PROVE Refs'[o] = {}
  BY <1>2 DEF Frame, RefsFrame
<1> QED
  BY <1>1, <1>2

(* An empty word stays empty in an object that only a reference on the     *)
(* stack of another refers to.                                             *)
LEMMA EmptyFrame ==
  ASSUME IInv, NEW t \in Threads, Frame(t), NEW u \in Threads \ {t},
         NEW o, NEW v, Refs[o] = {v}, On(v, u), NEW x \in WordsOf(o), word[x] = Null
  PROVE  word'[x] = Null
<1>1. x \in Words /\ In[x] = o
  BY WordIs
<1>2. CASE Busy(t) /\ loc[t].func = "link" /\ loc[t].place = x
  <2>1. PICK r : r \in Refs[o] /\ ~On(r, u)
    BY <1>1, <1>2, LinkIs
  <2> QED
    BY <2>1
<1>3. CASE ~(Busy(t) /\ loc[t].func = "link" /\ loc[t].place = x)
  BY <1>1, <1>3 DEF Frame, WordFrame
<1> QED
  BY <1>2, <1>3

LEMMA StackFrame ==
  ASSUME IInv, NEW t \in Threads, Frame(t), NEW u \in Threads \ {t}
  PROVE  StackOK(u)'
<1>1. StackOK(u)
  BY DEF IInv, StackInv
<1>2. stack'[u] = stack[u] /\ mode'[u] = mode[u]
  BY DEF Frame, Apart
<1>3. ASSUME stack[u] # <<>>
      PROVE  /\ stack[u][1] \in Roots /\ Owner[stack[u][1]] = u
             /\ Before(u) => handles'[stack[u][1]] = 0
  BY <1>1, <1>3 DEF StackOK, Frame, WordFrame
<1>4. ASSUME NEW i \in DOMAIN stack[u], i > 1
      PROVE  /\ stack[u][i] \in Words /\ word'[stack[u][i - 1]] = In[stack[u][i]]
             /\ Refs'[In[stack[u][i]]] = {stack[u][i - 1]}
             /\ \A x \in WordsOf(In[stack[u][i]]) : Nr[x] < Nr[stack[u][i]] => word'[x] = Null
  <2>1. /\ stack[u][i] \in Words /\ word[stack[u][i - 1]] = In[stack[u][i]]
        /\ Refs[In[stack[u][i]]] = {stack[u][i - 1]}
        /\ \A x \in WordsOf(In[stack[u][i]]) : Nr[x] < Nr[stack[u][i]] => word[x] = Null
    BY <1>1, <1>4 DEF StackOK
  <2>2. i - 1 \in DOMAIN stack[u]
    BY <1>4, StackIs
  <2>3. On(stack[u][i - 1], u)
    BY <2>2, StackIs
  <2>4. In[stack[u][i]] \in Objs
    BY <2>1, WordIs
  <2>5. word'[stack[u][i - 1]] = word[stack[u][i - 1]]
    BY <2>3, OtherStack
  <2>6. PICK o \in Objs : o = In[stack[u][i]]
    BY <2>4
  <2>7. PICK v : v = stack[u][i - 1]
    OBVIOUS
  <2>8. Refs[o] = {v} /\ On(v, u)
    BY <2>1, <2>3, <2>6, <2>7
  <2>9. Refs'[o] = {v}
    BY <2>8, OtherStack
  <2>10. ASSUME NEW x \in WordsOf(o), word[x] = Null PROVE word'[x] = Null
    BY <2>8, <2>10, EmptyFrame
  <2> QED
    BY <2>1, <2>5, <2>6, <2>7, <2>9, <2>10
<1>5. \A i, j \in DOMAIN stack[u] : stack[u][i] = stack[u][j] => i = j
  BY <1>1 DEF StackOK
<1> QED
  BY <1>2, <1>3, <1>4, <1>5 DEF StackOK, Before

LEMMA LinkFrame ==
  ASSUME IInv, NEW t \in Threads, Frame(t), NEW u \in Threads \ {t}
  PROVE  LinkOK(u)'
<1> DEFINE l == loc[u]
<1>1. LinkOK(u)
  BY DEF IInv, LocInv
<1>2. /\ pc'[u] = pc[u] /\ loc'[u] = loc[u] /\ stack'[u] = stack[u] /\ mode'[u] = mode[u]
  BY DEF Frame, Apart
<1> SUFFICES ASSUME Busy(u), l.func = "link"
    PROVE  /\ stack[u] = <<>> /\ word'[l.place] = Null
           /\ l.place \in Roots => Owner[l.place] = u /\ handles'[l.place] = 0
           /\ l.place \in Words => /\ Holds(u, In[l.place])' /\ Level[l.obj] < Level[In[l.place]]
                                     /\ \A v \in Threads \ {u} : loc'[v].place # l.place
           /\ mode[u] = "live" /\ pc[u] # "store" =>
                l.from # Null /\ handles'[l.from] > 0 /\ word'[l.from] = l.obj
  BY <1>2 DEF LinkOK, Busy
<1>3. /\ stack[u] = <<>> /\ word[l.place] = Null /\ l.place \in Places
      /\ l.place \in Roots => Owner[l.place] = u /\ handles[l.place] = 0
      /\ l.place \in Words => /\ Holds(u, In[l.place]) /\ Level[l.obj] < Level[In[l.place]]
                                /\ \A v \in Threads \ {u} : loc[v].place # l.place
      /\ mode[u] = "live" /\ pc[u] # "store" =>
           l.from # Null /\ handles[l.from] > 0 /\ word[l.from] = l.obj
  BY <1>1, LinkIs DEF LinkOK
<1>4. l.place \in Roots => Owner[l.place] = u /\ handles'[l.place] = 0 /\ word'[l.place] = Null
  BY <1>3 DEF Frame, WordFrame
<1>5. ASSUME l.place \in Words PROVE word'[l.place] = Null
  BY <1>3, <1>5 DEF Frame, WordFrame
<1>6. ASSUME l.place \in Words PROVE Holds(u, In[l.place])'
  <2>1. PICK r \in Roots : Owner[r] = u /\ handles[r] > 0 /\ word[r] = In[l.place]
    BY <1>3, <1>6 DEF Holds
  <2>2. handles'[r] = handles[r] /\ word'[r] = word[r]
    BY <2>1 DEF Frame, WordFrame
  <2> QED
    BY <2>1, <2>2, <1>2 DEF Holds
<1>7. ASSUME l.place \in Words, NEW v \in Threads \ {u} PROVE loc'[v].place # l.place
  <2>1. loc[v].place # l.place
    BY <1>3, <1>7
  <2>2. CASE v # t
    BY <2>1, <2>2 DEF Frame, Apart
  <2>3. CASE v = t
    BY <2>1, <2>3, <1>3, <1>7 DEF Frame, TakeFrame
  <2> QED
    BY <2>2, <2>3
<1>8. ASSUME mode[u] = "live", pc[u] # "store"
      PROVE  l.from # Null /\ handles'[l.from] > 0 /\ word'[l.from] = l.obj
  <2>1. l.from # Null /\ handles[l.from] > 0 /\ word[l.from] = l.obj
    BY <1>3, <1>8
  <2>2. l.from \in Roots
    <3>1. l.from \in Roots \cup {Null}
      BY DEF IInv, TypeOK
    <3> QED
      BY <2>1, <3>1
  <2>3. Pinned(l.from)
    BY <1>8 DEF Pinned
  <2>4. Before(t)
    BY <1>8, CalmIs
  <2> QED
    BY <2>1, <2>2, <2>3, <2>4 DEF Frame, WordFrame
<1> QED
  BY <1>3, <1>4, <1>5, <1>6, <1>7, <1>8, PlaceIs

(* A stack that starts a drop of a parent.                                 *)
LEMMA DropsIs ==
  ASSUME IInv, NEW t \in Threads, stack[t] # <<>>, word[Top(t)] \in Parents, mode[t] = "live"
  PROVE  DropsTree(t)
<1>1. /\ DOMAIN stack[t] = 1..Len(stack[t]) /\ Len(stack[t]) \in Nat /\ Len(stack[t]) > 0
      /\ Top(t) = stack[t][Len(stack[t])]
  BY StackIs
<1>2. StackOK(t)
  BY DEF IInv, StackInv
<1>3. CASE Len(stack[t]) = 1
  BY <1>1, <1>3 DEF DropsTree
<1>4. CASE Len(stack[t]) > 1
  <2>1. 2 \in DOMAIN stack[t]
    BY <1>1, <1>4
  <2>2. stack[t][2] \in Words /\ word[stack[t][2 - 1]] = In[stack[t][2]]
    BY <1>2, <2>1 DEF StackOK
  <2>3. word[stack[t][1]] \in Parents
    BY <2>2, WordIs
  <2> QED
    BY <2>3 DEF DropsTree
<1>5. \A n \in Nat : n > 0 => n = 1 \/ n > 1
  OBVIOUS
<1>6. Len(stack[t]) = 1 \/ Len(stack[t]) > 1
  BY <1>1, <1>5
<1> QED
  BY <1>3, <1>4, <1>6

(* A word that others refer to keeps a reference while one unlinks it.     *)
LEMMA UnlinkFrame ==
  ASSUME IInv, ~Overlap, NEW t \in Threads, Frame(t), NEW u \in Threads \ {t}
  PROVE  UnlinkOK(u)'
<1> DEFINE l == loc[u]
<1>1. UnlinkOK(u) /\ PcOK(u)
  BY DEF IInv, LocInv
<1>2. /\ pc'[u] = pc[u] /\ loc'[u] = loc[u] /\ stack'[u] = stack[u] /\ mode'[u] = mode[u]
      /\ Top(u)' = Top(u)
  BY DEF Frame, Apart, Top
<1>3. stack[u] # <<>> => On(Top(u), u) /\ word'[Top(u)] = word[Top(u)]
  BY StackIs, OtherStack
<1>4. ASSUME Busy(u), l.func = "unlink"
      PROVE  stack[u] # <<>> /\ l.place = Top(u) /\ word'[l.place] = l.obj
  BY <1>1, <1>3, <1>4 DEF UnlinkOK
<1>5. ASSUME Busy(u), l.func = "unlink", mode[u] = "live", pc[u] # "store", l.obj \in Parents
      PROVE  \/ \A x \in WordsOf(l.obj) : word'[x] = Null
             \/ \E w \in Refs'[l.obj] : w # l.place
  <2>1. /\ stack[u] # <<>> /\ l.place = Top(u) /\ word[Top(u)] = l.obj
        /\ Bare(l.obj) \/ \E w \in Refs[l.obj] : w # l.place
    BY <1>1, <1>5 DEF UnlinkOK
  <2>2. l.obj \in Objs /\ \A v \in Threads : Before(v)
    BY <1>5, PlaceIs, CalmIs
  <2>3. CASE Bare(l.obj)
    <3>1. CASE \A x \in WordsOf(l.obj) : word'[x] = word[x]
      BY <3>1, <2>3 DEF Bare
    <3>2. CASE \E x \in WordsOf(l.obj) : word'[x] # word[x] /\ word'[x] # Null
      <4>1. PICK x \in WordsOf(l.obj) : word'[x] # word[x] /\ word'[x] # Null
        BY <3>2
      <4>2. x \in Words /\ In[x] = l.obj
        BY <4>1, WordIs
      <4>3. Busy(t) /\ loc[t].func = "link" /\ loc[t].place = x
        BY <4>1, <4>2 DEF Frame, WordFrame
      <4>4. PICK r \in Roots : r \in Refs[l.obj] /\ \A v \in Threads : ~On(r, v)
        BY <4>2, <4>3, LinkIs
      <4>5. r \in Refs'[l.obj]
        BY <4>4, <2>2 DEF Frame, RefsFrame
      <4>6. r # l.place
        BY <4>4, <2>1, <1>3
      <4> QED
        BY <4>5, <4>6
    <3> QED
      BY <2>3, <3>1, <3>2 DEF Bare
  <2>4. CASE \E w \in Refs[l.obj] : w # l.place
    <3>1. PICK w \in Refs[l.obj] : w # l.place
      BY <2>4
    <3>2. DropsTree(u)
      BY <2>1, <1>5, DropsIs
    <3>3. ~DropsTree(t)
      BY <3>2 DEF IInv, AloneInv
    <3>4. w \in Refs'[l.obj]
      BY <3>1, <3>3, <2>2, <1>5 DEF Frame, RefsFrame
    <3> QED
      BY <3>1, <3>4
  <2> QED
    BY <2>1, <2>3, <2>4
<1>6. ASSUME pc[u] = "free" PROVE l.obj # Null /\ word'[Top(u)] = Null
  <2>1. l.obj # Null /\ word[Top(u)] = Null /\ stack[u] # <<>>
    BY <1>1, <1>6 DEF UnlinkOK, PcOK
  <2> QED
    BY <2>1, <1>3
<1>7. ASSUME NEW o \in Objs, Releasing(u, o) PROVE Refs'[o] = {} /\ o \notin pool'
  <2>1. Refs[o] = {} /\ o \notin pool
    BY <1>1, <1>7 DEF UnlinkOK
  <2>2. Refs'[o] = {}
    BY <2>1, OtherRefs
  <2>3. ~Releasing(t, o)
    BY <1>7 DEF IInv, LocInv
  <2>4. o \notin pool'
    BY <2>1, <2>3 DEF Frame, RefsFrame
  <2> QED
    BY <2>2, <2>4
<1>8. ASSUME pc[u] = "unlink"
      PROVE  /\ word'[Top(u)] \in Parents /\ Bare(word[Top(u)])'
             /\ Refs'[word'[Top(u)]] = {Top(u)}
  <2>1. PICK w, p : w = Top(u) /\ p = word[w]
    OBVIOUS
  <2>2. p \in Parents /\ Bare(p) /\ Refs[p] = {w} /\ stack[u] # <<>>
    BY <1>1, <1>8, <2>1 DEF UnlinkOK, PcOK
  <2>3. word'[w] = p /\ On(w, u)
    BY <2>1, <2>2, <1>3
  <2>4. p \in Objs
    BY <2>2, PlaceIs
  <2>5. Refs'[p] = {w}
    <3>1. \A v : \A o \in Objs : On(v, u) /\ Refs[o] = {v} => Refs'[o] = {v}
      BY OtherStack
    <3>2. On(w, u) /\ Refs[p] = {w}
      BY <2>2, <2>3
    <3> QED
      BY <3>1, <3>2, <2>4
  <2>6. \A x \in WordsOf(p) : word'[x] = Null
    BY <2>2, <2>3, EmptyFrame DEF Bare
  <2> QED
    BY <1>2, <2>1, <2>2, <2>3, <2>5, <2>6 DEF Bare
<1> QED
  BY <1>1, <1>2, <1>4, <1>5, <1>6, <1>7, <1>8 DEF UnlinkOK, Busy, Releasing, Bare

(* The word of the last record of another stays what its redo would make.  *)
LEMMA LogFrame ==
  ASSUME IInv, NEW t \in Threads, Frame(t), NEW u \in Threads \ {t}, Before(u)
  PROVE  LogOK(u)'
<1> DEFINE g == log[u]
           l == loc[u]
<1>1. LogOK(u)
  BY DEF IInv, LogInv
<1>2. /\ pc'[u] = pc[u] /\ loc'[u] = loc[u] /\ stack'[u] = stack[u] /\ mode'[u] = mode[u]
      /\ log'[u] = log[u]
  BY DEF Frame, Apart
<1> SUFFICES ASSUME pc[u] # "store", g.done
    PROVE  /\ word'[g.place] = IF g.func = "link" THEN g.obj ELSE Null
           /\ g.place \in Roots => Owner[g.place] = u
           /\ g.place \in Words =>
                IF g.func = "link"
                THEN \E r \in Roots : Owner[r] = u /\ r \in Refs'[In[g.place]]
                ELSE \E i \in DOMAIN stack[u] : Refs'[In[g.place]] = {stack[u][i]}
  BY <1>1, <1>2 DEF LogOK
<1>3. /\ word[g.place] = IF g.func = "link" THEN g.obj ELSE Null
      /\ g.place \in Roots => Owner[g.place] = u
      /\ g.place \in Words =>
           IF g.func = "link"
           THEN \E r \in Roots : Owner[r] = u /\ r \in Refs[In[g.place]]
           ELSE \E i \in DOMAIN stack[u] : Refs[In[g.place]] = {stack[u][i]}
  BY <1>1 DEF LogOK
<1>4. g.place \in Places /\ g.obj # Null
  <2>1. g.place \in Places \cup {Null}
    BY DEF IInv, TypeOK
  <2> QED
    BY <1>1, <2>1 DEF LogOK
<1>5. CASE g.place \in Roots
  BY <1>3, <1>5, PlaceIs DEF Frame, WordFrame
<1>6. CASE g.place \in Words /\ g.func = "link"
  <2>1. PICK r \in Roots : Owner[r] = u /\ r \in Refs[In[g.place]]
    BY <1>3, <1>6
  <2>2. In[g.place] \in Objs
    BY <1>6, WordIs
  <2>3. r \in Refs'[In[g.place]]
    BY <2>1, <2>2, OtherRefs
  <2>4. ~On(g.place, t)
    <3>1. ASSUME On(g.place, t) PROVE FALSE
      <4>0. \A w \in Words : On(w, t) => \E v : On(v, t) /\ Refs[In[w]] = {v}
        BY OnIs
      <4>1. PICK v : On(v, t) /\ Refs[In[g.place]] = {v}
        BY <1>6, <3>1, <4>0
      <4>2. r = v
        BY <2>1, <4>1
      <4>3. Owner[r] = t
        BY <4>1, <4>2, OnIs
      <4> QED
        BY <2>1, <4>3
    <3> QED
      BY <3>1
  <2>5. ~(Busy(t) /\ loc[t].func = "link" /\ loc[t].place = g.place)
    <3>1. word[g.place] # Null
      BY <1>3, <1>4, <1>6
    <3> QED
      BY <3>1, LinkIs
  <2>6. word'[g.place] = word[g.place]
    BY <1>6, <2>4, <2>5 DEF Frame, WordFrame
  <2> QED
    BY <1>3, <1>6, <2>1, <2>3, <2>6, PlaceIs
<1>7. CASE g.place \in Words /\ g.func # "link"
  <2>1. PICK i \in DOMAIN stack[u] : Refs[In[g.place]] = {stack[u][i]}
    BY <1>3, <1>7
  <2>2. In[g.place] \in Objs
    BY <1>7, WordIs
  <2>3. On(stack[u][i], u)
    BY <2>1, StackIs
  <2>4. Refs'[In[g.place]] = {stack[u][i]}
    <3>1. \A v : \A o \in Objs : On(v, u) /\ Refs[o] = {v} => Refs'[o] = {v}
      BY OtherStack
    <3> QED
      BY <3>1, <2>1, <2>2, <2>3
  <2>5. ~(Busy(t) /\ loc[t].func = "link" /\ loc[t].place = g.place)
    <3>1. ASSUME Busy(t), loc[t].func = "link", loc[t].place = g.place PROVE FALSE
      <4>1. PICK r : r \in Refs[In[g.place]] /\ ~On(r, u)
        BY <1>7, <3>1, LinkIs
      <4> QED
        BY <4>1, <2>1, <2>3
    <3> QED
      BY <3>1
  <2>6. word'[g.place] = Null
    <3>1. word[g.place] = Null
      BY <1>3, <1>7
    <3> QED
      BY <1>7, <2>5, <3>1 DEF Frame, WordFrame
  <2> QED
    BY <1>7, <2>4, <2>6, PlaceIs
<1> QED
  BY <1>4, <1>5, <1>6, <1>7, PlaceIs

LEMMA DropsFrame ==
  ASSUME IInv, NEW t \in Threads, Frame(t), NEW u \in Threads \ {t}
  PROVE  DropsTree(u)' <=> DropsTree(u)
<1>1. stack'[u] = stack[u] /\ mode'[u] = mode[u]
  BY DEF Frame, Apart
<1>2. stack[u] # <<>> => word'[stack[u][1]] = word[stack[u][1]]
  <2>1. ASSUME stack[u] # <<>> PROVE word'[stack[u][1]] = word[stack[u][1]]
    <3>1. stack[u][1] \in Roots /\ Owner[stack[u][1]] = u
      BY <2>1, StackIs
    <3> QED
      BY <3>1 DEF Frame, WordFrame
  <2> QED
    BY <2>1
<1> QED
  BY <1>1, <1>2 DEF DropsTree

(* What thread t has on its stack, and what it releases, is its own.       *)
LEMMA TakesOwn ==
  ASSUME IInv, NEW t \in Threads, Frame(t), NEW u \in Threads \ {t}
  PROVE  /\ \A w : ~(On(w, t)' /\ On(w, u)')
         /\ ~(DropsTree(t)' /\ DropsTree(u)')
         /\ \A o \in Objs : ~(Releasing(t, o)' /\ Releasing(u, o)')
<1>1. ASSUME NEW w, On(w, t)', On(w, u)' PROVE FALSE
  <2>1. On(w, u)
    BY <1>1, OtherStack
  <2>2. CASE On(w, t)
    BY <2>1, <2>2, OnIs
  <2>3. CASE w \in Roots /\ Owner[w] = t
    BY <2>1, <2>3, OnIs
  <2>4. CASE w \in Words /\ \E v : On(v, t) /\ Refs[In[w]] = {v}
    <3>1. PICK v : On(v, t) /\ Refs[In[w]] = {v}
      BY <2>4
    <3>2. PICK x : On(x, u) /\ Refs[In[w]] = {x}
      BY <2>1, <2>4, OnIs
    <3>3. v = x
      BY <3>1, <3>2
    <3> QED
      BY <3>1, <3>2, <3>3, OnIs
  <2> QED
    BY <1>1, <2>2, <2>3, <2>4 DEF Frame, TakeFrame
<1>2. ~(DropsTree(t)' /\ DropsTree(u)')
  <2>1. ~(DropsTree(t) /\ DropsTree(u))
    BY DEF IInv, AloneInv
  <2>2. DropsTree(u)' <=> DropsTree(u)
    BY DropsFrame
  <2> QED
    BY <2>1, <2>2 DEF Frame, TakeFrame
<1>3. ASSUME NEW o \in Objs, Releasing(t, o)', Releasing(u, o)' PROVE FALSE
  <2>1. Releasing(u, o)
    BY <1>3 DEF Frame, Apart, Releasing
  <2>2. Refs[o] = {} /\ ~Releasing(t, o)
    BY <2>1 DEF IInv, LocInv, UnlinkOK
  <2> QED
    BY <1>3, <2>2 DEF Frame, TakeFrame
<1> QED
  BY <1>1, <1>2, <1>3

(* So a step of t keeps what is said of the threads if t's part is kept.   *)
OwnPart(t) == /\ StackOK(t) /\ PcOK(t) /\ LinkOK(t) /\ UnlinkOK(t)
              /\ Before(t) => LogOK(t)
LEMMA Keeps ==
  ASSUME IInv, ~Overlap, NEW t \in Threads, Frame(t), OwnPart(t)'
  PROVE  (StackInv /\ AloneInv /\ LocInv /\ LogInv)'
<1>1. ASSUME NEW u \in Threads PROVE StackOK(u)' /\ PcOK(u)' /\ LinkOK(u)' /\ UnlinkOK(u)'
  <2>1. CASE u = t
    BY <2>1 DEF OwnPart
  <2>2. CASE u # t
    <3>1. StackOK(u)' /\ LinkOK(u)' /\ UnlinkOK(u)'
      BY <2>2, StackFrame, LinkFrame, UnlinkFrame
    <3>2. PcOK(u)
      BY DEF IInv, LocInv
    <3>3. PcOK(u)'
      BY <2>2, <3>2 DEF PcOK, Frame, Apart, Before, Busy
    <3> QED
      BY <3>1, <3>3
  <2> QED
    BY <2>1, <2>2
<1>2. ASSUME NEW u \in Threads, Before(u)' PROVE LogOK(u)'
  <2>1. CASE u = t
    BY <2>1, <1>2 DEF OwnPart
  <2>2. CASE u # t
    <3>1. Before(u)
      BY <2>2, <1>2 DEF Before, Frame, Apart
    <3> QED
      BY <2>2, <3>1, LogFrame
  <2> QED
    BY <2>1, <2>2
<1>3. ASSUME NEW u \in Threads, NEW v \in Threads, u # v
      PROVE  /\ \A w : ~(On(w, u)' /\ On(w, v)')
             /\ ~(DropsTree(u)' /\ DropsTree(v)')
             /\ \A o \in Objs : ~(Releasing(u, o)' /\ Releasing(v, o)')
  <2>1. CASE u = t
    BY <2>1, <1>3, TakesOwn
  <2>2. CASE v = t
    <3>1. /\ \A w : ~(On(w, v)' /\ On(w, u)')
          /\ ~(DropsTree(v)' /\ DropsTree(u)')
          /\ \A o \in Objs : ~(Releasing(v, o)' /\ Releasing(u, o)')
      BY <2>2, <1>3, TakesOwn
    <3> QED
      BY <3>1
  <2>3. CASE u # t /\ v # t
    <3>1. (\A w : On(w, u)' <=> On(w, u)) /\ (\A w : On(w, v)' <=> On(w, v))
      BY <2>3, OtherStack
    <3>2. (DropsTree(u)' <=> DropsTree(u)) /\ (DropsTree(v)' <=> DropsTree(v))
      BY <2>3, DropsFrame
    <3>3. \A o \in Objs : (Releasing(u, o)' <=> Releasing(u, o)) /\ (Releasing(v, o)' <=> Releasing(v, o))
      BY <2>3 DEF Frame, Apart, Releasing
    <3>4. \A w : ~(On(w, u) /\ On(w, v))
      BY <1>3, OnIs
    <3>5. ~(DropsTree(u) /\ DropsTree(v))
      BY <1>3 DEF IInv, AloneInv
    <3>6. \A o \in Objs : ~(Releasing(u, o) /\ Releasing(v, o))
      BY <1>3 DEF IInv, LocInv
    <3>7. \A w : ~(On(w, u)' /\ On(w, v)')
      BY <3>1, <3>4
    <3>8. ~(DropsTree(u)' /\ DropsTree(v)')
      BY <3>2, <3>5
    <3>9. \A o \in Objs : ~(Releasing(u, o)' /\ Releasing(v, o)')
      BY <3>3, <3>6
    <3> QED
      BY <3>7, <3>8, <3>9
  <2> QED
    BY <2>1, <2>2, <2>3
<1>4. StackInv'
  BY <1>1, <1>3 DEF StackInv
<1>5. AloneInv'
  BY <1>3 DEF AloneInv
<1>6. LocInv'
  BY <1>1, <1>3 DEF LocInv
<1>7. LogInv'
  BY <1>2 DEF LogInv
<1> QED
  BY <1>4, <1>5, <1>6, <1>7

-----------------------------------------------------------------------------
(* Steps that change no reference.                                         *)

LEMMA SameRefs ==
  ASSUME NEW t \in Threads, Apart(t), word' = word, pc'[t] = "store" <=> pc[t] = "store",
         pc[t] = "store" => loc'[t] = loc[t]
  PROVE  Refs' = Refs
<1>1. \A u \in Threads : /\ pc'[u] = "store" <=> pc[u] = "store"
                         /\ pc[u] = "store" => loc'[u] = loc[u]
  BY DEF Apart
<1>2. ASSUME NEW w PROVE Unlinked(w)' <=> Unlinked(w)
  BY <1>1 DEF Unlinked
<1>3. ASSUME NEW w, NEW o PROVE Linked(w, o)' <=> Linked(w, o)
  BY <1>1 DEF Linked
<1>4. ASSUME NEW o, NEW w
      PROVE  ((word[w] = o /\ ~Unlinked(w)) \/ Linked(w, o))'
               <=> ((word[w] = o /\ ~Unlinked(w)) \/ Linked(w, o))
  BY <1>2, <1>3
<1> QED
  BY <1>4 DEF Refs

LEMMA QuietPool ==
  ASSUME IInv, ~Overlap, NEW t \in Threads, Apart(t), TakeFrame(t), OwnPart(t)',
         word' = word, count' = count, Refs' = Refs,
         \A o \in pool' : o \in pool \/ (Releasing(t, o) /\ Refs[o] = {}),
         \A r \in Roots : Owner[r] # t => handles'[r] = handles[r],
         \A r \in Roots : handles[r] > 0 => handles'[r] > 0 \/ ~Pinned(r) \/ ~Before(t),
         TypeOK', PhaseInv', HandleInv'
  PROVE  IInv'
<1>1. WordFrame(t)
  BY DEF WordFrame
<1>2. RefsFrame(t)
  BY DEF RefsFrame
<1>3. (StackInv /\ AloneInv /\ LocInv /\ LogInv)'
  BY <1>1, <1>2, Keeps DEF Frame
<1>4. CountInv'
  BY DEF IInv, CountInv
<1>5. TreeInv'
  BY DEF IInv, TreeInv
<1>6. PoolInv'
  BY DEF IInv, PoolInv
<1> QED
  BY <1>3, <1>4, <1>5, <1>6 DEF IInv

LEMMA Quiet ==
  ASSUME IInv, ~Overlap, NEW t \in Threads, Apart(t), TakeFrame(t), OwnPart(t)',
         word' = word, count' = count, pool' = pool, Refs' = Refs,
         \A r \in Roots : Owner[r] # t => handles'[r] = handles[r],
         \A r \in Roots : handles[r] > 0 => handles'[r] > 0 \/ ~Pinned(r) \/ ~Before(t),
         TypeOK', PhaseInv', HandleInv'
  PROVE  IInv'
<1>1. \A o \in pool' : o \in pool \/ (Releasing(t, o) /\ Refs[o] = {})
  OBVIOUS
<1> QED
  BY <1>1, QuietPool

(* A thread between two calls.                                             *)
LEMMA IdleIs ==
  ASSUME IInv, NEW t \in Threads, pc[t] = "idle"
  PROVE  stack[t] = <<>> /\ loc[t] = NoLocals /\ (\A w : ~On(w, t))
<1>1. stack[t] = <<>> /\ loc[t] = NoLocals
  BY DEF IInv, LocInv, PcOK
<1>2. \A w : ~On(w, t)
  BY <1>1, StackIs DEF On
<1> QED
  BY <1>1, <1>2

LEMMA IdleOwn ==
  ASSUME NEW t \in Threads, pc'[t] = "idle", stack'[t] = <<>>, loc'[t] = NoLocals
  PROVE  StackOK(t)' /\ PcOK(t)' /\ LinkOK(t)' /\ UnlinkOK(t)'
<1>1. StackOK(t)'
  BY DEF StackOK
<1>2. PcOK(t)'
  BY DEF PcOK, Busy
<1>3. LinkOK(t)'
  BY DEF LinkOK, Busy
<1>4. UnlinkOK(t)'
  BY DEF UnlinkOK, Busy, Releasing
<1> QED
  BY <1>1, <1>2, <1>3, <1>4

LEMMA LogSame ==
  ASSUME NEW t \in Threads, LogOK(t), log'[t] = log[t], word' = word, Refs' = Refs,
         pc[t] # "store", pc'[t] \notin {"swap", "store"},
         \A i \in DOMAIN stack[t] : \E j \in DOMAIN stack'[t] : stack'[t][j] = stack[t][i]
  PROVE  LogOK(t)'
BY DEF LogOK

LEMMA LogCleared ==
  ASSUME NEW t \in Threads, log'[t].done = FALSE, pc'[t] \notin {"swap", "store"}
  PROVE  LogOK(t)'
BY DEF LogOK

LEMMA TakeRootIs ==
  ASSUME IInv, NEW t \in Threads, NEW r, TakeRoot(t, r)
  PROVE  /\ \A u \in Threads \ {t} : log'[u] = log[u]
         /\ log'[t].done = FALSE \/ (log'[t] = log[t] /\ log[t].place # r)
         /\ (TypeOK => log' \in [Threads -> [func : {"none", "link", "unlink"},
                          place : Places \cup {Null}, obj : Objs \cup {Null}, done : BOOLEAN]])
<1>1. log \in [Threads -> [func : {"none", "link", "unlink"}, place : Places \cup {Null},
                           obj : Objs \cup {Null}, done : BOOLEAN]]
  BY DEF IInv, TypeOK
<1>2. log' = Cleared(t) \/ (log' = log /\ log[t].place # r)
  BY DEF TakeRoot
<1>3. CASE log' = Cleared(t)
  <2>1. NoLog \in [func : {"none", "link", "unlink"}, place : Places \cup {Null},
                   obj : Objs \cup {Null}, done : BOOLEAN] /\ NoLog.done = FALSE
    BY DEF NoLog
  <2> QED
    BY <1>1, <1>3, <2>1 DEF Cleared
<1> QED
  BY <1>1, <1>2, <1>3

LEMMA CopyHandleIs ==
  ASSUME IInv, ~Overlap, NEW t \in Threads, NEW r \in Roots, CopyHandle(t, r)
  PROVE  IInv'
<1>1. /\ mode[t] = "live" /\ pc[t] = "idle" /\ Owner[r] = t /\ handles[r] \in 1..(MaxHandles[r] - 1)
      /\ handles' = [handles EXCEPT ![r] = @ + 1] /\ word' = word /\ count' = count
      /\ pool' = pool /\ log' = log /\ pc' = pc /\ loc' = loc /\ stack' = stack /\ mode' = mode
  BY DEF CopyHandle, At, heap, ctl
<1>2. stack[t] = <<>> /\ loc[t] = NoLocals
  BY <1>1, IdleIs
<1>3. Apart(t)
  BY <1>1 DEF Apart
<1>4. Refs' = Refs
  BY <1>1, <1>3, SameRefs
<1>5. TakeFrame(t)
  BY <1>1 DEF TakeFrame, On, DropsTree, Releasing
<1>6. OwnPart(t)'
  <2>1. StackOK(t)' /\ PcOK(t)' /\ LinkOK(t)' /\ UnlinkOK(t)'
    BY <1>1, <1>2, IdleOwn
  <2>2. LogOK(t)
    BY <1>1 DEF IInv, LogInv, Before
  <2>3. LogOK(t)'
    BY <1>1, <1>4, <2>2, LogSame
  <2> QED
    BY <2>1, <2>3 DEF OwnPart
<1>7. TypeOK'
  <2>1. handles \in [Roots -> Nat]
    BY DEF IInv, TypeOK
  <2>2. handles[r] + 1 \in Nat
    BY <2>1
  <2>3. handles' \in [Roots -> Nat]
    BY <1>1, <2>1, <2>2
  <2> QED
    BY <1>1, <2>3 DEF IInv, TypeOK
<1>8. handles[r] > 0 /\ handles'[r] > 0 /\ \A q \in Roots \ {r} : handles'[q] = handles[q]
  <2>1. handles \in [Roots -> Nat] /\ handles[r] \in Nat
    BY <1>1 DEF IInv, TypeOK
  <2> QED
    BY <1>1, <2>1
<1>9. PhaseInv' /\ HandleInv'
  BY <1>1, <1>8 DEF IInv, PhaseInv, HandleInv, Calm
<1> QED
  BY <1>1, <1>3, <1>4, <1>5, <1>6, <1>7, <1>8, <1>9, Quiet

(* A call starts: get_ref and link_reference of an embedded word.          *)
LEMMA GetRefIs ==
  ASSUME IInv, ~Overlap, NEW t \in Threads, NEW r \in Roots, NEW s \in Roots, GetRef(t, r, s)
  PROVE  IInv'
<1>1. /\ mode[t] = "live" /\ pc[t] = "idle" /\ Owner[r] = t /\ handles[r] = 0 /\ word[r] = Null
      /\ handles[s] > 0 /\ word[s] # Null /\ TakeRoot(t, r)
      /\ loc' = [loc EXCEPT ![t] = [func |-> "link", place |-> r, obj |-> word[s],
                                    from |-> s, last |-> FALSE]]
      /\ pc' = [pc EXCEPT ![t] = "log"] /\ word' = word /\ count' = count
      /\ pool' = pool /\ handles' = handles /\ stack' = stack /\ mode' = mode
  BY DEF GetRef, At, heap, Operate, Goto, FreeRoot
<1>t. /\ TypeOK /\ loc \in [Threads -> [func : {"none", "link", "unlink"},
                          place : Places \cup {Null}, obj : Objs \cup {Null},
                          from : Roots \cup {Null}, last : BOOLEAN]]
      /\ pc \in [Threads -> {"idle", "test", "log", "swap", "store", "free", "unlink"}]
      /\ word[s] \in Objs /\ r \in Places
  BY <1>1, PlaceIs DEF IInv, TypeOK
<1>2. stack[t] = <<>> /\ loc[t] = NoLocals
  BY <1>1, IdleIs
<1>l. /\ pc'[t] = "log" /\ loc'[t].func = "link" /\ loc'[t].place = r /\ loc'[t].obj = word[s]
      /\ loc'[t].from = s /\ loc'[t].last = FALSE
  BY <1>1, <1>t
<1>3. Apart(t)
  <2>1. \A u \in Threads \ {t} : log'[u] = log[u]
    BY <1>1, TakeRootIs
  <2>2. \A u \in Threads \ {t} : pc'[u] = pc[u] /\ loc'[u] = loc[u]
    BY <1>1, <1>t
  <2> QED
    BY <1>1, <2>1, <2>2 DEF Apart
<1>4. Refs' = Refs
  BY <1>1, <1>3, <1>l, SameRefs
<1>5. TakeFrame(t)
  <2>1. /\ \A w : On(w, t)' <=> On(w, t)
        /\ DropsTree(t)' <=> DropsTree(t)
    BY <1>1 DEF On, DropsTree
  <2>2. \A o \in Objs : ~Releasing(t, o)'
    BY <1>l DEF Releasing
  <2>3. loc'[t].place \notin Words
    BY <1>l, PlaceIs
  <2> QED
    BY <2>1, <2>2, <2>3 DEF TakeFrame
<1>6. OwnPart(t)'
  <2>1. StackOK(t)'
    BY <1>1, <1>2 DEF StackOK
  <2>2. PcOK(t)'
    BY <1>1, <1>t, <1>l, PlaceIs DEF PcOK, Before, Busy
  <2>3. LinkOK(t)'
    BY <1>1, <1>2, <1>l, PlaceIs DEF LinkOK, Busy
  <2>4. UnlinkOK(t)'
    BY <1>l DEF UnlinkOK, Busy, Releasing
  <2>5. LogOK(t)
    BY <1>1 DEF IInv, LogInv, Before
  <2>6. LogOK(t)'
    BY <1>1, <1>4, <1>l, <2>5, TakeRootIs, LogSame, LogCleared
  <2> QED
    BY <2>1, <2>2, <2>3, <2>4, <2>6 DEF OwnPart
<1>7. TypeOK'
  <2>1. log' \in [Threads -> [func : {"none", "link", "unlink"}, place : Places \cup {Null},
                              obj : Objs \cup {Null}, done : BOOLEAN]]
    BY <1>1, <1>t, TakeRootIs
  <2>2. loc' \in [Threads -> [func : {"none", "link", "unlink"},
                          place : Places \cup {Null}, obj : Objs \cup {Null},
                          from : Roots \cup {Null}, last : BOOLEAN]]
    BY <1>1, <1>t
  <2>3. pc' \in [Threads -> {"idle", "test", "log", "swap", "store", "free", "unlink"}]
    BY <1>1, <1>t
  <2> QED
    BY <1>1, <1>t, <2>1, <2>2, <2>3 DEF TypeOK
<1>9. PhaseInv' /\ HandleInv'
  BY <1>1 DEF IInv, PhaseInv, HandleInv, Calm
<1> QED
  BY <1>1, <1>3, <1>4, <1>5, <1>6, <1>7, <1>9, Quiet

-----------------------------------------------------------------------------
(* The recursion: an activation ends, and its caller unlinks.              *)

LocSet == [func : {"none", "link", "unlink"}, place : Places \cup {Null},
           obj : Objs \cup {Null}, from : Roots \cup {Null}, last : BOOLEAN]
PcSet  == {"idle", "test", "log", "swap", "store", "free", "unlink"}

LEMMA TypeIs ==
  ASSUME IInv
  PROVE  /\ word \in [Places -> Objs \cup {Null}] /\ count \in [Objs -> Nat] /\ pool \subseteq Objs
         /\ handles \in [Roots -> Nat] /\ stack \in [Threads -> Seq(Places)]
         /\ pc \in [Threads -> PcSet] /\ loc \in [Threads -> LocSet] /\ NoLocals \in LocSet
         /\ mode \in [Threads -> {"live", "crashed", "recover", "gone"}]
BY DEF IInv, TypeOK, LocSet, PcSet, NoLocals

(* What is below the top of a stack.                                       *)
LEMMA BelowTop ==
  ASSUME IInv, NEW t \in Threads, stack[t] # <<>>
  PROVE  /\ Front(stack[t]) \in Seq(Places)
         /\ Len(stack[t]) = 1 => Front(stack[t]) = <<>> /\ Top(t) \in Roots
         /\ Len(stack[t]) # 1 =>
              /\ Len(stack[t]) > 1
              /\ Front(stack[t]) # <<>> /\ Front(stack[t])[1] = stack[t][1]
              /\ Top(t) \in Words /\ word[Last(Front(stack[t]))] = In[Top(t)]
              /\ Refs[In[Top(t)]] = {Last(Front(stack[t]))} /\ Last(Front(stack[t])) \in Places
              /\ \A x \in WordsOf(In[Top(t)]) : Nr[x] < Nr[Top(t)] => word[x] = Null
              /\ On(Last(Front(stack[t])), t) /\ Last(Front(stack[t])) # Top(t)
         /\ DOMAIN Front(stack[t]) = 1..(Len(stack[t]) - 1)
         /\ \A i \in DOMAIN Front(stack[t]) :
              i \in DOMAIN stack[t] /\ Front(stack[t])[i] = stack[t][i] /\ stack[t][i] # Top(t)
         /\ \A i \in DOMAIN stack[t] : stack[t][i] # Top(t) => i \in DOMAIN Front(stack[t])
<1> DEFINE s == stack[t]
           n == Len(stack[t])
<1>1. /\ s \in Seq(Places) /\ DOMAIN s = 1..n /\ n \in Nat /\ n > 0 /\ Top(t) = s[n]
      /\ s[1] \in Roots /\ n \in DOMAIN s
  BY StackIs
<1>2. StackOK(t)
  BY DEF IInv, StackInv
<1>3. /\ Front(s) \in Seq(Places) /\ DOMAIN Front(s) = 1..(n - 1)
      /\ \A i \in DOMAIN Front(s) : Front(s)[i] = s[i]
      /\ n = 1 <=> Front(s) = <<>>
      /\ n > 1 => Last(Front(s)) = s[n - 1]
  BY <1>1, FrontIs
<1>4. \A i \in DOMAIN s : s[i] = s[n] => i = n
  BY <1>1, <1>2 DEF StackOK
<1>5. \A i \in DOMAIN Front(s) : i \in DOMAIN s /\ i # n
  BY <1>1, <1>3
<1>6. \A i \in DOMAIN Front(s) : i \in DOMAIN s /\ Front(s)[i] = s[i] /\ s[i] # s[n]
  BY <1>3, <1>4, <1>5
<1>7. \A i \in DOMAIN s : s[i] # s[n] => i \in DOMAIN Front(s)
  BY <1>1, <1>3
<1>8. n = 1 => Front(s) = <<>> /\ Top(t) \in Roots
  BY <1>1, <1>3
<1>9. ASSUME n # 1
      PROVE  /\ n > 1 /\ Front(s) # <<>> /\ Front(s)[1] = s[1] /\ s[n] \in Words
             /\ word[s[n - 1]] = In[s[n]] /\ Refs[In[s[n]]] = {s[n - 1]} /\ s[n - 1] \in Places
             /\ \A x \in WordsOf(In[s[n]]) : Nr[x] < Nr[s[n]] => word[x] = Null
             /\ On(s[n - 1], t) /\ s[n - 1] # s[n]
  <2>0. \A k \in Nat : k > 0 /\ k # 1 => k > 1
    OBVIOUS
  <2>1. n > 1
    BY <1>1, <1>9, <2>0
  <2>2. n - 1 \in DOMAIN Front(s) /\ 1 \in DOMAIN Front(s)
    BY <1>1, <1>3, <2>1
  <2>3. n - 1 \in DOMAIN s /\ s[n - 1] # s[n]
    BY <1>6, <2>2
  <2>4. /\ s[n] \in Words /\ word[s[n - 1]] = In[s[n]] /\ Refs[In[s[n]]] = {s[n - 1]}
        /\ \A x \in WordsOf(In[s[n]]) : Nr[x] < Nr[s[n]] => word[x] = Null
    BY <1>1, <1>2, <2>1 DEF StackOK
  <2>5. s[n - 1] \in Places /\ On(s[n - 1], t)
    BY <2>3, StackIs
  <2> QED
    BY <1>3, <1>6, <2>1, <2>2, <2>3, <2>4, <2>5
<1>10. ASSUME n # 1
       PROVE  /\ n > 1 /\ Front(s) # <<>> /\ Front(s)[1] = s[1] /\ Top(t) \in Words
              /\ word[Last(Front(s))] = In[Top(t)] /\ Refs[In[Top(t)]] = {Last(Front(s))}
              /\ \A x \in WordsOf(In[Top(t)]) : Nr[x] < Nr[Top(t)] => word[x] = Null
              /\ Last(Front(s)) \in Places /\ On(Last(Front(s)), t) /\ Last(Front(s)) # Top(t)
  <2>1. Last(Front(s)) = s[n - 1] /\ Top(t) = s[n]
    BY <1>1, <1>3, <1>9, <1>10
  <2> QED
    BY <1>9, <1>10, <2>1
<1>11. /\ \A i \in DOMAIN Front(s) : i \in DOMAIN s /\ Front(s)[i] = s[i] /\ s[i] # Top(t)
       /\ \A i \in DOMAIN s : s[i] # Top(t) => i \in DOMAIN Front(s)
  BY <1>1, <1>6, <1>7
<1> QED
  BY <1>3, <1>8, <1>10, <1>11

(* What a pop leaves of the references below the top.                      *)
PopFrame(t) ==
  /\ word'[Top(t)] = Null
  /\ \A w \in Places : w # Top(t) => word'[w] = word[w]
  /\ \A w \in Words : On(w, t) => Refs'[In[w]] = Refs[In[w]]
  /\ Before(t)' => Before(t) /\ handles' = handles
  /\ mode'[t] = mode[t]

LEMMA BelowKept ==
  ASSUME IInv, NEW t \in Threads, stack[t] # <<>>, PopFrame(t)
  PROVE  /\ Front(stack[t]) # <<>> =>
              /\ Front(stack[t])[1] \in Roots /\ Owner[Front(stack[t])[1]] = t
              /\ Before(t)' => handles'[Front(stack[t])[1]] = 0
              /\ word'[Front(stack[t])[1]] = word[stack[t][1]]
         /\ \A i \in DOMAIN Front(stack[t]) : i > 1 =>
              /\ Front(stack[t])[i] \in Words
              /\ word'[Front(stack[t])[i - 1]] = In[Front(stack[t])[i]]
              /\ Refs'[In[Front(stack[t])[i]]] = {Front(stack[t])[i - 1]}
              /\ \A x \in WordsOf(In[Front(stack[t])[i]]) :
                   Nr[x] < Nr[Front(stack[t])[i]] => word'[x] = Null
         /\ \A i, j \in DOMAIN Front(stack[t]) : Front(stack[t])[i] = Front(stack[t])[j] => i = j
<1> DEFINE s == stack[t]
<1>1. /\ DOMAIN Front(s) = 1..(Len(s) - 1)
      /\ \A i \in DOMAIN Front(s) : i \in DOMAIN s /\ Front(s)[i] = s[i] /\ s[i] # Top(t)
      /\ Len(s) = 1 => Front(s) = <<>>
      /\ Len(s) # 1 => Front(s) # <<>> /\ Front(s)[1] = s[1] /\ Len(s) > 1
      /\ Len(s) \in Nat
  BY BelowTop, StackIs
<1>2. StackOK(t)
  BY DEF IInv, StackInv
<1>3. \A i \in DOMAIN Front(s) : On(s[i], t) /\ s[i] \in Places /\ word'[s[i]] = word[s[i]]
  <2>1. \A i \in DOMAIN Front(s) : On(s[i], t) /\ s[i] \in Places
    BY <1>1, StackIs
  <2> QED
    BY <1>1, <2>1 DEF PopFrame
<1>4. ASSUME Front(s) # <<>>
      PROVE  /\ Front(s)[1] \in Roots /\ Owner[Front(s)[1]] = t
             /\ Before(t)' => handles'[Front(s)[1]] = 0
             /\ word'[Front(s)[1]] = word[s[1]]
  <2>1. 1 \in DOMAIN Front(s) /\ Front(s)[1] = s[1] /\ s # <<>>
    BY <1>1, <1>4
  <2> QED
    BY <1>2, <1>3, <2>1 DEF StackOK, PopFrame
<1>5. ASSUME NEW i \in DOMAIN Front(s), i > 1
      PROVE  /\ Front(s)[i] \in Words /\ word'[Front(s)[i - 1]] = In[Front(s)[i]]
             /\ Refs'[In[Front(s)[i]]] = {Front(s)[i - 1]}
             /\ \A x \in WordsOf(In[Front(s)[i]]) : Nr[x] < Nr[Front(s)[i]] => word'[x] = Null
  <2>1. i - 1 \in DOMAIN Front(s)
    BY <1>1, <1>5
  <2>2. PICK w, v : w = s[i] /\ v = s[i - 1]
    OBVIOUS
  <2>3. /\ Front(s)[i] = w /\ On(w, t) /\ i \in DOMAIN s
        /\ Front(s)[i - 1] = v /\ On(v, t) /\ word'[v] = word[v]
    BY <1>1, <1>3, <2>1, <2>2
  <2>4. /\ w \in Words /\ word[v] = In[w] /\ Refs[In[w]] = {v}
        /\ \A x \in WordsOf(In[w]) : Nr[x] < Nr[w] => word[x] = Null
    BY <1>2, <1>5, <2>2, <2>3 DEF StackOK
  <2>5. Refs'[In[w]] = Refs[In[w]]
    BY <2>3, <2>4 DEF PopFrame
  <2>6. \A x \in WordsOf(In[w]) : word[x] = Null => word'[x] = Null
    BY WordIs, PlaceIs DEF PopFrame
  <2> QED
    BY <2>3, <2>4, <2>5, <2>6
<1>6. \A i, j \in DOMAIN Front(s) : Front(s)[i] = Front(s)[j] => i = j
  BY <1>1, <1>2 DEF StackOK
<1> QED
  BY <1>4, <1>5, <1>6

(* A stack without its top.                                                *)
LEMMA PopStack ==
  ASSUME IInv, NEW t \in Threads, stack[t] # <<>>, stack'[t] = Front(stack[t]), PopFrame(t)
  PROVE  /\ StackOK(t)'
         /\ \A w : On(w, t)' => On(w, t) /\ w # Top(t)
         /\ DropsTree(t)' => DropsTree(t)
<1>1. StackOK(t)'
  <2>1. stack'[t] # <<>> => /\ stack'[t][1] \in Roots /\ Owner[stack'[t][1]] = t
                            /\ Before(t)' => handles'[stack'[t][1]] = 0
    BY BelowKept
  <2>2. \A i \in DOMAIN stack'[t] : i > 1 =>
          /\ stack'[t][i] \in Words /\ word'[stack'[t][i - 1]] = In[stack'[t][i]]
          /\ Refs'[In[stack'[t][i]]] = {stack'[t][i - 1]}
          /\ \A x \in WordsOf(In[stack'[t][i]]) : Nr[x] < Nr[stack'[t][i]] => word'[x] = Null
    BY BelowKept
  <2>3. \A i, j \in DOMAIN stack'[t] : stack'[t][i] = stack'[t][j] => i = j
    <3>1. \A i, j \in DOMAIN Front(stack[t]) :
            Front(stack[t])[i] = Front(stack[t])[j] => i = j
      BY BelowKept
    <3> QED
      BY <3>1
  <2> QED
    BY <2>1, <2>2, <2>3 DEF StackOK
<1>2. \A w : On(w, t)' => On(w, t) /\ w # Top(t)
  BY BelowTop DEF On
<1>3. DropsTree(t)' => DropsTree(t)
  BY BelowKept DEF DropsTree, PopFrame
<1> QED
  BY <1>1, <1>2, <1>3

(* A stack with the next word of the parent for its top.                   *)
LEMMA NextStack ==
  ASSUME IInv, NEW t \in Threads, stack[t] # <<>>, NEW v \in Foremost(Later(Top(t))),
         stack'[t] = Append(Front(stack[t]), v), PopFrame(t)
  PROVE  /\ StackOK(t)' /\ stack'[t] # <<>> /\ stack'[t] \in Seq(Places)
         /\ \A w : On(w, t)' => \/ On(w, t)
                                \/ w \in Words /\ \E x : On(x, t) /\ Refs[In[w]] = {x}
         /\ DropsTree(t)' => DropsTree(t)
         /\ \A i \in DOMAIN Front(stack[t]) : i \in DOMAIN stack'[t] /\ stack'[t][i] = stack[t][i]
         /\ Top(t) \in Words
<1> DEFINE s == stack[t]
           f == Front(s)
           n == Len(f)
           a == Append(f, v)
<1>0. Top(t) \in Words
  <2>1. Top(t) \in Roots => Later(Top(t)) = {}
    BY LaterIs
  <2>2. Foremost(Later(Top(t))) \subseteq Later(Top(t))
    BY DEF Foremost
  <2>3. Top(t) \notin Roots /\ Top(t) \in Places
    BY <2>1, <2>2, StackIs
  <2> QED
    BY <2>3, PlaceIs
<1>1. /\ Len(s) # 1 /\ Len(s) > 1 /\ Len(s) \in Nat /\ f # <<>> /\ f \in Seq(Places)
      /\ f[1] = s[1] /\ DOMAIN f = 1..(Len(s) - 1)
      /\ \A i \in DOMAIN f : i \in DOMAIN s /\ f[i] = s[i] /\ s[i] # Top(t)
      /\ word[Last(f)] = In[Top(t)] /\ Refs[In[Top(t)]] = {Last(f)}
      /\ On(Last(f), t) /\ Last(f) # Top(t) /\ Last(f) \in Places
      /\ \A x \in WordsOf(In[Top(t)]) : Nr[x] < Nr[Top(t)] => word[x] = Null
  BY <1>0, BelowTop, StackIs, PlaceIs
<1>2. n \in Nat /\ n > 0 /\ DOMAIN f = 1..n /\ Last(f) = f[n] /\ n = Len(s) - 1
  BY <1>1, SeqIs, FrontIs, StackIs
<1>3. /\ v \in Words /\ In[v] = In[Top(t)] /\ v # Top(t) /\ v \in Places
      /\ \A x \in WordsOf(In[v]) : Nr[x] < Nr[v] => x = Top(t) \/ Nr[x] < Nr[Top(t)]
  BY <1>0, LaterIs, PlaceIs
<1>4. /\ a \in Seq(Places) /\ a # <<>> /\ DOMAIN a = 1..(n + 1)
      /\ \A i \in 1..n : a[i] = f[i]
      /\ a[n + 1] = v
  BY <1>1, <1>2, <1>3, AppendIs
<1>5. \A i \in DOMAIN f : i \in DOMAIN a /\ a[i] = f[i]
  BY <1>2, <1>4
<1>6. \A i \in DOMAIN a : i \in DOMAIN f \/ i = n + 1
  BY <1>2, <1>4
<1>7. /\ f[1] \in Roots /\ Owner[f[1]] = t /\ (Before(t)' => handles'[f[1]] = 0)
      /\ word'[f[1]] = word[s[1]]
      /\ \A i \in DOMAIN f : i > 1 =>
           /\ f[i] \in Words /\ word'[f[i - 1]] = In[f[i]] /\ Refs'[In[f[i]]] = {f[i - 1]}
           /\ \A x \in WordsOf(In[f[i]]) : Nr[x] < Nr[f[i]] => word'[x] = Null
      /\ \A i, j \in DOMAIN f : f[i] = f[j] => i = j
  BY <1>1, BelowKept
<1>8. /\ word'[Last(f)] = In[v] /\ Refs'[In[v]] = {Last(f)} /\ Refs[In[v]] = {Last(f)}
      /\ \A x \in WordsOf(In[v]) : Nr[x] < Nr[v] => word'[x] = Null
  <2>1. word'[Last(f)] = word[Last(f)]
    BY <1>1 DEF PopFrame
  <2>2. On(Top(t), t)
    BY StackIs
  <2>3. Refs'[In[Top(t)]] = Refs[In[Top(t)]]
    BY <1>0, <2>2 DEF PopFrame
  <2>4. ASSUME NEW x \in WordsOf(In[v]), Nr[x] < Nr[v] PROVE word'[x] = Null
    <3>1. CASE x = Top(t)
      BY <3>1 DEF PopFrame
    <3>2. CASE x # Top(t)
      <4>1. Nr[x] < Nr[Top(t)] /\ x \in WordsOf(In[Top(t)]) /\ x \in Places
        BY <1>3, <2>4, <3>2, WordIs, PlaceIs
      <4>2. word[x] = Null
        BY <1>1, <4>1
      <4> QED
        BY <3>2, <4>1, <4>2 DEF PopFrame
    <3> QED
      BY <3>1, <3>2
  <2> QED
    BY <1>1, <1>3, <2>1, <2>3, <2>4
<1>9. ASSUME NEW i \in DOMAIN f PROVE f[i] # v
  <2>1. CASE i = 1
    BY <2>1, <1>3, <1>7, PlaceIs
  <2>2. CASE i # 1 /\ f[i] = v
    <3>1. i > 1 /\ i - 1 \in DOMAIN f /\ i - 1 # n
      BY <1>2, <2>2
    <3>2. Refs'[In[v]] = {f[i - 1]}
      BY <1>7, <2>2, <3>1
    <3>3. f[i - 1] = f[n]
      <4>1. Refs'[In[v]] = {f[n]}
        BY <1>2, <1>8
      <4> QED
        BY <3>2, <4>1
    <3>4. n \in DOMAIN f
      BY <1>2
    <3> QED
      BY <1>7, <3>1, <3>3, <3>4
  <2> QED
    BY <2>1, <2>2
<1>10. a[1] = f[1]
  BY <1>2, <1>5
<1>11. ASSUME NEW i \in DOMAIN a, i > 1
       PROVE  /\ a[i] \in Words /\ word'[a[i - 1]] = In[a[i]] /\ Refs'[In[a[i]]] = {a[i - 1]}
              /\ \A x \in WordsOf(In[a[i]]) : Nr[x] < Nr[a[i]] => word'[x] = Null
  <2>1. CASE i \in DOMAIN f
    <3>1. i - 1 \in DOMAIN f
      BY <1>2, <1>11, <2>1
    <3>2. a[i] = f[i] /\ a[i - 1] = f[i - 1]
      BY <1>5, <2>1, <3>1
    <3> QED
      BY <1>7, <1>11, <2>1, <3>2
  <2>2. CASE i = n + 1
    <3>1. a[i - 1] = Last(f) /\ a[i] = v
      BY <1>2, <1>4, <2>2
    <3> QED
      BY <1>3, <1>8, <3>1
  <2> QED
    BY <1>6, <2>1, <2>2
<1>12. ASSUME NEW i \in DOMAIN a, NEW j \in DOMAIN a, a[i] = a[j] PROVE i = j
  <2>1. CASE i \in DOMAIN f /\ j \in DOMAIN f
    BY <2>1, <1>5, <1>7, <1>12
  <2>2. CASE i = n + 1 /\ j \in DOMAIN f
    BY <2>2, <1>4, <1>5, <1>9, <1>12
  <2>3. CASE j = n + 1 /\ i \in DOMAIN f
    BY <2>3, <1>4, <1>5, <1>9, <1>12
  <2> QED
    BY <1>6, <2>1, <2>2, <2>3
<1>13. StackOK(t)'
  <2>1. stack'[t] # <<>> => stack'[t][1] \in Roots /\ Owner[stack'[t][1]] = t
                             /\ (Before(t)' => handles'[stack'[t][1]] = 0)
    BY <1>7, <1>10
  <2>2. \A i \in DOMAIN stack'[t] : i > 1 =>
          /\ stack'[t][i] \in Words /\ word'[stack'[t][i - 1]] = In[stack'[t][i]]
          /\ Refs'[In[stack'[t][i]]] = {stack'[t][i - 1]}
          /\ \A x \in WordsOf(In[stack'[t][i]]) : Nr[x] < Nr[stack'[t][i]] => word'[x] = Null
    BY <1>11
  <2>3. \A i, j \in DOMAIN stack'[t] : stack'[t][i] = stack'[t][j] => i = j
    BY <1>12
  <2> QED
    BY <2>1, <2>2, <2>3 DEF StackOK
<1>14. ASSUME NEW w, On(w, t)'
       PROVE  On(w, t) \/ (w \in Words /\ \E x : On(x, t) /\ Refs[In[w]] = {x})
  <2>1. PICK i \in DOMAIN a : a[i] = w
    BY <1>14 DEF On
  <2>2. CASE i \in DOMAIN f
    <3>1. i \in DOMAIN s /\ s[i] = w
      BY <1>1, <1>5, <2>1, <2>2
    <3> QED
      BY <3>1 DEF On
  <2>3. CASE i = n + 1
    BY <1>1, <1>3, <1>4, <1>8, <2>1, <2>3
  <2> QED
    BY <1>6, <2>2, <2>3
<1>15. DropsTree(t)' => DropsTree(t)
  <2>1. stack'[t][1] = f[1] /\ s # <<>>
    BY <1>10
  <2> QED
    BY <1>7, <2>1 DEF DropsTree, PopFrame
<1>16. \A i \in DOMAIN f : i \in DOMAIN stack'[t] /\ stack'[t][i] = s[i]
  BY <1>1, <1>5
<1> QED
  BY <1>0, <1>4, <1>13, <1>14, <1>15, <1>16

(* The registers of an unlink that begins.                                 *)
LEMMA UnlinkOwn ==
  ASSUME NEW t \in Threads, NEW w \in Places, pc'[t] = "log", loc'[t].func = "unlink",
         loc'[t].place = w, loc'[t].obj = word'[w], word'[w] # Null, Before(t)',
         stack'[t] # <<>>, Last(stack'[t]) = w,
         word'[w] \in Parents => \/ \A x \in WordsOf(word'[w]) : word'[x] = Null
                                \/ \E v \in Refs'[word'[w]] : v # w
  PROVE  PcOK(t)' /\ LinkOK(t)' /\ UnlinkOK(t)' /\ \A o : ~Releasing(t, o)'
<1>1. PcOK(t)'
  BY PlaceIs DEF PcOK, Busy, Before
<1>2. LinkOK(t)'
  BY DEF LinkOK
<1>3. UnlinkOK(t)'
  BY DEF UnlinkOK, Busy, Top, Releasing, Bare
<1>4. \A o : ~Releasing(t, o)'
  BY DEF Releasing
<1> QED
  BY <1>1, <1>2, <1>3, <1>4

LEMMA PopIs ==
  ASSUME IInv, NEW t \in Threads, Pop(t), stack[t] # <<>>, Before(t), mode' = mode,
         handles' = handles, Refs' = Refs, word' = [word EXCEPT ![Top(t)] = Null]
  PROVE  /\ StackOK(t)' /\ PcOK(t)' /\ LinkOK(t)' /\ UnlinkOK(t)' /\ TakeFrame(t)
         /\ pc'[t] \in {"idle", "log", "test"}
         /\ \A i \in DOMAIN Front(stack[t]) : i \in DOMAIN stack'[t] /\ stack'[t][i] = stack[t][i]
         /\ pc' \in [Threads -> PcSet] /\ loc' \in [Threads -> LocSet]
         /\ stack' \in [Threads -> Seq(Places)]
         /\ \A u \in Threads \ {t} : /\ pc'[u] = pc[u] /\ loc'[u] = loc[u]
                                     /\ stack'[u] = stack[u] /\ mode'[u] = mode[u]
<1> DEFINE w == Last(Front(stack[t]))
<1>1. \/ /\ \E v \in Foremost(Later(Top(t))) : stack' = [stack EXCEPT ![t] = Append(Front(@), v)]
         /\ pc' = [pc EXCEPT ![t] = "test"] /\ loc' = [loc EXCEPT ![t] = NoLocals]
      \/ /\ stack' = [stack EXCEPT ![t] = Front(@)] /\ Later(Top(t)) = {}
         /\ \/ /\ Len(stack[t]) = 1
               /\ pc' = [pc EXCEPT ![t] = "idle"] /\ loc' = [loc EXCEPT ![t] = NoLocals]
            \/ /\ Len(stack[t]) # 1
               /\ pc' = [pc EXCEPT ![t] = "log"]
               /\ loc' = [loc EXCEPT ![t] = [func |-> "unlink", place |-> w, obj |-> word[w],
                                             from |-> Null, last |-> FALSE]]
  BY DEF Pop, NextWord, LastWord, Unlink, Operate, Goto
<1>2. /\ stack \in [Threads -> Seq(Places)] /\ pc \in [Threads -> PcSet]
      /\ loc \in [Threads -> LocSet] /\ NoLocals \in LocSet
      /\ word \in [Places -> Objs \cup {Null}] /\ Top(t) \in Places
      /\ Front(stack[t]) \in Seq(Places)
  BY TypeIs, StackIs, BelowTop
<1>3. word'[Top(t)] = Null /\ \A v \in Places \ {Top(t)} : word'[v] = word[v]
  BY <1>2
<1>4. PopFrame(t)
  BY <1>3 DEF PopFrame, Before
<1>5. \A i \in DOMAIN Front(stack[t]) : i \in DOMAIN stack[t] /\ Front(stack[t])[i] = stack[t][i]
  BY BelowTop
<1>6. ASSUME stack' = [stack EXCEPT ![t] = Front(@)]
      PROVE  /\ StackOK(t)' /\ stack'[t] = Front(stack[t])
             /\ stack' \in [Threads -> Seq(Places)] /\ \A u \in Threads \ {t} : stack'[u] = stack[u]
             /\ \A v : On(v, t)' => On(v, t)
             /\ DropsTree(t)' => DropsTree(t)
             /\ \A i \in DOMAIN Front(stack[t]) : i \in DOMAIN stack'[t] /\ stack'[t][i] = stack[t][i]
  <2>1. /\ stack'[t] = Front(stack[t]) /\ stack' \in [Threads -> Seq(Places)]
        /\ \A u \in Threads \ {t} : stack'[u] = stack[u]
    BY <1>2, <1>6
  <2> QED
    BY <1>4, <1>5, <2>1, PopStack
<1>7. CASE stack' = [stack EXCEPT ![t] = Front(@)] /\ Len(stack[t]) = 1
           /\ pc' = [pc EXCEPT ![t] = "idle"] /\ loc' = [loc EXCEPT ![t] = NoLocals]
  <2>1. stack'[t] = <<>>
    BY <1>6, <1>7, BelowTop
  <2>2. pc'[t] = "idle" /\ loc'[t] = NoLocals /\ pc' \in [Threads -> PcSet] /\ loc' \in [Threads -> LocSet]
    BY <1>2, <1>7 DEF PcSet
  <2>3. PcOK(t)' /\ LinkOK(t)' /\ UnlinkOK(t)'
    BY <2>1, <2>2, IdleOwn
  <2>4. TakeFrame(t)
    BY <1>6, <1>7, <2>2, PlaceIs DEF TakeFrame, Releasing, NoLocals
  <2>5. \A u \in Threads \ {t} : pc'[u] = pc[u] /\ loc'[u] = loc[u]
    BY <1>2, <1>7
  <2> QED
    BY <1>6, <1>7, <2>2, <2>3, <2>4, <2>5
<1>8. CASE /\ stack' = [stack EXCEPT ![t] = Front(@)] /\ Len(stack[t]) # 1 /\ Later(Top(t)) = {}
           /\ pc' = [pc EXCEPT ![t] = "log"]
           /\ loc' = [loc EXCEPT ![t] = [func |-> "unlink", place |-> w, obj |-> word[w],
                                         from |-> Null, last |-> FALSE]]
  <2>1. stack'[t] # <<>> /\ Last(stack'[t]) = w
    BY <1>6, <1>8, BelowTop
  <2>2. /\ w \in Places /\ w # Top(t) /\ word[w] = In[Top(t)] /\ Top(t) \in Words
        /\ In[Top(t)] \in Objs /\ word'[w] = In[Top(t)] /\ In[Top(t)] # Null
    BY <1>3, <1>8, BelowTop, PlaceIs, WordIs
  <2>3. [func |-> "unlink", place |-> w, obj |-> word[w], from |-> Null, last |-> FALSE] \in LocSet
    BY <2>2 DEF LocSet
  <2>4. /\ pc'[t] = "log" /\ loc'[t].func = "unlink" /\ loc'[t].place = w /\ loc'[t].obj = word'[w]
        /\ pc' \in [Threads -> PcSet] /\ loc' \in [Threads -> LocSet]
    BY <1>2, <1>8, <2>2, <2>3 DEF PcSet
  <2>5. \A x \in WordsOf(word'[w]) : word'[x] = Null
    <3>1. ASSUME NEW x \in WordsOf(In[Top(t)]) PROVE word'[x] = Null
      <4>1. x \in Places /\ (x = Top(t) \/ Nr[x] < Nr[Top(t)])
        BY <1>8, <2>2, LaterIs, WordIs, PlaceIs
      <4>2. Nr[x] < Nr[Top(t)] => word[x] = Null
        BY <1>8, BelowTop
      <4> QED
        BY <1>3, <4>1, <4>2
    <3> QED
      BY <2>2, <3>1
  <2>6. PcOK(t)' /\ LinkOK(t)' /\ UnlinkOK(t)' /\ \A o : ~Releasing(t, o)'
    <3>1. Before(t)' /\ word'[w] # Null
      BY <2>2 DEF Before
    <3> QED
      BY <2>1, <2>2, <2>4, <2>5, <3>1, UnlinkOwn
  <2>7. TakeFrame(t)
    <3>1. word[loc'[t].place] # Null
      BY <2>2, <2>4
    <3> QED
      BY <1>6, <1>8, <2>6, <3>1 DEF TakeFrame
  <2>8. \A u \in Threads \ {t} : pc'[u] = pc[u] /\ loc'[u] = loc[u]
    BY <1>2, <1>8
  <2> QED
    BY <1>6, <1>8, <2>4, <2>6, <2>7, <2>8
<1>9. CASE /\ \E v \in Foremost(Later(Top(t))) : stack' = [stack EXCEPT ![t] = Append(Front(@), v)]
           /\ pc' = [pc EXCEPT ![t] = "test"] /\ loc' = [loc EXCEPT ![t] = NoLocals]
  <2>1. PICK v \in Foremost(Later(Top(t))) : stack' = [stack EXCEPT ![t] = Append(Front(@), v)]
    BY <1>9
  <2>2. stack'[t] = Append(Front(stack[t]), v) /\ \A u \in Threads \ {t} : stack'[u] = stack[u]
    BY <1>2, <2>1
  <2>3. /\ StackOK(t)' /\ stack'[t] # <<>> /\ stack'[t] \in Seq(Places)
        /\ \A x : On(x, t)' => \/ On(x, t)
                               \/ x \in Words /\ \E y : On(y, t) /\ Refs[In[x]] = {y}
        /\ DropsTree(t)' => DropsTree(t)
        /\ \A i \in DOMAIN Front(stack[t]) : i \in DOMAIN stack'[t] /\ stack'[t][i] = stack[t][i]
    BY <1>4, <2>1, <2>2, NextStack
  <2>4. stack' \in [Threads -> Seq(Places)]
    BY <1>2, <2>1, <2>2, <2>3
  <2>5. pc'[t] = "test" /\ loc'[t] = NoLocals /\ pc' \in [Threads -> PcSet] /\ loc' \in [Threads -> LocSet]
    BY <1>2, <1>9 DEF PcSet
  <2>6. PcOK(t)' /\ LinkOK(t)' /\ UnlinkOK(t)' /\ \A o : ~Releasing(t, o)'
    BY <2>3, <2>5 DEF PcOK, LinkOK, UnlinkOK, Busy, Before, Releasing
  <2>7. TakeFrame(t)
    <3>1. loc'[t].place \notin Words
      BY <2>5, PlaceIs DEF NoLocals
    <3> QED
      BY <2>3, <2>6, <3>1 DEF TakeFrame
  <2>8. \A u \in Threads \ {t} : pc'[u] = pc[u] /\ loc'[u] = loc[u]
    BY <1>2, <1>9
  <2> QED
    BY <2>2, <2>3, <2>4, <2>5, <2>6, <2>7, <2>8
<1> QED
  BY <1>1, <1>7, <1>8, <1>9

LEMMA AttachIs ==
  ASSUME IInv, ~Overlap, NEW t \in Threads, NEW p \in Words, NEW s \in Roots, Attach(t, p, s)
  PROVE  IInv'
<1>1. /\ mode[t] = "live" /\ pc[t] = "idle" /\ Holds(t, In[p]) /\ word[p] = Null
      /\ handles[s] > 0 /\ word[s] # Null /\ Level[word[s]] < Level[In[p]]
      /\ \A u \in Threads : loc[u].place # p
      /\ loc' = [loc EXCEPT ![t] = [func |-> "link", place |-> p, obj |-> word[s],
                                    from |-> s, last |-> FALSE]]
      /\ pc' = [pc EXCEPT ![t] = "log"] /\ word' = word /\ count' = count
      /\ pool' = pool /\ handles' = handles /\ stack' = stack /\ mode' = mode /\ log' = log
  BY DEF Attach, At, heap, Operate, Goto
<1>2. stack[t] = <<>> /\ loc[t] = NoLocals
  BY <1>1, IdleIs
<1>3. /\ loc \in [Threads -> LocSet] /\ pc \in [Threads -> PcSet] /\ word[s] \in Objs
      /\ p \in Places /\ p # Null /\ word[s] # Null
      /\ [func |-> "link", place |-> p, obj |-> word[s], from |-> s, last |-> FALSE] \in LocSet
  <2>1. word[s] \in Objs /\ p \in Places /\ p # Null
    BY <1>1, PlaceIs, TypeIs
  <2> QED
    BY <1>1, <2>1, TypeIs DEF LocSet
<1>4. /\ pc'[t] = "log" /\ loc'[t].func = "link" /\ loc'[t].place = p /\ loc'[t].obj = word[s]
      /\ loc'[t].from = s /\ loc'[t].last = FALSE
  BY <1>1, <1>3
<1>5. Apart(t)
  BY <1>1, <1>3 DEF Apart
<1>6. Refs' = Refs
  BY <1>1, <1>4, <1>5, SameRefs
<1>7. TakeFrame(t)
  <2>1. /\ \A w : On(w, t)' <=> On(w, t)
        /\ DropsTree(t)' <=> DropsTree(t)
    BY <1>1 DEF On, DropsTree
  <2>2. \A o \in Objs : ~Releasing(t, o)'
    BY <1>4 DEF Releasing
  <2>3. \A u \in Threads : loc[u].place # loc'[t].place
    BY <1>1, <1>4
  <2> QED
    BY <2>1, <2>2, <2>3 DEF TakeFrame
<1>8. OwnPart(t)'
  <2>1. StackOK(t)'
    BY <1>1, <1>2 DEF StackOK
  <2>2. PcOK(t)'
    BY <1>1, <1>3, <1>4, PlaceIs DEF PcOK, Before, Busy
  <2>3. LinkOK(t)'
    <3>1. Holds(t, In[p])'
      BY <1>1 DEF Holds
    <3>2. \A u \in Threads \ {t} : loc'[u].place # p
      BY <1>1, <1>5 DEF Apart
    <3>3. p \notin Roots /\ s # Null
      BY PlaceIs
    <3> QED
      BY <1>1, <1>2, <1>4, <3>1, <3>2, <3>3 DEF LinkOK
  <2>4. UnlinkOK(t)'
    BY <1>4 DEF UnlinkOK, Busy, Releasing
  <2>5. LogOK(t)
    BY <1>1 DEF IInv, LogInv, Before
  <2>6. LogOK(t)'
    BY <1>1, <1>4, <1>6, <2>5, LogSame
  <2> QED
    BY <2>1, <2>2, <2>3, <2>4, <2>6 DEF OwnPart
<1>9. TypeOK'
  <2>1. loc' \in [Threads -> LocSet] /\ pc' \in [Threads -> PcSet]
    BY <1>1, <1>3 DEF PcSet
  <2> QED
    BY <1>1, <2>1 DEF IInv, TypeOK, LocSet, PcSet
<1>10. PhaseInv' /\ HandleInv'
  BY <1>1 DEF IInv, PhaseInv, HandleInv, Calm
<1> QED
  BY <1>1, <1>5, <1>6, <1>7, <1>8, <1>9, <1>10, Quiet

(* A stack of one RootRef, of the destructor or of the monitor.            *)
LEMMA OneStack ==
  ASSUME IInv, NEW t \in Threads, NEW r \in Roots, Owner[r] = t, stack'[t] = <<r>>,
         Before(t)' => handles'[r] = 0
  PROVE  /\ StackOK(t)' /\ \A w : On(w, t)' => w \in Roots /\ Owner[w] = t
         /\ Last(stack'[t]) = r /\ stack'[t] # <<>> /\ stack'[t] \in Seq(Places)
         /\ stack'[t][1] = r
<1>1. r \in Places
  BY PlaceIs
<1>2. /\ <<r>> \in Seq(Places) /\ <<r>> # <<>> /\ DOMAIN <<r>> = {1} /\ <<r>>[1] = r
      /\ Last(<<r>>) = r
  BY <1>1, OneIs
<1>3. StackOK(t)'
  BY <1>2 DEF StackOK
<1>4. \A w : On(w, t)' => w \in Roots /\ Owner[w] = t
  BY <1>2 DEF On
<1> QED
  BY <1>2, <1>3, <1>4

LEMMA DestroyIs ==
  ASSUME IInv, ~Overlap, NEW t \in Threads, NEW r \in Roots, Destroy(t, r)
  PROVE  IInv'
<1>1. /\ mode[t] = "live" /\ pc[t] = "idle" /\ Owner[r] = t /\ handles[r] > 0
      /\ handles' = [handles EXCEPT ![r] = @ - 1]
      /\ word' = word /\ count' = count /\ pool' = pool /\ log' = log /\ mode' = mode
      /\ loc' = loc
      /\ \/ handles[r] > 1 /\ pc' = pc /\ stack' = stack
         \/ /\ ~(handles[r] > 1) /\ ~Pinned(r) /\ MayDrop(t, word[r])
            /\ stack' = [stack EXCEPT ![t] = <<r>>] /\ pc' = [pc EXCEPT ![t] = "test"]
  BY DEF Destroy, At, heap, ctl, Goto
<1>2. stack[t] = <<>> /\ loc[t] = NoLocals /\ \A w : ~On(w, t)
  BY <1>1, IdleIs
<1>3. /\ handles \in [Roots -> Nat] /\ handles[r] \in Nat
      /\ stack \in [Threads -> Seq(Places)] /\ pc \in [Threads -> PcSet] /\ word[r] # Null
  <2>1. word[r] # Null
    BY <1>1, CalmIs DEF IInv, HandleInv, Calm, Before
  <2> QED
    BY <1>1, <2>1, TypeIs
<1>4. /\ handles' \in [Roots -> Nat] /\ \A q \in Roots \ {r} : handles'[q] = handles[q]
      /\ handles'[r] = handles[r] - 1
  BY <1>1, <1>3
<1>5. Apart(t)
  BY <1>1, <1>3 DEF Apart
<1>6. Refs' = Refs
  <2>1. pc'[t] = "store" <=> pc[t] = "store"
    BY <1>1, <1>3
  <2> QED
    BY <1>1, <1>5, <2>1, SameRefs
<1>7. \A q \in Roots : handles[q] > 0 => handles'[q] > 0 \/ ~Pinned(q) \/ ~Before(t)
  <2>1. handles'[r] > 0 \/ ~Pinned(r)
    BY <1>1, <1>3, <1>4
  <2> QED
    BY <1>4, <2>1
<1>8. LogOK(t)'
  <2>1. LogOK(t)
    BY <1>1 DEF IInv, LogInv, Before
  <2>2. pc'[t] \in {"idle", "test"}
    BY <1>1, <1>3
  <2>3. DOMAIN stack[t] = {}
    BY <1>2
  <2> QED
    BY <1>1, <1>6, <2>1, <2>2, <2>3, LogSame
<1>9. PhaseInv' /\ HandleInv'
  <2>1. \A q \in Roots : handles'[q] > 0 => handles[q] > 0
    BY <1>1, <1>3, <1>4
  <2> QED
    BY <1>1, <2>1 DEF IInv, PhaseInv, HandleInv, Calm
<1>10. CASE handles[r] > 1
  <2>1. pc' = pc /\ stack' = stack
    BY <1>1, <1>10, <1>3
  <2>2. TakeFrame(t)
    BY <1>1, <2>1 DEF TakeFrame, On, DropsTree, Releasing
  <2>3. StackOK(t)' /\ PcOK(t)' /\ LinkOK(t)' /\ UnlinkOK(t)'
    BY <1>1, <1>2, <2>1, IdleOwn
  <2>4. OwnPart(t)'
    BY <1>8, <2>3 DEF OwnPart
  <2>5. TypeOK'
    BY <1>1, <1>4, <2>1 DEF IInv, TypeOK
  <2> QED
    BY <1>1, <1>4, <1>5, <1>6, <1>7, <1>9, <2>2, <2>4, <2>5, Quiet
<1>11. CASE ~(handles[r] > 1)
  <2>1. /\ MayDrop(t, word[r]) /\ stack' = [stack EXCEPT ![t] = <<r>>]
        /\ pc' = [pc EXCEPT ![t] = "test"] /\ handles'[r] = 0
    BY <1>1, <1>3, <1>4, <1>11
  <2>2. stack'[t] = <<r>> /\ pc'[t] = "test" /\ pc' \in [Threads -> PcSet]
    BY <1>3, <2>1 DEF PcSet
  <2>3. /\ StackOK(t)' /\ \A w : On(w, t)' => w \in Roots /\ Owner[w] = t
        /\ stack'[t] # <<>> /\ stack'[t] \in Seq(Places) /\ stack'[t][1] = r
    BY <1>1, <2>1, <2>2, OneStack
  <2>4. TakeFrame(t)
    <3>1. DropsTree(t)' => \A u \in Threads \ {t} : ~DropsTree(u)
      BY <1>1, <2>1, <2>3 DEF DropsTree, MayDrop
    <3>2. \A o \in Objs : ~Releasing(t, o)'
      BY <2>2 DEF Releasing
    <3> QED
      BY <1>1, <2>3, <3>1, <3>2 DEF TakeFrame
  <2>5. PcOK(t)' /\ LinkOK(t)' /\ UnlinkOK(t)'
    <3>1. PcOK(t)'
      BY <1>1, <1>2, <2>2, <2>3 DEF PcOK, Before, Busy
    <3>2. LinkOK(t)'
      BY <2>2 DEF LinkOK, Busy
    <3>3. UnlinkOK(t)'
      BY <2>2 DEF UnlinkOK, Busy, Releasing
    <3> QED
      BY <3>1, <3>2, <3>3
  <2>6. OwnPart(t)'
    BY <1>8, <2>3, <2>5 DEF OwnPart
  <2>7. TypeOK'
    <3>1. stack' \in [Threads -> Seq(Places)]
      BY <1>3, <2>1, <2>2, <2>3
    <3> QED
      BY <1>1, <1>4, <2>2, <3>1 DEF IInv, TypeOK, PcSet
  <2> QED
    BY <1>1, <1>4, <1>5, <1>6, <1>7, <1>9, <2>4, <2>6, <2>7, Quiet
<1> QED
  BY <1>10, <1>11

LEMMA PopApart ==
  ASSUME IInv, NEW t \in Threads, Pop(t)
  PROVE  /\ \A u \in Threads \ {t} : pc'[u] = pc[u] /\ loc'[u] = loc[u] /\ stack'[u] = stack[u]
         /\ pc'[t] \in {"idle", "log", "test"}
<1>1. stack \in [Threads -> Seq(Places)] /\ pc \in [Threads -> PcSet] /\ loc \in [Threads -> LocSet]
  BY TypeIs
<1>2. /\ \A u \in Threads \ {t} : stack'[u] = stack[u]
      /\ \/ pc' = [pc EXCEPT ![t] = "idle"] \/ pc' = [pc EXCEPT ![t] = "log"]
         \/ pc' = [pc EXCEPT ![t] = "test"]
      /\ \A u \in Threads \ {t} : loc'[u] = loc[u]
  BY <1>1 DEF Pop, NextWord, LastWord, Unlink, Operate, Goto
<1> QED
  BY <1>1, <1>2

LEMMA LogPop ==
  ASSUME IInv, NEW t \in Threads, LogOK(t), log'[t] = log[t], word' = word, Refs' = Refs,
         stack[t] # <<>>, word[Top(t)] = Null,
         \A i \in DOMAIN Front(stack[t]) : i \in DOMAIN stack'[t] /\ stack'[t][i] = stack[t][i],
         pc[t] # "store", pc'[t] \notin {"swap", "store"}
  PROVE  LogOK(t)'
<1>1. ASSUME NEW i \in DOMAIN stack[t], NEW w \in Words, Refs[In[w]] = {stack[t][i]}
      PROVE  i \in DOMAIN stack'[t] /\ stack'[t][i] = stack[t][i]
  <2>1. On(Top(t), t) /\ In[w] \in Objs /\ Null \notin Objs
    BY <1>1, StackIs, PlaceIs, WordIs
  <2>2. Top(t) \notin Refs[In[w]]
    BY <2>1, OnRefs
  <2>3. stack[t][i] # Top(t)
    BY <1>1, <2>2
  <2> QED
    BY <2>3, BelowTop
<1>2. pc'[t] \notin {"swap", "store"} /\ log'[t] = log[t]
  OBVIOUS
<1>3. log[t].done => log[t].func # "none" /\ log[t].place # Null /\ log[t].obj # Null
  BY DEF LogOK
<1>4. ASSUME log[t].done
      PROVE  /\ word[log[t].place] = IF log[t].func = "link" THEN log[t].obj ELSE Null
             /\ log[t].place \in Roots => Owner[log[t].place] = t
             /\ log[t].place \in Words =>
                  IF log[t].func = "link"
                  THEN \E r \in Roots : Owner[r] = t /\ r \in Refs[In[log[t].place]]
                  ELSE \E i \in DOMAIN stack'[t] : Refs[In[log[t].place]] = {stack'[t][i]}
  <2>1. /\ word[log[t].place] = IF log[t].func = "link" THEN log[t].obj ELSE Null
        /\ log[t].place \in Roots => Owner[log[t].place] = t
        /\ log[t].place \in Words =>
             IF log[t].func = "link"
             THEN \E r \in Roots : Owner[r] = t /\ r \in Refs[In[log[t].place]]
             ELSE \E i \in DOMAIN stack[t] : Refs[In[log[t].place]] = {stack[t][i]}
    BY <1>4 DEF LogOK
  <2> QED
    BY <2>1, <1>1
<1> QED
  BY <1>2, <1>3, <1>4 DEF LogOK

(* One more activation, for the first reference in the object of the top.  *)
LEMMA PushStack ==
  ASSUME IInv, NEW t \in Threads, stack[t] # <<>>, NEW o \in Objs, word[Top(t)] = o,
         Refs[o] = {Top(t)}, NEW p \in Foremost(WordsOf(o)),
         stack'[t] = Append(stack[t], p), word' = word, Refs' = Refs,
         handles' = handles, mode' = mode
  PROVE  /\ StackOK(t)' /\ stack'[t] # <<>> /\ stack'[t] \in Seq(Places)
         /\ \A w : On(w, t)' => \/ On(w, t)
                                \/ w \in Words /\ \E v : On(v, t) /\ Refs[In[w]] = {v}
         /\ DropsTree(t)' => DropsTree(t)
         /\ \A i \in DOMAIN stack[t] : i \in DOMAIN stack'[t] /\ stack'[t][i] = stack[t][i]
<1> DEFINE s == stack[t]
           n == Len(s)
           a == Append(s, p)
<1>1. /\ s \in Seq(Places) /\ DOMAIN s = 1..n /\ n \in Nat /\ n > 0 /\ Top(t) = s[n]
      /\ n \in DOMAIN s /\ 1 \in DOMAIN s /\ On(Top(t), t) /\ p \in Places
      /\ p \in Words /\ In[p] = o /\ \A x \in WordsOf(o) : ~(Nr[x] < Nr[p])
  BY StackIs, PlaceIs, LaterIs
<1>2. /\ a \in Seq(Places) /\ a # <<>> /\ DOMAIN a = 1..(n + 1)
      /\ \A i \in 1..n : a[i] = s[i]
      /\ a[n + 1] = p
  BY <1>1, AppendIs
<1>3. StackOK(t)
  BY DEF IInv, StackInv
<1>4. \A i \in DOMAIN s : i \in DOMAIN a /\ a[i] = s[i]
  BY <1>1, <1>2
<1>5. \A i \in DOMAIN a : i \in DOMAIN s \/ i = n + 1
  BY <1>1, <1>2
<1>6. ASSUME NEW i \in DOMAIN s PROVE s[i] # p
  <2>1. CASE i = 1
    BY <2>1, <1>1, <1>3, PlaceIs DEF StackOK
  <2>2. CASE i # 1 /\ s[i] = p
    <3>0. i \in 1..n
      BY <1>1
    <3>1. i > 1 /\ i - 1 \in 1..n /\ i - 1 # n
      BY <1>1, <2>2, <3>0
    <3>2. Refs[o] = {s[i - 1]}
      <4>1. Refs[In[s[i]]] = {s[i - 1]}
        BY <1>3, <3>1 DEF StackOK
      <4> QED
        BY <1>1, <2>2, <4>1
    <3>3. s[i - 1] = s[n]
      BY <1>1, <3>2
    <3>4. i - 1 \in DOMAIN s
      BY <1>1, <3>1
    <3> QED
      BY <1>1, <1>3, <3>1, <3>3, <3>4 DEF StackOK
  <2> QED
    BY <2>1, <2>2
<1>7. a[1] = s[1] /\ s[1] \in Roots /\ Owner[s[1]] = t /\ (Before(t) => handles[s[1]] = 0)
  BY <1>1, <1>3, <1>4 DEF StackOK
<1>8. ASSUME NEW i \in DOMAIN a, i > 1
      PROVE  /\ a[i] \in Words /\ word[a[i - 1]] = In[a[i]] /\ Refs[In[a[i]]] = {a[i - 1]}
             /\ \A x \in WordsOf(In[a[i]]) : Nr[x] < Nr[a[i]] => word[x] = Null
  <2>1. CASE i \in DOMAIN s
    <3>1. i - 1 \in DOMAIN s
      BY <1>1, <1>8, <2>1
    <3>2. a[i] = s[i] /\ a[i - 1] = s[i - 1]
      BY <1>4, <2>1, <3>1
    <3> QED
      BY <1>3, <1>8, <2>1, <3>2 DEF StackOK
  <2>2. CASE i = n + 1
    <3>1. i - 1 = n /\ a[i - 1] = Top(t) /\ a[i] = p
      BY <1>1, <1>2, <2>2
    <3> QED
      BY <1>1, <3>1
  <2> QED
    BY <1>5, <2>1, <2>2
<1>9. ASSUME NEW i \in DOMAIN a, NEW j \in DOMAIN a, a[i] = a[j] PROVE i = j
  <2>1. CASE i \in DOMAIN s /\ j \in DOMAIN s
    BY <2>1, <1>3, <1>4, <1>9 DEF StackOK
  <2>2. CASE i = n + 1 /\ j \in DOMAIN s
    BY <2>2, <1>2, <1>4, <1>6, <1>9
  <2>3. CASE j = n + 1 /\ i \in DOMAIN s
    BY <2>3, <1>2, <1>4, <1>6, <1>9
  <2> QED
    BY <1>5, <2>1, <2>2, <2>3
<1>10. StackOK(t)'
  <2>1. stack'[t] # <<>> => stack'[t][1] \in Roots /\ Owner[stack'[t][1]] = t
                             /\ (Before(t)' => handles'[stack'[t][1]] = 0)
    BY <1>2, <1>7 DEF Before
  <2>2. \A i \in DOMAIN stack'[t] : i > 1 =>
           /\ stack'[t][i] \in Words /\ word'[stack'[t][i - 1]] = In[stack'[t][i]]
           /\ Refs'[In[stack'[t][i]]] = {stack'[t][i - 1]}
           /\ \A x \in WordsOf(In[stack'[t][i]]) : Nr[x] < Nr[stack'[t][i]] => word'[x] = Null
    BY <1>2, <1>8
  <2>3. \A i, j \in DOMAIN stack'[t] : stack'[t][i] = stack'[t][j] => i = j
    BY <1>2, <1>9
  <2> QED
    BY <2>1, <2>2, <2>3 DEF StackOK
<1>11. ASSUME NEW w, On(w, t)'
       PROVE  On(w, t) \/ (w \in Words /\ \E v : On(v, t) /\ Refs[In[w]] = {v})
  <2>1. PICK i \in DOMAIN a : a[i] = w
    BY <1>11 DEF On
  <2>2. CASE i \in DOMAIN s
    BY <2>1, <2>2, <1>4 DEF On
  <2>3. CASE i = n + 1
    BY <2>1, <2>3, <1>1, <1>2
  <2> QED
    BY <1>5, <2>2, <2>3
<1>12. DropsTree(t)' => DropsTree(t)
  BY <1>7 DEF DropsTree
<1> QED
  BY <1>2, <1>4, <1>10, <1>11, <1>12

LEMMA TestIs ==
  ASSUME IInv, ~Overlap, NEW t \in Threads, Test(t)
  PROVE  IInv'
<1> DEFINE o == word[Top(t)]
<1>1. /\ mode[t] = "live" /\ pc[t] = "test" /\ handles' = handles
      /\ word' = word /\ count' = count /\ pool' = pool /\ log' = log /\ mode' = mode
      /\ \/ o = Null /\ Pop(t)
         \/ /\ o # Null /\ count[o] > (IF o \in Parents THEN 1 ELSE 0)
            /\ Unlink(t, Top(t)) /\ stack' = stack
         \/ /\ o \in Parents /\ count[o] = 1
            /\ Descend(t, o) /\ pc' = pc /\ loc' = loc
  BY DEF Test, At, heap
<1>2. stack[t] # <<>> /\ loc[t] = NoLocals /\ Before(t) /\ LogOK(t)
  BY <1>1 DEF IInv, LocInv, PcOK, LogInv, Before
<1>3. /\ On(Top(t), t) /\ Top(t) \in Places /\ stack \in [Threads -> Seq(Places)]
      /\ pc \in [Threads -> PcSet] /\ loc \in [Threads -> LocSet]
      /\ word \in [Places -> Objs \cup {Null}]
  BY <1>2, StackIs, TypeIs
<1>4. o # Null => o \in Objs /\ Top(t) \in Refs[o] /\ count[o] = Cardinality(Refs[o])
  <2>1. o # Null => o \in Objs /\ Top(t) \in Refs[o]
    BY <1>1, <1>3, OnRefs
  <2> QED
    BY <2>1 DEF IInv, CountInv
<1>5. PhaseInv' /\ HandleInv'
  BY <1>1 DEF IInv, PhaseInv, HandleInv, Calm
<1>6. CASE o = Null /\ Pop(t)
  <2>1. /\ \A u \in Threads \ {t} : pc'[u] = pc[u] /\ loc'[u] = loc[u] /\ stack'[u] = stack[u]
        /\ pc'[t] \in {"idle", "log", "test"}
    BY <1>6, PopApart
  <2>2. Apart(t)
    BY <1>1, <2>1 DEF Apart
  <2>3. Refs' = Refs
    BY <1>1, <2>1, <2>2, SameRefs
  <2>4. word' = [word EXCEPT ![Top(t)] = Null]
    BY <1>1, <1>3, <1>6
  <2>5. /\ StackOK(t)' /\ PcOK(t)' /\ LinkOK(t)' /\ UnlinkOK(t)' /\ TakeFrame(t)
        /\ pc' \in [Threads -> PcSet] /\ loc' \in [Threads -> LocSet]
        /\ stack' \in [Threads -> Seq(Places)]
        /\ \A i \in DOMAIN Front(stack[t]) : i \in DOMAIN stack'[t] /\ stack'[t][i] = stack[t][i]
    BY <1>1, <1>2, <1>6, <2>3, <2>4, PopIs
  <2>6. LogOK(t)'
    BY <1>1, <1>2, <1>6, <2>1, <2>3, <2>5, LogPop
  <2>7. OwnPart(t)'
    BY <2>5, <2>6 DEF OwnPart
  <2>8. TypeOK'
    BY <1>1, <2>5 DEF IInv, TypeOK, LocSet, PcSet
  <2> QED
    BY <1>1, <1>5, <2>2, <2>3, <2>5, <2>7, <2>8, Quiet
<1>7. CASE o # Null /\ count[o] > (IF o \in Parents THEN 1 ELSE 0) /\ Unlink(t, Top(t)) /\ stack' = stack
  <2>1. /\ loc' = [loc EXCEPT ![t] = [func |-> "unlink", place |-> Top(t), obj |-> o,
                                      from |-> Null, last |-> FALSE]]
        /\ pc' = [pc EXCEPT ![t] = "log"]
    BY <1>7 DEF Unlink, Operate, Goto
  <2>2. [func |-> "unlink", place |-> Top(t), obj |-> o, from |-> Null, last |-> FALSE] \in LocSet
    BY <1>3 DEF LocSet
  <2>3. /\ pc'[t] = "log" /\ loc'[t].func = "unlink" /\ loc'[t].place = Top(t) /\ loc'[t].obj = o
        /\ pc' \in [Threads -> PcSet] /\ loc' \in [Threads -> LocSet]
    BY <1>3, <2>1, <2>2 DEF PcSet
  <2>4. Apart(t)
    BY <1>1, <1>3, <1>7, <2>1 DEF Apart
  <2>5. Refs' = Refs
    BY <1>1, <2>3, <2>4, SameRefs
  <2>6. o \in Parents => \E v \in Refs[o] : v # Top(t)
    <3>1. ASSUME o \in Parents PROVE \E v \in Refs[o] : v # Top(t)
      <4>1. Cardinality(Refs[o]) > 1 /\ Top(t) \in Refs[o] /\ o \in Objs
        BY <1>4, <1>7, <3>1
      <4>2. Refs[o] \subseteq Places
        BY <4>1 DEF Refs
      <4> QED
        BY <4>1, <4>2, Counting
    <3> QED
      BY <3>1
  <2>7. PcOK(t)' /\ LinkOK(t)' /\ UnlinkOK(t)' /\ \A x : ~Releasing(t, x)'
    <3>1. stack'[t] # <<>> /\ Last(stack'[t]) = Top(t) /\ Before(t)'
      BY <1>1, <1>2, <1>7 DEF Top, Before
    <3>2. PICK w \in Places : w = Top(t)
      BY <1>3
    <3>3. /\ word'[w] = o /\ loc'[t].obj = word'[w] /\ word'[w] # Null
          /\ word'[w] \in Parents => \E v \in Refs'[word'[w]] : v # w
      BY <1>1, <1>7, <2>3, <2>5, <2>6, <3>2
    <3> QED
      BY <2>3, <3>1, <3>2, <3>3, UnlinkOwn
  <2>8. StackOK(t)'
    <3>1. StackOK(t)
      BY DEF IInv, StackInv
    <3> QED
      BY <1>1, <1>7, <2>5, <3>1 DEF StackOK, Before
  <2>9. TakeFrame(t)
    <3>1. (\A w : On(w, t)' <=> On(w, t)) /\ (DropsTree(t)' <=> DropsTree(t))
      BY <1>1, <1>7 DEF On, DropsTree
    <3> QED
      BY <1>7, <2>3, <2>7, <3>1 DEF TakeFrame
  <2>10. LogOK(t)'
    BY <1>1, <1>2, <1>7, <2>3, <2>5, LogSame
  <2>11. OwnPart(t)'
    BY <2>7, <2>8, <2>10 DEF OwnPart
  <2>12. TypeOK'
    BY <1>1, <1>7, <2>3 DEF IInv, TypeOK, LocSet, PcSet
  <2> QED
    BY <1>1, <1>5, <2>4, <2>5, <2>9, <2>11, <2>12, Quiet
<1>8. CASE /\ o \in Parents /\ count[o] = 1 /\ Descend(t, o) /\ pc' = pc /\ loc' = loc
  <2>0. PICK p \in Foremost(WordsOf(o)) : stack' = [stack EXCEPT ![t] = Append(@, p)]
    BY <1>8 DEF Descend
  <2>1. stack'[t] = Append(stack[t], p) /\ \A u \in Threads \ {t} : stack'[u] = stack[u]
    BY <1>3, <2>0
  <2>2. Apart(t)
    BY <1>1, <1>8, <2>1 DEF Apart
  <2>3. Refs' = Refs
    BY <1>1, <1>8, <2>2, SameRefs
  <2>4. Refs[o] = {Top(t)}
    <3>1. o # Null
      BY <1>8, PlaceIs
    <3>2. Cardinality(Refs[o]) = 1 /\ Top(t) \in Refs[o] /\ o \in Objs
      BY <1>4, <1>8, <3>1
    <3>3. Refs[o] \subseteq Places
      BY <3>2 DEF Refs
    <3> QED
      BY <3>2, <3>3, Counting
  <2>5. /\ StackOK(t)' /\ stack'[t] # <<>> /\ stack'[t] \in Seq(Places)
        /\ \A w : On(w, t)' => \/ On(w, t)
                               \/ w \in Words /\ \E v : On(v, t) /\ Refs[In[w]] = {v}
        /\ DropsTree(t)' => DropsTree(t)
        /\ \A i \in DOMAIN stack[t] : i \in DOMAIN stack'[t] /\ stack'[t][i] = stack[t][i]
    <3>1. PICK x \in Objs : x = o
      BY <1>8, PlaceIs
    <3> QED
      BY <1>1, <1>2, <2>1, <2>3, <2>4, <3>1, PushStack
  <2>6. TakeFrame(t)
    BY <1>1, <1>8, <2>5 DEF TakeFrame, Releasing
  <2>7. PcOK(t)' /\ LinkOK(t)' /\ UnlinkOK(t)'
    <3>1. PcOK(t)'
      BY <1>1, <1>2, <1>8, <2>5 DEF PcOK, Before, Busy
    <3>2. LinkOK(t)'
      BY <1>1, <1>8 DEF LinkOK, Busy
    <3>3. UnlinkOK(t)'
      BY <1>1, <1>8 DEF UnlinkOK, Busy, Releasing
    <3> QED
      BY <3>1, <3>2, <3>3
  <2>8. LogOK(t)'
    BY <1>1, <1>2, <1>8, <2>3, <2>5, LogSame
  <2>9. OwnPart(t)'
    BY <2>5, <2>7, <2>8 DEF OwnPart
  <2>10. stack' \in [Threads -> Seq(Places)]
    BY <1>3, <2>0, <2>1, <2>5
  <2>11. TypeOK'
    BY <1>1, <1>8, <2>10 DEF IInv, TypeOK
  <2> QED
    BY <1>1, <1>5, <2>2, <2>3, <2>6, <2>9, <2>11, Quiet
<1> QED
  BY <1>1, <1>6, <1>7, <1>8

LEMMA FreeIs ==
  ASSUME IInv, ~Overlap, NEW t \in Threads, Free(t)
  PROVE  IInv'
<1>1. /\ mode[t] = "live" /\ pc[t] = "free" /\ handles' = handles
      /\ pool' = pool \cup {loc[t].obj} /\ Pop(t)
      /\ word' = word /\ count' = count /\ log' = log /\ mode' = mode
  BY DEF Free, At
<1>2. stack[t] # <<>> /\ Before(t) /\ LogOK(t) /\ UnlinkOK(t)
  BY <1>1 DEF IInv, LocInv, PcOK, LogInv, Before
<1>3. /\ Top(t) \in Places /\ word \in [Places -> Objs \cup {Null}] /\ pool \subseteq Objs
      /\ loc[t].obj \in Objs \cup {Null}
  BY <1>2, StackIs, TypeIs DEF LocSet
<1>4. word[Top(t)] = Null /\ loc[t].obj # Null
  BY <1>1, <1>2 DEF UnlinkOK
<1>5. Releasing(t, loc[t].obj) /\ Refs[loc[t].obj] = {} /\ loc[t].obj \in Objs
  BY <1>1, <1>2, <1>3, <1>4 DEF UnlinkOK, Releasing
<1>6. /\ \A u \in Threads \ {t} : pc'[u] = pc[u] /\ loc'[u] = loc[u] /\ stack'[u] = stack[u]
      /\ pc'[t] \in {"idle", "log", "test"}
  BY <1>1, PopApart
<1>7. Apart(t)
  BY <1>1, <1>6 DEF Apart
<1>8. Refs' = Refs
  BY <1>1, <1>6, <1>7, SameRefs
<1>9. word' = [word EXCEPT ![Top(t)] = Null]
  BY <1>1, <1>3, <1>4
<1>10. /\ StackOK(t)' /\ PcOK(t)' /\ LinkOK(t)' /\ UnlinkOK(t)' /\ TakeFrame(t)
       /\ pc' \in [Threads -> PcSet] /\ loc' \in [Threads -> LocSet]
       /\ stack' \in [Threads -> Seq(Places)]
       /\ \A i \in DOMAIN Front(stack[t]) : i \in DOMAIN stack'[t] /\ stack'[t][i] = stack[t][i]
  BY <1>1, <1>2, <1>8, <1>9, PopIs
<1>11. LogOK(t)'
  BY <1>1, <1>2, <1>4, <1>6, <1>8, <1>10, LogPop
<1>12. OwnPart(t)'
  BY <1>10, <1>11 DEF OwnPart
<1>13. TypeOK'
  <2>1. pool' \subseteq Objs
    BY <1>1, <1>3, <1>5
  <2> QED
    BY <1>1, <1>10, <2>1 DEF IInv, TypeOK, LocSet, PcSet
<1>14. PhaseInv' /\ HandleInv'
  BY <1>1 DEF IInv, PhaseInv, HandleInv, Calm
<1>15. \A o \in pool' : o \in pool \/ (Releasing(t, o) /\ Refs[o] = {})
  BY <1>1, <1>5
<1> QED
  BY <1>1, <1>7, <1>8, <1>10, <1>12, <1>13, <1>14, <1>15, QuietPool

LEMMA LogIs ==
  ASSUME IInv, ~Overlap, NEW t \in Threads, Log(t)
  PROVE  IInv'
<1>1. /\ mode[t] = "live" /\ pc[t] = "log" /\ handles' = handles
      /\ log' = [log EXCEPT ![t] = [func |-> loc[t].func, place |-> loc[t].place,
                                    obj |-> loc[t].obj, done |-> FALSE]]
      /\ pc' = [pc EXCEPT ![t] = "swap"] /\ word' = word /\ count' = count /\ pool' = pool
      /\ loc' = loc /\ stack' = stack /\ mode' = mode
  BY DEF Log, At, heap, Goto
<1>2. /\ pc \in [Threads -> PcSet] /\ loc[t] \in LocSet
      /\ log \in [Threads -> [func : {"none", "link", "unlink"}, place : Places \cup {Null},
                              obj : Objs \cup {Null}, done : BOOLEAN]]
  BY TypeIs DEF IInv, TypeOK
<1>3. [func |-> loc[t].func, place |-> loc[t].place, obj |-> loc[t].obj, done |-> FALSE]
        \in [func : {"none", "link", "unlink"}, place : Places \cup {Null},
             obj : Objs \cup {Null}, done : BOOLEAN]
  BY <1>2 DEF LocSet
<1>4. /\ pc'[t] = "swap" /\ log'[t].func = loc[t].func /\ log'[t].place = loc[t].place
      /\ log'[t].obj = loc[t].obj /\ log'[t].done = FALSE
  BY <1>1, <1>2
<1>5. Apart(t)
  BY <1>1, <1>2 DEF Apart
<1>6. Refs' = Refs
  BY <1>1, <1>4, <1>5, SameRefs
<1>7. TakeFrame(t)
  BY <1>1, <1>4 DEF TakeFrame, On, DropsTree, Releasing
<1>8. StackOK(t) /\ PcOK(t) /\ LinkOK(t) /\ UnlinkOK(t)
  BY DEF IInv, StackInv, LocInv
<1>9. OwnPart(t)'
  <2>1. StackOK(t)'
    BY <1>1, <1>6, <1>8 DEF StackOK, Before
  <2>2. PcOK(t)'
    BY <1>1, <1>4, <1>8 DEF PcOK, Before, Busy
  <2>3. LinkOK(t)'
    BY <1>1, <1>4, <1>8 DEF LinkOK, Busy, Holds
  <2>4. UnlinkOK(t)'
    BY <1>1, <1>4, <1>6, <1>8 DEF UnlinkOK, Busy, Top, Releasing, Bare
  <2>5. LogOK(t)'
    BY <1>1, <1>4 DEF LogOK
  <2> QED
    BY <2>1, <2>2, <2>3, <2>4, <2>5 DEF OwnPart
<1>10. TypeOK'
  <2>1. pc' \in [Threads -> PcSet]
    BY <1>1, <1>2 DEF PcSet
  <2>2. log' \in [Threads -> [func : {"none", "link", "unlink"}, place : Places \cup {Null},
                              obj : Objs \cup {Null}, done : BOOLEAN]]
    BY <1>1, <1>2, <1>3
  <2> QED
    BY <1>1, <2>1, <2>2 DEF IInv, TypeOK, PcSet
<1>11. PhaseInv' /\ HandleInv'
  BY <1>1 DEF IInv, PhaseInv, HandleInv, Calm
<1> QED
  BY <1>1, <1>5, <1>6, <1>7, <1>9, <1>10, <1>11, Quiet

LEMMA CrashIs ==
  ASSUME IInv, ~Overlap, NEW t \in Threads, Crash(t)
  PROVE  IInv'
<1>1. /\ mode[t] = "live" /\ mode' = [mode EXCEPT ![t] = "crashed"] /\ handles' = handles
      /\ word' = word /\ count' = count /\ pool' = pool /\ log' = log
      /\ pc' = pc /\ loc' = loc /\ stack' = stack
  BY DEF Crash, heap, ctl
<1>2. /\ mode \in [Threads -> {"live", "crashed", "recover", "gone"}]
      /\ mode'[t] = "crashed" /\ \A u \in Threads \ {t} : mode'[u] = mode[u]
  BY <1>1, TypeIs
<1>3. Apart(t)
  BY <1>1, <1>2 DEF Apart
<1>4. Refs' = Refs
  BY <1>1, <1>3, SameRefs
<1>5. TakeFrame(t)
  BY <1>1, <1>2 DEF TakeFrame, On, DropsTree, Releasing
<1>6. StackOK(t) /\ PcOK(t) /\ LinkOK(t) /\ UnlinkOK(t) /\ LogOK(t)
  BY <1>1 DEF IInv, StackInv, LocInv, LogInv, Before
<1>7. Before(t) /\ Before(t)' /\ mode'[t] # "live" /\ mode'[t] # "gone"
  BY <1>1, <1>2 DEF Before
<1>8. OwnPart(t)'
  <2>1. StackOK(t)'
    BY <1>1, <1>4, <1>6, <1>7 DEF StackOK
  <2>2. PcOK(t)'
    BY <1>1, <1>6, <1>7 DEF PcOK, Busy
  <2>3. LinkOK(t)'
    BY <1>1, <1>6, <1>7 DEF LinkOK, Busy, Holds
  <2>4. UnlinkOK(t)'
    BY <1>1, <1>4, <1>6, <1>7 DEF UnlinkOK, Busy, Top, Releasing, Bare
  <2>5. LogOK(t)'
    BY <1>1, <1>4, <1>6 DEF LogOK
  <2> QED
    BY <2>1, <2>2, <2>3, <2>4, <2>5 DEF OwnPart
<1>9. TypeOK'
  <2>1. mode' \in [Threads -> {"live", "crashed", "recover", "gone"}]
    BY <1>1, <1>2
  <2> QED
    BY <1>1, <2>1 DEF IInv, TypeOK
<1>10. PhaseInv' /\ HandleInv'
  <2>1. Calm /\ Calm'
    BY <1>1, <1>2, CalmIs DEF Calm, Before
  <2> QED
    BY <1>1, <2>1 DEF IInv, PhaseInv, HandleInv
<1> QED
  BY <1>1, <1>3, <1>4, <1>5, <1>8, <1>9, <1>10, Quiet

-----------------------------------------------------------------------------
(* The monitor: a RootRef is visited, a thread is done.                    *)

LEMMA VisitIs ==
  ASSUME IInv, ~Overlap, NEW t \in Threads, NEW r \in Roots, Visit(t, r)
  PROVE  IInv'
<1>1. /\ mode[t] = "recover" /\ pc[t] = "idle" /\ Owner[r] = t /\ handles' = handles
      /\ stack' = [stack EXCEPT ![t] = <<r>>] /\ pc' = [pc EXCEPT ![t] = "test"]
      /\ word' = word /\ count' = count /\ pool' = pool /\ log' = log
      /\ loc' = loc /\ mode' = mode
  BY DEF Visit, Recovering, heap, Goto
<1>2. stack[t] = <<>> /\ loc[t] = NoLocals /\ ~Before(t)
  BY <1>1, IdleIs DEF Before
<1>3. pc \in [Threads -> PcSet] /\ stack \in [Threads -> Seq(Places)]
  BY TypeIs
<1>4. stack'[t] = <<r>> /\ pc'[t] = "test" /\ pc' \in [Threads -> PcSet]
  BY <1>1, <1>3 DEF PcSet
<1>5. Apart(t)
  BY <1>1, <1>3 DEF Apart
<1>6. Refs' = Refs
  BY <1>1, <1>4, <1>5, SameRefs
<1>7. /\ StackOK(t)' /\ \A w : On(w, t)' => w \in Roots /\ Owner[w] = t
      /\ stack'[t] # <<>> /\ stack'[t] \in Seq(Places)
  BY <1>1, <1>2, <1>4, OneStack DEF Before
<1>8. TakeFrame(t)
  BY <1>1, <1>4, <1>7 DEF TakeFrame, DropsTree, Releasing
<1>9. OwnPart(t)'
  <2>1. PcOK(t)'
    BY <1>1, <1>2, <1>4, <1>7 DEF PcOK, Before, Busy
  <2>2. LinkOK(t)'
    BY <1>4 DEF LinkOK, Busy
  <2>3. UnlinkOK(t)'
    BY <1>4 DEF UnlinkOK, Busy, Releasing
  <2> QED
    BY <1>1, <1>2, <1>7, <2>1, <2>2, <2>3 DEF OwnPart, Before
<1>10. TypeOK'
  <2>1. stack' \in [Threads -> Seq(Places)]
    BY <1>1, <1>3, <1>4, <1>7
  <2> QED
    BY <1>1, <1>4, <2>1 DEF IInv, TypeOK, PcSet
<1>11. PhaseInv' /\ HandleInv'
  BY <1>1 DEF IInv, PhaseInv, HandleInv, Calm
<1> QED
  BY <1>1, <1>2, <1>5, <1>6, <1>8, <1>9, <1>10, <1>11, Quiet

LEMMA FinishIs ==
  ASSUME IInv, ~Overlap, NEW t \in Threads, Finish(t)
  PROVE  IInv'
<1>1. /\ mode[t] = "recover" /\ pc[t] = "idle" /\ mode' = [mode EXCEPT ![t] = "gone"]
      /\ handles' = handles /\ word' = word /\ count' = count /\ pool' = pool /\ log' = log
      /\ pc' = pc /\ loc' = loc /\ stack' = stack
  BY DEF Finish, Recovering, heap, ctl
<1>2. /\ mode \in [Threads -> {"live", "crashed", "recover", "gone"}]
      /\ mode'[t] = "gone" /\ \A u \in Threads \ {t} : mode'[u] = mode[u]
  BY <1>1, TypeIs
<1>3. stack[t] = <<>> /\ loc[t] = NoLocals
  BY <1>1, IdleIs
<1>4. Apart(t)
  BY <1>1, <1>2 DEF Apart
<1>5. Refs' = Refs
  BY <1>1, <1>4, SameRefs
<1>6. TakeFrame(t)
  BY <1>1, <1>2 DEF TakeFrame, On, DropsTree, Releasing
<1>7. OwnPart(t)'
  <2>1. StackOK(t)' /\ PcOK(t)' /\ LinkOK(t)' /\ UnlinkOK(t)'
    BY <1>1, <1>3, IdleOwn
  <2>2. ~Before(t)'
    BY <1>2 DEF Before
  <2> QED
    BY <2>1, <2>2 DEF OwnPart
<1>8. TypeOK'
  <2>1. mode' \in [Threads -> {"live", "crashed", "recover", "gone"}]
    BY <1>1, <1>2
  <2> QED
    BY <1>1, <2>1 DEF IInv, TypeOK
<1>9. PhaseInv' /\ HandleInv'
  <2>1. ~Calm /\ ~Calm'
    BY <1>1, <1>2 DEF Calm
  <2> QED
    BY <1>2, <2>1 DEF IInv, PhaseInv, HandleInv
<1> QED
  BY <1>1, <1>4, <1>5, <1>6, <1>7, <1>8, <1>9, Quiet

-----------------------------------------------------------------------------
(* Steps that make and end references.                                     *)

LEMMA MallocIs ==
  ASSUME IInv, ~Overlap, NEW t \in Threads, NEW r \in Roots, NEW o \in Objs, Malloc(t, r, o)
  PROVE  IInv'
<1>1. /\ mode[t] = "live" /\ pc[t] = "idle" /\ Owner[r] = t /\ handles[r] = 0 /\ word[r] = Null
      /\ o \in pool /\ TakeRoot(t, r) /\ word' = [word EXCEPT ![r] = o]
      /\ count' = [count EXCEPT ![o] = 1] /\ pool' = pool \ {o}
      /\ handles' = [handles EXCEPT ![r] = 1] /\ pc' = pc /\ loc' = loc /\ stack' = stack
      /\ mode' = mode
  BY DEF Malloc, At, ctl, FreeRoot
<1>2. stack[t] = <<>> /\ loc[t] = NoLocals /\ \A w : ~On(w, t)
  BY <1>1, IdleIs
<1>3. /\ word \in [Places -> Objs \cup {Null}] /\ count \in [Objs -> Nat] /\ pool \subseteq Objs
      /\ handles \in [Roots -> Nat] /\ r \in Places /\ r # Null /\ o # Null
      /\ r \notin Words
  BY TypeIs, PlaceIs
<1>4. /\ word'[r] = o /\ \A w \in Places \ {r} : word'[w] = word[w]
      /\ handles'[r] = 1 /\ \A q \in Roots \ {r} : handles'[q] = handles[q]
  BY <1>1, <1>3
<1>5. \A u \in Threads \ {t} : log'[u] = log[u]
  BY <1>1, TakeRootIs
<1>6. Apart(t)
  BY <1>1, <1>5 DEF Apart
<1>7. /\ \A w : Unlinked(w)' <=> Unlinked(w)
      /\ \A w, x : Linked(w, x)' <=> Linked(w, x)
  BY <1>1 DEF Unlinked, Linked
<1>8. ~Unlinked(r)
  <2>1. \A u \in Threads : ~On(r, u)
    BY <1>1, <1>2, OnIs
  <2> QED
    BY <2>1, UnlinkedIs
<1>9. \A x : ~Linked(r, x)
  <2>1. ASSUME NEW x, Linked(r, x) PROVE FALSE
    <3>1. PICK v \in Threads : pc[v] = "store" /\ loc[v].func = "link" /\ loc[v].place = r
      BY <2>1 DEF Linked
    <3>2. Owner[r] = v
      BY <3>1, LinkIs DEF Busy
    <3> QED
      BY <1>1, <3>1, <3>2
  <2> QED
    BY <2>1
<1>10. Refs[o] = {}
  BY <1>1 DEF IInv, PoolInv
<1>11. Refs'[o] = {r}
  <2>1. ASSUME NEW w \in Places PROVE w \in Refs'[o] <=> w = r
    <3>1. w \in Refs'[o] <=> (word'[w] = o /\ ~Unlinked(w)) \/ Linked(w, o)
      BY <1>7 DEF Refs
    <3>2. w \in Refs[o] <=> (word[w] = o /\ ~Unlinked(w)) \/ Linked(w, o)
      BY DEF Refs
    <3> QED
      BY <3>1, <3>2, <1>4, <1>8, <1>10
  <2>2. Refs'[o] \subseteq Places
    BY DEF Refs
  <2> QED
    BY <2>1, <2>2, <1>3
<1>12. \A x \in Objs \ {o} : Refs'[x] = Refs[x]
  <2>1. ASSUME NEW x \in Objs \ {o}, NEW w \in Places PROVE w \in Refs'[x] <=> w \in Refs[x]
    <3>1. w \in Refs'[x] <=> (word'[w] = x /\ ~Unlinked(w)) \/ Linked(w, x)
      BY <1>7 DEF Refs
    <3>2. w \in Refs[x] <=> (word[w] = x /\ ~Unlinked(w)) \/ Linked(w, x)
      BY DEF Refs
    <3>3. x # Null
      BY PlaceIs
    <3> QED
      BY <3>1, <3>2, <3>3, <1>1, <1>4, <1>9
  <2>2. \A x \in Objs : Refs[x] \subseteq Places /\ Refs'[x] \subseteq Places
    BY DEF Refs
  <2> QED
    BY <2>1, <2>2
<1>13. Frame(t)
  <2>1. WordFrame(t)
    BY <1>1, <1>3, <1>4, PlaceIs DEF WordFrame
  <2>2. RefsFrame(t)
    <3>1. \A x \in Objs : Refs[x] \subseteq Refs'[x] /\ (Refs'[x] \subseteq Refs[x] \/ x \in pool)
      BY <1>1, <1>10, <1>12
    <3>2. \A x \in pool' : x \in pool
      BY <1>1
    <3> QED
      BY <3>1, <3>2 DEF RefsFrame
  <2>3. TakeFrame(t)
    BY <1>1, <1>2, PlaceIs DEF TakeFrame, On, DropsTree, Releasing
  <2> QED
    BY <1>6, <2>1, <2>2, <2>3 DEF Frame
<1>14. LogOK(t)'
  <2>1. CASE log'[t].done = FALSE
    BY <1>1, <2>1, LogCleared
  <2>2. CASE log'[t] = log[t] /\ log[t].place # r
    <3>1. LogOK(t)
      BY <1>1 DEF IInv, LogInv, Before
    <3>2. log[t].place \in Places \cup {Null}
      BY DEF IInv, TypeOK
    <3>3. ASSUME log[t].done
          PROVE  /\ word'[log[t].place] = word[log[t].place]
                 /\ log[t].place \in Words =>
                      log[t].func = "link"
                      /\ \E q \in Roots : Owner[q] = t /\ q \in Refs'[In[log[t].place]]
      <4>1. /\ log[t].place \in Places
            /\ log[t].place \in Words =>
                 IF log[t].func = "link"
                 THEN \E q \in Roots : Owner[q] = t /\ q \in Refs[In[log[t].place]]
                 ELSE \E i \in DOMAIN stack[t] : Refs[In[log[t].place]] = {stack[t][i]}
        BY <1>1, <3>1, <3>2, <3>3 DEF LogOK
      <4>2. DOMAIN stack[t] = {}
        BY <1>2
      <4>3. ASSUME log[t].place \in Words
            PROVE  log[t].func = "link"
                   /\ \E q \in Roots : Owner[q] = t /\ q \in Refs'[In[log[t].place]]
        <5>1. PICK q \in Roots : Owner[q] = t /\ q \in Refs[In[log[t].place]]
          BY <4>1, <4>2, <4>3
        <5>2. In[log[t].place] \in Objs /\ In[log[t].place] # o
          BY <1>10, <4>3, <5>1, WordIs
        <5> QED
          BY <1>12, <4>1, <4>2, <4>3, <5>1, <5>2
      <4> QED
        BY <1>4, <2>2, <4>1, <4>3
    <3> QED
      BY <1>1, <2>2, <3>1, <3>3 DEF LogOK
  <2> QED
    BY <1>1, <2>1, <2>2, TakeRootIs
<1>15. OwnPart(t)'
  <2>1. StackOK(t)' /\ PcOK(t)' /\ LinkOK(t)' /\ UnlinkOK(t)'
    BY <1>1, <1>2, IdleOwn
  <2> QED
    BY <1>14, <2>1 DEF OwnPart
<1>16. TypeOK'
  <2>1. /\ word' \in [Places -> Objs \cup {Null}] /\ count' \in [Objs -> Nat] /\ pool' \subseteq Objs
        /\ handles' \in [Roots -> Nat]
    BY <1>1, <1>3
  <2>2. log' \in [Threads -> [func : {"none", "link", "unlink"}, place : Places \cup {Null},
                              obj : Objs \cup {Null}, done : BOOLEAN]]
    BY <1>1, TakeRootIs DEF IInv
  <2> QED
    BY <1>1, <2>1, <2>2 DEF IInv, TypeOK
<1>17. PhaseInv' /\ HandleInv'
  BY <1>1, <1>3, <1>4, PlaceIs DEF IInv, PhaseInv, HandleInv, Calm
<1>18. CountInv'
  <2>1. Cardinality({r}) = 1
    BY FS_Singleton
  <2>2. \A x \in Objs : count[x] = Cardinality(Refs[x])
    BY DEF IInv, CountInv
  <2>3. count'[o] = 1 /\ \A x \in Objs \ {o} : count'[x] = count[x]
    BY <1>1, <1>3
  <2> QED
    BY <1>11, <1>12, <2>1, <2>2, <2>3 DEF CountInv
<1>19. TreeInv'
  <2>1. ASSUME NEW w \in Words
        PROVE  word'[w] = word[w] /\ (Refs'[In[w]] = {} => Refs[In[w]] = {})
    BY <1>3, <1>4, <1>11, <1>12, PlaceIs, WordIs
  <2> QED
    BY <2>1 DEF IInv, TreeInv
<1>20. PoolInv'
  BY <1>1, <1>3, <1>12 DEF IInv, PoolInv
<1>21. (StackInv /\ AloneInv /\ LocInv /\ LogInv)'
  BY <1>13, <1>15, Keeps
<1> QED
  BY <1>16, <1>17, <1>18, <1>19, <1>20, <1>21 DEF IInv

(* The top of a stack refers to nothing that is on the stack.              *)
LEMMA TopIsLast ==
  ASSUME IInv, NEW t \in Threads, NEW p \in Words, On(p, t)
  PROVE  Top(t) \notin Refs[In[p]]
<1>1. PICK i \in DOMAIN stack[t] : stack[t][i] = p
  BY DEF On
<1>2. /\ DOMAIN stack[t] = 1..Len(stack[t]) /\ Len(stack[t]) \in Nat /\ stack[t] # <<>>
      /\ stack[t][1] \in Roots /\ Top(t) = stack[t][Len(stack[t])]
      /\ Len(stack[t]) \in DOMAIN stack[t]
  BY StackIs, OnIs
<1>3. StackOK(t)
  BY DEF IInv, StackInv
<1>4. i # 1
  BY <1>1, <1>2, PlaceIs
<1>5. i \in 1..Len(stack[t])
  BY <1>1, <1>2
<1>6. i > 1 /\ i - 1 \in 1..Len(stack[t]) /\ i - 1 # Len(stack[t])
  BY <1>2, <1>4, <1>5
<1>7. Refs[In[p]] = {stack[t][i - 1]}
  <2>1. Refs[In[stack[t][i]]] = {stack[t][i - 1]}
    BY <1>1, <1>3, <1>6 DEF StackOK
  <2> QED
    BY <1>1, <2>1
<1>8. i - 1 \in DOMAIN stack[t]
  BY <1>2, <1>6
<1>9. stack[t][i - 1] # stack[t][Len(stack[t])]
  BY <1>2, <1>3, <1>6, <1>8 DEF StackOK
<1> QED
  BY <1>2, <1>7, <1>9

LEMMA SwapIs ==
  ASSUME IInv, ~Overlap, NEW t \in Threads, Swap(t)
  PROVE  IInv'
<1> DEFINE o == loc[t].obj
           w == loc[t].place
           f == loc[t].func
<1>1. /\ mode[t] = "live" /\ pc[t] = "swap"
      /\ count' = [count EXCEPT ![o] = IF f = "link" THEN @ + 1 ELSE @ - 1]
      /\ loc' = [loc EXCEPT ![t].last = (f = "unlink" /\ count[o] = 1)]
      /\ log' = [log EXCEPT ![t].done = TRUE] /\ pc' = [pc EXCEPT ![t] = "store"]
      /\ word' = word /\ pool' = pool /\ handles' = handles /\ stack' = stack /\ mode' = mode
  BY DEF Swap, At, Goto
<1>2. /\ pc \in [Threads -> PcSet] /\ loc \in [Threads -> LocSet] /\ count \in [Objs -> Nat]
      /\ log \in [Threads -> [func : {"none", "link", "unlink"}, place : Places \cup {Null},
                              obj : Objs \cup {Null}, done : BOOLEAN]]
      /\ word \in [Places -> Objs \cup {Null}]
  BY TypeIs DEF IInv, TypeOK
<1>3. /\ loc'[t] = [loc[t] EXCEPT !.last = (f = "unlink" /\ count[o] = 1)]
      /\ loc' \in [Threads -> LocSet] /\ \A u \in Threads \ {t} : loc'[u] = loc[u]
  <2>1. loc[t] \in LocSet
    BY <1>2
  <2>2. PICK b \in BOOLEAN : b = (f = "unlink" /\ count[o] = 1)
    OBVIOUS
  <2>3. [loc[t] EXCEPT !.last = b] \in LocSet
    BY <2>1 DEF LocSet
  <2> QED
    BY <1>1, <1>2, <2>2, <2>3
<1>4. /\ loc'[t].func = f /\ loc'[t].place = w /\ loc'[t].obj = o /\ loc'[t].from = loc[t].from
      /\ loc'[t].last <=> (f = "unlink" /\ count[o] = 1)
  BY <1>2, <1>3 DEF LocSet
<1>5. /\ pc'[t] = "store" /\ pc' \in [Threads -> PcSet]
      /\ \A u \in Threads \ {t} : pc'[u] = pc[u]
  BY <1>1, <1>2 DEF PcSet
<1>6. /\ log' \in [Threads -> [func : {"none", "link", "unlink"}, place : Places \cup {Null},
                               obj : Objs \cup {Null}, done : BOOLEAN]]
      /\ log'[t].func = log[t].func /\ log'[t].place = log[t].place /\ log'[t].obj = log[t].obj
      /\ log'[t].done = TRUE /\ \A u \in Threads \ {t} : log'[u] = log[u]
  BY <1>1, <1>2
<1>7. Apart(t)
  BY <1>1, <1>3, <1>5, <1>6 DEF Apart
<1>8. /\ StackOK(t) /\ PcOK(t) /\ LinkOK(t) /\ UnlinkOK(t) /\ LogOK(t) /\ Busy(t)
      /\ \A u \in Threads : Before(u)
  BY <1>1, CalmIs DEF IInv, StackInv, LocInv, LogInv, Before, Busy
<1>9. w \in Places /\ o \in Objs /\ f \in {"link", "unlink"}
  BY <1>8, LinkIs, UnlinkIs
<1>10. /\ \A x : Unlinked(x)' <=> (Unlinked(x) \/ (x = w /\ f = "unlink"))
       /\ \A x, y : Linked(x, y)' <=> (Linked(x, y) \/ (x = w /\ y = o /\ f = "link"))
  BY <1>1, <1>3, <1>4, <1>5 DEF Unlinked, Linked
<1>11. ASSUME NEW x \in Places, NEW y \in Objs
       PROVE  /\ x \in Refs'[y] <=> (word[x] = y /\ ~Unlinked(x)') \/ Linked(x, y)'
              /\ x \in Refs[y] <=> (word[x] = y /\ ~Unlinked(x)) \/ Linked(x, y)
  BY <1>1 DEF Refs
<1>12. \A y \in Objs : Refs[y] \subseteq Places /\ Refs'[y] \subseteq Places
  BY DEF Refs
<1>13. TypeOK'
  <2>1. count[o] >= 1 \/ f = "link"
    <3>1. ASSUME f = "unlink" PROVE count[o] >= 1
      <4>1. w \in Refs[o]
        <5>1. w = Top(t) /\ word[Top(t)] = o /\ On(Top(t), t)
          BY <1>8, <3>1, UnlinkIs
        <5>2. word[w] # Null
          BY <1>9, <5>1, PlaceIs
        <5> QED
          BY <1>1, <5>1, <5>2, OnRefs
      <4>2. count[o] = Cardinality(Refs[o]) /\ count[o] \in Nat
        BY <1>2, <1>9 DEF IInv, CountInv
      <4>3. Cardinality(Refs[o]) # 0
        BY <1>9, <1>12, <4>1, Counting
      <4> QED
        BY <4>2, <4>3
    <3> QED
      BY <1>9, <3>1
  <2>2. (IF f = "link" THEN count[o] + 1 ELSE count[o] - 1) \in Nat
    BY <1>2, <1>9, <2>1
  <2>3. count' \in [Objs -> Nat]
    BY <1>1, <1>2, <2>2
  <2> QED
    BY <1>1, <1>3, <1>5, <1>6, <2>3 DEF IInv, TypeOK, LocSet, PcSet
<1>14. PhaseInv' /\ HandleInv'
  BY <1>1 DEF IInv, PhaseInv, HandleInv, Calm
<1>15. WordFrame(t)
  BY <1>1 DEF WordFrame
<1>16. CASE f = "link"
  <2>1. /\ word[w] = Null /\ stack[t] = <<>> /\ ~Unlinked(w) /\ \A y \in Objs : w \notin Refs[y]
        /\ \A u \in Threads : ~On(w, u)
    <3>1. /\ word[w] = Null /\ stack[t] = <<>> /\ ~Unlinked(w) /\ \A u \in Threads : ~On(w, u)
          /\ \A u \in Threads \ {t} : Busy(u) => loc[u].place # w
      BY <1>8, <1>16, LinkIs
    <3>2. \A y : ~Linked(w, y)
      BY <1>1, <3>1 DEF Linked, Busy
    <3> QED
      BY <1>9, <1>11, <3>1, <3>2, PlaceIs
  <2>2. Refs'[o] = Refs[o] \cup {w}
    <3>1. ASSUME NEW x \in Places PROVE x \in Refs'[o] <=> (x \in Refs[o] \/ x = w)
      BY <1>9, <1>10, <1>11, <1>16
    <3> QED
      BY <1>9, <1>12, <3>1
  <2>3. \A y \in Objs \ {o} : Refs'[y] = Refs[y]
    <3>1. ASSUME NEW y \in Objs \ {o}, NEW x \in Places PROVE x \in Refs'[y] <=> x \in Refs[y]
      BY <1>10, <1>11, <1>16
    <3> QED
      BY <1>12, <3>1
  <2>4. \E r \in Roots \cap Refs[o] : handles[r] > 0 /\ mode[t] = "live"
    <3>1. loc[t].from # Null /\ handles[loc[t].from] > 0 /\ word[loc[t].from] = o
      BY <1>1, <1>8, <1>16 DEF LinkOK
    <3>2. loc[t].from \in Roots
      BY <1>2, <3>1 DEF LocSet
    <3>3. o # Null /\ Before(Owner[loc[t].from])
      BY <1>8, <1>9, <3>2, PlaceIs, OwnerAssumption
    <3>4. loc[t].from \in Refs[o]
      BY <3>1, <3>2, <3>3, HeldIs
    <3> QED
      BY <1>1, <3>1, <3>2, <3>4
  <2>5. RefsFrame(t)
    <3>1. \A y \in Objs : Refs[y] \subseteq Refs'[y]
      BY <2>2, <2>3
    <3>2. \A y \in Objs : y # o => Refs'[y] \subseteq Refs[y]
      BY <2>3
    <3> QED
      BY <1>1, <2>4, <3>1, <3>2 DEF RefsFrame
  <2>6. \A x : ~Releasing(t, x)'
    BY <1>4, <1>5, <1>16 DEF Releasing
  <2>7. TakeFrame(t)
    BY <1>1, <1>4, <2>6 DEF TakeFrame, On, DropsTree
  <2>8. OwnPart(t)'
    <3>1. StackOK(t)'
      BY <1>1, <2>1 DEF StackOK
    <3>2. PcOK(t)'
      BY <1>1, <1>4, <1>5, <1>8 DEF PcOK, Before, Busy
    <3>3. LinkOK(t)'
      BY <1>1, <1>3, <1>4, <1>5, <1>8 DEF LinkOK, Busy, Holds
    <3>4. UnlinkOK(t)'
      BY <1>4, <1>5, <1>16, <2>6 DEF UnlinkOK, Busy
    <3>5. LogOK(t)'
      BY <1>1, <1>4, <1>5, <1>6, <1>8 DEF LogOK, PcOK
    <3> QED
      BY <3>1, <3>2, <3>3, <3>4, <3>5 DEF OwnPart
  <2>9. (StackInv /\ AloneInv /\ LocInv /\ LogInv)'
    BY <1>7, <1>15, <2>5, <2>7, <2>8, Keeps DEF Frame
  <2>10. CountInv'
    <3>1. \A x \in Objs : count[x] = Cardinality(Refs[x])
      BY DEF IInv, CountInv
    <3>2. count'[o] = count[o] + 1 /\ \A x \in Objs \ {o} : count'[x] = count[x]
      BY <1>1, <1>2, <1>9, <1>16
    <3>3. Cardinality(Refs'[o]) = Cardinality(Refs[o]) + 1
      BY <1>9, <1>12, <2>1, <2>2, Counting
    <3>4. count'[o] = Cardinality(Refs'[o])
      BY <1>9, <3>1, <3>2, <3>3
    <3> QED
      BY <2>3, <3>1, <3>2, <3>4 DEF CountInv
  <2>11. TreeInv'
    <3>1. \A p \in Words : Refs'[In[p]] = {} => Refs[In[p]] = {}
      BY <2>2, <2>3, WordIs
    <3> QED
      BY <1>1, <3>1 DEF IInv, TreeInv
  <2>12. PoolInv'
    BY <1>1, <1>2, <2>3, <2>4 DEF IInv, PoolInv, TypeOK
  <2> QED
    BY <1>13, <1>14, <2>9, <2>10, <2>11, <2>12 DEF IInv
<1>17. CASE f = "unlink"
  <2>1. /\ w = Top(t) /\ word[w] = o /\ On(w, t) /\ stack[t] # <<>> /\ w \in Refs[o]
        /\ \A y : ~Linked(w, y)
    <3>1. w = Top(t) /\ word[Top(t)] = o /\ On(Top(t), t) /\ stack[t] # <<>>
      BY <1>8, <1>17, UnlinkIs
    <3>2. word[w] # Null
      BY <1>9, <3>1, PlaceIs
    <3> QED
      BY <1>1, <3>1, <3>2, OnRefs
  <2>2. Refs'[o] = Refs[o] \ {w}
    <3>1. ASSUME NEW x \in Places PROVE x \in Refs'[o] <=> (x \in Refs[o] /\ x # w)
      BY <1>9, <1>10, <1>11, <1>17, <2>1
    <3> QED
      BY <1>9, <1>12, <3>1
  <2>3. \A y \in Objs \ {o} : Refs'[y] = Refs[y]
    <3>1. ASSUME NEW y \in Objs \ {o}, NEW x \in Places PROVE x \in Refs'[y] <=> x \in Refs[y]
      BY <1>10, <1>11, <1>17, <2>1
    <3> QED
      BY <1>12, <3>1
  <2>4. o \in Parents => DropsTree(t)
    BY <1>1, <2>1, DropsIs
  <2>5. RefsFrame(t)
    <3>1. \A y \in Objs : Refs'[y] \subseteq Refs[y]
      BY <2>2, <2>3
    <3>2. \A y \in Objs : \A x \in Refs[y] : x \in Refs'[y] \/ (y = o /\ x = w)
      BY <2>2, <2>3
    <3> QED
      BY <1>1, <2>1, <2>4, <3>1, <3>2 DEF RefsFrame
  <2>6. \A x : Releasing(t, x)' => x = o /\ count[o] = 1
    BY <1>4, <1>5 DEF Releasing
  <2>7. TakeFrame(t)
    BY <1>1, <1>4, <2>1, <2>6 DEF TakeFrame, On, DropsTree
  <2>8. StackOK(t)'
    <3>1. \A p \in Words : On(p, t) => Refs'[In[p]] = Refs[In[p]]
      BY <2>1, <2>2, <2>3, TopIsLast, WordIs
    <3>2. \A i \in DOMAIN stack[t] : i > 1 => stack[t][i] \in Words /\ On(stack[t][i], t)
      BY <1>8, StackIs DEF StackOK
    <3>3. \A i \in DOMAIN stack[t] : i > 1 => Refs'[In[stack[t][i]]] = Refs[In[stack[t][i]]]
      BY <3>1, <3>2
    <3> QED
      BY <1>1, <1>8, <3>3 DEF StackOK, Before
  <2>9. ASSUME count[o] = 1 PROVE Refs'[o] = {}
    <3>1. Cardinality(Refs[o]) = 1
      BY <1>9, <2>9 DEF IInv, CountInv
    <3>2. Refs[o] = {w}
      BY <1>9, <1>12, <2>1, <3>1, Counting
    <3> QED
      BY <2>2, <3>2
  <2>10. o \notin pool
    BY <2>1 DEF IInv, PoolInv
  <2>11. OwnPart(t)'
    <3>2. PcOK(t)'
      BY <1>1, <1>4, <1>5, <1>8 DEF PcOK, Before, Busy
    <3>3. LinkOK(t)'
      BY <1>4, <1>17 DEF LinkOK
    <3>4. UnlinkOK(t)'
      BY <1>1, <1>4, <1>5, <2>1, <2>6, <2>9, <2>10 DEF UnlinkOK, Busy, Top
    <3>5. LogOK(t)'
      BY <1>1, <1>4, <1>5, <1>6, <1>8 DEF LogOK, PcOK
    <3> QED
      BY <2>8, <3>2, <3>3, <3>4, <3>5 DEF OwnPart
  <2>12. (StackInv /\ AloneInv /\ LocInv /\ LogInv)'
    BY <1>7, <1>15, <2>5, <2>7, <2>11, Keeps DEF Frame
  <2>13. CountInv'
    <3>1. \A x \in Objs : count[x] = Cardinality(Refs[x])
      BY DEF IInv, CountInv
    <3>2. count'[o] = count[o] - 1 /\ \A x \in Objs \ {o} : count'[x] = count[x]
      BY <1>1, <1>2, <1>9, <1>17
    <3>3. Cardinality(Refs'[o]) = Cardinality(Refs[o]) - 1
      BY <1>9, <1>12, <2>1, <2>2, Counting
    <3>4. count'[o] = Cardinality(Refs'[o])
      BY <1>9, <3>1, <3>2, <3>3
    <3> QED
      BY <2>3, <3>1, <3>2, <3>4 DEF CountInv
  <2>14. TreeInv'
    <3>1. o \in Parents => Bare(o) \/ \E x \in Refs[o] : x # w
      BY <1>1, <1>8, <1>17 DEF UnlinkOK
    <3>2. ASSUME NEW p \in Words, Refs'[In[p]] = {} PROVE word[p] = Null
      <4>1. CASE In[p] = o
        BY <2>2, <3>1, <3>2, <4>1, WordIs DEF Bare
      <4>2. CASE In[p] # o
        BY <2>3, <3>2, <4>2, WordIs DEF IInv, TreeInv
      <4> QED
        BY <4>1, <4>2
    <3> QED
      BY <1>1, <3>2 DEF IInv, TreeInv
  <2>15. PoolInv'
    BY <1>1, <1>2, <2>3, <2>10 DEF IInv, PoolInv, TypeOK
  <2> QED
    BY <1>13, <1>14, <2>12, <2>13, <2>14, <2>15 DEF IInv
<1> QED
  BY <1>9, <1>16, <1>17

-----------------------------------------------------------------------------
(* The store of the word, by the thread or by the redo of its last record, *)
(* changes no reference: it was counted, or uncounted, by the swap.        *)

LEMMA Settle ==
  ASSUME IInv, NEW t \in Threads, Apart(t), pc[t] = "store", pc'[t] # "store",
         word' = [word EXCEPT ![loc[t].place] =
                    IF loc[t].func = "link" THEN loc[t].obj ELSE Null]
  PROVE  /\ Refs' = Refs
         /\ \A r \in Roots : Owner[r] # t => word'[r] = word[r]
         /\ \A p \in Words : word'[p] # word[p] =>
              \/ word'[p] = Null /\ On(p, t)
              \/ Busy(t) /\ loc[t].func = "link" /\ loc[t].place = p
         /\ \A r \in Roots : handles[r] > 0 => word'[r] = word[r]
         /\ word' \in [Places -> Objs \cup {Null}]
         /\ \A x \in Places \ {loc[t].place} : word'[x] = word[x]
         /\ word'[loc[t].place] = IF loc[t].func = "link" THEN loc[t].obj ELSE Null
         /\ TreeInv'
<1> DEFINE o == loc[t].obj
           w == loc[t].place
           f == loc[t].func
<1>1. Busy(t)
  BY DEF Busy
<1>2. w \in Places /\ o \in Objs /\ f \in {"link", "unlink"} /\ Before(t)
  BY <1>1, LinkIs, UnlinkIs
<1>3. word \in [Places -> Objs \cup {Null}] /\ handles \in [Roots -> Nat]
  BY TypeIs
<1>4. /\ word' \in [Places -> Objs \cup {Null}]
      /\ \A x \in Places \ {w} : word'[x] = word[x]
      /\ word'[w] = IF f = "link" THEN o ELSE Null
  BY <1>2, <1>3
<1>5. \A y \in Objs : Refs[y] \subseteq Places /\ Refs'[y] \subseteq Places /\ y # Null
  BY PlaceIs DEF Refs
<1>6. ASSUME NEW x \in Places, NEW y \in Objs
      PROVE  /\ x \in Refs'[y] <=> (word'[x] = y /\ ~Unlinked(x)') \/ Linked(x, y)'
             /\ x \in Refs[y] <=> (word[x] = y /\ ~Unlinked(x)) \/ Linked(x, y)
  BY DEF Refs
<1>7. \A u \in Threads \ {t} : pc'[u] = pc[u] /\ loc'[u] = loc[u]
  BY DEF Apart
<1>8. CASE f = "link"
  <2>1. /\ word[w] = Null /\ ~Unlinked(w) /\ \A u \in Threads : ~On(w, u)
        /\ \A u \in Threads \ {t} : Busy(u) => loc[u].place # w
        /\ w \in Roots => Owner[w] = t /\ handles[w] = 0
        /\ w \in Words => Level[o] < Level[In[w]] /\ Refs[In[w]] # {}
    BY <1>1, <1>8, LinkIs
  <2>2. \A x : Unlinked(x)' <=> Unlinked(x)
    BY <1>7, <1>8 DEF Unlinked
  <2>3. \A x, y : x # w => (Linked(x, y)' <=> Linked(x, y))
    BY <1>7 DEF Linked
  <2>4. \A y : Linked(w, y) <=> y = o
    BY <1>8, <2>1 DEF Linked, Busy
  <2>5. \A x, y : x = w => ~Linked(x, y)'
    BY <1>7, <2>1 DEF Linked, Busy
  <2>6. \A y \in Objs : \A x \in Places : x \in Refs'[y] <=> x \in Refs[y]
    <3>1. ASSUME NEW y \in Objs, NEW x \in Places, x = w PROVE x \in Refs'[y] <=> x \in Refs[y]
      BY <3>1, <1>2, <1>4, <1>5, <1>6, <1>8, <2>1, <2>2, <2>4, <2>5
    <3>2. ASSUME NEW y \in Objs, NEW x \in Places \ {w} PROVE x \in Refs'[y] <=> x \in Refs[y]
      BY <1>4, <1>6, <2>2, <2>3
    <3> QED
      BY <3>1, <3>2
  <2>7. Refs' = Refs
    <3>1. \A y \in Objs : Refs'[y] = Refs[y]
      BY <1>5, <2>6
    <3> QED
      BY <3>1 DEF Refs
  <2>8. TreeInv'
    <3>1. \A p \in Words : p # w => word'[p] = word[p]
      BY <1>4, PlaceIs
    <3>2. word'[w] = o
      BY <1>4, <1>8
    <3> QED
      BY <2>1, <2>7, <3>1, <3>2 DEF IInv, TreeInv
  <2> QED
    BY <1>1, <1>3, <1>4, <1>8, <2>1, <2>7, <2>8, PlaceIs
<1>9. CASE f = "unlink"
  <2>1. w = Top(t) /\ word[w] = o /\ On(w, t) /\ \A y : ~Linked(w, y)
    <3>1. w = Top(t) /\ word[Top(t)] = o /\ On(Top(t), t)
      BY <1>1, <1>9, UnlinkIs
    <3> QED
      BY <3>1, OnRefs
  <2>2. w \in Roots => Owner[w] = t /\ handles[w] = 0
    BY <1>2, <2>1, OnIs
  <2>3. \A x : x # w => (Unlinked(x)' <=> Unlinked(x))
    BY <1>7 DEF Unlinked
  <2>4. \A x, y : Linked(x, y)' <=> Linked(x, y)
    BY <1>7, <1>9 DEF Linked
  <2>5. Unlinked(w)
    BY <1>9 DEF Unlinked
  <2>6. \A y \in Objs : \A x \in Places : x \in Refs'[y] <=> x \in Refs[y]
    <3>1. ASSUME NEW y \in Objs, NEW x \in Places, x = w PROVE x \in Refs'[y] <=> x \in Refs[y]
      BY <3>1, <1>2, <1>4, <1>5, <1>6, <1>9, <2>1, <2>4, <2>5
    <3>2. ASSUME NEW y \in Objs, NEW x \in Places \ {w} PROVE x \in Refs'[y] <=> x \in Refs[y]
      BY <1>4, <1>6, <2>3, <2>4
    <3> QED
      BY <3>1, <3>2
  <2>7. Refs' = Refs
    <3>1. \A y \in Objs : Refs'[y] = Refs[y]
      BY <1>5, <2>6
    <3> QED
      BY <3>1 DEF Refs
  <2>8. TreeInv'
    <3>1. \A p \in Words : p # w => word'[p] = word[p]
      BY <1>4, PlaceIs
    <3>2. word'[w] = Null
      BY <1>4, <1>9
    <3> QED
      BY <2>7, <3>1, <3>2 DEF IInv, TreeInv
  <2> QED
    BY <1>1, <1>3, <1>4, <1>9, <2>1, <2>2, <2>7, <2>8, PlaceIs
<1> QED
  BY <1>2, <1>8, <1>9

LEMMA SettleKeeps ==
  ASSUME IInv, ~Overlap, NEW t \in Threads, Apart(t), Refs' = Refs, count' = count,
         pool' = pool,
         \A r \in Roots : Owner[r] # t => word'[r] = word[r] /\ handles'[r] = handles[r],
         \A p \in Words : word'[p] # word[p] =>
              \/ word'[p] = Null /\ On(p, t)
              \/ Busy(t) /\ loc[t].func = "link" /\ loc[t].place = p,
         \A r \in Roots : handles[r] > 0 => word'[r] = word[r] /\ handles'[r] > 0,
         TakeFrame(t), OwnPart(t)', TypeOK', PhaseInv', HandleInv', TreeInv'
  PROVE  IInv'
<1>1. WordFrame(t)
  BY DEF WordFrame
<1>2. RefsFrame(t)
  BY DEF RefsFrame
<1>3. (StackInv /\ AloneInv /\ LocInv /\ LogInv)'
  BY <1>1, <1>2, Keeps DEF Frame
<1>4. CountInv'
  BY DEF IInv, CountInv
<1>5. PoolInv'
  BY DEF IInv, PoolInv
<1> QED
  BY <1>3, <1>4, <1>5 DEF IInv

LEMMA StoreIs ==
  ASSUME IInv, ~Overlap, NEW t \in Threads, Store(t)
  PROVE  IInv'
<1> DEFINE l == loc[t]
           o == loc[t].obj
           w == loc[t].place
<1>1. /\ mode[t] = "live" /\ pc[t] = "store" /\ count' = count /\ pool' = pool /\ log' = log
      /\ mode' = mode
      /\ word' = [word EXCEPT ![w] = IF l.func = "link" THEN o ELSE Null]
      /\ \/ /\ l.func = "link"
            /\ handles' = IF w \in Roots THEN [handles EXCEPT ![w] = 1] ELSE handles
            /\ pc' = [pc EXCEPT ![t] = "idle"] /\ loc' = [loc EXCEPT ![t] = NoLocals]
            /\ stack' = stack
         \/ /\ l.func = "unlink" /\ l.last /\ pc' = [pc EXCEPT ![t] = "free"]
            /\ loc' = loc /\ stack' = stack /\ handles' = handles
         \/ l.func = "unlink" /\ ~l.last /\ Pop(t) /\ handles' = handles
  BY DEF Store, At, Put, Goto
<1>2. /\ StackOK(t) /\ PcOK(t) /\ LinkOK(t) /\ UnlinkOK(t) /\ LogOK(t) /\ Busy(t) /\ Before(t)
  BY <1>1 DEF IInv, StackInv, LocInv, LogInv, Before, Busy
<1>3. /\ pc \in [Threads -> PcSet] /\ loc \in [Threads -> LocSet] /\ NoLocals \in LocSet
      /\ handles \in [Roots -> Nat] 
      /\ stack \in [Threads -> Seq(Places)]
  BY TypeIs
<1>4. w \in Places /\ o \in Objs /\ o # Null
  BY <1>2, LinkIs, UnlinkIs, PlaceIs
<1>5. /\ log[t].func = l.func /\ log[t].place = w /\ log[t].obj = o /\ log[t].done
      /\ log[t].func # "none" /\ w # Null
  BY <1>1, <1>2, <1>4, PlaceIs DEF LogOK
<1>6. CASE l.func = "link"
  <2>1. /\ handles' = IF w \in Roots THEN [handles EXCEPT ![w] = 1] ELSE handles
        /\ pc' = [pc EXCEPT ![t] = "idle"] /\ loc' = [loc EXCEPT ![t] = NoLocals]
        /\ stack' = stack
    BY <1>1, <1>6
  <2>2. /\ word[w] = Null /\ stack[t] = <<>> /\ (w \in Roots => Owner[w] = t /\ handles[w] = 0)
        /\ w \in Words => \E r \in Roots : Owner[r] = t /\ r \in Refs[In[w]]
    BY <1>2, <1>6, LinkIs
  <2>3. /\ pc'[t] = "idle" /\ loc'[t] = NoLocals /\ pc' \in [Threads -> PcSet]
        /\ loc' \in [Threads -> LocSet]
        /\ \A u \in Threads \ {t} : pc'[u] = pc[u] /\ loc'[u] = loc[u]
    BY <1>3, <2>1 DEF PcSet
  <2>4. Apart(t)
    BY <1>1, <2>1, <2>3 DEF Apart
  <2>5. /\ Refs' = Refs /\ TreeInv'
        /\ \A r \in Roots : Owner[r] # t => word'[r] = word[r]
        /\ \A p \in Words : word'[p] # word[p] =>
              \/ word'[p] = Null /\ On(p, t)
              \/ Busy(t) /\ l.func = "link" /\ w = p
        /\ \A r \in Roots : handles[r] > 0 => word'[r] = word[r]
        /\ word' \in [Places -> Objs \cup {Null}]
        /\ \A x \in Places \ {w} : word'[x] = word[x]
        /\ word'[w] = o
    BY <1>1, <1>6, <2>3, <2>4, Settle
  <2>6. /\ handles' \in [Roots -> Nat]
        /\ \A r \in Roots : r # w => handles'[r] = handles[r]
        /\ w \in Roots => handles'[w] = 1
    BY <1>3, <2>1
  <2>7. \A r \in Roots : Owner[r] # t => handles'[r] = handles[r]
    BY <2>2, <2>6
  <2>8. \A r \in Roots : handles[r] > 0 => handles'[r] > 0
    BY <2>2, <2>6
  <2>9. TakeFrame(t)
    BY <1>1, <2>1, <2>2, <2>3, PlaceIs DEF TakeFrame, On, DropsTree, Releasing, NoLocals
  <2>10. OwnPart(t)'
    <3>1. StackOK(t)' /\ PcOK(t)' /\ LinkOK(t)' /\ UnlinkOK(t)'
      BY <2>1, <2>2, <2>3, IdleOwn
    <3>2. LogOK(t)'
      BY <1>1, <1>4, <1>5, <1>6, <2>2, <2>3, <2>5 DEF LogOK
    <3> QED
      BY <3>1, <3>2 DEF OwnPart
  <2>11. TypeOK'
    BY <1>1, <2>1, <2>3, <2>5, <2>6 DEF IInv, TypeOK, LocSet, PcSet
  <2>12. PhaseInv' /\ HandleInv'
    <3>1. \A r \in Roots : handles'[r] > 0 => r = w \/ (handles[r] > 0 /\ word'[r] = word[r])
      BY <2>5, <2>6
    <3> QED
      BY <1>1, <1>4, <2>5, <3>1 DEF IInv, PhaseInv, HandleInv, Calm
  <2> QED
    BY <1>1, <1>6, <2>4, <2>5, <2>7, <2>8, <2>9, <2>10, <2>11, <2>12, SettleKeeps
<1>7. CASE l.func = "unlink"
  <2>1. w = Top(t) /\ word[w] = o /\ On(w, t) /\ stack[t] # <<>> /\ handles' = handles
    BY <1>1, <1>2, <1>7, UnlinkIs
  <2>2. w \in Roots => Owner[w] = t
    BY <2>1, OnIs
  <2>3. ASSUME w \in Words
        PROVE  \E v : Refs[In[w]] = {v} /\ v # Top(t) /\ On(v, t)
    <3>0. \A x \in Words : On(x, t) => \E v : On(v, t) /\ Refs[In[x]] = {v}
      BY OnIs
    <3>1. PICK v : On(v, t) /\ Refs[In[w]] = {v}
      BY <2>1, <2>3, <3>0
    <3>2. Top(t) \notin Refs[In[w]]
      BY <2>1, <2>3, TopIsLast
    <3> QED
      BY <3>1, <3>2
  <2>4. PhaseInv'
    BY <1>1 DEF IInv, PhaseInv, Calm
  <2>5. \A r \in Roots : Owner[r] # t => handles'[r] = handles[r]
    BY <2>1
  <2>6. CASE l.last
    <3>1. /\ pc' = [pc EXCEPT ![t] = "free"] /\ loc' = loc /\ stack' = stack
      BY <1>1, <1>7, <2>6
    <3>2. /\ pc'[t] = "free" /\ pc' \in [Threads -> PcSet]
          /\ \A u \in Threads \ {t} : pc'[u] = pc[u]
      BY <1>3, <3>1 DEF PcSet
    <3>3. Apart(t)
      BY <1>1, <3>1, <3>2 DEF Apart
    <3>4. /\ Refs' = Refs /\ TreeInv'
          /\ \A r \in Roots : Owner[r] # t => word'[r] = word[r]
          /\ \A p \in Words : word'[p] # word[p] =>
                \/ word'[p] = Null /\ On(p, t)
                \/ Busy(t) /\ l.func = "link" /\ w = p
          /\ \A r \in Roots : handles[r] > 0 => word'[r] = word[r]
          /\ word' \in [Places -> Objs \cup {Null}]
          /\ \A x \in Places \ {w} : word'[x] = word[x]
          /\ word'[w] = Null
      BY <1>1, <1>7, <3>2, <3>3, Settle
    <3>5. TakeFrame(t)
      <4>1. \A v : On(v, t)' <=> On(v, t)
        BY <3>1 DEF On
      <4>2. DropsTree(t)' => DropsTree(t)
        <5>1. 1 \in DOMAIN stack[t] /\ stack[t][1] \in Places
          BY <2>1, StackIs
        <5>2. word'[stack[t][1]] \in {word[stack[t][1]], Null}
          BY <3>4, <5>1
        <5> QED
          BY <1>1, <3>1, <5>2, PlaceIs DEF DropsTree
      <4>3. \A x : Releasing(t, x)' => Releasing(t, x)
        BY <1>1, <1>7, <2>6, <3>1, <3>2 DEF Releasing
      <4> QED
        BY <3>1, <4>1, <4>2, <4>3 DEF TakeFrame
    <3>6. StackOK(t)'
      <4>1. ASSUME NEW i \in DOMAIN stack[t], i > 1
            PROVE  /\ word'[stack[t][i - 1]] = In[stack[t][i]]
                   /\ \A x \in WordsOf(In[stack[t][i]]) :
                        Nr[x] < Nr[stack[t][i]] => word'[x] = Null
        <5>1. PICK p, v : p = stack[t][i] /\ v = stack[t][i - 1]
          OBVIOUS
        <5>2. /\ p \in Words /\ word[v] = In[p] /\ Refs[In[p]] = {v} /\ On(p, t)
              /\ \A x \in WordsOf(In[p]) : Nr[x] < Nr[p] => word[x] = Null
          BY <1>2, <4>1, <5>1, StackIs DEF StackOK
        <5>3. Top(t) \notin Refs[In[p]]
          BY <5>2, TopIsLast
        <5>4. i - 1 \in DOMAIN stack[t]
          BY <4>1, StackIs
        <5>5. v \in Places
          BY <5>1, <5>4, StackIs
        <5>6. word'[v] = In[p]
          BY <2>1, <3>4, <5>2, <5>3, <5>5
        <5>7. \A x \in WordsOf(In[p]) : word[x] = Null => word'[x] = Null
          BY <3>4, WordIs, PlaceIs
        <5> QED
          BY <5>1, <5>2, <5>6, <5>7
      <4>2. /\ stack[t][1] \in Roots /\ Owner[stack[t][1]] = t
            /\ (Before(t) => handles[stack[t][1]] = 0)
            /\ \A i \in DOMAIN stack[t] : i > 1 => /\ stack[t][i] \in Words
                                                   /\ Refs[In[stack[t][i]]] = {stack[t][i - 1]}
            /\ \A i, j \in DOMAIN stack[t] : stack[t][i] = stack[t][j] => i = j
        BY <1>2, <2>1 DEF StackOK
      <4> QED
        BY <1>1, <2>1, <3>1, <3>4, <4>1, <4>2 DEF StackOK, Before
    <3>7. OwnPart(t)'
      <4>1. PcOK(t)'
        BY <1>1, <1>2, <2>1, <3>1, <3>2 DEF PcOK, Before, Busy
      <4>2. LinkOK(t)'
        BY <3>2 DEF LinkOK, Busy
      <4>3. \A x : Releasing(t, x)' => Releasing(t, x)
        BY <1>1, <1>7, <2>6, <3>1, <3>2 DEF Releasing
      <4>4. UnlinkOK(t)'
        BY <1>1, <1>2, <1>4, <2>1, <3>1, <3>2, <3>4, <4>3 DEF UnlinkOK, Busy, Top
      <4>5. w \in Words => \E i \in DOMAIN stack[t] : Refs[In[w]] = {stack[t][i]}
        BY <2>3 DEF On
      <4>6. LogOK(t)'
        BY <1>1, <1>4, <1>5, <1>7, <2>2, <3>1, <3>2, <3>4, <4>5 DEF LogOK
      <4> QED
        BY <3>6, <4>1, <4>2, <4>4, <4>6 DEF OwnPart
    <3>8. TypeOK'
      BY <1>1, <2>1, <3>1, <3>2, <3>4 DEF IInv, TypeOK, PcSet
    <3>9. HandleInv'
      BY <1>1, <2>1, <3>4 DEF IInv, HandleInv, Calm
    <3> QED
      BY <1>1, <2>1, <2>4, <3>3, <3>4, <3>5, <3>7, <3>8, <3>9, SettleKeeps
  <2>7. CASE ~l.last
    <3>1. Pop(t)
      BY <1>1, <1>7, <2>7
    <3>2. /\ \A u \in Threads \ {t} : pc'[u] = pc[u] /\ loc'[u] = loc[u] /\ stack'[u] = stack[u]
          /\ pc'[t] \in {"idle", "log", "test"}
      BY <3>1, PopApart
    <3>3. Apart(t)
      BY <1>1, <3>2 DEF Apart
    <3>4. /\ Refs' = Refs /\ TreeInv'
          /\ \A r \in Roots : Owner[r] # t => word'[r] = word[r]
          /\ \A p \in Words : word'[p] # word[p] =>
                \/ word'[p] = Null /\ On(p, t)
                \/ Busy(t) /\ l.func = "link" /\ w = p
          /\ \A r \in Roots : handles[r] > 0 => word'[r] = word[r]
          /\ word' \in [Places -> Objs \cup {Null}]
          /\ word'[w] = Null
      BY <1>1, <1>7, <3>2, <3>3, Settle
    <3>5. word' = [word EXCEPT ![Top(t)] = Null]
      BY <1>1, <1>7, <2>1
    <3>6. /\ StackOK(t)' /\ PcOK(t)' /\ LinkOK(t)' /\ UnlinkOK(t)' /\ TakeFrame(t)
          /\ pc' \in [Threads -> PcSet] /\ loc' \in [Threads -> LocSet]
          /\ stack' \in [Threads -> Seq(Places)]
          /\ \A i \in DOMAIN Front(stack[t]) : i \in DOMAIN stack'[t] /\ stack'[t][i] = stack[t][i]
      BY <1>1, <1>2, <2>1, <3>1, <3>4, <3>5, PopIs
    <3>7. w \in Words => \E i \in DOMAIN stack'[t] : Refs[In[w]] = {stack'[t][i]}
      <4>1. ASSUME w \in Words PROVE \E i \in DOMAIN stack'[t] : Refs[In[w]] = {stack'[t][i]}
        <5>1. PICK v : Refs[In[w]] = {v} /\ v # Top(t) /\ On(v, t)
          BY <2>3, <4>1
        <5>2. PICK i \in DOMAIN stack[t] : stack[t][i] = v
          BY <5>1 DEF On
        <5>3. i \in DOMAIN Front(stack[t]) /\ Front(stack[t])[i] = v
          BY <2>1, <5>1, <5>2, BelowTop
        <5> QED
          BY <3>6, <5>1, <5>2, <5>3
      <4> QED
        BY <4>1
    <3>8. LogOK(t)'
      BY <1>1, <1>4, <1>5, <1>7, <2>2, <3>2, <3>4, <3>7 DEF LogOK
    <3>9. OwnPart(t)'
      BY <3>6, <3>8 DEF OwnPart
    <3>10. TypeOK'
      BY <1>1, <2>1, <3>4, <3>6 DEF IInv, TypeOK, LocSet, PcSet
    <3>11. HandleInv'
      BY <1>1, <2>1, <3>4 DEF IInv, HandleInv, Calm
    <3> QED
      BY <1>1, <2>1, <2>4, <3>3, <3>4, <3>6, <3>9, <3>10, <3>11, SettleKeeps
  <2> QED
    BY <2>6, <2>7
<1> QED
  BY <1>1, <1>6, <1>7

-----------------------------------------------------------------------------
(* The redo: it makes the store that was left, or changes nothing.         *)

LEMMA StoreSame ==
  ASSUME NEW f \in [Places -> Objs \cup {Null}], NEW x
  PROVE  [f EXCEPT ![x] = f[x]] = f
OBVIOUS

LEMMA RepeatIs ==
  ASSUME TypeOK, OwnMemory, NEW f, NEW w \in Places, NEW o, Repeat(f, w, o)
  PROVE  word' = [word EXCEPT ![w] = IF f = "link" THEN o ELSE Null]
<1>1. Memory(w) = {w}
  BY DEF Memory, OwnMemory
<1>2. word \in [Places -> Objs \cup {Null}]
  BY DEF TypeOK
<1> QED
  BY <1>1, <1>2 DEF Repeat

LEMMA RedoWord ==
  ASSUME IInv, OwnMemory, NEW t \in Threads, Redo(t)
  PROVE  /\ pc[t] # "store" => word' = word
         /\ pc[t] = "store" =>
              word' = [word EXCEPT ![loc[t].place] =
                         IF loc[t].func = "link" THEN loc[t].obj ELSE Null]
<1>1. mode[t] = "crashed" /\ LogOK(t)
  BY DEF Redo, IInv, LogInv, Before
<1>2. IF log[t].done
      THEN word' = [word EXCEPT ![log[t].place] =
                      IF log[t].func = "link" THEN log[t].obj ELSE Null]
      ELSE word' = word
  <2>1. log[t].done => log[t].place \in Places
    <3>1. log[t].place \in Places \cup {Null}
      BY DEF IInv, TypeOK
    <3> QED
      BY <1>1, <3>1 DEF LogOK
  <2>2. log[t].done => Repeat(log[t].func, log[t].place, log[t].obj)
    BY DEF Redo
  <2>3. ~log[t].done => word' = word
    BY DEF Redo
  <2> QED
    BY <2>1, <2>2, <2>3, RepeatIs DEF IInv
<1>3. ASSUME pc[t] # "store", log[t].done PROVE word' = word
  <2>1. word[log[t].place] = IF log[t].func = "link" THEN log[t].obj ELSE Null
    BY <1>1, <1>3 DEF LogOK
  <2>2. word \in [Places -> Objs \cup {Null}]
    BY TypeIs
  <2>3. word' = [word EXCEPT ![log[t].place] = word[log[t].place]]
    BY <1>2, <1>3, <2>1
  <2> QED
    BY <2>2, <2>3, StoreSame
<1>4. ASSUME pc[t] = "store"
      PROVE  /\ log[t].done /\ log[t].func = loc[t].func /\ log[t].place = loc[t].place
             /\ log[t].obj = loc[t].obj
  BY <1>1, <1>4 DEF LogOK
<1> QED
  BY <1>2, <1>3, <1>4

LEMMA RedoIs ==
  ASSUME IInv, ~Overlap, OwnMemory, NEW t \in Threads, Redo(t)
  PROVE  IInv'
<1>1. /\ mode[t] = "crashed" /\ mode' = [mode EXCEPT ![t] = "recover"]
      /\ stack' = [stack EXCEPT ![t] = <<>>] /\ loc' = [loc EXCEPT ![t] = NoLocals]
      /\ pc' = [pc EXCEPT ![t] = "idle"] /\ count' = count /\ pool' = pool
      /\ handles' = handles /\ log' = log
      /\ \A u \in Threads : mode[u] # "live"
  BY DEF Redo, Goto, Turn
<1>2. /\ pc \in [Threads -> PcSet] /\ loc \in [Threads -> LocSet] /\ NoLocals \in LocSet
      /\ stack \in [Threads -> Seq(Places)]
      /\ mode \in [Threads -> {"live", "crashed", "recover", "gone"}]
  BY TypeIs
<1>3. /\ pc'[t] = "idle" /\ loc'[t] = NoLocals /\ stack'[t] = <<>> /\ mode'[t] = "recover"
      /\ \A u \in Threads \ {t} : /\ pc'[u] = pc[u] /\ loc'[u] = loc[u]
                                  /\ stack'[u] = stack[u] /\ mode'[u] = mode[u]
  BY <1>1, <1>2
<1>4. Apart(t)
  BY <1>1, <1>3 DEF Apart
<1>5. /\ Refs' = Refs
      /\ \A r \in Roots : Owner[r] # t => word'[r] = word[r]
      /\ \A p \in Words : word'[p] # word[p] =>
            \/ word'[p] = Null /\ On(p, t)
            \/ Busy(t) /\ loc[t].func = "link" /\ loc[t].place = p
      /\ \A r \in Roots : handles[r] > 0 => word'[r] = word[r]
      /\ word' \in [Places -> Objs \cup {Null}]
      /\ TreeInv'
  <2>1. CASE pc[t] = "store"
    <3>1. word' = [word EXCEPT ![loc[t].place] =
                     IF loc[t].func = "link" THEN loc[t].obj ELSE Null]
      BY <2>1, RedoWord
    <3> QED
      BY <1>3, <1>4, <2>1, <3>1, Settle
  <2>2. CASE pc[t] # "store"
    <3>1. word' = word
      BY <2>2, RedoWord
    <3>2. Refs' = Refs
      BY <1>3, <1>4, <2>2, <3>1, SameRefs
    <3>3. TreeInv'
      BY <3>1, <3>2 DEF IInv, TreeInv
    <3> QED
      BY <3>1, <3>2, <3>3, TypeIs
  <2> QED
    BY <2>1, <2>2
<1>6. TakeFrame(t)
  <2>1. \A w : ~On(w, t)'
    BY <1>3 DEF On
  <2>2. \A x : ~Releasing(t, x)'
    BY <1>3 DEF Releasing
  <2>3. loc'[t].place \notin Words
    BY <1>3, PlaceIs DEF NoLocals
  <2> QED
    BY <1>3, <2>1, <2>2, <2>3 DEF TakeFrame, DropsTree
<1>7. OwnPart(t)'
  <2>1. StackOK(t)' /\ PcOK(t)' /\ LinkOK(t)' /\ UnlinkOK(t)'
    BY <1>3, IdleOwn
  <2>2. ~Before(t)'
    BY <1>3 DEF Before
  <2> QED
    BY <2>1, <2>2 DEF OwnPart
<1>8. TypeOK'
  <2>1. <<>> \in Seq(Places)
    BY EmptySeq
  <2>2. stack' \in [Threads -> Seq(Places)] /\ pc' \in [Threads -> PcSet] /\ loc' \in [Threads -> LocSet]
        /\ mode' \in [Threads -> {"live", "crashed", "recover", "gone"}]
    BY <1>1, <1>2, <2>1 DEF PcSet
  <2> QED
    BY <1>1, <1>5, <2>2 DEF IInv, TypeOK, LocSet, PcSet
<1>9. PhaseInv' /\ HandleInv'
  <2>1. ~Calm' /\ \A u \in Threads : mode'[u] # "live"
    BY <1>1, <1>3 DEF Calm
  <2> QED
    BY <2>1 DEF PhaseInv, HandleInv
<1> QED
  BY <1>1, <1>4, <1>5, <1>6, <1>7, <1>8, <1>9, SettleKeeps

-----------------------------------------------------------------------------
(* recovery_test_free: an activation ends, its reference with it.          *)

LEMMA LeaveIs ==
  ASSUME IInv, ~Overlap, NEW t \in Threads, mode[t] = "recover", stack[t] # <<>>,
         pc[t] \in {"test", "unlink"}, log' = log, loc' = loc, mode' = mode,
         (Leave(t, word) /\ word[Top(t)] = Null) \/ Leave(t, [word EXCEPT ![Top(t)] = Null]),
         \A o \in pool' : o \in pool \/ Refs[o] # {},
         \A o \in pool' : Refs[o] \ {Top(t)} = {},
         count' \in [Objs -> Nat] /\ pool' \subseteq Objs,
         \A o \in Objs : count'[o] = Cardinality(Refs[o] \ {Top(t)}),
         \A p \in Words : Refs[In[p]] \ {Top(t)} = {} => word[p] = Null
  PROVE  IInv'
<1> DEFINE w == Top(t)
           v == Last(Front(stack[t]))
<1>1. /\ word \in [Places -> Objs \cup {Null}] /\ handles \in [Roots -> Nat]
      /\ stack \in [Threads -> Seq(Places)] /\ pc \in [Threads -> PcSet]
      /\ w \in Places /\ On(w, t) /\ ~Before(t) /\ loc[t] = NoLocals
  <2>1. loc[t] = NoLocals
    BY DEF IInv, LocInv, PcOK
  <2> QED
    BY <2>1, TypeIs, StackIs DEF Before
<1>2. word' = [word EXCEPT ![w] = Null]
  <2>1. CASE Leave(t, word) /\ word[w] = Null
    <3>1. word' = [word EXCEPT ![w] = Null] \/ word' = word
      BY <2>1 DEF Leave
    <3> QED
      BY <1>1, <2>1, <3>1
  <2>2. CASE Leave(t, [word EXCEPT ![w] = Null])
    <3>1. \/ word' = [[word EXCEPT ![w] = Null] EXCEPT ![w] = Null]
          \/ word' = [word EXCEPT ![w] = Null]
      BY <2>2 DEF Leave
    <3> QED
      BY <1>1, <3>1
  <2> QED
    BY <2>1, <2>2
<1>3. \/ /\ \E x \in Foremost(Later(w)) : stack' = [stack EXCEPT ![t] = Append(Front(@), x)]
         /\ handles' = handles /\ pc' = [pc EXCEPT ![t] = "test"]
      \/ /\ stack' = [stack EXCEPT ![t] = Front(@)] /\ Later(w) = {}
         /\ Len(stack[t]) = 1 /\ handles' = [handles EXCEPT ![w] = 0]
         /\ pc' = [pc EXCEPT ![t] = "idle"]
      \/ /\ stack' = [stack EXCEPT ![t] = Front(@)] /\ Later(w) = {}
         /\ Len(stack[t]) # 1 /\ handles' = handles
         /\ pc' = [pc EXCEPT ![t] = "unlink"]
  BY DEF Leave, NextWord, LastWord, Goto
<1>4. /\ word'[w] = Null /\ \A x \in Places \ {w} : word'[x] = word[x]
      /\ word' \in [Places -> Objs \cup {Null}]
  BY <1>1, <1>2
<1>5. \A u \in Threads \ {t} : stack'[u] = stack[u]
  BY <1>1, <1>3
<1>6. /\ pc' \in [Threads -> PcSet] /\ \A u \in Threads \ {t} : pc'[u] = pc[u]
      /\ \/ /\ pc'[t] = "test"
            /\ \E x \in Foremost(Later(w)) : stack'[t] = Append(Front(stack[t]), x)
         \/ /\ pc'[t] = "idle" /\ stack'[t] = Front(stack[t]) /\ Len(stack[t]) = 1
         \/ /\ pc'[t] = "unlink" /\ stack'[t] = Front(stack[t]) /\ Len(stack[t]) # 1
            /\ Later(w) = {}
  <2>1. "idle" \in PcSet /\ "unlink" \in PcSet /\ "test" \in PcSet
    BY DEF PcSet
  <2> QED
    BY <1>1, <1>3, <2>1
<1>7. /\ handles' \in [Roots -> Nat]
      /\ \A r \in Roots : handles'[r] # handles[r] => r = w /\ Owner[r] = t
  <2>1. Len(stack[t]) = 1 => w \in Roots
    BY BelowTop
  <2>2. w \in Roots => Owner[w] = t
    BY <1>1, OnIs
  <2> QED
    BY <1>1, <1>3, <2>1, <2>2
<1>8. Apart(t)
  BY <1>5, <1>6 DEF Apart
<1>9. \A x : Unlinked(x)' <=> Unlinked(x)
  BY <1>6, <1>8 DEF Unlinked, Apart
<1>10. \A x, y : Linked(x, y)' <=> Linked(x, y)
  BY <1>6, <1>8 DEF Linked, Apart
<1>11. \A o \in Objs : Refs'[o] = Refs[o] \ {w}
  <2>1. ASSUME NEW o \in Objs, NEW x \in Places PROVE x \in Refs'[o] <=> (x \in Refs[o] /\ x # w)
    <3>1. x \in Refs'[o] <=> (word'[x] = o /\ ~Unlinked(x)) \/ Linked(x, o)
      BY <1>9, <1>10 DEF Refs
    <3>2. x \in Refs[o] <=> (word[x] = o /\ ~Unlinked(x)) \/ Linked(x, o)
      BY DEF Refs
    <3>3. ~Linked(w, o) /\ o # Null
      BY <1>1, OnRefs, PlaceIs
    <3> QED
      BY <3>1, <3>2, <3>3, <1>4
  <2>2. \A o \in Objs : Refs[o] \subseteq Places /\ Refs'[o] \subseteq Places
    BY DEF Refs
  <2> QED
    BY <2>1, <2>2
<1>12. \A p \in Words : On(p, t) => Refs'[In[p]] = Refs[In[p]]
  <2>1. ASSUME NEW p \in Words, On(p, t) PROVE Refs'[In[p]] = Refs[In[p]]
    <3>1. w \notin Refs[In[p]]
      BY <2>1, TopIsLast
    <3>2. Refs'[In[p]] = Refs[In[p]] \ {w}
      BY <1>11, WordIs
    <3> QED
      BY <3>1, <3>2
  <2> QED
    BY <2>1
<1>13. WordFrame(t)
  <2>1. \A r \in Roots : Owner[r] # t => word'[r] = word[r] /\ handles'[r] = handles[r]
    <3>1. \A r \in Roots : Owner[r] # t => r # w
      BY <1>1, OnIs
    <3> QED
      BY <1>4, <1>7, <3>1, PlaceIs
  <2>2. \A p \in Words : word'[p] # word[p] => word'[p] = Null /\ On(p, t)
    BY <1>1, <1>4, PlaceIs
  <2> QED
    BY <1>1, <2>1, <2>2 DEF WordFrame
<1>14. RefsFrame(t)
  <2>1. \A o \in Objs : \A x \in Refs[o] : x \in Refs'[o] \/ x = w
    BY <1>11
  <2>2. \A o \in Objs : Refs'[o] \subseteq Refs[o]
    BY <1>11
  <2> QED
    BY <1>1, <2>1, <2>2 DEF RefsFrame
<1>p. PopFrame(t)
  BY <1>1, <1>4, <1>12 DEF PopFrame, Before
<1>15. /\ StackOK(t)' /\ stack'[t] \in Seq(Places)
       /\ \A x : On(x, t)' => \/ On(x, t)
                              \/ x \in Words /\ \E y : On(y, t) /\ Refs[In[x]] = {y}
       /\ DropsTree(t)' => DropsTree(t)
       /\ pc'[t] # "idle" => stack'[t] # <<>>
       /\ pc'[t] = "idle" => stack'[t] = <<>>
  <2>1. CASE stack'[t] = Front(stack[t])
    <3>1. Front(stack[t]) \in Seq(Places) /\ Front(stack[t]) = <<>> <=> Len(stack[t]) = 1
      BY BelowTop
    <3> QED
      BY <1>6, <1>p, <2>1, <3>1, PopStack, BelowTop
  <2>2. CASE pc'[t] = "test" /\ \E x \in Foremost(Later(w)) : stack'[t] = Append(Front(stack[t]), x)
    <3>1. PICK x \in Foremost(Later(w)) : stack'[t] = Append(Front(stack[t]), x)
      BY <2>2
    <3> QED
      BY <1>p, <2>2, <3>1, NextStack
  <2> QED
    BY <1>6, <2>1, <2>2
<1>s. stack' \in [Threads -> Seq(Places)]
  <2>1. PICK q : stack' = [stack EXCEPT ![t] = q]
    BY <1>3
  <2> QED
    BY <1>1, <1>15, <2>1
<1>16. \A x : ~Releasing(t, x)'
  BY <1>6 DEF Releasing
<1>17. TakeFrame(t)
  BY <1>15, <1>16 DEF TakeFrame
<1>18. UnlinkOK(t)'
  <2>1. ASSUME pc'[t] = "unlink"
        PROVE  /\ word'[v] \in Parents /\ \A x \in WordsOf(word'[v]) : word'[x] = Null
               /\ Refs'[word'[v]] = {v} /\ stack'[t] = Front(stack[t])
    <3>0. Len(stack[t]) # 1 /\ Later(w) = {} /\ stack'[t] = Front(stack[t])
      BY <1>6, <2>1
    <3>1. /\ w \in Words /\ word[v] = In[w] /\ Refs[In[w]] = {v} /\ v \in Places /\ v # w
          /\ \A x \in WordsOf(In[w]) : Nr[x] < Nr[w] => word[x] = Null
      BY <3>0, BelowTop
    <3>2. word'[v] = In[w] /\ In[w] \in Parents
      BY <1>4, <3>1, WordIs
    <3>3. Refs'[In[w]] = Refs[In[w]]
      BY <1>1, <1>12, <3>1
    <3>4. ASSUME NEW x \in WordsOf(In[w]) PROVE word'[x] = Null
      <4>1. x \in Places /\ (x = w \/ Nr[x] < Nr[w])
        BY <3>0, <3>1, LaterIs, WordIs, PlaceIs
      <4> QED
        BY <1>4, <3>1, <4>1
    <3> QED
      BY <3>0, <3>1, <3>2, <3>3, <3>4
  <2>2. pc'[t] = "unlink" => Top(t)' = v
    BY <2>1 DEF Top
  <2>3. pc'[t] \in {"idle", "test", "unlink"}
    BY <1>6
  <2>4. pc'[t] = "unlink" => /\ word'[Top(t)'] \in Parents /\ Bare(word[Top(t)])'
                             /\ Refs'[word'[Top(t)']] = {Top(t)'}
    BY <2>1, <2>2 DEF Bare
  <2> QED
    BY <1>16, <2>3, <2>4 DEF UnlinkOK, Busy
<1>19. OwnPart(t)'
  <2>0. pc'[t] \in {"idle", "test", "unlink"}
    BY <1>6
  <2>1. PcOK(t)'
    BY <1>1, <1>15, <2>0 DEF PcOK, Before, Busy
  <2>2. LinkOK(t)'
    BY <2>0 DEF LinkOK, Busy
  <2> QED
    BY <1>1, <1>15, <1>18, <2>1, <2>2 DEF OwnPart, Before
<1>20. (StackInv /\ AloneInv /\ LocInv /\ LogInv)'
  BY <1>8, <1>13, <1>14, <1>17, <1>19, Keeps DEF Frame
<1>21. TypeOK'
  BY <1>4, <1>s, <1>6, <1>7 DEF IInv, TypeOK, PcSet
<1>22. PhaseInv' /\ HandleInv'
  BY DEF IInv, PhaseInv, HandleInv, Calm
<1>23. CountInv'
  BY <1>11 DEF CountInv
<1>24. TreeInv'
  <2>1. \A p \in Words : word'[p] \in {word[p], Null}
    BY <1>4, PlaceIs
  <2>2. \A p \in Words : Refs'[In[p]] = {} => word[p] = Null
    BY <1>11, WordIs
  <2> QED
    BY <2>1, <2>2 DEF IInv, TreeInv
<1>25. PoolInv'
  BY <1>11 DEF PoolInv
<1> QED
  BY <1>20, <1>21, <1>22, <1>23, <1>24, <1>25 DEF IInv

(* An activation that ends with its reference: the object loses it.        *)
LEMMA RecoveryUnlinkIs ==
  ASSUME IInv, ~Overlap, NEW t \in Threads, mode[t] = "recover", stack[t] # <<>>,
         pc[t] \in {"test", "unlink"}, log' = log, loc' = loc, mode' = mode,
         RecoveryUnlink(t), word[Top(t)] # Null,
         word[Top(t)] \in Parents => Bare(word[Top(t)]) \/ count[word[Top(t)]] > 1
  PROVE  IInv'
<1> DEFINE w == Top(t)
<1>1. PICK o \in Objs : o = word[w] /\ w \in Refs[o]
  BY OnRefs, StackIs
<1>2. /\ count' = [count EXCEPT ![o] = @ - 1]
      /\ pool' = (IF count[o] = 1 THEN pool \cup {o} ELSE pool)
      /\ Leave(t, [word EXCEPT ![w] = Null])
  BY <1>1 DEF RecoveryUnlink
<1>3. /\ count \in [Objs -> Nat] /\ pool \subseteq Objs
      /\ \A x \in Objs : count[x] = Cardinality(Refs[x]) /\ Refs[x] \subseteq Places
  BY TypeIs DEF IInv, CountInv, Refs
<1>4. Cardinality(Refs[o] \ {w}) = count[o] - 1 /\ (count[o] = 1 => Refs[o] = {w})
  BY <1>1, <1>3, Counting
<1>5. \A x \in Objs : x # o => Refs[x] \ {w} = Refs[x]
  <2>1. ASSUME NEW x \in Objs, x # o PROVE w \notin Refs[x]
    BY <1>1, <2>1, OnRefs, StackIs
  <2> QED
    BY <2>1
<1>6. count' \in [Objs -> Nat]
  <2>1. count[o] - 1 \in Nat
    BY <1>1, <1>3, <1>4, Counting
  <2> QED
    BY <1>2, <1>3, <2>1
<1>7. \A x \in Objs : count'[x] = Cardinality(Refs[x] \ {w})
  <2>1. count'[o] = Cardinality(Refs[o] \ {w})
    BY <1>2, <1>3, <1>4
  <2>2. ASSUME NEW x \in Objs, x # o PROVE count'[x] = Cardinality(Refs[x] \ {w})
    <3>1. count'[x] = count[x]
      BY <1>2, <1>3, <2>2
    <3>2. Refs[x] \ {w} = Refs[x]
      BY <1>5, <2>2
    <3> QED
      BY <1>3, <3>1, <3>2
  <2> QED
    BY <2>1, <2>2
<1>8. \A x \in pool : Refs[x] = {} /\ x \in Objs
  BY <1>3 DEF IInv, PoolInv
<1>9. \A x \in pool' : /\ x \in pool \/ Refs[x] # {}
                       /\ Refs[x] \ {w} = {} /\ x \in Objs
  BY <1>1, <1>2, <1>4, <1>8
<1>10. \A p \in Words : Refs[In[p]] \ {w} = {} => word[p] = Null
  <2>1. ASSUME NEW p \in Words, Refs[In[p]] \ {w} = {}, In[p] # o PROVE word[p] = Null
    <3>1. Refs[In[p]] = {}
      BY <1>5, <2>1, WordIs
    <3> QED
      BY <3>1 DEF IInv, TreeInv
  <2>2. ASSUME NEW p \in Words, In[p] = o, Refs[o] \ {w} = {} PROVE word[p] = Null
    <3>1. ~(count[o] > 1)
      <4>1. Cardinality(Refs[o] \ {w}) = 0
        BY <2>2, Counting
      <4> QED
        BY <1>3, <1>4, <4>1
    <3>2. Bare(o)
      BY <1>1, <2>2, <3>1, WordIs
    <3> QED
      BY <2>2, <3>2, WordIs DEF Bare
  <2> QED
    BY <2>1, <2>2
<1>11. pool' \subseteq Objs
  BY <1>9
<1> QED
  BY <1>2, <1>6, <1>7, <1>9, <1>10, <1>11, LeaveIs

LEMMA RecoveryReturnIs ==
  ASSUME IInv, ~Overlap, NEW t \in Threads, RecoveryReturn(t)
  PROVE  IInv'
<1>1. mode[t] = "recover" /\ pc[t] = "unlink" /\ RecoveryUnlink(t)
      /\ log' = log /\ loc' = loc /\ mode' = mode
  BY DEF RecoveryReturn, Recovering
<1>2. stack[t] # <<>> /\ word[Top(t)] \in Parents /\ Bare(word[Top(t)])
  BY <1>1 DEF IInv, LocInv, PcOK, UnlinkOK
<1> QED
  BY <1>1, <1>2, PlaceIs, RecoveryUnlinkIs

LEMMA RecoveryTestIs ==
  ASSUME IInv, ~Overlap, NEW t \in Threads, RecoveryTest(t)
  PROVE  IInv'
<1> DEFINE w == Top(t)
           o == word[Top(t)]
<1>1. /\ mode[t] = "recover" /\ pc[t] = "test" /\ log' = log /\ loc' = loc /\ mode' = mode
      /\ \/ /\ IF o = Null THEN TRUE ELSE count[o] = 0
            /\ Leave(t, word) /\ count' = count /\ pool' = pool
         \/ o # Null /\ count[o] > (IF o \in Parents THEN 1 ELSE 0) /\ RecoveryUnlink(t)
         \/ /\ o \in Parents /\ count[o] = 1
            /\ Descend(t, o)
            /\ word' = word /\ count' = count /\ pool' = pool /\ handles' = handles /\ pc' = pc
  BY DEF RecoveryTest, Recovering, heap
<1>2. stack[t] # <<>> /\ loc[t] = NoLocals /\ ~Before(t)
  BY <1>1 DEF IInv, LocInv, PcOK, Before
<1>3. /\ On(w, t) /\ w \in Places /\ stack \in [Threads -> Seq(Places)]
      /\ count \in [Objs -> Nat] /\ pool \subseteq Objs
  BY <1>2, StackIs, TypeIs
<1>4. o # Null => /\ o \in Objs /\ w \in Refs[o] /\ Refs[o] \subseteq Places
                  /\ count[o] = Cardinality(Refs[o]) /\ count[o] # 0
  <2>1. o # Null => o \in Objs /\ w \in Refs[o]
    BY <1>1, <1>3, OnRefs
  <2>2. o # Null => count[o] = Cardinality(Refs[o]) /\ Refs[o] \subseteq Places
    BY <2>1 DEF IInv, CountInv, Refs
  <2> QED
    BY <2>1, <2>2, Counting
<1>5. CASE o = Null /\ Leave(t, word) /\ count' = count /\ pool' = pool
  <2>1. \A x \in Objs : Refs[x] \ {w} = Refs[x]
    <3>1. ASSUME NEW x \in Objs PROVE w \notin Refs[x]
      BY <1>3, <1>5, OnRefs, PlaceIs
    <3> QED
      BY <3>1
  <2>2. \A x \in pool : Refs[x] \ {w} = {}
    BY <1>3, <2>1 DEF IInv, PoolInv
  <2>3. \A p \in Words : Refs[In[p]] \ {w} = {} => word[p] = Null
    BY <2>1, WordIs DEF IInv, TreeInv
  <2>4. \A x \in Objs : count[x] = Cardinality(Refs[x] \ {w})
    BY <2>1 DEF IInv, CountInv
  <2> QED
    BY <1>1, <1>2, <1>3, <1>5, <2>2, <2>3, <2>4, LeaveIs
<1>6. CASE o # Null /\ count[o] > (IF o \in Parents THEN 1 ELSE 0) /\ RecoveryUnlink(t)
  <2>1. o \in Parents => count[o] > 1
    BY <1>6
  <2> QED
    BY <1>1, <1>2, <1>6, <2>1, RecoveryUnlinkIs
<1>7. CASE /\ o \in Parents /\ count[o] = 1
           /\ Descend(t, o)
           /\ word' = word /\ count' = count /\ pool' = pool /\ handles' = handles /\ pc' = pc
  <2>0. PICK p \in Foremost(WordsOf(o)) : stack' = [stack EXCEPT ![t] = Append(@, p)]
    BY <1>7 DEF Descend
  <2>1. stack'[t] = Append(stack[t], p) /\ \A u \in Threads \ {t} : stack'[u] = stack[u]
    BY <1>3, <2>0
  <2>2. Apart(t)
    BY <1>1, <1>7, <2>1 DEF Apart
  <2>3. Refs' = Refs
    BY <1>1, <1>7, <2>2, SameRefs
  <2>4. Refs[o] = {w}
    BY <1>4, <1>7, PlaceIs, Counting
  <2>5. /\ StackOK(t)' /\ stack'[t] # <<>> /\ stack'[t] \in Seq(Places)
        /\ \A x : On(x, t)' => \/ On(x, t)
                               \/ x \in Words /\ \E v : On(v, t) /\ Refs[In[x]] = {v}
        /\ DropsTree(t)' => DropsTree(t)
    <3>1. PICK x \in Objs : x = o
      BY <1>7, PlaceIs
    <3> QED
      BY <1>1, <1>2, <1>7, <2>1, <2>3, <2>4, <3>1, PushStack
  <2>6. TakeFrame(t)
    BY <1>1, <1>7, <2>5 DEF TakeFrame, Releasing
  <2>7. OwnPart(t)'
    <3>1. PcOK(t)'
      BY <1>1, <1>2, <1>7, <2>5 DEF PcOK, Before, Busy
    <3>2. LinkOK(t)'
      BY <1>1, <1>7 DEF LinkOK, Busy
    <3>3. UnlinkOK(t)'
      BY <1>1, <1>7 DEF UnlinkOK, Busy, Releasing
    <3> QED
      BY <1>1, <1>2, <2>5, <3>1, <3>2, <3>3 DEF OwnPart, Before
  <2>8. TypeOK'
    <3>1. stack' \in [Threads -> Seq(Places)]
      BY <1>3, <2>0, <2>1, <2>5
    <3> QED
      BY <1>1, <1>7, <3>1 DEF IInv, TypeOK
  <2>9. PhaseInv' /\ HandleInv'
    BY <1>1, <1>7 DEF IInv, PhaseInv, HandleInv, Calm
  <2> QED
    BY <1>1, <1>2, <1>7, <2>2, <2>3, <2>6, <2>7, <2>8, <2>9, Quiet
<1> QED
  BY <1>1, <1>4, <1>5, <1>6, <1>7

-----------------------------------------------------------------------------
(* The invariant holds of the first states, and every step keeps it.       *)

LEMMA InitIs ==
  ASSUME Init
  PROVE  IInv
<1>1. /\ \A w \in Places : word[w] = Null
      /\ \A o \in Objs : count[o] = 0
      /\ pool = Objs
      /\ \A r \in Roots : handles[r] = 0
      /\ \A t \in Threads : /\ log[t] = NoLog /\ stack[t] = <<>> /\ pc[t] = "idle"
                            /\ loc[t] = NoLocals /\ mode[t] = "live"
  BY DEF Init
<1>2. TypeOK
  <2>1. <<>> \in Seq(Places)
    BY EmptySeq
  <2>2. NoLocals \in LocSet
    BY DEF NoLocals, LocSet
  <2>3. /\ word \in [Places -> Objs \cup {Null}] /\ count \in [Objs -> Nat]
        /\ handles \in [Roots -> Nat] /\ pool \subseteq Objs
    BY OwnerAssumption DEF Init
  <2>4. /\ stack \in [Threads -> Seq(Places)] /\ pc \in [Threads -> PcSet]
        /\ loc \in [Threads -> LocSet] /\ mode \in [Threads -> {"live", "crashed", "recover", "gone"}]
    BY <2>1, <2>2 DEF Init, PcSet
  <2>5. log \in [Threads -> [func : {"none", "link", "unlink"}, place : Places \cup {Null},
                             obj : Objs \cup {Null}, done : BOOLEAN]]
    BY DEF Init, NoLog
  <2> QED
    BY <2>3, <2>4, <2>5 DEF TypeOK, PcSet, LocSet
<1>3. \A o \in Objs : Refs[o] = {}
  BY <1>1, PlaceIs DEF Refs, Linked
<1>4. PhaseInv
  BY <1>1 DEF PhaseInv, Calm
<1>5. CountInv
  <2>1. Cardinality({}) = 0
    BY FS_EmptySet
  <2> QED
    BY <1>1, <1>3, <2>1 DEF CountInv
<1>6. TreeInv /\ PoolInv /\ HandleInv
  BY <1>1, <1>3, PlaceIs DEF TreeInv, PoolInv, HandleInv
<1>7. \A t \in Threads : \A w : ~On(w, t)
  BY <1>1 DEF On
<1>8. StackInv
  <2>1. \A t \in Threads : StackOK(t)
    BY <1>1 DEF StackOK
  <2> QED
    BY <1>7, <2>1 DEF StackInv
<1>9. AloneInv
  BY <1>1 DEF AloneInv, DropsTree
<1>10. LocInv
  <2>1. \A t \in Threads : \A o : ~Releasing(t, o)
    BY <1>1 DEF Releasing
  <2>2. \A t \in Threads : PcOK(t) /\ LinkOK(t)
    BY <1>1 DEF PcOK, LinkOK, Busy, Before
  <2>3. \A t \in Threads : UnlinkOK(t)
    BY <1>1, <2>1 DEF UnlinkOK, Busy
  <2> QED
    BY <2>1, <2>2, <2>3 DEF LocInv
<1>11. LogInv
  BY <1>1 DEF LogInv, LogOK, NoLog
<1> QED
  BY <1>2, <1>4, <1>5, <1>6, <1>8, <1>9, <1>10, <1>11 DEF IInv

LEMMA StepIs ==
  ASSUME IInv, ~Overlap, OwnMemory, [Next]_vars
  PROVE  IInv'
<1>1. CASE Next
  <2>1. PICK t \in Threads : StartOp(t) \/ ClientStep(t) \/ Crash(t) \/ MonitorStep(t)
    BY <1>1 DEF Next
  <2>2. CASE StartOp(t)
    <3>1. PICK r \in Roots : \/ CopyHandle(t, r) \/ Destroy(t, r)
                             \/ \E o \in Objs : Malloc(t, r, o)
                             \/ \E s \in Roots : GetRef(t, r, s)
                             \/ \E w \in Words : Attach(t, w, r)
      BY <2>2 DEF StartOp
    <3> QED
      BY <3>1, CopyHandleIs, DestroyIs, MallocIs, GetRefIs, AttachIs
  <2>3. CASE ClientStep(t)
    BY <2>3, TestIs, LogIs, SwapIs, StoreIs, FreeIs DEF ClientStep
  <2>4. CASE Crash(t)
    BY <2>4, CrashIs
  <2>5. CASE MonitorStep(t)
    BY <2>5, RedoIs, RecoveryTestIs, RecoveryReturnIs, FinishIs, VisitIs DEF MonitorStep
  <2> QED
    BY <2>1, <2>2, <2>3, <2>4, <2>5
<1>2. CASE UNCHANGED vars
  <2>1. /\ word' = word /\ count' = count /\ pool' = pool /\ handles' = handles /\ log' = log
        /\ stack' = stack /\ pc' = pc /\ loc' = loc /\ mode' = mode
    BY <1>2 DEF vars, heap, ctl
  <2>2. Refs' = Refs
    BY <2>1 DEF Refs, Linked, Unlinked
  <2>3. /\ \A t \in Threads : DropsTree(t)' <=> DropsTree(t)
        /\ \A t \in Threads : \A w : On(w, t)' <=> On(w, t)
        /\ \A t \in Threads : \A o : Releasing(t, o)' <=> Releasing(t, o)
        /\ \A t \in Threads : StackOK(t)' <=> StackOK(t)
        /\ Calm' <=> Calm
    BY <2>1, <2>2 DEF DropsTree, On, Releasing, StackOK, Before, Calm
  <2>4. TypeOK' /\ PhaseInv' /\ CountInv' /\ TreeInv' /\ PoolInv' /\ HandleInv'
    BY <2>1, <2>2, <2>3 DEF IInv, TypeOK, PhaseInv, CountInv, TreeInv, PoolInv, HandleInv
  <2>5. StackInv' /\ AloneInv'
    BY <2>3 DEF IInv, StackInv, AloneInv
  <2>6. ASSUME NEW t \in Threads PROVE (PcOK(t) /\ LinkOK(t) /\ UnlinkOK(t))'
    <3>1. PcOK(t) /\ LinkOK(t) /\ UnlinkOK(t)
      BY DEF IInv, LocInv
    <3>2. PcOK(t)'
      BY <2>1, <3>1 DEF PcOK, Before, Busy
    <3>3. LinkOK(t)'
      BY <2>1, <3>1 DEF LinkOK, Busy, Holds
    <3>4. UnlinkOK(t)'
      BY <2>1, <2>2, <2>3, <3>1 DEF UnlinkOK, Busy, Top, Bare
    <3> QED
      BY <3>2, <3>3, <3>4
  <2>7. LocInv'
    BY <2>3, <2>6 DEF IInv, LocInv
  <2>8. ASSUME NEW t \in Threads, Before(t)' PROVE LogOK(t)'
    <3>1. LogOK(t)
      BY <2>1, <2>8 DEF IInv, LogInv, Before
    <3> QED
      BY <2>1, <2>2, <3>1 DEF LogOK
  <2>9. LogInv'
    BY <2>8 DEF LogInv
  <2> QED
    BY <2>4, <2>5, <2>7, <2>9 DEF IInv
<1> QED
  BY <1>1, <1>2

-----------------------------------------------------------------------------
(* What the invariant says of the properties that the runs check.          *)

LEMMA SameSize ==
  ASSUME NEW S, IsFiniteSet(S), NEW T, NEW f \in [S -> T],
         \A x, y \in S : f[x] = f[y] => x = y, \A z \in T : \E x \in S : f[x] = z
  PROVE  IsFiniteSet(T) /\ Cardinality(T) = Cardinality(S)
<1>1. f \in Bijection(S, T)
  BY DEF Bijection, Injection, IsInjective, Surjection
<1>2. ExistsBijection(S, T)
  BY <1>1 DEF ExistsBijection
<1> QED
  BY <1>2, FS_Bijection

(* The words of the operations under way are different ones.               *)
PendingAt(o, f) == {loc[t].place : t \in Pending(o, f)}
LEMMA PendingIs ==
  ASSUME IInv, NEW o \in Objs, NEW f \in {"link", "unlink"}
  PROVE  /\ PendingAt(o, f) \subseteq Places /\ IsFiniteSet(PendingAt(o, f))
         /\ Cardinality(PendingAt(o, f)) = Cardinality(Pending(o, f))
<1> DEFINE g == [t \in Pending(o, f) |-> loc[t].place]
<1>1. IsFiniteSet(Pending(o, f))
  <2>1. Pending(o, f) \in SUBSET Threads
    BY DEF Pending
  <2> QED
    BY <2>1, TreeAssumption, FS_Subset
<1>2. \A t \in Pending(o, f) : /\ t \in Threads /\ pc[t] = "store" /\ Busy(t)
                               /\ loc[t].func = f /\ loc[t].obj = o
  BY DEF Pending, Busy
<1>3. \A t \in Pending(o, f) : loc[t].place \in Places
  BY <1>2, LinkIs, UnlinkIs
<1>4. ASSUME NEW t \in Pending(o, f), NEW u \in Pending(o, f), loc[t].place = loc[u].place
      PROVE  t = u
  <2>1. CASE f = "link"
    BY <1>2, <1>4, <2>1, LinkIs
  <2>2. CASE f = "unlink"
    <3>1. On(loc[t].place, t) /\ On(loc[u].place, u)
      BY <1>2, <2>2, UnlinkIs
    <3> QED
      BY <1>2, <1>4, <3>1, OnIs
  <2> QED
    BY <2>1, <2>2
<1>5. g \in [Pending(o, f) -> PendingAt(o, f)]
  BY DEF PendingAt
<1>6. \A z \in PendingAt(o, f) : \E t \in Pending(o, f) : g[t] = z
  BY DEF PendingAt
<1>7. IsFiniteSet(PendingAt(o, f)) /\ Cardinality(PendingAt(o, f)) = Cardinality(Pending(o, f))
  <2>1. \A x, y \in Pending(o, f) : g[x] = g[y] => x = y
    BY <1>4
  <2> HIDE DEF g
  <2> QED
    BY <1>1, <1>5, <1>6, <2>1, SameSize
<1>8. PendingAt(o, f) \subseteq Places
  BY <1>3 DEF PendingAt
<1> QED
  BY <1>7, <1>8

LEMMA CountIs ==
  ASSUME IInv, NEW o \in Objs
  PROVE  count[o] = Cardinality(Referring(o)) + Cardinality(Pending(o, "link"))
                    - Cardinality(Pending(o, "unlink"))
<1> DEFINE R == Referring(o)
           L == PendingAt(o, "link")
           U == PendingAt(o, "unlink")
<1>1. /\ R \subseteq Places /\ L \subseteq Places /\ U \subseteq Places
      /\ IsFiniteSet(R) /\ IsFiniteSet(L) /\ IsFiniteSet(U)
      /\ Cardinality(R) \in Nat /\ Cardinality(L) \in Nat /\ Cardinality(U) \in Nat
  <2>1. R \subseteq Places
    BY DEF Referring
  <2>2. L \subseteq Places /\ U \subseteq Places
    BY PendingIs
  <2> QED
    BY <2>1, <2>2, Counting
<1>2. U \subseteq R
  <2>1. ASSUME NEW t \in Pending(o, "unlink") PROVE loc[t].place \in R
    <3>1. t \in Threads /\ Busy(t) /\ loc[t].func = "unlink" /\ loc[t].obj = o
      BY <2>1 DEF Pending, Busy
    <3> QED
      BY <3>1, UnlinkIs DEF Referring
  <2> QED
    BY <2>1 DEF PendingAt
<1>3. R \cap L = {}
  <2>1. ASSUME NEW t \in Pending(o, "link") PROVE loc[t].place \notin R
    <3>1. t \in Threads /\ Busy(t) /\ loc[t].func = "link" /\ loc[t].obj = o
      BY <2>1 DEF Pending, Busy
    <3> QED
      BY <3>1, LinkIs, PlaceIs DEF Referring
  <2> QED
    BY <2>1 DEF PendingAt
<1>4. \A w \in R : w \in U <=> Unlinked(w)
  <2>1. ASSUME NEW w \in R, w \in U PROVE Unlinked(w)
    <3>1. PICK t \in Pending(o, "unlink") : w = loc[t].place
      BY <2>1 DEF PendingAt
    <3> QED
      BY <3>1 DEF Unlinked, Pending
  <2>2. ASSUME NEW w \in R, Unlinked(w) PROVE w \in U
    <3>1. PICK t \in Threads : pc[t] = "store" /\ loc[t].func = "unlink" /\ loc[t].place = w
      BY <2>2 DEF Unlinked
    <3>2. loc[t].obj = o
      BY <2>2, <3>1, UnlinkIs DEF Busy, Referring
    <3>3. t \in Pending(o, "unlink")
      BY <3>1, <3>2 DEF Pending
    <3> QED
      BY <3>1, <3>3 DEF PendingAt
  <2> QED
    BY <2>1, <2>2
<1>5. \A w \in Places : w \in L <=> Linked(w, o)
  BY DEF PendingAt, Pending, Linked
<1>6. Refs[o] = (R \ U) \cup L
  <2>1. Refs[o] = {w \in Places : (word[w] = o /\ ~Unlinked(w)) \/ Linked(w, o)}
    BY DEF Refs
  <2>2. R = {w \in Places : word[w] = o}
    BY DEF Referring
  <2> HIDE DEF R, L, U
  <2> QED
    BY <1>1, <1>4, <1>5, <2>1, <2>2
<1>7. Cardinality(R \ U) = Cardinality(R) - Cardinality(U) /\ IsFiniteSet(R \ U)
  <2>1. R \cap U = U
    BY <1>2
  <2> HIDE DEF R, L, U
  <2>2. Cardinality(R \ U) = Cardinality(R) - Cardinality(R \cap U) /\ IsFiniteSet(R \ U)
    BY <1>1, FS_Difference
  <2> QED
    BY <2>1, <2>2
<1>8. Cardinality((R \ U) \cup L) = Cardinality(R \ U) + Cardinality(L)
  <2> HIDE DEF R, L, U
  <2>1. (R \ U) \cap L = {}
    BY <1>3
  <2>2. Cardinality((R \ U) \cup L)
          = Cardinality(R \ U) + Cardinality(L) - Cardinality((R \ U) \cap L)
    BY <1>1, <1>7, FS_Union
  <2>3. Cardinality((R \ U) \cap L) = 0
    BY <2>1, FS_EmptySet
  <2>4. Cardinality(R \ U) \in Nat
    BY <1>7, FS_CardinalityType
  <2> QED
    BY <1>1, <2>2, <2>3, <2>4
<1>9. count[o] = Cardinality(R) - Cardinality(U) + Cardinality(L)
  BY <1>6, <1>7, <1>8 DEF IInv, CountInv
<1>10. /\ Cardinality(L) = Cardinality(Pending(o, "link"))
       /\ Cardinality(U) = Cardinality(Pending(o, "unlink"))
  BY PendingIs
<1> HIDE DEF R, L, U
<1>11. count[o] = Cardinality(R) + Cardinality(L) - Cardinality(U)
  BY <1>1, <1>9
<1> QED
  BY <1>10, <1>11 DEF R

(* Above a counted object that a set of reached objects does not have      *)
(* there is another of a higher level, which counts and is not in the set  *)
(* either.                                                                 *)
LEMMA AboveIs ==
  ASSUME IInv, NEW S, Rooted(S), NEW o \in Objs, count[o] > 0, o \notin S
  PROVE  \E p \in Objs : count[p] > 0 /\ p \notin S /\ Level[o] < Level[p]
<1>1. Refs[o] \subseteq Places /\ count[o] = Cardinality(Refs[o])
  BY DEF Refs, IInv, CountInv
<1>2. PICK w : w \in Refs[o]
  <2>1. Refs[o] # {}
    BY <1>1, FS_EmptySet
  <2> QED
    BY <2>1
<1>3. ~Linked(w, o)
  BY DEF Linked, Rooted, Pending
<1>4. w \in Places /\ word[w] = o
  BY <1>2, <1>3 DEF Refs
<1>5. w \notin Roots
  BY <1>4, PlaceIs DEF Rooted
<1>6. w \in Words /\ In[w] \in Objs /\ In[w] \notin S
  BY <1>4, <1>5, PlaceIs, WordIs DEF Rooted
<1>7. Refs[In[w]] # {} /\ Level[o] < Level[In[w]]
  BY <1>4, <1>6, PlaceIs DEF IInv, TreeInv
<1>8. count[In[w]] > 0
  <2>1. Refs[In[w]] \subseteq Places /\ count[In[w]] = Cardinality(Refs[In[w]])
    BY <1>6 DEF Refs, IInv, CountInv
  <2>2. Cardinality(Refs[In[w]]) \in Nat /\ Cardinality(Refs[In[w]]) # 0
    BY <1>7, <2>1, Counting
  <2> QED
    BY <2>1, <2>2
<1> QED
  BY <1>6, <1>7, <1>8

(* So the cut-off objects of at least the level of one of them would be    *)
(* more than any number.                                                   *)
LEMMA OrphanIs ==
  ASSUME IInv, NEW S \in SUBSET Objs, Rooted(S), NEW o \in Objs, count[o] > 0
  PROVE  o \in S
<1> SUFFICES ASSUME o \notin S PROVE FALSE
  OBVIOUS
<1> DEFINE A == {x \in Objs : count[x] > 0 /\ x \notin S}
           B(x) == {y \in A : Level[y] >= Level[x]}
           I == {n \in Nat : \A x \in A : Cardinality(B(x)) > n}
<1>1. \A x \in Objs : Level[x] \in Nat
  BY OwnerAssumption
<1>2. ASSUME NEW x \in A
      PROVE  /\ IsFiniteSet(B(x)) /\ Cardinality(B(x)) \in Nat /\ Cardinality(B(x)) > 0
             /\ \E p \in A : Cardinality(B(p)) < Cardinality(B(x))
  <2>1. ASSUME NEW y \in A
        PROVE  IsFiniteSet(B(y)) /\ Cardinality(B(y)) \in Nat /\ y \in B(y)
    <3>1. B(y) \in SUBSET Objs
      OBVIOUS
    <3>2. IsFiniteSet(B(y))
      BY <3>1, TreeAssumption, FS_Subset
    <3>3. y \in B(y)
      BY <1>1, <2>1
    <3> QED
      BY <3>2, <3>3, FS_CardinalityType
  <2>2. PICK p \in A : Level[x] < Level[p]
    BY AboveIs
  <2>3. B(p) \subseteq B(x) /\ x \notin B(p)
    BY <1>1, <2>2
  <2> HIDE DEF B
  <2>4. Cardinality(B(p)) <= Cardinality(B(x)) /\ (Cardinality(B(p)) = Cardinality(B(x)) => B(p) = B(x))
    BY <2>1, <2>3, FS_Subset
  <2>5. Cardinality(B(p)) < Cardinality(B(x))
    BY <2>1, <2>3, <2>4
  <2>6. Cardinality(B(x)) # 0
    BY <2>1, FS_EmptySet
  <2> QED
    BY <2>1, <2>5, <2>6
<1>3. o \in A
  OBVIOUS
<1> HIDE DEF A, B
<1>4. 0 \in I
  BY <1>2
<1>5. ASSUME NEW n \in Nat, n \in I PROVE n + 1 \in I
  <2>1. ASSUME NEW x \in A PROVE Cardinality(B(x)) > n + 1
    <3>1. PICK p \in A : Cardinality(B(p)) < Cardinality(B(x))
      BY <1>2
    <3>2. Cardinality(B(p)) > n
      BY <1>5
    <3> QED
      BY <1>2, <3>1, <3>2
  <2> QED
    BY <2>1
<1>6. Nat \subseteq I
  <2> HIDE DEF I
  <2> QED
    BY <1>4, <1>5, SetInduction
<1>7. Cardinality(B(o)) \in Nat /\ Cardinality(B(o)) \in I
  BY <1>2, <1>3, <1>6
<1> QED
  BY <1>3, <1>7

-----------------------------------------------------------------------------
(* The monitor starts with the last redo, so a step that takes a thread    *)
(* from crashed to recover is its redo.                                    *)
LEMMA RecoverIs ==
  ASSUME IInv, [Next]_vars, NEW t \in Threads, mode[t] = "crashed", mode'[t] = "recover"
  PROVE  Redo(t)
<1>1. mode' # mode
  OBVIOUS
<1>2. PICK u \in Threads : StartOp(u) \/ ClientStep(u) \/ Crash(u) \/ MonitorStep(u)
  BY <1>1 DEF Next, vars
<1>3. mode \in [Threads -> {"live", "crashed", "recover", "gone"}]
  BY TypeIs
<1>4. ~StartOp(u)
  BY <1>1 DEF StartOp, CopyHandle, Destroy, Malloc, GetRef, Attach
<1>5. ~ClientStep(u)
  BY <1>1 DEF ClientStep, Test, Log, Swap, Store, Free
<1>6. ~Crash(u)
  BY <1>3 DEF Crash
<1>7. ~Finish(u)
  BY <1>3 DEF Finish
<1>8. \A r \in Roots : ~Visit(u, r)
  BY <1>1 DEF Visit
<1>9. ~RecoveryTest(u) /\ ~RecoveryReturn(u)
  BY <1>1 DEF RecoveryTest, RecoveryReturn
<1>10. Redo(u)
  BY <1>2, <1>4, <1>5, <1>6, <1>7, <1>8, <1>9 DEF MonitorStep
<1>11. u = t
  BY <1>3, <1>10 DEF Redo
<1> QED
  BY <1>10, <1>11

-----------------------------------------------------------------------------
(* The invariant, for any threads and objects.                             *)
THEOREM Inductive == ASSUME ~Overlap, OwnMemory PROVE Spec => []IInv
<1>1. Init => IInv
  BY InitIs
<1>2. IInv /\ [Next]_vars => IInv'
  BY StepIs
<1> QED
  BY <1>1, <1>2, PTL DEF Spec

(* Type correctness.                                                       *)
THEOREM TypeCorrect == ASSUME ~Overlap, OwnMemory PROVE Spec => []TypeOK
<1>1. IInv => TypeOK
  BY DEF IInv
<1> QED
  BY <1>1, Inductive, PTL

(* The count of an object is the number of references to it.               *)
THEOREM CountCorrect == ASSUME ~Overlap, OwnMemory PROVE Spec => []CountExact
<1>1. IInv => CountExact
  BY CountIs DEF CountExact
<1> QED
  BY <1>1, Inductive, PTL

(* README: no memory leak, an object that counts is reached.               *)
THEOREM OrphanCorrect == ASSUME ~Overlap, OwnMemory PROVE Spec => []NoOrphan
<1>1. IInv => NoOrphan
  BY OrphanIs DEF NoOrphan
<1> QED
  BY <1>1, Inductive, PTL

(* README: no wild pointer, no reference leads to a free block and a free  *)
(* block holds none.                                                       *)
THEOREM PoolCorrect == ASSUME ~Overlap, OwnMemory PROVE Spec => []PoolClean
<1>1. ASSUME IInv PROVE PoolClean
  <2>1. pool \subseteq Objs /\ \A o \in pool : Refs[o] = {}
    BY <1>1, TypeIs DEF IInv, PoolInv
  <2>2. ASSUME NEW w \in Places, ~Unlinked(w), word[w] \in pool PROVE FALSE
    <3>1. w \in Refs[word[w]]
      BY <2>1, <2>2 DEF Refs
    <3> QED
      BY <2>1, <2>2, <3>1
  <2>3. ASSUME NEW w \in Words, In[w] \in pool PROVE word[w] = Null
    BY <1>1, <2>1, <2>3 DEF IInv, TreeInv
  <2> QED
    BY <2>2, <2>3 DEF PoolClean
<1> QED
  BY <1>1, Inductive, PTL

(* A handle of a running client leads to an object that counts.            *)
THEOREM HandleCorrect == ASSUME ~Overlap, OwnMemory PROVE Spec => []HandleSafe
<1>1. ASSUME IInv PROVE HandleSafe
  <2> SUFFICES ASSUME NEW r \in Roots, mode[Owner[r]] = "live", handles[r] > 0
               PROVE  word[r] # Null /\ count[word[r]] > 0
    BY DEF HandleSafe
  <2>1. Owner[r] \in Threads
    BY OwnerAssumption
  <2>2. \A u \in Threads : Before(u)
    BY <1>1, <2>1, CalmIs
  <2>3. word[r] # Null
    BY <1>1, <2>2 DEF IInv, HandleInv, Calm, Before
  <2>4. word[r] \in Objs /\ r \in Refs[word[r]]
    BY <1>1, <2>1, <2>2, <2>3, HeldIs
  <2>5. Refs[word[r]] \subseteq Places /\ count[word[r]] = Cardinality(Refs[word[r]])
    BY <1>1, <2>4 DEF Refs, IInv, CountInv
  <2>6. Cardinality(Refs[word[r]]) \in Nat /\ Cardinality(Refs[word[r]]) # 0
    BY <2>4, <2>5, Counting
  <2> QED
    BY <2>3, <2>5, <2>6
<1> QED
  BY <1>1, Inductive, PTL

(* A redo changes a word only if the operation was under way.              *)
THEOREM RedoHarmless == ASSUME ~Overlap, OwnMemory PROVE Spec => RedoKeeps
<1>1. IInv /\ [Next]_vars =>
        [\A t \in Threads : mode[t] = "crashed" /\ mode'[t] = "recover" /\ pc[t] # "store"
                              => word' = word]_vars
  BY RecoverIs, RedoWord
<1> QED
  BY <1>1, Inductive, PTL DEF Spec, RedoKeeps
=============================================================================
