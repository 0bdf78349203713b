---------------------------- MODULE HashIndexProofs ----------------------------
(***************************************************************************)
(* The theorems about the hash index: IInv is inductive, the counts and    *)
(* pages of entries are right, and put and get are those of one            *)
(* dictionary.  Only the store of a put, or of the redo for it, changes a  *)
(* chain: it puts one entry behind the last (AppendIs).                    *)
(***************************************************************************)
EXTENDS HashIndexInv, LinkLemmas

-----------------------------------------------------------------------------
(* What the invariant says of one chain.                                   *)

LEMMA ChainFacts ==
  ASSUME TypeOK, ChainInv, NEW w \in Heads
  PROVE  /\ Chain(w) \in Seq(Blocks) /\ Len(Chain(w)) \in Nat /\ In(w) \subseteq Blocks
         /\ In(w) = {Chain(w)[i] : i \in 1..Len(Chain(w))} /\ In(w) \subseteq InIndex
         /\ \A i \in 1..Len(Chain(w)) : Chain(w)[i] \in Blocks /\ Chain(w)[i] \in In(w)
         /\ \A i \in 1..Len(Chain(w)) : i < Len(Chain(w)) => word[Chain(w)[i]] = Chain(w)[i + 1]
         /\ \A i \in 1..Len(Chain(w)) : i = Len(Chain(w)) => word[Chain(w)[i]] = Null
         /\ \A i, j \in 1..Len(Chain(w)) : Chain(w)[i] = Chain(w)[j] => i = j
         /\ (Chain(w) = <<>> <=> word[w] = Null)
         /\ Chain(w) # <<>> => /\ Len(Chain(w)) > 0 /\ word[w] = Chain(w)[1]
                               /\ ChainEnd(w) = Chain(w)[Len(Chain(w))]
         /\ Chain(w) = <<>> => ChainEnd(w) = w
         /\ Len(Chain(w)) > 0 => Chain(w) # <<>>
         /\ word[ChainEnd(w)] = Null /\ ChainEnd(w) \in {w} \cup In(w)
<1> DEFINE s == Chain(w)
<1>1. /\ DOMAIN Onward = Blocks /\ \A b \in Blocks : Onward[b] = word[b]
      /\ \A b \in Blocks : word[b] \in OrNull(Blocks)
      /\ word[w] \in OrNull(Blocks) /\ Null \notin Blocks
  BY IndexAssumption DEF TypeOK, Onward, Places
<1>2. IsPath(Onward, s, word[w])
  BY DEF ChainInv
<1>3. In(w) = ToSet(s) /\ ChainEnd(w) = IF s = <<>> THEN w ELSE Last(s)
  BY DEF In, ChainEnd
<1> HIDE DEF s
<1>4. /\ s \in Seq(Blocks) /\ Len(s) \in Nat
      /\ ToSet(s) = {s[i] : i \in 1..Len(s)} /\ ToSet(s) \subseteq Blocks
      /\ \A i \in 1..Len(s) : s[i] \in Blocks /\ s[i] \in ToSet(s)
      /\ \A i \in 1..Len(s) : i < Len(s) => Onward[s[i]] = s[i + 1]
      /\ \A i \in 1..Len(s) : i = Len(s) => Onward[s[i]] \notin Blocks
      /\ \A i, j \in 1..Len(s) : s[i] = s[j] => i = j
      /\ (s = <<>> <=> word[w] \notin Blocks)
      /\ s # <<>> => Len(s) > 0 /\ word[w] = s[1]
      /\ Len(s) > 0 => s # <<>>
  BY <1>1, <1>2, PathElems
<1>5. \A i \in 1..Len(s) : i = Len(s) => word[s[i]] = Null
  BY <1>1, <1>4 DEF OrNull
<1>6. (s = <<>> <=> word[w] = Null)
  BY <1>1, <1>4 DEF OrNull
<1>7. s # <<>> => Last(s) = s[Len(s)] /\ Len(s) \in 1..Len(s)
  <2>1. s # <<>> => Len(s) > 0 /\ Len(s) \in Nat
    BY <1>4
  <2> QED
    BY <2>1 DEF Last
<1>8. word[ChainEnd(w)] = Null /\ ChainEnd(w) \in {w} \cup In(w)
  <2>1. CASE s = <<>>
    BY <1>3, <1>6, <2>1
  <2>2. CASE s # <<>>
    BY <1>3, <1>4, <1>5, <1>7, <2>2
  <2> QED
    BY <2>1, <2>2
<1>9. In(w) \subseteq InIndex
  BY DEF In, InIndex
<1> QED
  BY <1>1, <1>3, <1>4, <1>5, <1>6, <1>7, <1>8, <1>9 DEF s

(* An entry is in one chain.                                               *)
LEMMA OneChain ==
  ASSUME EntryInv, NEW w \in Heads, NEW v \in Heads, NEW b \in In(w), b \in In(v)
  PROVE  w = v
BY DEF EntryInv

(* The entries of the index are blocks.                                    *)
LEMMA IndexIs ==
  /\ \A b \in InIndex : \E w \in Heads : b \in In(w)
  /\ TypeOK /\ ChainInv => InIndex \subseteq Blocks
<1>1. \A b \in InIndex : \E w \in Heads : b \in In(w)
  BY DEF InIndex, In
<1> QED
  BY <1>1, ChainFacts

(* A key belongs to a bucket, and no bucket is a block.                    *)
LEMMA HeadIs ==
  /\ \A k \in Keys : HeadOf(k) \in Heads /\ HeadOf(k)[1] = PartOf[k] /\ PartOf[k] \in Threads
  /\ \A w \in Heads : w \notin Blocks /\ w \in Places /\ w[1] \in Threads
  /\ Blocks \subseteq Places
BY IndexAssumption DEF HeadOf, Heads, Places

-----------------------------------------------------------------------------
(* Steps that change no chain.                                             *)

(* The words of the buckets and of the entries are as before.              *)
LEMMA ChainsStay ==
  ASSUME TypeOK, ChainInv, word' \in [Places -> OrNull(Blocks)],
         \A p \in Heads \cup InIndex : word'[p] = word[p]
  PROVE  /\ ChainInv'
         /\ \A w \in Heads : Chain(w)' = Chain(w) /\ In(w)' = In(w) /\ ChainEnd(w)' = ChainEnd(w)
         /\ InIndex' = InIndex
<1>1. ASSUME NEW w \in Heads
      PROVE  Chain(w)' = Chain(w) /\ IsPath(Onward', Chain(w), word'[w])
  <2>1. /\ DOMAIN Onward' = Blocks /\ DOMAIN Onward = Blocks
        /\ \A b \in Blocks : Onward[b] = word[b] /\ Onward'[b] = word'[b]
    BY DEF Onward
  <2>2. IsPath(Onward, Chain(w), word[w]) /\ word'[w] = word[w]
    BY DEF ChainInv
  <2>3. \A b \in ToSet(Chain(w)) : Onward'[b] = Onward[b]
    <3>1. ToSet(Chain(w)) \subseteq Blocks \cap InIndex
      BY ChainFacts DEF In
    <3> QED
      BY <2>1, <3>1
  <2>4. IsPath(Onward', Chain(w), word'[w])
    BY <2>1, <2>2, <2>3, PathFrame
  <2>5. PathFrom(Onward', word'[w]) = Chain(w)
    <3>1. IsFiniteSet(DOMAIN Onward')
      BY <2>1, IndexAssumption
    <3> QED
      BY <2>4, <3>1, PathIs
  <2>6. Chain(w)' = PathFrom(Onward', word'[w])
    BY DEF Chain
  <2> QED
    BY <2>4, <2>5, <2>6
<1>2. \A w \in Heads : In(w)' = In(w) /\ ChainEnd(w)' = ChainEnd(w)
  BY <1>1 DEF In, ChainEnd
<1>3. InIndex' = InIndex
  BY <1>1 DEF InIndex
<1>4. ChainInv'
  BY <1>1 DEF ChainInv
<1> QED
  BY <1>1, <1>2, <1>3, <1>4

(* Entries keep key, count and page; values may change.                    *)
LEMMA EntriesStay ==
  ASSUME EntryInv, \A w \in Heads : In(w)' = In(w), InIndex \subseteq taken',
         \A b \in InIndex : /\ entry'[b].key = entry[b].key /\ entry'[b].value \in Values
                            /\ header'[b].cnt = header[b].cnt
                            /\ \/ owner'[PageOf[b]] = owner[PageOf[b]]
                               \/ owner'[PageOf[b]] = Abandoned
  PROVE  EntryInv'
<1>1. \A w \in Heads : In(w) \subseteq InIndex
  BY DEF In, InIndex
<1>2. ASSUME NEW w \in Heads, NEW b \in In(w)
      PROVE  /\ entry'[b].key \in Keys /\ HeadOf(entry'[b].key) = w /\ entry'[b].value \in Values
             /\ \A c \in In(w) : entry'[b].key = entry'[c].key => b = c
             /\ b \in taken' /\ header'[b].cnt = 1 /\ owner'[PageOf[b]] \in {w[1], Abandoned}
  BY <1>1 DEF EntryInv
<1>3. ASSUME NEW w \in Heads, NEW b \in In(w)'
      PROVE  /\ entry'[b].key \in Keys /\ HeadOf(entry'[b].key) = w /\ entry'[b].value \in Values
             /\ \A c \in In(w)' : entry'[b].key = entry'[c].key => b = c
             /\ b \in taken' /\ header'[b].cnt = 1 /\ owner'[PageOf[b]] \in {w[1], Abandoned}
  BY <1>2
<1>4. \A k : HeadOf(k)' = HeadOf(k)
  BY DEF HeadOf
<1> QED
  BY <1>3, <1>4 DEF EntryInv

(* A put under way, when neither its chain nor its block changes.          *)
LEMMA PutStays ==
  ASSUME NEW t \in Threads, Putting(t) => PutsAtEnd(t), Putting(t)' => pc'[t] = pc[t] /\ loc'[t] = loc[t],
         Putting(t)' => LET b == loc[t].obj
                            w == HeadOf(loc[t].key)
                        IN /\ Chain(w)' = Chain(w) /\ b \notin InIndex'
                           /\ \A c \in In(w) : entry'[c].key = entry[c].key
                           /\ b \in taken' /\ owner'[PageOf[b]] = owner[PageOf[b]]
                           /\ word'[b] = word[b] /\ entry'[b] = entry[b]
                           /\ header'[b] = header[b] /\ era'[t] = era[t]
  PROVE  (Putting(t) => PutsAtEnd(t))'
<1> SUFFICES ASSUME Putting(t)' PROVE PutsAtEnd(t)'
  OBVIOUS
<1> DEFINE k == loc[t].key
           b == loc[t].obj
<1>1. Putting(t) /\ PutsAtEnd(t)
  BY DEF Putting
<1>2. loc'[t].key = k /\ loc'[t].obj = b /\ loc'[t].place = loc[t].place /\ pc'[t] = pc[t]
  OBVIOUS
<1>3. Matches(HeadOf(k), k)' = Matches(HeadOf(k), k)
  BY DEF Matches, HeadOf, In
<1>4. ChainEnd(HeadOf(k))' = ChainEnd(HeadOf(k))
  BY DEF ChainEnd, HeadOf
<1> QED
  BY <1>1, <1>2, <1>3, <1>4 DEF PutsAtEnd, HeadOf

(* A get under way, when its chain may grow and keys stay.                 *)
Grows(s, r) == /\ Len(r) \in Nat /\ Len(s) <= Len(r)
               /\ \A i \in 1..Len(s) : r[i] = s[i]
               /\ ToSet(s) \subseteq ToSet(r)

LEMMA GetStays ==
  ASSUME TypeOK, ChainInv, NEW t \in Threads,
         \A w \in Heads : Grows(Chain(w), Chain(w)'),
         \A b \in InIndex : entry'[b].key = entry[b].key,
         pc'[t] \in {"read", "value"} => pc'[t] = pc[t] /\ loc'[t] = loc[t],
         pc[t] = "read"  => loc[t].key \in Keys /\ ReadsPast(t),
         pc[t] = "value" => loc[t].key \in Keys /\ HasFound(t)
  PROVE  /\ pc'[t] = "read"  => loc'[t].key \in Keys /\ ReadsPast(t)'
         /\ pc'[t] = "value" => loc'[t].key \in Keys /\ HasFound(t)'
<1> SUFFICES ASSUME pc'[t] \in {"read", "value"}
             PROVE  /\ pc'[t] = "read"  => loc'[t].key \in Keys /\ ReadsPast(t)'
                    /\ pc'[t] = "value" => loc'[t].key \in Keys /\ HasFound(t)'
  OBVIOUS
<1>0. PICK k, w : k = loc[t].key /\ w = HeadOf(k)
  OBVIOUS
<1> DEFINE s == Chain(w)
           r == Chain(w)'
<1>1. /\ pc'[t] = pc[t] /\ loc'[t] = loc[t] /\ k \in Keys /\ w \in Heads
      /\ loc'[t].key = k /\ loc[t].key = k /\ HeadOf(k) = w /\ HeadOf(k)' = w
  BY <1>0, HeadIs DEF HeadOf
<1>2. /\ Len(s) \in Nat /\ In(w) \subseteq InIndex
      /\ \A i \in 1..Len(s) : s[i] \in In(w) /\ s[i] \in InIndex
  BY <1>1, ChainFacts
<1>3. Grows(s, r)
  BY <1>1
<1>4. In(w) \subseteq In(w)'
  BY <1>3 DEF In, Grows
<1> HIDE DEF s, r
<1>5. CASE pc[t] = "read"
  <2>1. CASE loc[t].place = w
    BY <1>1, <1>5, <2>1 DEF ReadsPast
  <2>2. CASE loc[t].place # w
    <3>1. PICK i \in 1..Len(s) : /\ loc[t].place = s[i]
                                 /\ \A j \in 1..i : entry[s[j]].key # k
      BY <1>1, <1>5, <2>2 DEF ReadsPast, s
    <3>2. i \in 1..Len(r) /\ \A j \in 1..i : j \in 1..Len(s)
      BY <1>2, <1>3 DEF Grows
    <3>3. loc'[t].place = r[i] /\ \A j \in 1..i : entry'[r[j]].key # k
      <4>1. \A j \in 1..i : r[j] = s[j] /\ s[j] \in InIndex
        BY <1>2, <1>3, <3>2 DEF Grows
      <4> QED
        BY <1>1, <1>3, <3>1, <4>1 DEF Grows
    <3> QED
      BY <1>1, <1>5, <3>2, <3>3 DEF ReadsPast, r
  <2> QED
    BY <2>1, <2>2
<1>6. CASE pc[t] = "value"
  <2>1. loc[t].place \in {w} \cup In(w) /\ loc[t].obj \in In(w) /\ entry[loc[t].obj].key = k
    BY <1>1, <1>6 DEF HasFound
  <2>2. entry'[loc[t].obj].key = k
    BY <1>2, <2>1
  <2> QED
    BY <1>1, <1>4, <1>6, <2>1, <2>2 DEF HasFound
<1> QED
  BY <1>1, <1>5, <1>6

(* The chains of a step that changes none.                                 *)
LEMMA SameGrows ==
  ASSUME TypeOK, ChainInv, \A w \in Heads : Chain(w)' = Chain(w)
  PROVE  \A w \in Heads : Grows(Chain(w), Chain(w)')
BY ChainFacts DEF Grows

(* A log line, while what it says is in the chain or under way.            *)
LEMMA LogStays ==
  ASSUME NEW t \in Threads, IF Logged(t) THEN LogsNext(t) ELSE LogsPast(t),
         InIndex \subseteq InIndex',
         \A p \in Heads \cup InIndex : word[p] # Null => word'[p] = word[p],
         Null \notin InIndex, Logged(t)' <=> Logged(t), log'[t] = log[t],
         Logged(t) => loc'[t] = loc[t] /\ era'[t] = era[t]
  PROVE  (IF Logged(t) THEN LogsNext(t) ELSE LogsPast(t))'
<1>1. CASE Logged(t)
  BY <1>1 DEF LogsNext
<1>2. CASE ~Logged(t)
  <2>1. Heads' = Heads
    BY DEF Heads
  <2> QED
    BY <1>2, <2>1 DEF LogsPast
<1> QED
  BY <1>1, <1>2

-----------------------------------------------------------------------------
(* The store of a put, or of the redo for it: one entry more, at the end.  *)

LEMMA AppendIs ==
  ASSUME TypeOK, ChainInv, EntryInv, NEW h \in Heads,
         NEW b \in Blocks, b \notin InIndex, word[b] = Null,
         word' = [word EXCEPT ![ChainEnd(h)] = b]
  PROVE  /\ ChainInv' /\ word' \in [Places -> OrNull(Blocks)]
         /\ \A w \in Heads : w # h => Chain(w)' = Chain(w) /\ In(w)' = In(w)
         /\ Chain(h)' = Append(Chain(h), b) /\ In(h)' = In(h) \cup {b}
         /\ \A w \in Heads : Grows(Chain(w), Chain(w)')
         /\ InIndex' = InIndex \cup {b}
         /\ word'[ChainEnd(h)] = b /\ ChainEnd(h) \in Heads \cup InIndex
         /\ \A p \in Heads \cup InIndex : word[p] # Null => word'[p] = word[p]
<1> DEFINE e == ChainEnd(h)
           s == Chain(h)
<1>1. /\ word \in [Places -> OrNull(Blocks)] /\ Heads \subseteq Places /\ Blocks \subseteq Places
      /\ InIndex \subseteq Blocks /\ Null \notin Blocks
      /\ \A w \in Heads : w \notin Blocks /\ In(w) \subseteq InIndex
  BY IndexAssumption, HeadIs, IndexIs, ChainFacts DEF TypeOK
<1>2. /\ s \in Seq(Blocks) /\ Len(s) \in Nat
      /\ In(h) = {s[i] : i \in 1..Len(s)} /\ In(h) \subseteq Blocks
      /\ \A i \in 1..Len(s) : s[i] \in In(h)
      /\ s = <<>> => e = h /\ word[h] = Null
      /\ s # <<>> => e = s[Len(s)] /\ Len(s) > 0 /\ word[h] = s[1]
      /\ word[e] = Null /\ e \in {h} \cup In(h)
  BY ChainFacts
<1>3. /\ DOMAIN Onward = Blocks /\ DOMAIN Onward' = Blocks
      /\ \A c \in Blocks : Onward[c] = word[c] /\ Onward'[c] = word'[c]
  BY DEF Onward
<1>4. ToSet(s) = In(h)
  BY DEF In
<1> HIDE DEF e, s
<1>5. e \in Places /\ e # b /\ e \in Heads \cup InIndex
  BY <1>1, <1>2
<1>6. /\ word' \in [Places -> OrNull(Blocks)] /\ word'[e] = b
      /\ \A p \in Places : p # e => word'[p] = word[p]
  <2>1. word' = [word EXCEPT ![e] = b]
    BY DEF e
  <2>2. word \in [Places -> OrNull(Blocks)] /\ b \in OrNull(Blocks) /\ e \in Places
    BY <1>1, <1>5 DEF OrNull
  <2> QED
    BY <2>1, <2>2
<1>7. IsPath(Onward', Append(s, b), word'[h])
  <2>1. CASE s = <<>>
    <3>1. Append(s, b) = <<b>> /\ word'[h] = b
      BY <1>2, <1>6, <2>1
    <3>2. Onward'[b] \notin Blocks
      BY <1>1, <1>3, <1>5, <1>6
    <3> QED
      BY <1>3, <3>1, <3>2, PathOne
  <2>2. CASE s # <<>>
    <3>1. e \in Blocks /\ e \notin Heads /\ e # h
      BY <1>1, <1>2, <2>2
    <3>2. Onward' = [Onward EXCEPT ![s[Len(s)]] = b]
      <4>1. e = s[Len(s)]
        BY <1>2, <2>2
      <4>2. \A c \in Blocks : Onward'[c] = IF c = e THEN b ELSE Onward[c]
        BY <1>1, <1>3, <1>6
      <4>3. Onward' = [c \in Blocks |-> Onward'[c]]
        BY DEF Onward
      <4>4. Onward = [c \in Blocks |-> Onward[c]]
        BY DEF Onward
      <4> HIDE DEF Onward
      <4> QED
        BY <1>3, <3>1, <4>1, <4>2, <4>3, <4>4
    <3>3. IsPath(Onward, s, word[h])
      BY DEF ChainInv, s
    <3>4. word'[h] = word[h]
      BY <1>1, <1>6, <3>1
    <3>5. b \in DOMAIN Onward /\ b \notin ToSet(s) /\ Onward[b] \notin DOMAIN Onward
      BY <1>1, <1>3, <1>4
    <3> QED
      BY <2>2, <3>2, <3>3, <3>4, <3>5, PathAppend
  <2> QED
    BY <2>1, <2>2
<1>8. ASSUME NEW w \in Heads, w # h
      PROVE  IsPath(Onward', Chain(w), word'[w])
  <2>1. IsPath(Onward, Chain(w), word[w]) /\ ToSet(Chain(w)) = In(w)
    BY DEF ChainInv, In
  <2>2. e \notin In(w) /\ e # w
    <3>1. CASE e = h
      BY <1>1, <1>8, <3>1
    <3>2. CASE e \in In(h)
      BY <1>1, <1>8, <3>2, OneChain
    <3> QED
      BY <1>2, <3>1, <3>2
  <2>3. word'[w] = word[w]
    BY <1>1, <1>6, <2>2
  <2>4. \A c \in ToSet(Chain(w)) : Onward'[c] = Onward[c]
    BY <1>1, <1>3, <1>6, <2>1, <2>2
  <2> QED
    BY <1>3, <2>1, <2>3, <2>4, PathFrame
<1>9. ASSUME NEW w \in Heads, NEW r, IsPath(Onward', r, word'[w])
      PROVE  Chain(w)' = r /\ In(w)' = ToSet(r)
  <2>1. IsFiniteSet(DOMAIN Onward')
    BY <1>3, IndexAssumption
  <2>2. PathFrom(Onward', word'[w]) = r
    BY <1>9, <2>1, PathIs
  <2> QED
    BY <2>2 DEF Chain, In
<1>10. \A w \in Heads : w # h => Chain(w)' = Chain(w) /\ In(w)' = In(w)
  BY <1>8, <1>9 DEF In
<1>11. Chain(h)' = Append(s, b) /\ In(h)' = ToSet(Append(s, b))
  BY <1>7, <1>9
<1>12. Len(Append(s, b)) = Len(s) + 1 /\ \A i \in 1..Len(s) : Append(s, b)[i] = s[i]
  BY <1>2
<1>13. ToSet(Append(s, b)) = In(h) \cup {b}
  BY <1>2, <1>4, ToSetAppend
<1>14. ChainInv'
  <2>1. \A w \in Heads : IsPath(Onward', Chain(w)', word'[w])
    BY <1>7, <1>8, <1>10, <1>11
  <2> QED
    BY <2>1 DEF ChainInv
<1>15. \A w \in Heads : Grows(Chain(w), Chain(w)')
  <2>1. Grows(s, Append(s, b))
    BY <1>2, <1>4, <1>12, <1>13 DEF Grows
  <2>2. \A w \in Heads : Grows(Chain(w), Chain(w))
    BY ChainFacts DEF Grows
  <2> QED
    BY <1>10, <1>11, <2>1, <2>2 DEF s
<1>16. InIndex' = InIndex \cup {b}
  <2>1. InIndex' = UNION {In(w)' : w \in Heads} /\ InIndex = UNION {In(w) : w \in Heads}
    BY DEF InIndex, In
  <2> QED
    BY <1>10, <1>11, <1>13, <2>1
<1>17. \A p \in Heads \cup InIndex : word[p] # Null => word'[p] = word[p]
  BY <1>1, <1>2, <1>6
<1> QED
  BY <1>5, <1>6, <1>10, <1>11, <1>13, <1>14, <1>15, <1>16, <1>17 DEF e, s

-----------------------------------------------------------------------------
(* Every step keeps the types.                                             *)

Record == [key : OrNull(Keys), place : OrNull(Places), obj : OrNull(Blocks)]
Line   == [place : OrNull(Places), obj : OrNull(Blocks), era : Nat]

LEMMA RecordIs ==
  /\ NoLocals \in Record /\ NoLog \in Line
  /\ \A k \in OrNull(Keys), p \in OrNull(Places), b \in OrNull(Blocks) :
       [key |-> k, place |-> p, obj |-> b] \in Record
  /\ \A l \in Record, p \in OrNull(Places) : [l EXCEPT !.place = p] \in Record
  /\ \A l \in Record, b \in OrNull(Blocks) : [l EXCEPT !.obj = b] \in Record
  /\ \A p \in OrNull(Places), b \in OrNull(Blocks), e \in Nat :
       [place |-> p, obj |-> b, era |-> e] \in Line
  /\ \A l \in Record : l.key \in OrNull(Keys) /\ l.place \in OrNull(Places) /\ l.obj \in OrNull(Blocks)
  /\ \A l \in Line : l.place \in OrNull(Places) /\ l.obj \in OrNull(Blocks) /\ l.era \in Nat
BY DEF Record, Line, NoLocals, NoLog, OrNull

LEMMA HeaderIs ==
  /\ \A c \in {0} \cup Threads, n \in Nat, e \in Nat :
       [cid |-> c, cnt |-> n, era |-> e] \in [cid : {0} \cup Threads, cnt : Nat, era : Nat]
  /\ Blank \in [cid : {0} \cup Threads, cnt : Nat, era : Nat]
BY DEF Blank

LEMMA InitType == Init => TypeOK
<1> SUFFICES ASSUME Init PROVE TypeOK
  OBVIOUS
<1>1. <<Null, Null>> \in Told
  BY DEF Told, OrNull
<1>2. [key |-> Null, value |-> Null] \in [key : OrNull(Keys), value : OrNull(Values)]
  BY DEF OrNull
<1> QED
  BY <1>1, <1>2, RecordIs, HeaderIs DEF Init, TypeOK, OrNull, Free, Record, Line

LEMMA StepType ==
  ASSUME IInv, [Next]_vars
  PROVE  TypeOK'
<1> USE DEF At, Goto, store, mem
<1>. TypeOK /\ ChainInv
  BY DEF IInv
<1>0. /\ <<Null, Null>> \in Told /\ Null \in OrNull(Blocks) /\ Free \in {Free, Abandoned} \cup Threads
      /\ \A t \in Threads : loc[t] \in Record /\ log[t] \in Line
      /\ \A t \in Threads : era[t] \in Nat /\ era[t] + 1 \in Nat
      /\ loc \in [Threads -> Record] /\ log \in [Threads -> Line]
      /\ \A b \in Blocks : entry[b].value \in OrNull(Values) /\ header[b].cnt \in Nat
      /\ \A S : S \subseteq OrNull(S)
  BY DEF TypeOK, OrNull, Told, Record, Line
<1>1. ASSUME NEW t \in Threads, NEW k \in OrNull(Keys), NEW v \in OrNull(Values)
      PROVE  [told EXCEPT ![t] = <<k, v>>] \in [Threads -> Told]
  BY DEF TypeOK, Told
<1>2. \A t \in Threads : Forget(t) => told' \in [Threads -> Told]
  BY <1>1 DEF Forget, OrNull
<1>3. \A t \in Threads : Leave(t) => /\ loc' \in [Threads -> Record]
                                    /\ pc' \in [Threads -> {"idle", "log", "swap", "store", "read", "value"}]
  BY <1>0, RecordIs DEF Leave, TypeOK
<1>4. \A t \in Threads, v \in OrNull(Values) : Tell(t, v) => told' \in [Threads -> Told]
  BY <1>0, <1>1, RecordIs DEF Tell
<1>10. ASSUME NEW t \in Threads, NEW k \in Keys, NEW v \in Values, Overwrite(t, k, v) PROVE TypeOK'
  <2>1. PICK b \in Matches(<<t, BucketOf[k]>>, k) : entry' = [entry EXCEPT ![b].value = v]
    BY <1>10 DEF Overwrite
  <2>2. told' \in [Threads -> Told]
    BY <1>1, <1>10 DEF Overwrite, OrNull
  <2>3. entry' \in [Blocks -> [key : OrNull(Keys), value : OrNull(Values)]]
    <3>1. \A c \in Blocks : [entry[c] EXCEPT !.value = v] \in [key : OrNull(Keys), value : OrNull(Values)]
      BY DEF TypeOK, OrNull
    <3>2. \A c \in Blocks : entry[c] \in [key : OrNull(Keys), value : OrNull(Values)]
      BY DEF TypeOK
    <3>3. \A c \in Blocks : entry'[c] = IF c = b THEN [entry[c] EXCEPT !.value = v] ELSE entry[c]
      BY <2>1 DEF TypeOK
    <3>4. entry' = [c \in Blocks |-> entry'[c]]
      BY <2>1 DEF TypeOK
    <3> QED
      BY <3>1, <3>2, <3>3, <3>4
  <2> QED
    BY <1>10, <2>2, <2>3 DEF Overwrite, TypeOK
<1>11. ASSUME NEW t \in Threads, NEW k \in Keys, NEW v \in Values, NEW b \in Blocks, Take(t, k, v, b)
       PROVE  TypeOK'
  <2>1. owner' \in [Pages -> {Free, Abandoned} \cup Threads] /\ taken' \subseteq Blocks
    BY <1>11 DEF Take, TypeOK
  <2>2. log' \in [Threads -> Line]
    BY <1>0, <1>11, RecordIs DEF Take
  <2>3. header' \in [Blocks -> [cid : {0} \cup Threads, cnt : Nat, era : Nat]]
    <3>1. [cid |-> t, cnt |-> 0, era |-> era[t]] \in [cid : {0} \cup Threads, cnt : Nat, era : Nat]
      BY <1>0, HeaderIs
    <3> QED
      BY <1>11, <3>1 DEF Take, TypeOK
  <2>4. entry' \in [Blocks -> [key : OrNull(Keys), value : OrNull(Values)]]
    BY <1>11 DEF Take, TypeOK, OrNull
  <2>5. word' \in [Places -> OrNull(Blocks)]
    BY <1>0, <1>11 DEF Take, TypeOK
  <2>6. loc' \in [Threads -> Record]
    <3>1. <<t, BucketOf[k]>> \in Heads
      BY IndexAssumption DEF Heads
    <3>2. ChainEnd(<<t, BucketOf[k]>>) \in OrNull(Places)
      BY <3>1, ChainFacts, HeadIs DEF OrNull
    <3>3. [key |-> k, place |-> ChainEnd(<<t, BucketOf[k]>>), obj |-> b] \in Record
      BY <1>0, <3>2, RecordIs DEF OrNull
    <3> QED
      BY <1>0, <1>11, <3>3 DEF Take
  <2>7. pc' \in [Threads -> {"idle", "log", "swap", "store", "read", "value"}]
    BY <1>11 DEF Take, TypeOK
  <2> QED
    BY <1>2, <1>11, <2>1, <2>2, <2>3, <2>4, <2>5, <2>6, <2>7 DEF Take, TypeOK, Record, Line
<1>12. ASSUME NEW t \in Threads, Log(t) PROVE TypeOK'
  <2>1. log' \in [Threads -> Line]
    BY <1>0, <1>12, RecordIs DEF Log
  <2>2. pc' \in [Threads -> {"idle", "log", "swap", "store", "read", "value"}]
    BY <1>12 DEF Log, TypeOK
  <2> QED
    BY <1>12, <2>1, <2>2 DEF Log, TypeOK, Line
<1>13. ASSUME NEW t \in Threads, Swap(t) PROVE TypeOK'
  <2>1. header' \in [Blocks -> [cid : {0} \cup Threads, cnt : Nat, era : Nat]]
    <3>1. CASE loc[t].obj \in Blocks
      <4>1. [cid |-> t, cnt |-> header[loc[t].obj].cnt + 1, era |-> era[t]]
              \in [cid : {0} \cup Threads, cnt : Nat, era : Nat]
        BY <1>0, <3>1, HeaderIs
      <4> QED
        BY <1>13, <4>1 DEF Swap, TypeOK
    <3>2. CASE loc[t].obj \notin Blocks
      BY <1>13, <3>2 DEF Swap, TypeOK
    <3> QED
      BY <3>1, <3>2
  <2>2. pc' \in [Threads -> {"idle", "log", "swap", "store", "read", "value"}]
    BY <1>13 DEF Swap, TypeOK
  <2> QED
    BY <1>13, <2>1, <2>2 DEF Swap, TypeOK
<1>14. ASSUME NEW t \in Threads, Store(t) PROVE TypeOK'
  <2>1. word' \in [Places -> OrNull(Blocks)]
    BY <1>0, <1>14, RecordIs DEF Store, TypeOK
  <2>2. era' \in [Threads -> Nat]
    BY <1>0, <1>14 DEF Store, TypeOK
  <2>3. entry[loc[t].obj].value \in OrNull(Values)
    BY <1>14 DEF Store, IInv, PutInv, Putting, PutsAtEnd, OrNull
  <2>4. told' \in [Threads -> Told]
    BY <1>4, <1>14, <2>3 DEF Store
  <2> QED
    BY <1>3, <1>14, <2>1, <2>2, <2>4 DEF Store, TypeOK, Record
<1>15. ASSUME NEW t \in Threads, NEW k \in Keys, Get(t, k) PROVE TypeOK'
  <2>1. loc' \in [Threads -> Record]
    <3>1. HeadOf(k) \in OrNull(Places)
      BY HeadIs DEF OrNull
    <3>3. [key |-> k, place |-> HeadOf(k), obj |-> Null] \in Record
      BY <3>1, <1>0, RecordIs DEF OrNull
    <3> QED
      BY <1>0, <1>15, <3>3 DEF Get
  <2>2. pc' \in [Threads -> {"idle", "log", "swap", "store", "read", "value"}]
    BY <1>15 DEF Get, TypeOK
  <2> QED
    BY <1>2, <1>15, <2>1, <2>2 DEF Get, TypeOK, Record
<1>16. ASSUME NEW t \in Threads, Read(t) PROVE TypeOK'
  <2> DEFINE b == word[loc[t].place]
  <2>1. CASE b = Null
    <3>1. told' \in [Threads -> Told] /\ Leave(t)
      BY <1>4, <1>16, <2>1 DEF Read, OrNull
    <3> QED
      BY <1>3, <1>16, <3>1 DEF Read, TypeOK, Record
  <2>2. CASE b # Null
    <3>1. b \in Blocks \/ b \notin OrNull(Blocks)
      BY <2>2 DEF OrNull
    <3>2. loc[t].place \in Places
      BY <1>16, HeadIs, ChainFacts DEF Read, IInv, ReadInv, ReadsPast
    <3>3. b \in Blocks
      BY <3>1, <3>2 DEF TypeOK
    <3>4. CASE entry[b].key = loc[t].key
      <4>1. loc' \in [Threads -> Record] /\ told' \in [Threads -> Told]
        <5>1. [loc[t] EXCEPT !.obj = b] \in Record
          BY <1>0, <3>3, RecordIs DEF OrNull
        <5>2. loc' = [loc EXCEPT ![t].obj = b] /\ told' = told
          BY <1>16, <2>2, <3>4 DEF Read
        <5> QED
          BY <1>0, <5>1, <5>2 DEF TypeOK
      <4>2. pc' \in [Threads -> {"idle", "log", "swap", "store", "read", "value"}]
        BY <1>16, <2>2, <3>4 DEF Read, TypeOK
      <4> QED
        BY <1>16, <4>1, <4>2 DEF Read, TypeOK, Record
    <3>5. CASE entry[b].key # loc[t].key
      <4>1. loc' \in [Threads -> Record]
        <5>1. [loc[t] EXCEPT !.place = b] \in Record
          BY <1>0, <3>3, RecordIs, HeadIs DEF OrNull
        <5>2. loc' = [loc EXCEPT ![t].place = b]
          BY <1>16, <2>2, <3>5 DEF Read
        <5> QED
          BY <1>0, <5>1, <5>2
      <4>2. pc' = pc /\ told' = told
        BY <1>16, <2>2, <3>5 DEF Read
      <4> QED
        BY <1>16, <4>1, <4>2 DEF Read, TypeOK, Record
    <3> QED
      BY <3>4, <3>5
  <2> QED
    BY <2>1, <2>2
<1>17. ASSUME NEW t \in Threads, Value(t) PROVE TypeOK'
  <2>1. loc[t].obj \in Blocks
    BY <1>17, HeadIs, ChainFacts DEF Value, IInv, ReadInv, HasFound
  <2>2. told' \in [Threads -> Told]
    BY <1>0, <1>4, <1>17, <2>1 DEF Value
  <2> QED
    BY <1>3, <1>17, <2>2 DEF Value, TypeOK, Record
<1>18. ASSUME NEW t \in Threads, Crash(t) PROVE TypeOK'
  <2>1. mode' \in [Threads -> {"live", "crashed", "recover", "gone"}]
    BY <1>18 DEF Crash, TypeOK
  <2> QED
    BY <1>2, <1>18, <2>1 DEF Crash, TypeOK
<1>19. ASSUME NEW t \in Threads, Redo(t) PROVE TypeOK'
  <2>1. mode' \in [Threads -> {"live", "crashed", "recover", "gone"}]
    BY <1>19 DEF Redo, TypeOK
  <2>2. word' \in [Places -> OrNull(Blocks)]
    <3>1. log[t].obj \in OrNull(Blocks) /\ word \in [Places -> OrNull(Blocks)]
      BY <1>0, RecordIs DEF TypeOK
    <3>2. \/ word' = word
          \/ word' = [word EXCEPT ![log[t].place] = log[t].obj]
      BY <1>19 DEF Redo
    <3> QED
      BY <3>1, <3>2
  <2>3. Leave(t)
    BY <1>19 DEF Redo
  <2> QED
    BY <1>3, <1>19, <2>1, <2>2, <2>3 DEF Redo, TypeOK, Record
<1>20. ASSUME NEW t \in Threads, NEW p \in Pages, Collect(t, p) PROVE TypeOK'
  <2>1. owner' \in [Pages -> {Free, Abandoned} \cup Threads] /\ taken' \subseteq Blocks
    BY <1>20 DEF Collect, TypeOK
  <2>2. header' \in [Blocks -> [cid : {0} \cup Threads, cnt : Nat, era : Nat]]
    BY <1>20, HeaderIs DEF Collect, TypeOK
  <2> QED
    BY <1>20, <2>1, <2>2 DEF Collect, TypeOK
<1>21. ASSUME NEW t \in Threads, Restart(t) PROVE TypeOK'
  <2>1. era' \in [Threads -> Nat] /\ mode' \in [Threads -> {"live", "crashed", "recover", "gone"}]
    BY <1>0, <1>21 DEF Restart, TypeOK
  <2> QED
    BY <1>21, <2>1 DEF Restart, TypeOK
<1>22. ASSUME NEW t \in Threads, Finish(t) PROVE TypeOK'
  <2>1. mode' \in [Threads -> {"live", "crashed", "recover", "gone"}]
    BY <1>22 DEF Finish, TypeOK
  <2> QED
    BY <1>22, <2>1 DEF Finish, TypeOK
<1>23. CASE UNCHANGED vars
  BY <1>23 DEF vars, TypeOK
<1> QED
  BY <1>10, <1>11, <1>12, <1>13, <1>14, <1>15, <1>16, <1>17, <1>18, <1>19, <1>20, <1>21, <1>22, <1>23
  DEF Next, PutStep, GetStep, Recovery

-----------------------------------------------------------------------------
(* What the invariant says of one thread, and of the threads that a step   *)
(* of another one leaves alone.                                            *)

Sound(u) ==
  /\ Putting(u) => PutsAtEnd(u)
  /\ pc[u] = "read"  => loc[u].key \in Keys /\ ReadsPast(u)
  /\ pc[u] = "value" => loc[u].key \in Keys /\ HasFound(u)
  /\ IF Logged(u) THEN LogsNext(u) ELSE LogsPast(u)
  /\ mode[u] \in {"recover", "gone"} => pc[u] = "idle"
  /\ mode[u] = "crashed" => pc[u] # "swap"

LEMMA SoundIs ==
  IInv => TypeOK /\ ChainInv /\ EntryInv /\ \A u \in Threads : Sound(u)
<1> SUFFICES ASSUME IInv, NEW u \in Threads PROVE TypeOK /\ ChainInv /\ EntryInv /\ Sound(u)
  BY DEF IInv
<1>1. Putting(u) => PutsAtEnd(u)
  BY DEF IInv, PutInv
<1>2. /\ pc[u] = "read"  => loc[u].key \in Keys /\ ReadsPast(u)
      /\ pc[u] = "value" => loc[u].key \in Keys /\ HasFound(u)
  BY DEF IInv, ReadInv
<1>3. IF Logged(u) THEN LogsNext(u) ELSE LogsPast(u)
  BY DEF IInv, LogInv
<1>4. (mode[u] \in {"recover", "gone"} => pc[u] = "idle") /\ (mode[u] = "crashed" => pc[u] # "swap")
  BY DEF IInv, StopInv
<1> QED
  BY <1>1, <1>2, <1>3, <1>4 DEF IInv, Sound

LEMMA SoundIsNext ==
  (TypeOK /\ ChainInv /\ EntryInv /\ \A u \in Threads : Sound(u))' => IInv'
BY DEF IInv, PutInv, ReadInv, LogInv, StopInv, Sound

(* The block of a put under way.                                           *)
LEMMA NewBlock ==
  ASSUME IInv, NEW u \in Threads, Putting(u)
  PROVE  /\ loc[u].obj \in Blocks /\ loc[u].obj \in taken /\ loc[u].obj \notin InIndex
         /\ owner[PageOf[loc[u].obj]] = u /\ word[loc[u].obj] = Null
         /\ loc[u].key \in Keys /\ PartOf[loc[u].key] = u
         /\ HeadOf(loc[u].key) \in Heads /\ HeadOf(loc[u].key)[1] = u
BY HeadIs DEF IInv, PutInv, PutsAtEnd, TypeOK

LEMMA TwoBlocks ==
  ASSUME IInv, NEW t \in Threads, NEW u \in Threads, t # u, Putting(t), Putting(u)
  PROVE  /\ loc[t].obj # loc[u].obj /\ HeadOf(loc[t].key) # HeadOf(loc[u].key)
BY NewBlock

(* No index is empty of blocks.                                            *)
LEMMA NullIs ==
  ASSUME IInv
  PROVE  Null \notin InIndex /\ InIndex \subseteq Blocks /\ InIndex \subseteq taken
BY IndexIs, IndexAssumption DEF IInv, EntryInv

LEMMA Others ==
  ASSUME IInv, NEW t \in Threads,
         \A w \in Heads : Grows(Chain(w), Chain(w)') /\ (w[1] # t => Chain(w)' = Chain(w)),
         InIndex \subseteq InIndex',
         \A b \in InIndex : entry'[b].key = entry[b].key,
         \A p \in Heads \cup InIndex : word[p] # Null => word'[p] = word[p],
         \A u \in Threads : u # t => /\ pc'[u] = pc[u] /\ loc'[u] = loc[u]
                                     /\ log'[u] = log[u] /\ era'[u] = era[u]
                                     /\ mode'[u] = mode[u],
         \A u \in Threads : u # t /\ Putting(u) =>
           LET b == loc[u].obj
           IN /\ b \notin InIndex' /\ b \in taken' /\ owner'[PageOf[b]] = owner[PageOf[b]]
              /\ word'[b] = word[b] /\ entry'[b] = entry[b] /\ header'[b] = header[b]
  PROVE  \A u \in Threads : u # t => Sound(u)'
<1> SUFFICES ASSUME NEW u \in Threads, u # t PROVE Sound(u)'
  OBVIOUS
<1>1. TypeOK /\ ChainInv /\ Sound(u)
  BY SoundIs
<1>2. /\ pc'[u] = pc[u] /\ loc'[u] = loc[u] /\ log'[u] = log[u] /\ era'[u] = era[u]
      /\ mode'[u] = mode[u]
  OBVIOUS
<1>3. (Putting(u) <=> Putting(u)') /\ (Logged(u) <=> Logged(u)') /\ (Logged(u) => Putting(u))
  BY <1>2 DEF Putting, Logged
<1>4. (Putting(u) => PutsAtEnd(u))'
  <2> SUFFICES ASSUME Putting(u) PROVE (Putting(u) => PutsAtEnd(u))'
    BY <1>3
  <2>1. PICK b, w : b = loc[u].obj /\ w = HeadOf(loc[u].key)
    OBVIOUS
  <2>2. w \in Heads /\ w[1] = u /\ In(w) \subseteq InIndex
    BY <1>1, <2>1, NewBlock, ChainFacts
  <2>3. Chain(w)' = Chain(w) /\ b \notin InIndex'
    BY <2>1, <2>2
  <2>4. /\ \A c \in In(w) : entry'[c].key = entry[c].key
        /\ b \in taken' /\ owner'[PageOf[b]] = owner[PageOf[b]]
        /\ word'[b] = word[b] /\ entry'[b] = entry[b] /\ header'[b] = header[b]
    BY <2>1, <2>2
  <2>5. Chain(HeadOf(loc[u].key))' = Chain(HeadOf(loc[u].key))
    <3>1. HeadOf(loc[u].key)' = w
      BY <1>2, <2>1 DEF HeadOf
    <3> QED
      BY <2>1, <2>3, <3>1
  <2> QED
    BY <1>1, <1>2, <2>1, <2>3, <2>4, <2>5, PutStays DEF Sound
<1>5. /\ pc'[u] = "read"  => loc'[u].key \in Keys /\ ReadsPast(u)'
      /\ pc'[u] = "value" => loc'[u].key \in Keys /\ HasFound(u)'
  BY <1>1, <1>2, GetStays DEF Sound
<1>6. (IF Logged(u) THEN LogsNext(u) ELSE LogsPast(u))'
  <2>1. IF Logged(u) THEN LogsNext(u) ELSE LogsPast(u)
    BY <1>1 DEF Sound
  <2> QED
    BY <1>2, <1>3, <2>1, NullIs, LogStays
<1> QED
  BY <1>1, <1>2, <1>4, <1>5, <1>6 DEF Sound

-----------------------------------------------------------------------------
(* The initial state, and a step of each kind.                             *)

LEMMA InitIs == Init => IInv
<1> SUFFICES ASSUME Init PROVE IInv
  OBVIOUS
<1>1. TypeOK
  BY InitType
<1>2. ASSUME NEW w \in Heads
      PROVE  Chain(w) = <<>> /\ IsPath(Onward, <<>>, word[w])
  <2>1. word[w] = Null /\ DOMAIN Onward = Blocks /\ Null \notin Blocks
    BY HeadIs, IndexAssumption DEF Init, Onward
  <2>2. IsPath(Onward, <<>>, word[w])
    BY <2>1 DEF IsPath
  <2> QED
    BY <2>1, <2>2, PathIs, IndexAssumption DEF Chain
<1>3. ChainInv
  BY <1>2 DEF ChainInv
<1>4. \A w \in Heads : In(w) = {}
  BY <1>2 DEF In, ToSet
<1>5. EntryInv
  BY <1>4 DEF EntryInv
<1>6. PutInv /\ ReadInv /\ LogInv /\ StopInv
  BY DEF Init, PutInv, Putting, ReadInv, LogInv, Logged, LogsPast, NoLog, StopInv
<1> QED
  BY <1>1, <1>3, <1>5, <1>6 DEF IInv

(* put finds the key and writes the value.                                 *)
LEMMA OverwriteSafe ==
  ASSUME IInv, TypeOK', NEW t \in Threads, NEW k \in Keys, NEW v \in Values, Overwrite(t, k, v)
  PROVE  /\ IInv' /\ \A w \in Heads : Chain(w)' = Chain(w)
         /\ \E b \in In(HeadOf(k)) : entry[b].key = k /\ entry' = [entry EXCEPT ![b].value = v]
<1> TypeOK /\ ChainInv /\ EntryInv /\ (\A u \in Threads : Sound(u))
  BY SoundIs
<1>1. PICK b \in In(HeadOf(k)) : entry[b].key = k /\ entry' = [entry EXCEPT ![b].value = v]
  BY DEF Overwrite, Matches, In, HeadOf
<1>2. HeadOf(k) \in Heads /\ b \in InIndex /\ b \in Blocks
  BY <1>1, HeadIs, ChainFacts
<1>3. /\ word' = word /\ header' = header /\ taken' = taken /\ owner' = owner
      /\ era' = era /\ log' = log /\ pc' = pc /\ loc' = loc /\ mode' = mode
      /\ pc[t] = "idle"
  BY DEF Overwrite, mem, At
<1>4. /\ ChainInv' /\ InIndex' = InIndex
      /\ \A w \in Heads : Chain(w)' = Chain(w) /\ In(w)' = In(w) /\ ChainEnd(w)' = ChainEnd(w)
  BY <1>3, ChainsStay DEF TypeOK
<1>5. /\ \A c \in Blocks : entry'[c].key = entry[c].key
      /\ \A c \in Blocks : c # b => entry'[c] = entry[c]
      /\ entry'[b].value = v
  BY <1>1, <1>2 DEF TypeOK
<1>6. \A c \in InIndex : entry[c].value \in Values /\ c \in taken /\ c \in Blocks
  BY IndexIs DEF EntryInv
<1>7. EntryInv'
  <2>1. \A c \in InIndex : entry'[c].value \in Values
    BY <1>5, <1>6
  <2> QED
    BY <1>3, <1>4, <1>5, <1>6, <2>1, EntriesStay
<1>8. \A w \in Heads : Grows(Chain(w), Chain(w)')
  BY <1>4, SameGrows
<1>9. \A u \in Threads : u # t => Sound(u)'
  <2>1. \A u \in Threads : Putting(u) => loc[u].obj # b /\ loc[u].obj \in Blocks
    BY <1>2, NewBlock
  <2> QED
    BY <1>3, <1>4, <1>5, <1>6, <1>8, <2>1, NewBlock, Others
<1>10. Sound(t)'
  <2>1. ~Putting(t)' /\ ~Logged(t) /\ Logged(t)' = Logged(t)
    BY <1>3 DEF Putting, Logged
  <2>2. LogsPast(t)
    BY <2>1 DEF Sound
  <2>3. LogsPast(t)'
    BY <1>3, <1>4, <2>2 DEF LogsPast, Heads
  <2> QED
    BY <1>3, <2>1, <2>3 DEF Sound
<1> QED
  BY <1>1, <1>4, <1>7, <1>9, <1>10, SoundIsNext

(* put takes a block, which is in no chain.                                *)
LEMMA TakeSafe ==
  ASSUME IInv, TypeOK', NEW t \in Threads, NEW k \in Keys, NEW v \in Values, NEW b \in Blocks,
         Take(t, k, v, b)
  PROVE  /\ IInv' /\ (\A w \in Heads : Chain(w)' = Chain(w))
         /\ \A c \in InIndex : entry'[c] = entry[c]
<1> TypeOK /\ ChainInv /\ EntryInv /\ (\A u \in Threads : Sound(u))
  BY SoundIs
<1> USE DEF At, Goto
<1>1. /\ b \notin taken /\ taken' = taken \cup {b} /\ owner[PageOf[b]] \in {t, Free}
      /\ owner' = [owner EXCEPT ![PageOf[b]] = t]
      /\ header' = [header EXCEPT ![b] = [cid |-> t, cnt |-> 0, era |-> era[t]]]
      /\ entry' = [entry EXCEPT ![b] = [key |-> k, value |-> v]]
      /\ word' = [word EXCEPT ![b] = Null]
      /\ loc' = [loc EXCEPT ![t] = [key |-> k, place |-> ChainEnd(HeadOf(k)), obj |-> b]]
      /\ pc' = [pc EXCEPT ![t] = "log"] /\ pc[t] = "idle" /\ mode[t] = "live"
      /\ era' = era /\ mode' = mode /\ PartOf[k] = t /\ Matches(HeadOf(k), k) = {}
  BY DEF Take, HeadOf
<1>2. log' = log \/ log' = [log EXCEPT ![t] = NoLog]
  BY DEF Take
<1>3. /\ b \notin InIndex /\ InIndex \subseteq Blocks /\ InIndex \subseteq taken
      /\ b \in Places /\ b \notin Heads /\ PageOf[b] \in Pages /\ HeadOf(k) \in Heads
      /\ \A p \in Heads \cup InIndex : p \in Places
      /\ \A c \in Blocks : PageOf[c] \in Pages
  BY <1>1, NullIs, HeadIs, IndexAssumption
<1>4. /\ word'[b] = Null /\ \A p \in Places : p # b => word'[p] = word[p]
      /\ entry'[b] = [key |-> k, value |-> v] /\ \A c \in Blocks : c # b => entry'[c] = entry[c]
      /\ header'[b] = [cid |-> t, cnt |-> 0, era |-> era[t]] /\ \A c \in Blocks : c # b => header'[c] = header[c]
      /\ owner'[PageOf[b]] = t /\ \A p \in Pages : p # PageOf[b] => owner'[p] = owner[p]
      /\ loc'[t] = [key |-> k, place |-> ChainEnd(HeadOf(k)), obj |-> b] /\ pc'[t] = "log"
      /\ \A u \in Threads : u # t => loc'[u] = loc[u] /\ pc'[u] = pc[u] /\ log'[u] = log[u]
  BY <1>1, <1>2, <1>3 DEF TypeOK
<1>5. /\ ChainInv' /\ InIndex' = InIndex
      /\ \A w \in Heads : Chain(w)' = Chain(w) /\ In(w)' = In(w) /\ ChainEnd(w)' = ChainEnd(w)
  <2>1. \A p \in Heads \cup InIndex : word'[p] = word[p]
    BY <1>3, <1>4
  <2>2. word' \in [Places -> OrNull(Blocks)]
    BY DEF TypeOK
  <2> QED
    BY <2>1, <2>2, ChainsStay
<1>6. \A c \in InIndex : owner[PageOf[c]] # Free
  <2>1. \A w \in Heads : w[1] # 0
    BY IndexAssumption DEF Heads
  <2> QED
    BY <2>1, IndexIs DEF EntryInv, Free, Abandoned
<1>7. EntryInv'
  <2>1. \A c \in InIndex : owner'[PageOf[c]] = owner[PageOf[c]]
    BY <1>1, <1>3, <1>4, <1>6
  <2>2. \A c \in InIndex : entry[c].value \in Values
    BY IndexIs DEF EntryInv
  <2> QED
    BY <1>1, <1>3, <1>4, <1>5, <2>1, <2>2, EntriesStay
<1>8. \A w \in Heads : Grows(Chain(w), Chain(w)')
  BY <1>5, SameGrows
<1>9. \A u \in Threads : u # t => Sound(u)'
  <2>1. ASSUME NEW u \in Threads, u # t, Putting(u), NEW c, c = loc[u].obj
        PROVE  /\ c \notin InIndex' /\ c \in taken' /\ owner'[PageOf[c]] = owner[PageOf[c]]
               /\ word'[c] = word[c] /\ entry'[c] = entry[c] /\ header'[c] = header[c]
    <3>1. c \in Blocks /\ c \in taken /\ c \notin InIndex /\ owner[PageOf[c]] = u
      BY <2>1, NewBlock
    <3>2. u # Free /\ PageOf[c] # PageOf[b] /\ c # b /\ c \in Places
      BY <1>1, <2>1, <3>1, HeadIs, IndexAssumption DEF Free
    <3> QED
      BY <1>1, <1>3, <1>4, <1>5, <3>1, <3>2
  <2>2. \A p \in Heads \cup InIndex : word'[p] = word[p]
    BY <1>3, <1>4
  <2>3. \A c \in InIndex : entry'[c].key = entry[c].key
    BY <1>3, <1>4
  <2> QED
    BY <1>1, <1>4, <1>5, <1>8, <2>1, <2>2, <2>3, Others
<1>10. Sound(t)'
  <2>1. LogsPast(t)'
    <3>1. ~Logged(t)
      BY <1>1 DEF Logged
    <3>2. LogsPast(t)
      BY <3>1 DEF Sound
    <3>3. log'[t] = log[t] \/ log'[t].obj = Null
      BY <1>2 DEF TypeOK, NoLog
    <3>4. \A p \in Heads \cup InIndex : word'[p] = word[p]
      BY <1>3, <1>4
    <3> QED
      BY <1>5, <3>2, <3>3, <3>4 DEF LogsPast, Heads
  <2>2. PutsAtEnd(t)'
    <3>1. \A c \in In(HeadOf(k)) : c \in InIndex /\ c # b
      BY <1>3, ChainFacts
    <3>2. Matches(HeadOf(k), k)' = {}
      <4>1. In(HeadOf(k))' = In(HeadOf(k))
        <5>1. PICK w \in Heads : w = HeadOf(k)
          BY <1>3
        <5> QED
          BY <1>5, <5>1 DEF HeadOf
      <4>2. \A c \in In(HeadOf(k)) : entry'[c].key # k
        BY <1>1, <1>3, <1>4, <3>1 DEF Matches, In
      <4> QED
        BY <4>1, <4>2 DEF Matches, In
    <3>3. ChainEnd(HeadOf(k))' = ChainEnd(HeadOf(k))
      <4>1. PICK w \in Heads : w = HeadOf(k)
        BY <1>3
      <4> QED
        BY <1>5, <4>1 DEF HeadOf
    <3>4. /\ loc'[t].key = k /\ loc'[t].obj = b /\ loc'[t].place = ChainEnd(HeadOf(k))
          /\ pc'[t] # "store" /\ b \in taken' /\ b \notin InIndex' /\ owner'[PageOf[b]] = t
          /\ word'[b] = Null /\ entry'[b].key = k /\ entry'[b].value \in Values
          /\ header'[b] = [cid |-> t, cnt |-> 0, era |-> era'[t]]
      BY <1>1, <1>3, <1>4, <1>5
    <3> QED
      BY <1>1, <3>2, <3>3, <3>4 DEF PutsAtEnd, HeadOf
  <2> QED
    BY <1>1, <1>4, <2>1, <2>2 DEF Sound, Logged
<1> QED
  BY <1>3, <1>4, <1>5, <1>7, <1>9, <1>10, SoundIsNext

(* The log is written: what it says is under way.                          *)
LEMMA LogSafe ==
  ASSUME IInv, TypeOK', NEW t \in Threads, Log(t)
  PROVE  IInv' /\ \A w \in Heads : Chain(w)' = Chain(w)
<1> TypeOK /\ ChainInv /\ EntryInv /\ (\A u \in Threads : Sound(u))
  BY SoundIs
<1> USE DEF At, Goto
<1>1. /\ word' = word /\ entry' = entry /\ header' = header /\ taken' = taken /\ owner' = owner
      /\ era' = era /\ loc' = loc /\ mode' = mode /\ pc[t] = "log" /\ mode[t] = "live"
      /\ log' = [log EXCEPT ![t] = [place |-> loc[t].place, obj |-> loc[t].obj, era |-> era[t]]]
      /\ pc' = [pc EXCEPT ![t] = "swap"]
  BY DEF Log, store, mem
<1>2. /\ pc'[t] = "swap" /\ \A u \in Threads : u # t => pc'[u] = pc[u] /\ log'[u] = log[u]
      /\ log'[t] = [place |-> loc[t].place, obj |-> loc[t].obj, era |-> era[t]]
  BY <1>1 DEF TypeOK
<1>3. /\ ChainInv' /\ InIndex' = InIndex
      /\ \A w \in Heads : Chain(w)' = Chain(w) /\ In(w)' = In(w) /\ ChainEnd(w)' = ChainEnd(w)
  BY <1>1, ChainsStay DEF TypeOK
<1>4. EntryInv'
  BY <1>1, <1>3 DEF EntryInv, HeadOf
<1>5. \A w \in Heads : Grows(Chain(w), Chain(w)')
  BY <1>3, SameGrows
<1>6. \A u \in Threads : u # t => Sound(u)'
  BY <1>1, <1>2, <1>3, <1>5, NewBlock, Others
<1>7. Sound(t)'
  <2>1. Putting(t) /\ PutsAtEnd(t)
    BY <1>1 DEF Putting, Sound
  <2>2. PutsAtEnd(t)'
    <3>1. Matches(HeadOf(loc[t].key), loc[t].key)' = Matches(HeadOf(loc[t].key), loc[t].key)
      BY <1>1 DEF Matches, HeadOf, Chain, Onward
    <3>2. ChainEnd(HeadOf(loc[t].key))' = ChainEnd(HeadOf(loc[t].key))
      BY <1>1 DEF ChainEnd, HeadOf, Chain, Onward
    <3> QED
      BY <1>1, <1>2, <1>3, <2>1, <3>1, <3>2 DEF PutsAtEnd, HeadOf
  <2>3. LogsNext(t)'
    BY <1>1, <1>2 DEF LogsNext
  <2> QED
    BY <1>1, <1>2, <2>2, <2>3 DEF Sound, Logged
<1> QED
  BY <1>3, <1>4, <1>6, <1>7, SoundIsNext

(* Steps that leave the memory as it is, and what becomes of the log line  *)
(* of their thread when no log is under way.                               *)
LEMMA Still ==
  ASSUME IInv, NEW t \in Threads, UNCHANGED <<store, mem, era>>,
         \A u \in Threads : u # t => /\ pc'[u] = pc[u] /\ loc'[u] = loc[u]
                                     /\ log'[u] = log[u] /\ mode'[u] = mode[u]
  PROVE  /\ ChainInv' /\ EntryInv' /\ InIndex' = InIndex
         /\ \A w \in Heads : Chain(w)' = Chain(w) /\ In(w)' = In(w) /\ ChainEnd(w)' = ChainEnd(w)
         /\ \A w \in Heads : Grows(Chain(w), Chain(w)')
         /\ \A u \in Threads : u # t => Sound(u)'
         /\ ~Logged(t) /\ ~Logged(t)' /\ log'[t] = log[t] =>
              (IF Logged(t) THEN LogsNext(t) ELSE LogsPast(t))'
<1> TypeOK /\ ChainInv /\ EntryInv /\ (\A u \in Threads : Sound(u))
  BY SoundIs
<1>1. /\ word' = word /\ entry' = entry /\ header' = header /\ taken' = taken /\ owner' = owner
      /\ era' = era
  BY DEF store, mem
<1>2. /\ ChainInv' /\ InIndex' = InIndex
      /\ \A w \in Heads : Chain(w)' = Chain(w) /\ In(w)' = In(w) /\ ChainEnd(w)' = ChainEnd(w)
  BY <1>1, ChainsStay DEF TypeOK
<1>3. EntryInv'
  BY <1>1, <1>2 DEF EntryInv, HeadOf
<1>4. \A w \in Heads : Grows(Chain(w), Chain(w)')
  BY <1>2, SameGrows
<1>5. \A u \in Threads : u # t => Sound(u)'
  BY <1>1, <1>2, <1>4, NewBlock, Others
<1>6. ~Logged(t) /\ ~Logged(t)' /\ log'[t] = log[t] =>
        (IF Logged(t) THEN LogsNext(t) ELSE LogsPast(t))'
  <2> SUFFICES ASSUME ~Logged(t), ~Logged(t)', log'[t] = log[t] PROVE LogsPast(t)'
    OBVIOUS
  <2>1. LogsPast(t)
    BY DEF Sound
  <2> QED
    BY <1>1, <1>2, <2>1 DEF LogsPast, Heads
<1> QED
  BY <1>2, <1>3, <1>4, <1>5, <1>6

(* A get begins at the bucket.                                             *)
LEMMA GetSafe ==
  ASSUME IInv, TypeOK', NEW t \in Threads, NEW k \in Keys, Get(t, k)
  PROVE  IInv' /\ \A w \in Heads : Chain(w)' = Chain(w)
<1> TypeOK
  BY SoundIs
<1>1. /\ UNCHANGED <<store, mem, era>> /\ log' = log /\ mode' = mode
      /\ loc' = [loc EXCEPT ![t] = [key |-> k, place |-> HeadOf(k), obj |-> Null]]
      /\ pc' = [pc EXCEPT ![t] = "read"] /\ pc[t] = "idle" /\ mode[t] = "live"
  BY DEF Get, At, Goto
<1>2. /\ pc'[t] = "read" /\ loc'[t] = [key |-> k, place |-> HeadOf(k), obj |-> Null]
      /\ \A u \in Threads : u # t => pc'[u] = pc[u] /\ loc'[u] = loc[u]
  BY <1>1 DEF TypeOK
<1>3. ~Logged(t) /\ ~Logged(t)' /\ ~Putting(t)'
  BY <1>1, <1>2 DEF Logged, Putting
<1>4. /\ ChainInv' /\ EntryInv' /\ \A w \in Heads : Chain(w)' = Chain(w)
      /\ \A u \in Threads : u # t => Sound(u)'
      /\ (IF Logged(t) THEN LogsNext(t) ELSE LogsPast(t))'
  BY <1>1, <1>2, <1>3, Still
<1>5. ReadsPast(t)'
  BY <1>2 DEF ReadsPast, HeadOf
<1>6. Sound(t)'
  BY <1>1, <1>2, <1>3, <1>4, <1>5 DEF Sound
<1> QED
  BY <1>4, <1>6, SoundIsNext

(* It goes on to the next entry, or has found one, or none.                *)
LEMMA ReadSafe ==
  ASSUME IInv, TypeOK', NEW t \in Threads, Read(t)
  PROVE  IInv' /\ \A w \in Heads : Chain(w)' = Chain(w)
<1> TypeOK /\ ChainInv /\ EntryInv /\ (\A u \in Threads : Sound(u))
  BY SoundIs
<1> DEFINE b == word[loc[t].place]
<1>1. /\ UNCHANGED <<store, mem, era>> /\ log' = log /\ mode' = mode
      /\ word' = word /\ entry' = entry
      /\ pc[t] = "read" /\ mode[t] = "live"
  BY DEF Read, At, store
<1>2. \/ b = Null /\ Leave(t)
      \/ b # Null /\ entry[b].key = loc[t].key /\ Goto(t, "value") /\ loc' = [loc EXCEPT ![t].obj = b]
      \/ b # Null /\ entry[b].key # loc[t].key /\ loc' = [loc EXCEPT ![t].place = b] /\ pc' = pc
  BY DEF Read
<1>3. PICK k, w : k = loc[t].key /\ w = HeadOf(k)
  OBVIOUS
<1>4. k \in Keys /\ w \in Heads /\ ReadsPast(t)
  BY <1>1, <1>3, HeadIs DEF Sound
<1>5. \A u \in Threads : u # t => pc'[u] = pc[u] /\ loc'[u] = loc[u]
  BY <1>2 DEF TypeOK, Leave, Goto
<1>6. pc'[t] \in {"idle", "value", "read"}
  BY <1>1, <1>2 DEF TypeOK, Leave, Goto
<1>7. ~Logged(t) /\ ~Logged(t)' /\ ~Putting(t)'
  BY <1>1, <1>6 DEF Logged, Putting
<1>8. /\ ChainInv' /\ EntryInv' /\ \A v \in Heads : Chain(v)' = Chain(v) /\ In(v)' = In(v)
      /\ \A u \in Threads : u # t => Sound(u)'
      /\ (IF Logged(t) THEN LogsNext(t) ELSE LogsPast(t))'
  BY <1>1, <1>5, <1>7, Still
<1> DEFINE s == Chain(w)
<1>9. /\ Len(s) \in Nat /\ (s = <<>> <=> word[w] = Null) /\ (s # <<>> => Len(s) > 0 /\ word[w] = s[1])
      /\ In(w) = {s[i] : i \in 1..Len(s)} /\ \A i \in 1..Len(s) : s[i] \in In(w)
      /\ \A i \in 1..Len(s) : i < Len(s) => word[s[i]] = s[i + 1]
      /\ \A i \in 1..Len(s) : i = Len(s) => word[s[i]] = Null
  BY <1>4, ChainFacts
<1> HIDE DEF s
<1>10. ASSUME b # Null
       PROVE  \E i \in 1..Len(s) : b = s[i] /\ \A j \in 1..i : j = i \/ entry[s[j]].key # k
  <2>1. CASE loc[t].place = w
    <3>1. s # <<>> /\ b = s[1] /\ 1 \in 1..Len(s)
      BY <1>9, <1>10, <2>1
    <3> QED
      BY <3>1
  <2>2. CASE loc[t].place # w
    <3>1. PICK i \in 1..Len(s) : loc[t].place = s[i] /\ \A j \in 1..i : entry[s[j]].key # k
      BY <1>3, <1>4, <2>2 DEF ReadsPast, s
    <3>2. i < Len(s) /\ b = s[i + 1] /\ i + 1 \in 1..Len(s)
      BY <1>9, <1>10, <3>1
    <3>3. \A j \in 1..(i + 1) : j = i + 1 \/ j \in 1..i
      OBVIOUS
    <3> QED
      BY <3>1, <3>2, <3>3
  <2> QED
    BY <2>1, <2>2
<1>11. Sound(t)'
  <2>1. CASE b = Null
    <3>1. pc'[t] = "idle"
      BY <1>2, <2>1 DEF Leave, Goto, TypeOK
    <3> QED
      BY <1>1, <1>7, <1>8, <3>1 DEF Sound
  <2>2. CASE b # Null /\ entry[b].key = k
    <3>1. pc'[t] = "value" /\ loc'[t] = [loc[t] EXCEPT !.obj = b]
      BY <1>2, <1>3, <2>2 DEF Goto, TypeOK
    <3>2. loc'[t].key = k /\ loc'[t].place = loc[t].place /\ loc'[t].obj = b
      BY <1>3, <3>1 DEF TypeOK
    <3>3. b \in In(w) /\ loc[t].place \in {w} \cup In(w)
      BY <1>3, <1>4, <1>9, <1>10, <2>2 DEF ReadsPast, s
    <3>4. In(HeadOf(k))' = In(w) /\ HeadOf(k) = w
      <4>1. In(HeadOf(k))' = In(w)' /\ HeadOf(k) = w
        BY <1>3 DEF HeadOf
      <4> QED
        BY <1>4, <1>8, <4>1
    <3>5. HasFound(t)'
      BY <1>1, <2>2, <3>2, <3>3, <3>4 DEF HasFound, HeadOf
    <3> QED
      BY <1>1, <1>4, <1>7, <1>8, <3>1, <3>2, <3>5 DEF Sound
  <2>3. CASE b # Null /\ entry[b].key # k
    <3>1. pc'[t] = "read" /\ loc'[t] = [loc[t] EXCEPT !.place = b]
      BY <1>1, <1>2, <1>3, <2>3 DEF TypeOK
    <3>2. loc'[t].key = k /\ loc'[t].place = b /\ loc'[t].obj = Null
      BY <1>3, <1>4, <3>1 DEF TypeOK, ReadsPast
    <3>3. Chain(HeadOf(k))' = s
      <4>1. Chain(HeadOf(k))' = Chain(w)'
        BY <1>3 DEF HeadOf
      <4> QED
        BY <1>4, <1>8, <4>1 DEF s
    <3>4. PICK i \in 1..Len(s) : b = s[i] /\ \A j \in 1..i : j = i \/ entry[s[j]].key # k
      BY <1>10, <2>3
    <3>5. \A j \in 1..i : entry[s[j]].key # k
      BY <2>3, <3>4
    <3>6. ReadsPast(t)'
      BY <1>1, <3>2, <3>3, <3>4, <3>5 DEF ReadsPast
    <3> QED
      BY <1>1, <1>4, <1>7, <1>8, <3>1, <3>2, <3>6 DEF Sound
  <2> QED
    BY <2>1, <2>2, <2>3
<1> QED
  BY <1>8, <1>11, SoundIsNext

(* A get returns, a thread stops.                                          *)
LEMMA ValueSafe ==
  ASSUME IInv, TypeOK', NEW t \in Threads, Value(t)
  PROVE  IInv' /\ \A w \in Heads : Chain(w)' = Chain(w)
<1> TypeOK
  BY SoundIs
<1>1. /\ UNCHANGED <<store, mem, era>> /\ log' = log /\ mode' = mode
      /\ pc' = [pc EXCEPT ![t] = "idle"] /\ loc' = [loc EXCEPT ![t] = NoLocals]
      /\ pc[t] = "value" /\ mode[t] = "live"
  BY DEF Value, At, Goto, Leave
<1>2. pc'[t] = "idle" /\ \A u \in Threads : u # t => pc'[u] = pc[u] /\ loc'[u] = loc[u]
  BY <1>1 DEF TypeOK
<1>3. ~Logged(t) /\ ~Logged(t)' /\ ~Putting(t)'
  BY <1>1, <1>2 DEF Logged, Putting
<1>4. /\ ChainInv' /\ EntryInv' /\ \A w \in Heads : Chain(w)' = Chain(w)
      /\ \A u \in Threads : u # t => Sound(u)'
      /\ (IF Logged(t) THEN LogsNext(t) ELSE LogsPast(t))'
  BY <1>1, <1>2, <1>3, Still
<1>5. Sound(t)'
  BY <1>1, <1>2, <1>3, <1>4 DEF Sound
<1> QED
  BY <1>4, <1>5, SoundIsNext

(* A thread that stops stands where it stood.                              *)
LEMMA Unmoved ==
  ASSUME NEW t \in Threads, UNCHANGED <<word, entry, header, taken, owner, era, log, pc, loc>>
  PROVE  /\ (Putting(t)' <=> Putting(t)) /\ (Logged(t)' <=> Logged(t))
         /\ (PutsAtEnd(t)' <=> PutsAtEnd(t)) /\ (ReadsPast(t)' <=> ReadsPast(t))
         /\ (HasFound(t)' <=> HasFound(t))
         /\ (LogsNext(t)' <=> LogsNext(t)) /\ (LogsPast(t)' <=> LogsPast(t))
<1>1. (Putting(t)' <=> Putting(t)) /\ (Logged(t)' <=> Logged(t))
  BY DEF Putting, Logged
<1>2. PutsAtEnd(t)' <=> PutsAtEnd(t)
  BY DEF PutsAtEnd, Matches, ChainEnd, InIndex, Chain, Onward, HeadOf
<1>3. ReadsPast(t)' <=> ReadsPast(t)
  BY DEF ReadsPast, Chain, Onward, HeadOf
<1>4. HasFound(t)' <=> HasFound(t)
  BY DEF HasFound, In, Chain, Onward, HeadOf
<1>5. (LogsNext(t)' <=> LogsNext(t)) /\ (LogsPast(t)' <=> LogsPast(t))
  BY DEF LogsNext, LogsPast, InIndex, Chain, Onward, Heads
<1> QED
  BY <1>1, <1>2, <1>3, <1>4, <1>5

LEMMA CrashSafe ==
  ASSUME IInv, TypeOK', ~FaultBeforeSwap, NEW t \in Threads, Crash(t)
  PROVE  IInv' /\ \A w \in Heads : Chain(w)' = Chain(w)
<1> TypeOK /\ ChainInv /\ EntryInv /\ (\A u \in Threads : Sound(u))
  BY SoundIs
<1>1. /\ UNCHANGED <<store, mem, era>> /\ log' = log /\ pc' = pc /\ loc' = loc
      /\ mode' = [mode EXCEPT ![t] = "crashed"] /\ pc[t] # "swap"
      /\ word' = word /\ entry' = entry /\ header' = header /\ taken' = taken /\ owner' = owner
      /\ era' = era
  BY DEF Crash, store, mem
<1>2. mode'[t] = "crashed" /\ \A u \in Threads : u # t => mode'[u] = mode[u]
  BY <1>1 DEF TypeOK
<1>3. /\ ChainInv' /\ EntryInv' /\ InIndex' = InIndex
      /\ \A w \in Heads : Chain(w)' = Chain(w)
      /\ \A u \in Threads : u # t => Sound(u)'
  BY <1>1, <1>2, Still
<1>4. Sound(t)'
  <2>1. Sound(t)
    OBVIOUS
  <2>6. mode'[t] \notin {"recover", "gone"} /\ pc'[t] # "swap"
    BY <1>1, <1>2
  <2> QED
    BY <1>1, <2>1, <2>6, Unmoved DEF Sound
<1> QED
  BY <1>3, <1>4, SoundIsNext

(* The swap: the new entry counts.                                         *)
LEMMA SwapSafe ==
  ASSUME IInv, TypeOK', NEW t \in Threads, Swap(t)
  PROVE  IInv' /\ \A w \in Heads : Chain(w)' = Chain(w)
<1> TypeOK /\ ChainInv /\ EntryInv /\ (\A u \in Threads : Sound(u))
  BY SoundIs
<1> DEFINE b == loc[t].obj
<1>1. /\ word' = word /\ entry' = entry /\ taken' = taken /\ owner' = owner
      /\ era' = era /\ log' = log /\ loc' = loc /\ mode' = mode
      /\ pc[t] = "swap" /\ mode[t] = "live" /\ pc' = [pc EXCEPT ![t] = "store"]
      /\ header' = [header EXCEPT ![b] = [cid |-> t, cnt |-> header[b].cnt + 1, era |-> era[t]]]
  BY DEF Swap, At, Goto, store
<1>2. Putting(t) /\ PutsAtEnd(t) /\ Logged(t) /\ LogsNext(t)
  BY <1>1 DEF Putting, Logged, Sound
<1>3. /\ b \in Blocks /\ b \notin InIndex
      /\ header[b] = [cid |-> t, cnt |-> 0, era |-> era[t]]
  BY <1>1, <1>2, NewBlock DEF PutsAtEnd
<1>4. /\ pc'[t] = "store" /\ \A u \in Threads : u # t => pc'[u] = pc[u]
      /\ header'[b] = [cid |-> t, cnt |-> 1, era |-> era[t]]
      /\ \A c \in Blocks : c # b => header'[c] = header[c]
  BY <1>1, <1>3 DEF TypeOK
<1>5. /\ ChainInv' /\ InIndex' = InIndex
      /\ \A w \in Heads : Chain(w)' = Chain(w) /\ In(w)' = In(w) /\ ChainEnd(w)' = ChainEnd(w)
  BY <1>1, ChainsStay DEF TypeOK
<1>6. EntryInv'
  <2>1. \A c \in InIndex : entry[c].value \in Values /\ c \in taken
    BY IndexIs DEF EntryInv
  <2>2. \A c \in InIndex : header'[c] = header[c]
    BY <1>3, <1>4, NullIs
  <2> QED
    BY <1>1, <1>5, <2>1, <2>2, EntriesStay
<1>7. \A w \in Heads : Grows(Chain(w), Chain(w)')
  BY <1>5, SameGrows
<1>8. \A u \in Threads : u # t => Sound(u)'
  <2>1. \A u \in Threads : u # t /\ Putting(u) => loc[u].obj # b /\ loc[u].obj \in Blocks
    BY <1>2, NewBlock, TwoBlocks
  <2>2. \A u \in Threads : u # t /\ Putting(u) => header'[loc[u].obj] = header[loc[u].obj]
    BY <1>4, <2>1
  <2> HIDE DEF b
  <2> QED
    BY <1>1, <1>4, <1>5, <1>7, <2>2, NewBlock, Others
<1>9. Sound(t)'
  <2>1. PutsAtEnd(t)'
    <3>1. Matches(HeadOf(loc[t].key), loc[t].key)' = Matches(HeadOf(loc[t].key), loc[t].key)
      BY <1>1 DEF Matches, HeadOf, Chain, Onward
    <3>2. ChainEnd(HeadOf(loc[t].key))' = ChainEnd(HeadOf(loc[t].key))
      BY <1>1 DEF ChainEnd, HeadOf, Chain, Onward
    <3>3. header'[loc'[t].obj] = [cid |-> t, cnt |-> IF pc'[t] = "store" THEN 1 ELSE 0, era |-> era'[t]]
      BY <1>1, <1>4
    <3> QED
      BY <1>1, <1>2, <1>5, <3>1, <3>2, <3>3 DEF PutsAtEnd, HeadOf
  <2>2. LogsNext(t)'
    BY <1>1, <1>2 DEF LogsNext
  <2> QED
    BY <1>1, <1>4, <2>1, <2>2 DEF Sound, Logged
<1> QED
  BY <1>5, <1>6, <1>8, <1>9, SoundIsNext

-----------------------------------------------------------------------------
(* The entry comes into the chain, by its thread or by the monitor.        *)
LEMMA LinkSafe ==
  ASSUME IInv, TypeOK', NEW t \in Threads, pc[t] = "store",
         word' = [word EXCEPT ![loc[t].place] = loc[t].obj],
         UNCHANGED <<entry, header, taken, owner, log>>,
         pc' = [pc EXCEPT ![t] = "idle"],
         \A u \in Threads : u # t => /\ loc'[u] = loc[u] /\ era'[u] = era[u] /\ mode'[u] = mode[u]
  PROVE  LET h == HeadOf(loc[t].key)
         IN /\ IInv' /\ h \in Heads /\ loc[t].obj \in Blocks /\ loc[t].obj \notin InIndex
            /\ \A w \in Heads : w # h => Chain(w)' = Chain(w)
            /\ \A w \in Heads : w = h => Chain(w)' = Append(Chain(w), loc[t].obj)
<1> TypeOK /\ ChainInv /\ EntryInv /\ (\A u \in Threads : Sound(u))
  BY SoundIs
<1>1. Putting(t) /\ PutsAtEnd(t) /\ Logged(t) /\ LogsNext(t)
  BY DEF Putting, Logged, Sound
<1>2. PICK b, h, k : b = loc[t].obj /\ k = loc[t].key /\ h = HeadOf(k)
  OBVIOUS
<1>3. /\ b \in Blocks /\ b \notin InIndex /\ b \in taken /\ owner[PageOf[b]] = t
      /\ word[b] = Null /\ h \in Heads /\ h[1] = t /\ k \in Keys
      /\ loc[t].place = ChainEnd(h) /\ entry[b].key = k /\ entry[b].value \in Values
      /\ header[b].cnt = 1 /\ Matches(h, k) = {}
      /\ log[t].place = ChainEnd(h) /\ log[t].obj = b
  BY <1>1, <1>2, NewBlock DEF PutsAtEnd, LogsNext
<1>4. word' = [word EXCEPT ![ChainEnd(h)] = b]
  BY <1>2, <1>3
<1>5. /\ ChainInv'
      /\ \A w \in Heads : w # h => Chain(w)' = Chain(w) /\ In(w)' = In(w)
      /\ Chain(h)' = Append(Chain(h), b) /\ In(h)' = In(h) \cup {b}
      /\ \A w \in Heads : Grows(Chain(w), Chain(w)')
      /\ InIndex' = InIndex \cup {b}
      /\ word'[ChainEnd(h)] = b /\ ChainEnd(h) \in Heads \cup InIndex
      /\ \A p \in Heads \cup InIndex : word[p] # Null => word'[p] = word[p]
  <2>1. h \in Heads /\ b \in Blocks /\ b \notin InIndex /\ word[b] = Null
    BY <1>3
  <2> QED
    BY <1>4, <2>1, AppendIs
<1>6. /\ entry' = entry /\ header' = header /\ taken' = taken /\ owner' = owner /\ log' = log
      /\ pc'[t] = "idle" /\ \A u \in Threads : u # t => pc'[u] = pc[u]
  BY DEF TypeOK
<1>7. EntryInv'
  <2>1. ASSUME NEW w \in Heads, NEW c \in In(w)'
        PROVE  /\ entry[c].key \in Keys /\ HeadOf(entry[c].key) = w /\ entry[c].value \in Values
               /\ \A d \in In(w)' : entry[c].key = entry[d].key => c = d
               /\ c \in taken /\ header[c].cnt = 1 /\ owner[PageOf[c]] \in {w[1], Abandoned}
    <3>1. CASE w # h
      <4>1. In(w)' = In(w)
        BY <1>5, <3>1
      <4> QED
        BY <4>1 DEF EntryInv
    <3>2. CASE w = h
      <4>1. \A d \in In(h) : entry[d].key # k
        BY <1>3 DEF Matches, In
      <4>2. In(w)' = In(h) \cup {b}
        BY <1>5, <3>2
      <4> QED
        BY <1>2, <1>3, <3>2, <4>1, <4>2 DEF EntryInv
    <3> QED
      BY <3>1, <3>2
  <2> QED
    BY <1>6, <2>1 DEF EntryInv, HeadOf
<1>8. \A u \in Threads : u # t => Sound(u)'
  <2>1. \A w \in Heads : w[1] # t => Chain(w)' = Chain(w)
    BY <1>3, <1>5
  <2>2. ASSUME NEW u \in Threads, u # t, Putting(u), NEW c, c = loc[u].obj
        PROVE  /\ c \notin InIndex' /\ c \in taken' /\ owner'[PageOf[c]] = owner[PageOf[c]]
               /\ word'[c] = word[c] /\ entry'[c] = entry[c] /\ header'[c] = header[c]
    <3>1. c \in Blocks /\ c \in taken /\ c \notin InIndex /\ c # b
      BY <1>1, <1>2, <2>2, NewBlock, TwoBlocks
    <3>2. c # ChainEnd(h) /\ c \in Places
      BY <1>5, <3>1, HeadIs
    <3> QED
      BY <1>4, <1>5, <1>6, <3>1, <3>2 DEF TypeOK
  <2> QED
    BY <1>5, <1>6, <2>1, <2>2, Others
<1>9. Sound(t)'
  <2>1. LogsPast(t)'
    BY <1>3, <1>5, <1>6 DEF LogsPast, Heads
  <2> QED
    BY <1>6, <2>1 DEF Sound, Putting, Logged
<1> QED
  BY <1>2, <1>3, <1>5, <1>7, <1>8, <1>9, SoundIsNext

LEMMA StoreSafe ==
  ASSUME IInv, TypeOK', NEW t \in Threads, Store(t)
  PROVE  IInv'
<1>1. /\ pc[t] = "store" /\ word' = [word EXCEPT ![loc[t].place] = loc[t].obj]
      /\ UNCHANGED <<entry, header, taken, owner, log>>
      /\ pc' = [pc EXCEPT ![t] = "idle"]
      /\ loc' = [loc EXCEPT ![t] = NoLocals] /\ era' = [era EXCEPT ![t] = @ + 1] /\ mode' = mode
  BY DEF Store, At, Goto, Leave, mem
<1>2. \A u \in Threads : u # t => /\ loc'[u] = loc[u] /\ era'[u] = era[u] /\ mode'[u] = mode[u]
  BY <1>1 DEF IInv, TypeOK
<1> QED
  BY <1>1, <1>2, LinkSafe

-----------------------------------------------------------------------------
(* The monitor.                                                            *)

(* The redo stores what its thread had swapped in, and else nothing new.   *)
LEMMA RedoIs ==
  ASSUME IInv, NEW t \in Threads, Redo(t)
  PROVE  /\ pc[t] = "store" => word' = [word EXCEPT ![loc[t].place] = loc[t].obj]
         /\ pc[t] # "store" => word' = word /\ ~Logged(t)
<1> TypeOK /\ ChainInv /\ EntryInv /\ (\A u \in Threads : Sound(u))
  BY SoundIs
<1>1. /\ mode[t] = "crashed" /\ pc[t] # "swap"
      /\ word' = IF NeedRedo(t) THEN [word EXCEPT ![log[t].place] = log[t].obj] ELSE word
  BY DEF Redo, Sound
<1>2. CASE pc[t] = "store"
  <2>1. Putting(t) /\ PutsAtEnd(t) /\ Logged(t) /\ LogsNext(t)
    BY <1>2 DEF Putting, Logged, Sound
  <2>2. loc[t].obj \in Blocks /\ Null \notin Blocks
    BY <2>1, NewBlock, IndexAssumption
  <2>3. log[t].place = loc[t].place /\ log[t].obj = loc[t].obj /\ log[t].era = era[t]
    BY <2>1 DEF LogsNext
  <2>4. header[loc[t].obj].cid = t /\ header[loc[t].obj].era = era[t]
    BY <2>1 DEF PutsAtEnd
  <2>5. NeedRedo(t)
    BY <2>2, <2>3, <2>4 DEF NeedRedo
  <2> QED
    BY <1>1, <1>2, <2>3, <2>5
<1>3. CASE pc[t] # "store"
  <2>1. ~Logged(t) /\ LogsPast(t)
    BY <1>1, <1>3 DEF Logged, Sound
  <2>2. NeedRedo(t) => [word EXCEPT ![log[t].place] = log[t].obj] = word
    BY <2>1, IndexIs, HeadIs DEF NeedRedo, LogsPast, TypeOK
  <2> QED
    BY <1>1, <1>3, <2>1, <2>2
<1> QED
  BY <1>2, <1>3

LEMMA RedoSafe ==
  ASSUME IInv, TypeOK', NEW t \in Threads, Redo(t)
  PROVE  IInv'
<1> TypeOK
  BY SoundIs
<1>1. /\ UNCHANGED <<entry, header, taken, owner, era, log>>
      /\ mode' = [mode EXCEPT ![t] = "recover"]
      /\ pc' = [pc EXCEPT ![t] = "idle"] /\ loc' = [loc EXCEPT ![t] = NoLocals]
  BY DEF Redo, Leave, Goto, mem
<1>2. /\ pc'[t] = "idle" /\ mode'[t] = "recover"
      /\ \A u \in Threads : u # t => pc'[u] = pc[u] /\ loc'[u] = loc[u] /\ mode'[u] = mode[u]
  BY <1>1 DEF TypeOK
<1>3. CASE pc[t] = "store"
  BY <1>1, <1>2, <1>3, RedoIs, LinkSafe
<1>4. CASE pc[t] # "store"
  <2>1. UNCHANGED <<store, mem, era>> /\ ~Logged(t) /\ ~Logged(t)' /\ ~Putting(t)'
    BY <1>1, <1>2, <1>4, RedoIs DEF store, mem, Logged, Putting
  <2>2. /\ ChainInv' /\ EntryInv' /\ \A u \in Threads : u # t => Sound(u)'
        /\ (IF Logged(t) THEN LogsNext(t) ELSE LogsPast(t))'
    BY <1>1, <1>2, <2>1, Still
  <2>3. Sound(t)'
    BY <1>2, <2>1, <2>2 DEF Sound
  <2> QED
    BY <2>2, <2>3, SoundIsNext
<1> QED
  BY <1>3, <1>4

(* A page in which an entry counts is kept; no other has an entry.         *)
LEMMA CollectSafe ==
  ASSUME IInv, TypeOK', NEW t \in Threads, NEW p \in Pages, Collect(t, p)
  PROVE  IInv' /\ \A w \in Heads : Chain(w)' = Chain(w)
<1> TypeOK /\ ChainInv /\ EntryInv /\ (\A u \in Threads : Sound(u))
  BY SoundIs
<1>1. /\ word' = word /\ entry' = entry /\ era' = era /\ log' = log /\ pc' = pc /\ loc' = loc
      /\ mode' = mode /\ mode[t] = "recover" /\ owner[p] = t
      /\ \/ Counted(p) /\ owner' = [owner EXCEPT ![p] = Abandoned] /\ taken' = taken /\ header' = header
         \/ /\ ~Counted(p) /\ owner' = [owner EXCEPT ![p] = Free] /\ taken' = taken \ BlocksOf(p)
            /\ header' = [b \in Blocks |-> IF PageOf[b] = p THEN Blank ELSE header[b]]
  BY DEF Collect, store
<1>2. pc[t] = "idle"
  BY <1>1 DEF Sound
<1>3. \A q \in Pages : q # p => owner'[q] = owner[q]
  BY <1>1 DEF TypeOK
<1>4. \A b \in taken : PageOf[b] # p => b \in taken' /\ header'[b] = header[b]
  BY <1>1 DEF TypeOK, BlocksOf
<1>5. /\ ChainInv' /\ InIndex' = InIndex
      /\ \A w \in Heads : Chain(w)' = Chain(w) /\ In(w)' = In(w) /\ ChainEnd(w)' = ChainEnd(w)
  BY <1>1, ChainsStay DEF TypeOK
<1>6. ASSUME NEW b \in InIndex
      PROVE  /\ b \in taken' /\ header'[b] = header[b] /\ entry[b].value \in Values
             /\ owner'[PageOf[b]] = owner[PageOf[b]] \/ owner'[PageOf[b]] = Abandoned
  <2>1. b \in Blocks /\ b \in taken /\ header[b].cnt = 1 /\ entry[b].value \in Values /\ PageOf[b] \in Pages
    BY NullIs, IndexIs, IndexAssumption DEF EntryInv
  <2>2. CASE PageOf[b] # p
    BY <1>3, <1>4, <2>1, <2>2
  <2>3. CASE PageOf[b] = p
    <3>1. Counted(p)
      BY <2>1, <2>3 DEF Counted, BlocksOf
    <3> QED
      BY <1>1, <2>1, <2>3, <3>1 DEF TypeOK
  <2> QED
    BY <2>2, <2>3
<1>7. EntryInv'
  BY <1>1, <1>5, <1>6, EntriesStay
<1>8. \A w \in Heads : Grows(Chain(w), Chain(w)')
  BY <1>5, SameGrows
<1>9. \A u \in Threads : u # t => Sound(u)'
  <2>1. ASSUME NEW u \in Threads, u # t, Putting(u), NEW c, c = loc[u].obj
        PROVE  /\ c \notin InIndex' /\ c \in taken' /\ owner'[PageOf[c]] = owner[PageOf[c]]
               /\ word'[c] = word[c] /\ entry'[c] = entry[c] /\ header'[c] = header[c]
    <3>1. c \in Blocks /\ c \in taken /\ c \notin InIndex /\ owner[PageOf[c]] = u
      BY <2>1, NewBlock
    <3>2. PageOf[c] # p /\ PageOf[c] \in Pages
      BY <1>1, <2>1, <3>1, IndexAssumption
    <3> QED
      BY <1>1, <1>3, <1>4, <1>5, <3>1, <3>2
  <2> QED
    BY <1>1, <1>5, <1>8, <2>1, Others
<1>10. Sound(t)'
  <2>1. LogsPast(t)
    BY <1>2 DEF Sound, Logged
  <2>2. LogsPast(t)'
    BY <1>1, <1>5, <2>1 DEF LogsPast, Heads
  <2> QED
    BY <1>1, <1>2, <2>2 DEF Sound, Putting, Logged
<1> QED
  BY <1>5, <1>7, <1>9, <1>10, SoundIsNext

(* The recovery of a thread is over.                                       *)
LEMMA FinishSafe ==
  ASSUME IInv, TypeOK', NEW t \in Threads, Finish(t)
  PROVE  IInv' /\ \A w \in Heads : Chain(w)' = Chain(w)
<1> TypeOK /\ ChainInv /\ EntryInv /\ (\A u \in Threads : Sound(u))
  BY SoundIs
<1>1. /\ word' = word /\ entry' = entry /\ header' = header /\ taken' = taken /\ owner' = owner
      /\ era' = era /\ log' = log /\ pc' = pc /\ loc' = loc
      /\ mode[t] = "recover" /\ mode' = [mode EXCEPT ![t] = "gone"]
  BY DEF Finish, store, mem
<1>2. /\ pc[t] = "idle" /\ mode'[t] = "gone"
      /\ \A u \in Threads : u # t => mode'[u] = mode[u]
  BY <1>1 DEF Sound, TypeOK
<1>3. /\ ChainInv' /\ InIndex' = InIndex
      /\ \A w \in Heads : Chain(w)' = Chain(w) /\ In(w)' = In(w) /\ ChainEnd(w)' = ChainEnd(w)
  BY <1>1, ChainsStay DEF TypeOK
<1>4. EntryInv'
  BY <1>1, <1>3 DEF EntryInv, HeadOf
<1>5. \A w \in Heads : Grows(Chain(w), Chain(w)')
  BY <1>3, SameGrows
<1>6. \A u \in Threads : u # t => Sound(u)'
  BY <1>1, <1>2, <1>3, <1>5, NewBlock, Others
<1>7. Sound(t)'
  <2>1. LogsPast(t)
    BY <1>2 DEF Sound, Logged
  <2>2. LogsPast(t)'
    BY <1>1, <1>3, <2>1 DEF LogsPast, Heads
  <2> QED
    BY <1>1, <1>2, <2>2 DEF Sound, Putting, Logged
<1> QED
  BY <1>3, <1>4, <1>6, <1>7, SoundIsNext

(* A new life of the id.                                                   *)
LEMMA RestartSafe ==
  ASSUME IInv, TypeOK', NEW t \in Threads, Restart(t)
  PROVE  IInv' /\ \A w \in Heads : Chain(w)' = Chain(w)
<1> TypeOK /\ ChainInv /\ EntryInv /\ (\A u \in Threads : Sound(u))
  BY SoundIs
<1>1. /\ word' = word /\ entry' = entry /\ header' = header /\ taken' = taken /\ owner' = owner
      /\ log' = log /\ pc' = pc /\ loc' = loc
      /\ mode[t] = "gone" /\ mode' = [mode EXCEPT ![t] = "live"]
      /\ era' = [era EXCEPT ![t] = @ + 1]
  BY DEF Restart, store, mem
<1>2. /\ pc[t] = "idle" /\ mode'[t] = "live"
      /\ \A u \in Threads : u # t => mode'[u] = mode[u] /\ era'[u] = era[u]
  BY <1>1 DEF Sound, TypeOK
<1>3. /\ ChainInv' /\ InIndex' = InIndex
      /\ \A w \in Heads : Chain(w)' = Chain(w) /\ In(w)' = In(w) /\ ChainEnd(w)' = ChainEnd(w)
  BY <1>1, ChainsStay DEF TypeOK
<1>4. EntryInv'
  BY <1>1, <1>3 DEF EntryInv, HeadOf
<1>5. \A w \in Heads : Grows(Chain(w), Chain(w)')
  BY <1>3, SameGrows
<1>6. \A u \in Threads : u # t => Sound(u)'
  BY <1>1, <1>2, <1>3, <1>5, NewBlock, Others
<1>7. Sound(t)'
  <2>1. LogsPast(t)
    BY <1>2 DEF Sound, Logged
  <2>2. LogsPast(t)'
    BY <1>1, <1>3, <2>1 DEF LogsPast, Heads
  <2> QED
    BY <1>1, <1>2, <2>2 DEF Sound, Putting, Logged
<1> QED
  BY <1>3, <1>4, <1>6, <1>7, SoundIsNext

-----------------------------------------------------------------------------
(* The index as a whole.                                                   *)

LEMMA StutterSafe ==
  ASSUME IInv, TypeOK', UNCHANGED vars
  PROVE  IInv' /\ \A w \in Heads : Chain(w)' = Chain(w)
<1> TypeOK /\ ChainInv /\ EntryInv /\ (\A u \in Threads : Sound(u))
  BY SoundIs
<1>1. /\ word' = word /\ entry' = entry /\ header' = header /\ taken' = taken /\ owner' = owner
      /\ era' = era /\ log' = log /\ pc' = pc /\ loc' = loc /\ mode' = mode
  BY DEF vars, store, mem
<1>2. /\ ChainInv' /\ InIndex' = InIndex
      /\ \A w \in Heads : Chain(w)' = Chain(w) /\ In(w)' = In(w) /\ ChainEnd(w)' = ChainEnd(w)
  BY <1>1, ChainsStay DEF TypeOK
<1>3. EntryInv'
  BY <1>1, <1>2 DEF EntryInv, HeadOf
<1>4. \A w \in Heads : Grows(Chain(w), Chain(w)')
  BY <1>2, SameGrows
<1>5. ASSUME NEW t \in Threads PROVE \A u \in Threads : u # t => Sound(u)'
  BY <1>1, <1>2, <1>4, NewBlock, Others
<1>6. ASSUME NEW t \in Threads PROVE Sound(t)'
  BY <1>1, Unmoved DEF Sound
<1> QED
  BY <1>2, <1>3, <1>6, SoundIsNext

LEMMA StepSafe ==
  ASSUME IInv, ~FaultBeforeSwap, [Next]_vars
  PROVE  IInv'
<1>1. TypeOK'
  BY StepType
<1>2. CASE UNCHANGED vars
  BY <1>1, <1>2, StutterSafe
<1>3. ASSUME NEW t \in Threads, PutStep(t) PROVE IInv'
  BY <1>1, <1>3, OverwriteSafe, TakeSafe, LogSafe, SwapSafe, StoreSafe DEF PutStep
<1>4. ASSUME NEW t \in Threads, GetStep(t) PROVE IInv'
  BY <1>1, <1>4, GetSafe, ReadSafe, ValueSafe DEF GetStep
<1>5. ASSUME NEW t \in Threads, Recovery(t) PROVE IInv'
  BY <1>1, <1>5, RedoSafe, CollectSafe, FinishSafe, RestartSafe DEF Recovery
<1>6. ASSUME NEW t \in Threads, Crash(t) PROVE IInv'
  BY <1>1, <1>6, CrashSafe
<1> QED
  BY <1>2, <1>3, <1>4, <1>5, <1>6 DEF Next

(* When no client stops between the log and the swap of a put, IInv holds  *)
(* in every state: whoever stops elsewhere or reads, and while the monitor *)
(* repairs what is left when all have stopped.                             *)
THEOREM Inductive == ~FaultBeforeSwap => (Spec => []IInv)
<1> SUFFICES ASSUME ~FaultBeforeSwap PROVE Spec => []IInv
  OBVIOUS
<1>1. Init => IInv
  BY InitIs
<1>2. IInv /\ [Next]_vars => IInv'
  BY StepSafe
<1> QED
  BY <1>1, <1>2, PTL DEF Spec

(* Every entry of the index counts once, also one that the redo stored,    *)
(* when no client stops between the log and the swap of a put.             *)
THEOREM CountCorrect == ~FaultBeforeSwap => (Spec => []EntryCounted)
<1> SUFFICES ASSUME ~FaultBeforeSwap PROVE Spec => []EntryCounted
  OBVIOUS
<1>1. IInv => EntryCounted
  BY IndexIs DEF IInv, EntryInv, EntryCounted
<1> QED
  BY <1>1, Inductive, PTL

(* No entry of the index lies in a page that was given back, and nobody    *)
(* who reads stands on one that is not in the index, when no client stops  *)
(* between the log and the swap of a put (hash_wild: without this, false). *)
THEOREM WildCorrect == ~FaultBeforeSwap => (Spec => []NoWildEntry)
<1> SUFFICES ASSUME ~FaultBeforeSwap PROVE Spec => []NoWildEntry
  OBVIOUS
<1>1. IInv => NoWildEntry
  <2> SUFFICES ASSUME IInv PROVE NoWildEntry
    OBVIOUS
  <2> TypeOK /\ ChainInv /\ EntryInv /\ (\A u \in Threads : Sound(u))
    BY SoundIs
  <2>1. \A b \in InIndex : owner[PageOf[b]] # Free
    <3>1. \A w \in Heads : w[1] # 0
      BY IndexAssumption DEF Heads
    <3> QED
      BY <3>1, IndexIs DEF EntryInv, Free, Abandoned
  <2>2. ASSUME NEW t \in Threads, pc[t] \in {"read", "value"}
        PROVE  {loc[t].place, loc[t].obj} \cap Blocks \subseteq InIndex
    <3>1. PICK w : w = HeadOf(loc[t].key)
      OBVIOUS
    <3>2. w \in Heads /\ In(w) \subseteq InIndex /\ w \notin Blocks /\ Null \notin Blocks
      BY <2>2, <3>1, HeadIs, ChainFacts, IndexAssumption DEF Sound
    <3>3. \A i \in 1..Len(Chain(w)) : Chain(w)[i] \in In(w)
      BY <3>2, ChainFacts
    <3>4. CASE pc[t] = "read"
      <4>1. ReadsPast(t)
        BY <3>4 DEF Sound
      <4>2. loc[t].obj = Null /\ loc[t].place \in {w} \cup In(w)
        BY <3>1, <3>3, <4>1 DEF ReadsPast
      <4> QED
        BY <3>2, <4>2
    <3>5. CASE pc[t] = "value"
      <4>1. HasFound(t)
        BY <3>5 DEF Sound
      <4> QED
        BY <3>1, <3>2, <4>1 DEF HasFound
    <3> QED
      BY <2>2, <3>4, <3>5
  <2> QED
    BY <2>1, <2>2 DEF NoWildEntry, At
<1> QED
  BY <1>1, Inductive, PTL

-----------------------------------------------------------------------------
(* The dictionary: what a key stands for, and how a step changes it.       *)

LEMMA ValueIs ==
  ASSUME IInv, NEW k \in Keys
  PROVE  /\ \A b \in In(HeadOf(k)) : entry[b].key = k => ValueOf(k) = entry[b].value
         /\ (\A b \in In(HeadOf(k)) : entry[b].key # k) => ValueOf(k) = Null
<1> DEFINE w == HeadOf(k)
           s == Chain(w)
           Has(i) == entry[s[i]].key = k
<1>1. TypeOK /\ ChainInv /\ EntryInv /\ w \in Heads
  BY HeadIs, SoundIs
<1>2. /\ Len(s) \in Nat /\ In(w) = {s[i] : i \in 1..Len(s)}
      /\ \A i \in 1..Len(s) : s[i] \in In(w)
      /\ \A i, j \in 1..Len(s) : s[i] = s[j] => i = j
  BY <1>1, ChainFacts
<1>3. ASSUME NEW b \in In(w), entry[b].key = k
      PROVE  ValueOf(k) = entry[b].value
  <2>1. PICK i \in 1..Len(s) : b = s[i]
    BY <1>2
  <2>2. \A j \in 1..Len(s) : Has(j) => j = i
    BY <1>1, <1>2, <1>3, <2>1 DEF EntryInv
  <2>3. Has(i) /\ \A j \in 1..(i - 1) : ~Has(j)
    <3>1. \A j \in 1..(i - 1) : j \in 1..Len(s) /\ j # i
      BY <1>2
    <3> QED
      BY <1>3, <2>1, <2>2, <3>1
  <2> DEFINE f == CHOOSE n \in 1..Len(s) : Has(n) /\ \A j \in 1..(n - 1) : ~Has(j)
  <2> HIDE DEF Has
  <2>4. f = i
    BY <2>2, <2>3
  <2>5. ValueOf(k) = entry[s[f]].value
    BY <2>3 DEF ValueOf, Has
  <2> QED
    BY <2>1, <2>4, <2>5
<1>4. ASSUME \A b \in In(w) : entry[b].key # k
      PROVE  ValueOf(k) = Null
  BY <1>2, <1>4 DEF ValueOf
<1> QED
  BY <1>3, <1>4

LEMMA ValueNext ==
  ASSUME NEW k \in Keys
  PROVE  IInv' => /\ \A b \in In(HeadOf(k))' : entry'[b].key = k => ValueOf(k)' = entry'[b].value
                  /\ (\A b \in In(HeadOf(k))' : entry'[b].key # k) => ValueOf(k)' = Null
<1>1. IInv => /\ \A b \in In(HeadOf(k)) : entry[b].key = k => ValueOf(k) = entry[b].value
              /\ (\A b \in In(HeadOf(k)) : entry[b].key # k) => ValueOf(k) = Null
  BY ValueIs
<1>2. IInv' => (/\ \A b \in In(HeadOf(k)) : entry[b].key = k => ValueOf(k) = entry[b].value
                /\ (\A b \in In(HeadOf(k)) : entry[b].key # k) => ValueOf(k) = Null)'
  BY <1>1, PTL
<1> QED
  BY <1>2

(* A key whose entries stay with their values.                             *)
LEMMA KeyStays ==
  ASSUME IInv, IInv', NEW k \in Keys,
         \A b \in In(HeadOf(k)) : entry[b].key = k =>
           b \in In(HeadOf(k))' /\ entry'[b].key = k /\ entry'[b].value = entry[b].value,
         \A b \in In(HeadOf(k))' : entry'[b].key = k => b \in In(HeadOf(k)) /\ entry[b].key = k
  PROVE  ValueOf(k)' = ValueOf(k)
BY ValueIs, ValueNext

Dict == [k \in Keys |-> ValueOf(k)]

LEMMA DictStays ==
  ASSUME IInv, IInv', \A w \in Heads : Chain(w)' = Chain(w), \A b \in InIndex : entry'[b] = entry[b]
  PROVE  Dict' = Dict
<1>1. ASSUME NEW k \in Keys PROVE ValueOf(k)' = ValueOf(k)
  <2>1. PICK w \in Heads : w = HeadOf(k)
    BY HeadIs
  <2>2. In(HeadOf(k))' = In(HeadOf(k)) /\ In(HeadOf(k)) \subseteq InIndex
    <3>1. In(w)' = In(w) /\ In(w) \subseteq InIndex
      BY DEF In, InIndex
    <3> QED
      BY <2>1, <3>1 DEF HeadOf
  <2> QED
    BY <2>2, KeyStays
<1> QED
  BY <1>1 DEF Dict

(* A put into the chains, or to an entry of them.                          *)
LEMMA DictPut ==
  ASSUME NEW k \in Keys, NEW v, ValueOf(k)' = v,
         \A j \in Keys : j # k => ValueOf(j)' = ValueOf(j)
  PROVE  Dict' = [Dict EXCEPT ![k] = v]
BY DEF Dict

LEMMA OverwriteIs ==
  ASSUME IInv, IInv', TypeOK', NEW t \in Threads, NEW k \in Keys, NEW v \in Values, Overwrite(t, k, v)
  PROVE  Dict' = [Dict EXCEPT ![k] = v]
<1>1. PICK b \in In(HeadOf(k)) : entry[b].key = k /\ entry' = [entry EXCEPT ![b].value = v]
  BY OverwriteSafe
<1>2. \A w \in Heads : In(w)' = In(w)
  <2>1. \A w \in Heads : Chain(w)' = Chain(w)
    BY OverwriteSafe
  <2> QED
    BY <2>1 DEF In
<1>3. ASSUME NEW j \in Keys
      PROVE  In(HeadOf(j))' = In(HeadOf(j)) /\ In(HeadOf(j)) \subseteq Blocks
  <2>1. PICK w \in Heads : w = HeadOf(j)
    BY HeadIs
  <2>2. In(HeadOf(j))' = In(w)' /\ In(w) \subseteq Blocks
    BY <2>1, SoundIs, ChainFacts DEF HeadOf
  <2> QED
    BY <1>2, <2>1, <2>2
<1>4. /\ \A c \in Blocks : entry'[c].key = entry[c].key
      /\ \A c \in Blocks : c # b => entry'[c] = entry[c]
      /\ entry'[b].value = v
  BY <1>1, <1>3 DEF IInv, TypeOK
<1>5. ValueOf(k)' = v
  BY <1>1, <1>3, <1>4, ValueNext
<1>6. ASSUME NEW j \in Keys, j # k PROVE ValueOf(j)' = ValueOf(j)
  <2>1. \A c \in In(HeadOf(j)) : entry[c].key = j => c # b /\ c \in Blocks
    BY <1>1, <1>3, <1>6
  <2>2. \A c \in In(HeadOf(j))' : c \in In(HeadOf(j)) /\ entry'[c].key = entry[c].key
    BY <1>3, <1>4
  <2>3. \A c \in In(HeadOf(j)) : entry[c].key = j =>
           c \in In(HeadOf(j))' /\ entry'[c].key = j /\ entry'[c].value = entry[c].value
    BY <1>3, <1>4, <2>1
  <2> QED
    BY <2>2, <2>3, KeyStays
<1> QED
  BY <1>5, <1>6, DictPut

(* The entry that comes into a chain is that of a new key.                 *)
LEMMA LinkIs ==
  ASSUME IInv, IInv', TypeOK', NEW t \in Threads, pc[t] = "store",
         word' = [word EXCEPT ![loc[t].place] = loc[t].obj],
         UNCHANGED <<entry, header, taken, owner, log>>,
         pc' = [pc EXCEPT ![t] = "idle"],
         \A u \in Threads : u # t => /\ loc'[u] = loc[u] /\ era'[u] = era[u] /\ mode'[u] = mode[u]
  PROVE  \E k \in Keys, v \in Values : /\ k = loc[t].key /\ v = entry[loc[t].obj].value
                                       /\ Dict[k] = Null /\ Dict' = [Dict EXCEPT ![k] = v]
<1>1. Putting(t) /\ PutsAtEnd(t)
  BY SoundIs DEF Putting, Sound
<1>2. PICK k, v, b, h : /\ k = loc[t].key /\ v = entry[b].value
                        /\ b = loc[t].obj /\ h = HeadOf(k)
  OBVIOUS
<1>3. /\ k \in Keys /\ v \in Values /\ h \in Heads /\ b \in Blocks
      /\ entry[b].key = k /\ entry[b].value = v /\ entry' = entry /\ HeadOf(k)' = h
      /\ \A c \in In(h) : entry[c].key # k
  BY <1>1, <1>2, NewBlock DEF PutsAtEnd, Matches, In, HeadOf
<1>4. /\ \A w \in Heads : w # h => Chain(w)' = Chain(w)
      /\ Chain(h)' = Append(Chain(h), b)
  BY <1>2, <1>3, LinkSafe
<1>5. \A w \in Heads : w # h => In(w)' = In(w)
  BY <1>4 DEF In
<1>6. In(h)' = In(h) \cup {b}
  <2>1. Chain(h) \in Seq(Blocks)
    BY <1>3, SoundIs, ChainFacts
  <2>2. ToSet(Append(Chain(h), b)) = ToSet(Chain(h)) \cup {b}
    BY <1>3, <2>1, ToSetAppend
  <2> QED
    BY <1>4, <2>2 DEF In
<1>7. Dict[k] = Null
  BY <1>2, <1>3, ValueIs DEF Dict
<1>8. ValueOf(k)' = v
  <2>1. In(HeadOf(k))' = In(h)'
    BY <1>2 DEF HeadOf
  <2> QED
    BY <1>3, <1>6, <2>1, ValueNext
<1>9. ASSUME NEW j \in Keys, j # k PROVE ValueOf(j)' = ValueOf(j)
  <2>1. PICK w \in Heads : w = HeadOf(j)
    BY HeadIs
  <2>2. In(HeadOf(j))' = In(w)' /\ In(HeadOf(j)) = In(w)
    BY <2>1 DEF HeadOf
  <2>3. \A c \in In(w)' : c \in In(w) \/ c = b
    BY <1>5, <1>6
  <2>4. In(w) \subseteq In(w)'
    BY <1>5, <1>6
  <2> QED
    BY <1>3, <1>9, <2>2, <2>3, <2>4, KeyStays
<1>10. Dict' = [Dict EXCEPT ![k] = v]
  BY <1>3, <1>8, <1>9, DictPut
<1> QED
  BY <1>2, <1>3, <1>7, <1>10

(* A step is one of the dictionary, or changes nothing of it.              *)
LEMMA StepIs ==
  ASSUME IInv, ~FaultBeforeSwap, Next
  PROVE  Dictionary!Next \/ UNCHANGED Dictionary!kvars
<1> USE DEF Dict
<1>1. IInv' /\ TypeOK'
  BY StepSafe, SoundIs, StepType
<1>2. Dict' = Dict /\ told' = told => UNCHANGED Dictionary!kvars
  BY DEF Dictionary!kvars
<1>3. ASSUME NEW t \in Threads, Forget(t), Dict' = Dict PROVE Dictionary!Next
  BY <1>3 DEF Forget, Dictionary!Forget, Dictionary!Next
<1>4. ASSUME NEW t \in Threads, NEW k \in Keys, NEW v \in Values,
             Dict' = [Dict EXCEPT ![k] = v], told' = [told EXCEPT ![t] = <<k, v>>]
      PROVE  Dictionary!Next
  BY <1>4 DEF Dictionary!Put, Dictionary!Next
<1>5. ASSUME NEW t \in Threads, NEW k \in Keys, Dict' = Dict, told' = [told EXCEPT ![t] = <<k, Dict[k]>>]
      PROVE  Dictionary!Next
  BY <1>5 DEF Dictionary!Get, Dictionary!Next
<1>6. ASSUME \A w \in Heads : Chain(w)' = Chain(w), \A b \in InIndex : entry'[b] = entry[b]
      PROVE  Dict' = Dict
  BY <1>1, <1>6, DictStays
<1>7. ASSUME NEW t \in Threads, NEW k \in Keys, NEW v \in Values, Overwrite(t, k, v)
      PROVE  Dictionary!Next
  <2>1. told' = [told EXCEPT ![t] = <<k, v>>]
    BY <1>7 DEF Overwrite
  <2> HIDE DEF Dict
  <2>2. Dict' = [Dict EXCEPT ![k] = v]
    BY <1>1, <1>7, OverwriteIs
  <2> QED
    BY <1>4, <2>1, <2>2
<1>8. ASSUME NEW t \in Threads, NEW k \in Keys, NEW v \in Values, NEW b \in Blocks, Take(t, k, v, b)
      PROVE  Dictionary!Next
  <2>1. Forget(t)
    BY <1>8 DEF Take
  <2> QED
    BY <1>1, <1>3, <1>6, <1>8, <2>1, TakeSafe
<1>9. ASSUME NEW t \in Threads, Log(t) \/ Swap(t)
      PROVE  UNCHANGED Dictionary!kvars
  <2>1. told' = told /\ entry' = entry
    BY <1>9 DEF Log, Swap, store
  <2> QED
    BY <1>1, <1>2, <1>6, <1>9, <2>1, LogSafe, SwapSafe
<1>10. ASSUME NEW t \in Threads, Store(t)
       PROVE  Dictionary!Next
  <2>1. /\ pc[t] = "store" /\ word' = [word EXCEPT ![loc[t].place] = loc[t].obj]
        /\ UNCHANGED <<entry, header, taken, owner, log>>
        /\ pc' = [pc EXCEPT ![t] = "idle"]
    BY <1>10 DEF Store, At, Goto, Leave, mem
  <2>2. \A u \in Threads : u # t => /\ loc'[u] = loc[u] /\ era'[u] = era[u] /\ mode'[u] = mode[u]
    BY <1>10 DEF Store, Leave, IInv, TypeOK
  <2>3. told' = [told EXCEPT ![t] = <<loc[t].key, entry[loc[t].obj].value>>]
    BY <1>10 DEF Store, Tell
  <2> HIDE DEF Dict
  <2>4. PICK k \in Keys, v \in Values : /\ k = loc[t].key /\ v = entry[loc[t].obj].value
                                        /\ Dict[k] = Null /\ Dict' = [Dict EXCEPT ![k] = v]
    BY <1>1, <2>1, <2>2, LinkIs
  <2> QED
    BY <1>4, <2>3, <2>4
<1>11. ASSUME NEW t \in Threads, NEW k \in Keys, Get(t, k)
       PROVE  Dictionary!Next
  <2>1. Forget(t) /\ entry' = entry
    BY <1>11 DEF Get, store
  <2> QED
    BY <1>1, <1>3, <1>6, <1>11, <2>1, GetSafe
<1>12. ASSUME NEW t \in Threads, Read(t)
       PROVE  Dictionary!Next \/ UNCHANGED Dictionary!kvars
  <2>1. entry' = entry /\ pc[t] = "read"
    BY <1>12 DEF Read, At, store
  <2>2. Dict' = Dict
    BY <1>1, <1>6, <1>12, <2>1, ReadSafe
  <2>3. CASE word[loc[t].place] = Null
    <3>1. PICK k, w : k = loc[t].key /\ w = HeadOf(k)
      OBVIOUS
    <3>2. k \in Keys /\ ReadsPast(t) /\ w \in Heads /\ TypeOK /\ ChainInv /\ Null \notin Blocks
      BY <2>1, <3>1, HeadIs, SoundIs, IndexAssumption DEF Sound
    <3>3. told' = [told EXCEPT ![t] = <<k, Null>>]
      BY <1>12, <2>3, <3>1 DEF Read, Tell
    <3>4. \A b \in In(w) : entry[b].key # k
      <4> DEFINE s == Chain(w)
      <4>1. /\ Len(s) \in Nat /\ In(w) = {s[i] : i \in 1..Len(s)}
            /\ s = <<>> <=> word[w] = Null
            /\ Len(s) > 0 => s # <<>>
            /\ \A i \in 1..Len(s) : s[i] \in Blocks
            /\ \A i \in 1..Len(s) : i < Len(s) => word[s[i]] = s[i + 1]
        BY <3>2, ChainFacts
      <4> HIDE DEF s
      <4>2. CASE loc[t].place = w
        <5>1. Len(s) = 0
          BY <2>3, <4>1, <4>2
        <5> QED
          BY <4>1, <5>1
      <4>3. CASE loc[t].place # w
        <5>1. PICK i \in 1..Len(s) : loc[t].place = s[i] /\ \A j \in 1..i : entry[s[j]].key # k
          BY <3>1, <3>2, <4>3 DEF ReadsPast, s
        <5>2. i = Len(s)
          <6>1. i < Len(s) => i + 1 \in 1..Len(s) /\ s[i + 1] \in Blocks
            BY <4>1
          <6> QED
            BY <2>3, <3>2, <4>1, <5>1, <6>1
        <5> QED
          BY <4>1, <5>1, <5>2
      <4> QED
        BY <4>2, <4>3
    <3>5. Dict[k] = Null
      BY <3>1, <3>2, <3>4, ValueIs
    <3> QED
      BY <1>5, <2>2, <3>2, <3>3, <3>5
  <2>4. CASE word[loc[t].place] # Null
    <3>1. told' = told
      BY <1>12, <2>4 DEF Read
    <3> QED
      BY <1>2, <2>2, <3>1
  <2> QED
    BY <2>3, <2>4
<1>13. ASSUME NEW t \in Threads, Value(t)
       PROVE  Dictionary!Next
  <2>1. entry' = entry /\ pc[t] = "value"
    BY <1>13 DEF Value, At, store
  <2>2. Dict' = Dict
    BY <1>1, <1>6, <1>13, <2>1, ValueSafe
  <2>3. PICK k, b : k = loc[t].key /\ b = loc[t].obj
    OBVIOUS
  <2>4. k \in Keys /\ b \in In(HeadOf(k)) /\ entry[b].key = k
    BY <2>1, <2>3, SoundIs DEF Sound, HasFound
  <2>5. Dict[k] = entry[b].value
    BY <2>4, ValueIs
  <2>6. told' = [told EXCEPT ![t] = <<k, entry[b].value>>]
    BY <1>13, <2>3 DEF Value, Tell
  <2> QED
    BY <1>5, <2>2, <2>4, <2>5, <2>6
<1>14. ASSUME NEW t \in Threads, Crash(t)
       PROVE  Dictionary!Next
  <2>1. Forget(t) /\ entry' = entry
    BY <1>14 DEF Crash, store
  <2> QED
    BY <1>1, <1>3, <1>6, <1>14, <2>1, CrashSafe
<1>15. ASSUME NEW t \in Threads, Redo(t)
       PROVE  Dictionary!Next \/ UNCHANGED Dictionary!kvars
  <2>1. /\ UNCHANGED <<entry, header, taken, owner, era, log, told>>
        /\ mode' = [mode EXCEPT ![t] = "recover"]
        /\ pc' = [pc EXCEPT ![t] = "idle"] /\ loc' = [loc EXCEPT ![t] = NoLocals]
    BY <1>15 DEF Redo, Leave, Goto, mem
  <2>2. \A u \in Threads : u # t => /\ loc'[u] = loc[u] /\ era'[u] = era[u] /\ mode'[u] = mode[u]
    BY <2>1 DEF IInv, TypeOK
  <2>3. CASE pc[t] = "store"
    <3> HIDE DEF Dict
    <3>1. word' = [word EXCEPT ![loc[t].place] = loc[t].obj]
      BY <1>15, <2>3, RedoIs
    <3>2. PICK k \in Keys, v \in Values : Dict[k] = Null /\ Dict' = [Dict EXCEPT ![k] = v]
      BY <1>1, <2>1, <2>2, <2>3, <3>1, LinkIs
    <3>3. Dictionary!Finish(k, v)
      BY <2>1, <3>2 DEF Dictionary!Finish, Dict
    <3> QED
      BY <3>3 DEF Dictionary!Next
  <2>4. CASE pc[t] # "store"
    <3>1. word' = word
      BY <1>15, <2>4, RedoIs
    <3>2. \A w \in Heads : Chain(w)' = Chain(w)
      BY <3>1 DEF Chain, Onward
    <3> QED
      BY <1>2, <1>6, <2>1, <3>2
  <2> QED
    BY <2>3, <2>4
<1>16. ASSUME NEW t \in Threads, NEW p \in Pages, Collect(t, p)
       PROVE  UNCHANGED Dictionary!kvars
  <2>1. told' = told /\ entry' = entry
    BY <1>16 DEF Collect, store
  <2> QED
    BY <1>1, <1>2, <1>6, <1>16, <2>1, CollectSafe
<1>17. ASSUME NEW t \in Threads, Restart(t)
       PROVE  UNCHANGED Dictionary!kvars
  <2>1. told' = told /\ entry' = entry
    BY <1>17 DEF Restart, store
  <2> QED
    BY <1>1, <1>2, <1>6, <1>17, <2>1, RestartSafe
<1>18. ASSUME NEW t \in Threads, Finish(t)
       PROVE  UNCHANGED Dictionary!kvars
  <2>1. told' = told /\ entry' = entry
    BY <1>18 DEF Finish, store
  <2> QED
    BY <1>1, <1>2, <1>6, <1>18, <2>1, FinishSafe
<1> HIDE DEF Dict
<1> QED
  BY <1>7, <1>8, <1>9, <1>10, <1>11, <1>12, <1>13, <1>14, <1>15, <1>16, <1>17, <1>18
  DEF Next, PutStep, GetStep, Recovery

(* put and get are those of one dictionary for all threads, whoever stops, *)
(* but not between the log and the swap of a put, and is repaired when all *)
(* have stopped (hash_index.cpp:4, 35).                                    *)
THEOREM Implements == ~FaultBeforeSwap => (Spec => ImplementsKvStore)
<1> SUFFICES ASSUME ~FaultBeforeSwap PROVE Spec => ImplementsKvStore
  OBVIOUS
<1>1. Init => Dictionary!Init
  <2> SUFFICES ASSUME Init PROVE Dictionary!Init
    OBVIOUS
  <2>1. ASSUME NEW k \in Keys PROVE ValueOf(k) = Null
    <3>1. IInv /\ HeadOf(k) \in Heads /\ word[HeadOf(k)] = Null
      BY InitIs, HeadIs DEF Init
    <3>2. Chain(HeadOf(k)) = <<>>
      BY <3>1, SoundIs, ChainFacts
    <3>3. In(HeadOf(k)) = {}
      BY <3>2 DEF In, ToSet
    <3> QED
      BY <3>1, <3>3, ValueIs
  <2> QED
    BY <2>1 DEF Init, Dictionary!Init
<1>2. IInv /\ [Next]_vars => [Dictionary!Next]_(Dictionary!kvars)
  <2> SUFFICES ASSUME IInv, [Next]_vars PROVE [Dictionary!Next]_(Dictionary!kvars)
    OBVIOUS
  <2>1. CASE Next
    BY <2>1, StepIs
  <2>2. CASE UNCHANGED vars
    <3>1. IInv' /\ \A w \in Heads : Chain(w)' = Chain(w)
      BY <2>2, StepType, StutterSafe
    <3>2. told' = told /\ entry' = entry
      BY <2>2 DEF vars, store
    <3> QED
      BY <3>1, <3>2, DictStays DEF Dict, Dictionary!kvars
  <2> QED
    BY <2>1, <2>2
<1> QED
  BY <1>1, <1>2, Inductive, PTL DEF Spec, ImplementsKvStore, Dictionary!Spec
=============================================================================
