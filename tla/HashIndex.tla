------------------------------ MODULE HashIndex ------------------------------
(***************************************************************************)
(* The hash index of cxl-shm (src/src/hash_index.cpp): a partition of      *)
(* buckets per thread, in each bucket a chain of entries, put by the       *)
(* owner of the partition and read by everybody, and what the monitor      *)
(* makes of an owner that stops (redo_ref_cnt and the walk over the object *)
(* pages, src/src/recovery.cpp), of which others then read and put.        *)
(*                                                                         *)
(* Abstractions.  An entry is a block; a place is a word that refers to    *)
(* one: a bucket, or the third word of an entry, named like the entry.     *)
(* Nobody but its creator swaps the header of an entry, so the evidence of *)
(* the redo is the header alone.  A page stands for the segment it is in;  *)
(* memory does not run out.  As all callers do, a thread puts keys of its  *)
(* own partition only (put does not look at the high bits, get does).  As  *)
(* the recovery test does, the monitor runs when all clients have stopped: *)
(* its segment pass (recovery.cpp:574) would take the page of a running    *)
(* put, in which nothing counts yet.                                       *)
(***************************************************************************)
EXTENDS Integers, SequencesExt, Links

CONSTANTS Threads, Blocks, Pages, PageOf,
          Keys, Values, Buckets,
          PartOf,           \* owner of the partition in the high bits of a key
          BucketOf,         \* the low bits
          MaxEra,           \* bound: no new key put at this era, no stop after it
          FaultBeforeSwap,  \* may a thread stop between log and swap of a put
          Null

ASSUME IndexAssumption ==
  /\ IsFiniteSet(Blocks) /\ Threads \subseteq Nat \ {0} /\ MaxEra \in [Threads -> Nat]
  /\ PageOf \in [Blocks -> Pages] /\ PartOf \in [Keys -> Threads]
  /\ BucketOf \in [Keys -> Buckets] /\ FaultBeforeSwap \in BOOLEAN
  /\ Null \notin Blocks \cup Values \cup Keys
  /\ Blocks \cap (Threads \X Buckets) = {}

VARIABLES word,    \* the entry a place refers to
          entry,   \* key and value of a block
          header,  \* id of the last writer, count and its era
          taken,   \* blocks taken from the free list of their page
          owner,   \* of a page: a thread, Free or Abandoned
          era, log, told, pc, loc, mode

store == <<word, entry>>
mem   == <<header, taken, owner>>
vars  == <<store, mem, era, log, told, pc, loc, mode>>

-----------------------------------------------------------------------------
Free      == 0
Abandoned == -1
Heads     == Threads \X Buckets
Places    == Heads \cup Blocks
NoLog     == [place |-> Null, obj |-> Null, era |-> 0]
NoLocals  == [key |-> Null, place |-> Null, obj |-> Null]
Blank     == [cid |-> 0, cnt |-> 0, era |-> 0]

Init == /\ word   = [w \in Places |-> Null]
        /\ entry  = [b \in Blocks |-> [key |-> Null, value |-> Null]]
        /\ header = [b \in Blocks |-> Blank]
        /\ taken  = {} /\ owner = [p \in Pages |-> Free]
        /\ era = [t \in Threads |-> 1] /\ log = [t \in Threads |-> NoLog]
        /\ told = [t \in Threads |-> <<Null, Null>>]
        /\ pc   = [t \in Threads |-> "idle"]
        /\ loc  = [t \in Threads |-> NoLocals]
        /\ mode = [t \in Threads |-> "live"]

At(t, p)   == mode[t] = "live" /\ pc[t] = p
Goto(t, p) == pc' = [pc EXCEPT ![t] = p]
Tell(t, v) == told' = [told EXCEPT ![t] = <<loc[t].key, v>>]
Forget(t)  == told' = [told EXCEPT ![t] = <<Null, Null>>]
Leave(t)   == Goto(t, "idle") /\ loc' = [loc EXCEPT ![t] = NoLocals]

(* The entries from a place on, in the order of the chain.                 *)
Onward    == [b \in Blocks |-> word[b]]
Chain(w)  == PathFrom(Onward, word[w])
HeadOf(k) == <<PartOf[k], BucketOf[k]>>
MutMatches(w, k) == {}            \* mutant: put never finds its key
Matches(w, k) == {b \in ToSet(Chain(w)) : entry[b].key = k}
MutChainEnd(w) == w               \* mutant: put stops at the bucket
ChainEnd(w) == IF Chain(w) = <<>> THEN w ELSE Last(Chain(w))

-----------------------------------------------------------------------------
(* put.  Nobody else writes to the chain: the search is one step.          *)

Overwrite(t, k, v) ==
  /\ At(t, "idle") /\ PartOf[k] = t
  /\ \E b \in Matches(<<t, BucketOf[k]>>, k) : entry' = [entry EXCEPT ![b].value = v]
  /\ told' = [told EXCEPT ![t] = <<k, v>>]
  /\ UNCHANGED <<word, mem, era, log, pc, loc, mode>>

(* A block of a page of the thread, or of a fresh one: the slow path of    *)
(* the allocator clears the log.  The block is filled where nobody sees    *)
(* it; its header gets the era the link will have (no advance here).       *)
Take(t, k, v, b) ==
  LET head == <<t, BucketOf[k]>>
      page == PageOf[b]
  IN /\ At(t, "idle") /\ PartOf[k] = t /\ era[t] < MaxEra[t]
     /\ Matches(head, k) = {}
     /\ owner[page] \in {t, Free} /\ b \notin taken
     /\ owner' = [owner EXCEPT ![page] = t]
     /\ taken' = taken \cup {b}
     /\ log' \in (IF owner[page] = Free THEN {} ELSE {log})
                 \cup {[log EXCEPT ![t] = NoLog]}
     /\ header' = [header EXCEPT ![b] = [cid |-> t, cnt |-> 0, era |-> era[t]]]
     /\ entry'  = [entry EXCEPT ![b] = [key |-> k, value |-> v]]
     /\ word'   = [word EXCEPT ![b] = Null]
     /\ loc' = [loc EXCEPT ![t] = [key |-> k, place |-> ChainEnd(head), obj |-> b]]
     /\ Goto(t, "log") /\ Forget(t)
     /\ UNCHANGED <<era, mode>>

(* link_reference of the last word of the chain.                           *)
Log(t) ==
  /\ At(t, "log")
  /\ log' = [log EXCEPT ![t] = [place |-> loc[t].place, obj |-> loc[t].obj, era |-> era[t]]]
  /\ Goto(t, "swap")
  /\ UNCHANGED <<store, mem, era, told, loc, mode>>

MutSwap(t) ==                     \* mutant: the count is written back as it was
  /\ At(t, "swap")
  /\ header' = [header EXCEPT ![loc[t].obj] = [@ EXCEPT !.cid = t, !.era = era[t]]]
  /\ Goto(t, "store")
  /\ UNCHANGED <<store, taken, owner, era, log, told, loc, mode>>

Swap(t) ==
  /\ At(t, "swap")
  /\ header' = [header EXCEPT ![loc[t].obj] = [cid |-> t, cnt |-> @.cnt + 1, era |-> era[t]]]
  /\ Goto(t, "store")
  /\ UNCHANGED <<store, taken, owner, era, log, told, loc, mode>>

Store(t) ==
  /\ At(t, "store")
  /\ word' = [word EXCEPT ![loc[t].place] = loc[t].obj]
  /\ era' = [era EXCEPT ![t] = @ + 1]
  /\ Tell(t, entry[loc[t].obj].value) /\ Leave(t)
  /\ UNCHANGED <<entry, mem, log, mode>>

-----------------------------------------------------------------------------
(* get, by any thread, load by load.                                       *)

Get(t, k) ==
  /\ At(t, "idle")
  /\ loc' = [loc EXCEPT ![t] = [key |-> k, place |-> HeadOf(k), obj |-> Null]]
  /\ Goto(t, "read") /\ Forget(t)
  /\ UNCHANGED <<store, mem, era, log, mode>>

(* The word of a place and, the key of an entry never changes, its key.    *)
Read(t) ==
  LET b == word[loc[t].place]
  IN /\ At(t, "read")
     /\ CASE b = Null -> Tell(t, Null) /\ Leave(t)
          [] b # Null /\ entry[b].key = loc[t].key ->
               Goto(t, "value") /\ loc' = [loc EXCEPT ![t].obj = b] /\ UNCHANGED told
          [] OTHER -> loc' = [loc EXCEPT ![t].place = b] /\ UNCHANGED <<pc, told>>
     /\ UNCHANGED <<store, mem, era, log, mode>>

Value(t) ==
  /\ At(t, "value")
  /\ Tell(t, entry[loc[t].obj].value) /\ Leave(t)
  /\ UNCHANGED <<store, mem, era, log, mode>>

-----------------------------------------------------------------------------
(* Stop, recovery by ascending id when nobody runs, a new life of the id.  *)

Crash(t) ==
  /\ mode[t] = "live" /\ (pc[t] = "swap" => FaultBeforeSwap)
  /\ era[t] <= MaxEra[t]
  /\ mode' = [mode EXCEPT ![t] = "crashed"] /\ Forget(t)
  /\ UNCHANGED <<store, mem, era, log, pc, loc>>

NeedRedo(t) == /\ log[t].obj # Null
               /\ header[log[t].obj].cid = t /\ header[log[t].obj].era = log[t].era

Turn(t) == \A u \in Threads : /\ mode[u] \in {"crashed", "gone"}
                              /\ mode[u] = "crashed" => t <= u

Redo(t) ==
  /\ mode[t] = "crashed" /\ Turn(t)
  /\ word' = IF NeedRedo(t) THEN [word EXCEPT ![log[t].place] = log[t].obj] ELSE word
  /\ mode' = [mode EXCEPT ![t] = "recover"]
  /\ Leave(t)
  /\ UNCHANGED <<entry, mem, era, log, told>>

BlocksOf(p) == {b \in Blocks : PageOf[b] = p}

MutCounted(p) == \A b \in BlocksOf(p) : header[b].cnt > 0  \* mutant: one empty block is enough
Counted(p) == \E b \in BlocksOf(p) : header[b].cnt > 0

(* A page in which an entry counts keeps its segment; nothing ever takes   *)
(* that count away.  So the segment pass, which looks at every page when   *)
(* the last thread is done, finds a count in each that is left, and gives  *)
(* back none.                                                              *)
Collect(t, p) ==
  /\ mode[t] = "recover" /\ owner[p] = t
  /\ IF Counted(p)
     THEN owner' = [owner EXCEPT ![p] = Abandoned] /\ UNCHANGED <<taken, header>>
     ELSE /\ owner' = [owner EXCEPT ![p] = Free]
          /\ taken' = taken \ BlocksOf(p)
          /\ header' = [b \in Blocks |-> IF PageOf[b] = p THEN Blank ELSE header[b]]
  /\ UNCHANGED <<store, era, log, told, pc, loc, mode>>

Finish(t) ==
  /\ mode[t] = "recover" /\ \A p \in Pages : owner[p] # t
  /\ mode' = [mode EXCEPT ![t] = "gone"]
  /\ UNCHANGED <<store, mem, era, log, told, pc, loc>>

Restart(t) ==
  /\ mode[t] = "gone" /\ \A u \in Threads : mode[u] # "recover"
  /\ era' = [era EXCEPT ![t] = @ + 1]
  /\ mode' = [mode EXCEPT ![t] = "live"]
  /\ UNCHANGED <<store, mem, log, told, pc, loc>>

-----------------------------------------------------------------------------
PutStep(t) == \/ Log(t) \/ Swap(t) \/ Store(t)
              \/ \E k \in Keys, v \in Values :
                   Overwrite(t, k, v) \/ \E b \in Blocks : Take(t, k, v, b)

GetStep(t) == Read(t) \/ Value(t) \/ \E k \in Keys : Get(t, k)

Recovery(t) == Redo(t) \/ Finish(t) \/ Restart(t) \/ \E p \in Pages : Collect(t, p)

Next == \E t \in Threads : PutStep(t) \/ GetStep(t) \/ Crash(t) \/ Recovery(t)
Spec == Init /\ [][Next]_vars

-----------------------------------------------------------------------------
(* The index holds a counted reference to each of its entries, also when   *)
(* the redo stored it: it is the count that keeps the entry when the pages *)
(* of a dead owner are collected (put writes a count of zero first).       *)
InIndex == UNION {ToSet(Chain(w)) : w \in Heads}
EntryCounted == \A b \in InIndex : header[b].cnt = 1

(* README: no wild pointer.  No entry of the index lies in a page that has *)
(* been given back, and a reader stands on entries of the index only, also *)
(* on one that a put, or the redo, has just linked.                        *)
NoWildEntry ==
  /\ \A b \in InIndex : owner[PageOf[b]] # Free
  /\ \A t \in Threads :
       At(t, "read") \/ At(t, "value") => {loc[t].place, loc[t].obj} \cap Blocks \subseteq InIndex

(* The index is one dictionary for all threads, whoever stops in a put and *)
(* before and after the monitor repairs it (put, get): of a key, the first *)
(* entry that has it counts.                                               *)
ValueOf(k) ==
  LET s     == Chain(HeadOf(k))
      Has(i) == entry[s[i]].key = k
  IN IF \E i \in 1..Len(s) : Has(i)
     THEN entry[s[CHOOSE i \in 1..Len(s) : Has(i) /\ \A j \in 1..(i - 1) : ~Has(j)]].value
     ELSE Null
Dictionary == INSTANCE KvStore WITH dict <- [k \in Keys |-> ValueOf(k)]
ImplementsKvStore == Dictionary!Spec
=============================================================================
