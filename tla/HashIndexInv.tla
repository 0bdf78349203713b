----------------------------- MODULE HashIndexInv -----------------------------
(***************************************************************************)
(* The inductive invariant behind HashIndexProofs: a chain is a path of    *)
(* counted entries with different keys; a put under way stands at the end  *)
(* of its chain, a get behind entries with other keys; what the last log   *)
(* line says is under way or in the chain already.                         *)
(***************************************************************************)
EXTENDS HashIndex

OrNull(S) == S \cup {Null}
Told      == OrNull(Keys) \X OrNull(Values)
TypeOK ==
  /\ word \in [Places -> OrNull(Blocks)]
  /\ entry \in [Blocks -> [key : OrNull(Keys), value : OrNull(Values)]]
  /\ header \in [Blocks -> [cid : {0} \cup Threads, cnt : Nat, era : Nat]]
  /\ taken \subseteq Blocks /\ owner \in [Pages -> {Free, Abandoned} \cup Threads]
  /\ era \in [Threads -> Nat]
  /\ log \in [Threads -> [place : OrNull(Places), obj : OrNull(Blocks), era : Nat]]
  /\ told \in [Threads -> Told]
  /\ pc \in [Threads -> {"idle", "log", "swap", "store", "read", "value"}]
  /\ loc \in [Threads -> [key : OrNull(Keys), place : OrNull(Places), obj : OrNull(Blocks)]]
  /\ mode \in [Threads -> {"live", "crashed", "recover", "gone"}]

In(w) == ToSet(Chain(w))

(* A chain passes no entry twice, and none is in two chains: its key tells *)
(* which one.  Each entry counts once, in a page that the owner of the     *)
(* partition or nobody has.                                                *)
ChainInv == \A w \in Heads : IsPath(Onward, Chain(w), word[w])
EntryInv ==
  \A w \in Heads : \A b \in In(w) :
    /\ entry[b].key \in Keys /\ HeadOf(entry[b].key) = w /\ entry[b].value \in Values
    /\ \A c \in In(w) : entry[b].key = entry[c].key => b = c
    /\ b \in taken /\ header[b].cnt = 1 /\ owner[PageOf[b]] \in {w[1], Abandoned}

(* A put: the new entry is in no chain, and its place is the end of one.   *)
Putting(t) == pc[t] \in {"log", "swap", "store"}
PutsAtEnd(t) ==
  LET k == loc[t].key
      b == loc[t].obj
  IN /\ k \in Keys /\ PartOf[k] = t /\ loc[t].place = ChainEnd(HeadOf(k))
     /\ b \in taken /\ b \notin InIndex /\ owner[PageOf[b]] = t
     /\ word[b] = Null /\ entry[b].key = k /\ entry[b].value \in Values
     /\ Matches(HeadOf(k), k) = {}
     /\ header[b] = [cid |-> t, cnt |-> IF pc[t] = "store" THEN 1 ELSE 0, era |-> era[t]]
PutInv == \A t \in Threads : Putting(t) => PutsAtEnd(t)

(* A get: the entries up to its place have other keys.                     *)
ReadsPast(t) ==
  LET k == loc[t].key
      s == Chain(HeadOf(k))
  IN /\ loc[t].obj = Null
     /\ \/ loc[t].place = HeadOf(k)
        \/ \E i \in 1..Len(s) : /\ loc[t].place = s[i]
                                /\ \A j \in 1..i : entry[s[j]].key # k
HasFound(t) ==
  LET k == loc[t].key
  IN /\ loc[t].place \in {HeadOf(k)} \cup In(HeadOf(k))
     /\ loc[t].obj \in In(HeadOf(k)) /\ entry[loc[t].obj].key = k
ReadInv ==
  \A t \in Threads : /\ pc[t] = "read"  => loc[t].key \in Keys /\ ReadsPast(t)
                     /\ pc[t] = "value" => loc[t].key \in Keys /\ HasFound(t)

(* The last log line: a redo would store what is to be stored next, or     *)
(* what is there already.                                                  *)
Logged(t) == pc[t] \in {"swap", "store"}
LogsNext(t) == log[t] = [place |-> loc[t].place, obj |-> loc[t].obj, era |-> era[t]]
LogsPast(t) ==
  log[t].obj # Null => /\ log[t].place \in Heads \cup InIndex
                       /\ log[t].obj \in InIndex /\ word[log[t].place] = log[t].obj
LogInv == \A t \in Threads : IF Logged(t) THEN LogsNext(t) ELSE LogsPast(t)

(* A thread that stopped and had logged has swapped.                       *)
StopInv ==
  \A t \in Threads : /\ mode[t] \in {"recover", "gone"} => pc[t] = "idle"
                     /\ mode[t] = "crashed" => pc[t] # "swap"

IInv == TypeOK /\ ChainInv /\ EntryInv /\ PutInv /\ ReadInv /\ LogInv /\ StopInv
=============================================================================
