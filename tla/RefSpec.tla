------------------------------ MODULE RefSpec ------------------------------
(***************************************************************************)
(* What cxl-shm promises about references, seen without eras, logs and     *)
(* crashes: a reference appears and disappears in one step, a block goes   *)
(* back to the allocator only after its last reference has gone, and the   *)
(* allocator fills only blocks that came back to it.  A client that dies   *)
(* adds nothing but drops of its own references and the loss, until the    *)
(* next sweep, of a block it was filling.                                  *)
(***************************************************************************)
CONSTANTS Objs, Slots, Null

VARIABLES target,   \* the block a reference leads to, or Null
          heap      \* what the allocator knows of a block

vars == <<target, heap>>

Init == /\ target = [r \in Slots |-> Null]
        /\ heap   = [o \in Objs |-> "free"]

Referenced(o, tgt) == \E r \in Slots : tgt[r] = o

Take(o) == /\ heap[o] = "free"
           /\ heap' = [heap EXCEPT ![o] = "fresh"]
           /\ UNCHANGED target

Attach(r, o) == /\ heap[o] = "fresh" /\ target[r] = Null
                /\ heap'   = [heap EXCEPT ![o] = "live"]
                /\ target' = [target EXCEPT ![r] = o]

Share(r, s) == /\ target[r] = Null /\ target[s] # Null
               /\ target' = [target EXCEPT ![r] = target[s]]
               /\ UNCHANGED heap

Drop(r) == /\ target[r] # Null
           /\ target' = [target EXCEPT ![r] = Null]
           /\ heap' = IF Referenced(target[r], target') THEN heap
                      ELSE [heap EXCEPT ![target[r]] = "dead"]

Lose(o) == /\ heap[o] = "fresh"
           /\ heap' = [heap EXCEPT ![o] = "dead"]
           /\ UNCHANGED target

Reuse == /\ \E O \in SUBSET Objs :
              /\ O # {} /\ \A o \in O : heap[o] = "dead"
              /\ heap' = [o \in Objs |-> IF o \in O THEN "free" ELSE heap[o]]
         /\ UNCHANGED target

Next == \/ \E o \in Objs : Take(o) \/ Lose(o)
        \/ \E r \in Slots, o \in Objs : Attach(r, o)
        \/ \E r, s \in Slots : Share(r, s)
        \/ \E r \in Slots : Drop(r)
        \/ Reuse

Spec == Init /\ [][Next]_vars
=============================================================================
