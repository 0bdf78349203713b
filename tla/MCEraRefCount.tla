--------------------------- MODULE MCEraRefCount ---------------------------
(* Instances of EraRefCount for TLC.                                       *)
EXTENDS EraRefines, EraInv, TLC

CONSTANTS a1, a2, b1, b2, c1

(* Thread 1 owns two RootRefs, thread 2 one.                               *)
Slots3 == {a1, a2, b1}
Owner3 == (a1 :> 1) @@ (a2 :> 1) @@ (b1 :> 2)

(* Two threads with two RootRefs each.                                     *)
Slots4 == {a1, a2, b1, b2}
Owner4 == Owner3 @@ (b2 :> 2)

(* Three threads, so that a header is replaced twice over.                 *)
SlotsT == {a1, b1, c1}
OwnerT == (a1 :> 1) @@ (b1 :> 2) @@ (c1 :> 3)

(* Each RootRef in memory of its own; those of 1 and 2 in the same memory. *)
Apart == [r \in Slots |-> r]
Moved == [Apart EXCEPT ![b1] = a1]
=============================================================================
