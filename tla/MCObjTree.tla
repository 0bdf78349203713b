------------------------------ MODULE MCObjTree ------------------------------
(* Small instances of ObjTree for TLC.                                     *)
EXTENDS ObjTreeInv, TLC

CONSTANTS ra, rb, rc, top, mid, leaf, left, right, down

(* Thread 1 has two RootRefs, thread 2 one; top has two words, mid one.    *)
TwoOwner == (ra :> 1) @@ (rb :> 1) @@ (rc :> 2)
TwoAddr  == [r \in Roots |-> r]
TwoMax   == (ra :> 1) @@ (rb :> 1) @@ (rc :> 2)
TwoHome  == (top :> 1) @@ (mid :> 1) @@ (leaf :> 2)
TwoLevel == (top :> 3) @@ (mid :> 2) @@ (leaf :> 1)
TwoIn    == (left :> top) @@ (right :> top) @@ (down :> mid)
TwoNr    == (left :> 0) @@ (right :> 1) @@ (down :> 0)
=============================================================================
