----------------------------- MODULE MCHashIndex -----------------------------
(* Small instances of HashIndex for TLC.                                   *)
EXTENDS HashIndexInv, TLC

CONSTANTS va, vb, ba, bb, bc, pone, ptwo, ka, kb, kc

(* Two blocks in one page, one in the other; two keys of thread 1 that     *)
(* share a bucket, one of thread 2.                                        *)
TwoPages   == (ba :> pone) @@ (bb :> pone) @@ (bc :> ptwo)
ThreeParts == (ka :> 1) @@ (kb :> 1) @@ (kc :> 2)
Eras       == <<3, 2>>
OneBucket  == [k \in Keys |-> 0]
Symmetry   == Permutations({ba, bb}) \cup Permutations({va, vb})
=============================================================================
