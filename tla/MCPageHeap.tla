----------------------------- MODULE MCPageHeap -----------------------------
(* Small instances of PageHeap for TLC.                                    *)
EXTENDS PageHeap, TLC

CONSTANTS s1, s2, ba, bb, bc, bd

(* A segment of two pages and one of one page, two blocks in one page.     *)
Three   == (1 :> s1) @@ (2 :> s1) @@ (3 :> s2)
Quad    == (ba :> 1) @@ (bb :> 1) @@ (bc :> 2) @@ (bd :> 3)
=============================================================================
