----------------------------- MODULE EraRefines -----------------------------
(***************************************************************************)
(* EraRefCount implements RefSpec.  A reference is what its count stands   *)
(* for (eff): it changes at the compare-and-swap, and the write of pptr,   *)
(* the redo of that write and every retry are stuttering steps.            *)
(***************************************************************************)
EXTENDS EraRefCount

heap == [o \in Objs |->
           IF o \in pool THEN "free"
           ELSE IF Refs(o) # {} THEN "live"
           ELSE IF \E t \in Threads : /\ mode[t] \in Working /\ loc[t].obj = o
                                      /\ pc[t] \in {"pptr", "taken"}
                THEN "fresh"
           ELSE "dead"]

RS == INSTANCE RefSpec WITH target <- eff

(* Clients, crashes and recoveries together do nothing RefSpec forbids:    *)
(* no double free, no early free, no reference out of nothing (README).    *)
ImplementsRefSpec == RS!Spec
=============================================================================
