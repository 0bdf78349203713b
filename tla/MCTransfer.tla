----------------------------- MODULE MCTransfer -----------------------------
(* Small instances of Transfer for TLC.                                    *)
EXTENDS TransferRefines, TransferInv, TLC

CONSTANTS qa, qb, x, y

(* A queue each way between 1 and 2, so that the monitor finds a sender    *)
(* first once and a receiver first once.                                   *)
BothSender   == (qa :> 1) @@ (qb :> 2)
BothReceiver == (qa :> 2) @@ (qb :> 1)

(* One queue, from 1 to 2; two, both from 1 to 2.                          *)
OneSender    == (qa :> 1)
OneReceiver  == (qa :> 2)
TwoSender    == (qa :> 1) @@ (qb :> 1)
TwoReceiver  == (qa :> 2) @@ (qb :> 2)

OneHome  == (x :> 1)
TwoHome  == (x :> 1) @@ (y :> 1)
=============================================================================
