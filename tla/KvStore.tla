------------------------------- MODULE KvStore -------------------------------
(***************************************************************************)
(* What the hash index promises: one dictionary for all threads.  A put    *)
(* takes effect at one moment of the call; if its thread stops on the way, *)
(* perhaps later, as a new key, and perhaps not at all.  A get tells what  *)
(* the dictionary holds at one moment of the call.  Nothing is ever lost.  *)
(***************************************************************************)
CONSTANTS Threads, Keys, Values, Null

VARIABLES dict,    \* the value of a key, or Null
          told     \* key and value of the last call a thread has finished

kvars == <<dict, told>>

Init == /\ dict = [k \in Keys |-> Null]
        /\ told = [t \in Threads |-> <<Null, Null>>]

Put(t, k, v) == /\ told' = [told EXCEPT ![t] = <<k, v>>]
                /\ dict' = [dict EXCEPT ![k] = v]

Get(t, k) == /\ told' = [told EXCEPT ![t] = <<k, dict[k]>>]
             /\ UNCHANGED dict

(* The put of a new key, for a thread that stopped.                        *)
Finish(k, v) == /\ UNCHANGED told
                /\ dict[k] = Null
                /\ dict' = [dict EXCEPT ![k] = v]

(* The thread goes on to its next call, or stops.                          *)
Forget(t) == /\ told' = [told EXCEPT ![t] = <<Null, Null>>]
             /\ UNCHANGED dict

Next == \/ \E t \in Threads : Forget(t)
        \/ \E k \in Keys, v \in Values : Finish(k, v)
        \/ \E t \in Threads, k \in Keys :
             Get(t, k) \/ \E v \in Values : Put(t, k, v)

Spec == Init /\ [][Next]_kvars
=============================================================================
