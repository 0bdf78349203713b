-------------------------------- MODULE Links --------------------------------
(***************************************************************************)
(* Lists that nodes form through a link to the next one.                   *)
(***************************************************************************)
EXTENDS Naturals, FiniteSets, Sequences

(* The nodes from x on, until a link leads out of the domain.              *)
PathFrom(link, x) ==
  LET Nodes == DOMAIN link
      path[n \in 0..Cardinality(Nodes)] ==
        [y \in Nodes |->
           IF n = 0 THEN <<>>
           ELSE <<y>> \o (IF link[y] \in Nodes THEN path[n - 1][link[y]] ELSE <<>>)]
  IN IF x \in Nodes THEN path[Cardinality(Nodes)][x] ELSE <<>>

(* s are these nodes, and no node comes twice.                             *)
IsPath(link, s, x) ==
  LET n == Len(s)
  IN /\ s \in Seq(DOMAIN link)
     /\ IF s = <<>> THEN x \notin DOMAIN link
                    ELSE x = s[1] /\ link[s[n]] \notin DOMAIN link
     /\ \A i \in 1..(n - 1) : link[s[i]] = s[i + 1]
     /\ \A i, j \in 1..n : s[i] = s[j] => i = j
=============================================================================
