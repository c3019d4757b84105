---------------------------- MODULE UpdateCounts ----------------------------
(***************************************************************************)
(* What becomes of a document at the nodes that serve it, with no values,  *)
(* messages or requests in it: counts[n][s] is how many updates of s the   *)
(* vector of n holds.  An update counts up the node's own slot.  A merge   *)
(* takes the larger count of each slot, from a vector that is nowhere      *)
(* ahead of the slots' owners.                                             *)
(*                                                                         *)
(* VectorCRDT implements it with the counts behind its values, SyncQuorum  *)
(* with the vectors it has in place of values.                             *)
(***************************************************************************)
EXTENDS Naturals

CONSTANT Node

VARIABLE counts

Vector == [Node -> Nat]
Owners == [s \in Node |-> counts[s][s]]
Ahead(v, w) == \A s \in Node : w[s] <= v[s]
Larger(v, w) == [s \in Node |-> IF v[s] >= w[s] THEN v[s] ELSE w[s]]

Init == counts = [n \in Node |-> [s \in Node |-> 0]]

Update(n) == counts' = [counts EXCEPT ![n][n] = @ + 1]

Merge(n) ==
  \E v \in Vector : /\ Ahead(Owners, v)
                    /\ counts' = [counts EXCEPT ![n] = Larger(@, v)]

Next == \E n \in Node : Update(n) \/ Merge(n)

Spec == Init /\ [][Next]_counts
=============================================================================
