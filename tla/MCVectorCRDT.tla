---------------------------- MODULE MCVectorCRDT ----------------------------
(***************************************************************************)
(* Every commutative and idempotent function on three values, and the two  *)
(* projections, as the merge; every function of the own slot as a local    *)
(* update and every function of the fold as a write, alone or beside a     *)
(* local update that counts; over all three values or two of them as the   *)
(* element type.                                                           *)
(***************************************************************************)
EXTENDS VectorCRDT, TLC

Values == 0..2
Identity == [v \in Values |-> v]

Merges ==
  {[x \in Values \X Values |->
      IF x[1] = x[2] THEN x[1] ELSE f[{x[1], x[2]}]] :
     f \in [{{0, 1}, {0, 2}, {1, 2}} -> Values]} \cup
  {[x \in Values \X Values |-> x[i]] : i \in 1..2}

Updates ==
  [kind : {"local"}, fn : {[x \in Values \X Values |-> f[x[1]]] : f \in [Values -> Values]}] \cup
  [kind : {"write"}, fn : {[x \in Values \X Values |-> f[x[2]]] : f \in [Values -> Values]}]

Count == [kind |-> "local", fn |-> [x \in Values \X Values |-> IF x[1] < 2 THEN x[1] + 1 ELSE 2]]

Programs ==
  [elem : {Values, {0, 1}}, merge : Merges,
   updates : {{u} : u \in Updates} \cup {{u, Count} : u \in Updates}]

NodeSymmetry == Permutations(Node)
=============================================================================
