---------------------------- MODULE MCDocuments -----------------------------
(***************************************************************************)
(* Three updaters, one of them rejected, two snapshots and a reader meet   *)
(* at an absent document.                                                  *)
(***************************************************************************)
EXTENDS Documents, TLC

Snapshots == {[own |-> 0, peer |-> k] : k \in 0..2}
ThreadSymmetry == Permutations(Merger) \cup Permutations(Updater \ Bad)
=============================================================================
