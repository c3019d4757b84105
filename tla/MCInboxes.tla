------------------------------ MODULE MCInboxes -----------------------------
(***************************************************************************)
(* An instance of Inboxes for TLC: each node coordinates one request.      *)
(***************************************************************************)
EXTENDS Inboxes

ApartInit == Init /\ \A r, s \in Request : at[r] = at[s] => r = s

ApartSpec == ApartInit /\ [][Next]_vars /\ Fairness
=============================================================================
