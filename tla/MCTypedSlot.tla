---------------------------- MODULE MCTypedSlot -----------------------------
(***************************************************************************)
(* Halves from -2 to 2.  Integers and proper fractions of both signs and 0 *)
(* are among them, and so is a product of each kind; a term can be any     *)
(* number of operators long, since only its type and value are kept.       *)
(***************************************************************************)
EXTENDS TypedSlot

Halves == -4..4
=============================================================================
