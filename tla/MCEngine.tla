------------------------------ MODULE MCEngine ------------------------------
(* The engine contract on its own: three transactions on two attachments. *)
EXTENDS Engine, TLC

Symmetry == Permutations(Tx) \cup Permutations(Val)
=============================================================================
