----------------------------- MODULE MCInstLists -----------------------------
(* The addresses are model values: the lists compare them for equality     *)
(* only, so that they are symmetric.                                       *)
EXTENDS InstListsProperties, TLC

Addresses == Permutations(Cell)
=============================================================================
