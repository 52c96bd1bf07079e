--------------------------- MODULE MCBorgingsplan ---------------------------
(* Constants of Borgingsplan for TLC. *)
EXTENDS Borgingsplan, TLC
Symmetry == Permutations(Plans) \cup Permutations(Requests)
=============================================================================
