---------------------------- MODULE MCMemberships ----------------------------
(* Constants of Memberships for TLC. *)
EXTENDS Memberships, TLC
Symmetry == Permutations(Users) \cup Permutations(Requests)
=============================================================================
