-------------------------- MODULE MCSessionRefresh --------------------------
(* Constants of SessionRefresh for TLC. *)
EXTENDS SessionRefresh, TLC
OneBrowser == [t \in Tabs |-> CHOOSE b \in Browsers : TRUE]
(* Tokens are refreshed at any time; these the user does, when it matters:  *)
(* two sign-outs everywhere that may commit in either order, a switch that  *)
(* finds them committed or not, a login before and one after them.          *)
Deeds == [login |-> {1, 3}, logout_all |-> {1, 2}, switch |-> {2}, logout |-> {4}]
Symmetry == Permutations(Tokens) \cup Permutations(Tabs)
=============================================================================
