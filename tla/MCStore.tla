------------------------------ MODULE MCStore ------------------------------
(* Instances of Store for TLC.                                             *)
EXTENDS Store, TLC

Same == Permutations(Agent) \cup Permutations(Link) \cup Permutations(Request)
=============================================================================
