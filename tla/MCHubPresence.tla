--------------------------- MODULE MCHubPresence ---------------------------
(* Instances of Hub and HubPresence for TLC.                               *)
EXTENDS HubPresence, TLC

\* Agents and connections are interchangeable.
FullSymmetry == Permutations(Conn) \cup Permutations(Agent)
=============================================================================
