------------------------------ MODULE MCMirror ------------------------------
(* Instances of Mirror for TLC.                                            *)
EXTENDS Mirror

\* One direction between two agents.
OneDirection == [link : Link, source : {"a"}, destination : {"b"}]
=============================================================================
