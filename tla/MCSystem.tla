------------------------------ MODULE MCSystem ------------------------------
(* Instances of System for TLC.                                            *)
EXTENDS System, TLC

\* Jobs are interchangeable.
JobSymmetry == Permutations(Job)
=============================================================================
