---------------------------- MODULE MCEnrollment ----------------------------
(* The instance of Enrollment for TLC.                                     *)
EXTENDS Enrollment, Naturals

\* The first two processes share a token and an instance ID, the third shares
\* the token with them; nobody has the second token.
Shared ==
    [p \in Process |-> [token |-> "t", instance |-> IF p = 3 THEN "b" ELSE "a"]]
=============================================================================
