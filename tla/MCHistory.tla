----------------------------- MODULE MCHistory -----------------------------
(* The instance of History for TLC.                                        *)
EXTENDS History

\* Nothing expires, only traceroutes do, everything does.
Chosen == {Forever, [k \in Kind |-> IF k = "mtr" THEN 1 ELSE 0], [k \in Kind |-> 1]}
=============================================================================
