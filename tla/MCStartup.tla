----------------------------- MODULE MCStartup -----------------------------
(* Instances of Startup for TLC.                                           *)
EXTENDS Startup, TLC

\* Every database with rows of one direction, whole or with orphans: rows of
\* different directions do not refer to each other.
OldDatabases ==
    LET rows == SUBSET {CHOOSE d \in Row : d.source # d.destination} IN
    [agents : SUBSET Agent, links : SUBSET Link, directions : rows,
     pings : rows, runs : rows, hops : rows]
=============================================================================
