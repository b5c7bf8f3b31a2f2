------------------------------- MODULE Tables -------------------------------
(***************************************************************************)
(* The tables of the controller's database that refer to each other, and   *)
(* the constraints of their schema.                                        *)
(*                                                                         *)
(* A result carries the identity and the endpoints of the direction of its *)
(* job, so a row of ping_results or mtr_runs is written as that direction, *)
(* and one row stands for all of its kind.                                 *)
(***************************************************************************)
CONSTANTS Agent, Link, Id   \* identities of agents, links and directions

Row == [id : Id, link : Link, source : Agent, destination : Agent]

Db == [agents : SUBSET Agent, links : SUBSET Link, directions : SUBSET Row,
       pings : SUBSET Row, runs : SUBSET Row, hops : SUBSET Row]

Empty == [agents |-> {}, links |-> {}, directions |-> {}, pings |-> {},
          runs |-> {}, hops |-> {}]

Endpoints(d) == {d.source, d.destination}

\* Two of these references cascade, that of a direction to its link and that of
\* a hop to its run: a statement that deletes links or runs takes those rows with
\* it.  The others refuse.
ForeignKeys(db) ==
    /\ \A d \in db.directions : d.link \in db.links /\ Endpoints(d) \subseteq db.agents
    /\ \A p \in db.pings \cup db.runs :
          p \in db.directions /\ Endpoints(p) \subseteq db.agents
    /\ db.hops \subseteq db.runs

Unique(db) ==
    \A d, e \in db.directions :
        d.link = e.link /\ d.source = e.source /\ d.destination = e.destination => d = e
=============================================================================
