-------------------------------- MODULE Jobs --------------------------------
(***************************************************************************)
(* What the controller and an agent promise together about jobs, without   *)
(* queues, workers, sockets or maps: a job is taken for one connection, it *)
(* ends once, done or lost, and it is lost only with its connection.       *)
(* System implements it.                                                   *)
(***************************************************************************)
CONSTANTS Job, Conn, NoConn

VARIABLES
    stage,     \* Job -> "new", "taken", "done", "lost"
    carrier,   \* Job -> the connection it was taken for, or NoConn
    broken     \* connections that have begun to end

vars == <<stage, carrier, broken>>

TypeOK ==
    /\ stage \in [Job -> {"new", "taken", "done", "lost"}]
    /\ carrier \in [Job -> Conn \cup {NoConn}]
    /\ broken \in SUBSET Conn

Init ==
    /\ stage = [j \in Job |-> "new"]
    /\ carrier = [j \in Job |-> NoConn]
    /\ broken = {}

\* The controller may take a job for a connection it does not know to be
\* broken; the job is lost at once.
Take(j, c) ==
    /\ stage[j] = "new"
    /\ stage' = [stage EXCEPT ![j] = IF c \in broken THEN "lost" ELSE "taken"]
    /\ carrier' = [carrier EXCEPT ![j] = c]
    /\ UNCHANGED broken

\* Its result, or its rejection, has been handled.
Finish(j) ==
    /\ stage[j] = "taken"
    /\ stage' = [stage EXCEPT ![j] = "done"]
    /\ UNCHANGED <<carrier, broken>>

\* A connection breaks, or was broken before, and some of what is under way on
\* broken connections is lost.
Break(c) ==
    /\ broken' = broken \cup {c}
    /\ \E lost \in SUBSET {j \in Job : stage[j] = "taken" /\ carrier[j] \in broken'} :
          stage' = [j \in Job |-> IF j \in lost THEN "lost" ELSE stage[j]]
    /\ UNCHANGED carrier

Next ==
    \/ \E c \in Conn : Break(c)
    \/ \E j \in Job : Finish(j) \/ \E c \in Conn : Take(j, c)

Spec == Init /\ [][Next]_vars
=============================================================================
