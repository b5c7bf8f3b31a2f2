---------------------------- MODULE HubPresence ----------------------------
(***************************************************************************)
(* Hub implements Presence: a connection is new until SetAgentConnection   *)
(* installs it, current while the map holds it, and over from then on,     *)
(* even while its goroutines are still winding down.                       *)
(***************************************************************************)
EXTENDS Hub

Life ==
    [c \in Conn |->
        IF \E a \in Agent : agents[a] = c THEN "current"
        ELSE IF pc[c] \in {"idle", "resolved", "greeted"} THEN "new"
        ELSE "over"]

Abstract == INSTANCE Presence WITH current <- agents, life <- Life

\* The hub's steps are steps of Presence or leave it alone: a displaced
\* connection is never reinstated and an agent never has two.
ImplementsPresence == Abstract!Spec
=============================================================================
