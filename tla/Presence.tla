------------------------------ MODULE Presence ------------------------------
(***************************************************************************)
(* What the hub promises its callers about presence, without handlers,     *)
(* pumps, locks or a database: every agent has at most one current         *)
(* connection, a connection is current for one agent and for one stretch   *)
(* of time, and a newer connection takes over from an older one in a       *)
(* single step.  Hub implements it (HubPresence).                          *)
(***************************************************************************)
CONSTANTS Agent, Conn, NoConn

VARIABLES
    current,   \* Agent -> its current connection, or NoConn
    life       \* Conn -> "new", "current", "over"

vars == <<current, life>>

TypeOK ==
    /\ current \in [Agent -> Conn \cup {NoConn}]
    /\ life \in [Conn -> {"new", "current", "over"}]

Init ==
    /\ current = [a \in Agent |-> NoConn]
    /\ life = [c \in Conn |-> "new"]

\* Connection c becomes the current one of agent a; the one it displaces, if
\* any, is over.
Arrive(a, c) ==
    /\ life[c] = "new"
    /\ current' = [current EXCEPT ![a] = c]
    /\ life' = [d \in Conn |-> IF d = c THEN "current"
                               ELSE IF d = current[a] THEN "over" ELSE life[d]]

\* The current connection of agent a ends and nothing takes its place.
Leave(a) ==
    /\ current[a] # NoConn
    /\ current' = [current EXCEPT ![a] = NoConn]
    /\ life' = [d \in Conn |-> IF d = current[a] THEN "over" ELSE life[d]]

\* A connection is turned away before it was current.
Refuse(c) ==
    /\ life[c] = "new"
    /\ life' = [life EXCEPT ![c] = "over"]
    /\ UNCHANGED current

\* The process ends: no connection is current, and those in the middle of
\* their handshake are turned away.
Collapse(turnedAway) ==
    /\ \A c \in turnedAway : life[c] = "new"
    /\ current' = [a \in Agent |-> NoConn]
    /\ life' = [c \in Conn |-> IF life[c] = "current" \/ c \in turnedAway
                               THEN "over" ELSE life[c]]

Next ==
    \/ \E a \in Agent, c \in Conn : Arrive(a, c)
    \/ \E a \in Agent : Leave(a)
    \/ \E c \in Conn : Refuse(c)
    \/ \E turnedAway \in SUBSET Conn : Collapse(turnedAway)

Spec == Init /\ [][Next]_vars
=============================================================================
