----------------------------- MODULE HubProofs -----------------------------
(***************************************************************************)
(* Theorems about Hub for any sets of agents, connections and jobs, any    *)
(* queue capacity and any number of restarts.  HubInv is the inductive     *)
(* invariant; each of its conjuncts is shown to be preserved action by     *)
(* action, from the conjuncts it needs.  The last part shows that Hub      *)
(* implements Presence: an initial state maps to an initial state, and a   *)
(* step to a step of Presence or to a stutter.                             *)
(***************************************************************************)
EXTENDS HubPresence, TLAPS

USE ConstantsAssumption

\* What the two shared helpers do to the variables they write.
LEMMA OfferType ==
  ASSUME send \in [Conn -> Seq(Msg)], NEW c, NEW m \in Msg, Offer(c, m)
  PROVE  send' \in [Conn -> Seq(Msg)]
<1>1. CASE c \in Conn /\ Len(send[c]) < QueueCap
  <2>1. Append(send[c], m) \in Seq(Msg)  BY <1>1
  <2> QED  BY <1>1, <2>1 DEF Offer
<1>2. CASE ~(c \in Conn /\ Len(send[c]) < QueueCap)  BY <1>2 DEF Offer
<1> QED  BY <1>1, <1>2

LEMMA RemoveType ==
  ASSUME TypeOK, NEW a \in Agent, NEW c, RemoveAgentConnection(a, c)
  PROVE  /\ agents' \in [Agent -> Conn \cup {NoConn}]
         /\ online' \in [Agent -> BOOLEAN]
         /\ stale' \in SUBSET Agent
         /\ row' = row
<1>1. CASE agents[a] = c
  BY <1>1 DEF TypeOK, RemoveAgentConnection, UpdateAgentStatus, dbVars
<1>2. CASE agents[a] # c
  BY <1>2 DEF TypeOK, RemoveAgentConnection, dbVars
<1> QED  BY <1>1, <1>2

\* The values a handler, a pump or a request leaves behind stay in the ranges
\* the code declares.  A handler past its handshake knows its agent, and so
\* does the connection that Close waits for.
LEMMA TypeStep ==
  ASSUME TypeOK, ResolvedHasRow, AwaitedIsStopped, [Next]_vars
  PROVE  TypeOK'
<1> USE DEF TypeOK, ResolvedHasRow, HandlerPc
<1>1. ASSUME NEW c \in Conn, Greet(c) PROVE TypeOK'
  BY <1>1 DEF Greet, dbVars, socketVars, adminVars, closeVars
<1>2. ASSUME NEW c \in Conn, GreetFails(c) PROVE TypeOK'
  BY <1>2 DEF GreetFails, dbVars, pumpVars, socketVars, adminVars, closeVars
<1>3. ASSUME NEW c \in Conn, SetAgentConnection(c) PROVE TypeOK'
  BY <1>3 DEF SetAgentConnection, pumpVars, socketVars, adminVars, closeVars,
         UpdateAgentStatus
<1>4. ASSUME NEW c \in Conn, StopExisting(c) PROVE TypeOK'
  BY <1>4 DEF StopExisting, dbVars, pumpVars, socketVars, adminVars,
         closeVars, Stop
<1>5. ASSUME NEW c \in Conn, Reply(c) PROVE TypeOK'
  <2>1. send' \in [Conn -> Seq(Msg)]  BY <1>5, OfferType DEF Reply, Msg
  <2> QED  BY <1>5, <2>1 DEF Reply, dbVars, socketVars, adminVars, closeVars
<1>6. ASSUME NEW c \in Conn, Leave(c) PROVE TypeOK'
  BY <1>6 DEF Leave, dbVars, pumpVars, adminVars, closeVars, Stop
<1>7. ASSUME NEW c \in Conn, Finish(c) PROVE TypeOK'
  <2>1. owner[c] \in Agent  BY <1>7 DEF Finish
  <2>2. RemoveAgentConnection(owner[c], c)  BY <1>7 DEF Finish
  <2> QED  BY <1>7, <2>1, <2>2, RemoveType
       DEF Finish, pumpVars, socketVars, adminVars, closeVars
<1>8. ASSUME NEW c \in Conn, PumpTake(c) PROVE TypeOK'
  <2>1. Head(send[c]) \in Msg /\ Tail(send[c]) \in Seq(Msg)  BY <1>8 DEF PumpTake
  <2> QED  BY <1>8, <2>1, MessagesAssumption
       DEF PumpTake, dbVars, socketVars, adminVars, closeVars
<1>9. ASSUME NEW c \in Conn, PumpWrite(c) PROVE TypeOK'
  <2>1. {hand[c]} \ {Pong} \subseteq JobMsg  BY <1>9 DEF PumpWrite, Msg
  <2> QED  BY <1>9, <2>1 DEF PumpWrite, dbVars, socketVars, adminVars, closeVars
<1>10. ASSUME NEW c \in Conn, PumpEnds(c) PROVE TypeOK'
  BY <1>10 DEF PumpEnds, dbVars, adminVars, closeVars
<1>11. ASSUME NEW c \in Conn, Reject(c) PROVE TypeOK'
  BY <1>11 DEF Reject, dbVars, pumpVars, adminVars, closeVars
<1>12. ASSUME NEW c \in Conn, ReadPing(c) PROVE TypeOK'
  BY <1>12 DEF ReadPing, dbVars, pumpVars, socketVars, adminVars, closeVars
<1>13. ASSUME NEW c \in Conn, LoseSocket(c) PROVE TypeOK'
  BY <1>13 DEF LoseSocket, dbVars, pumpVars, adminVars, closeVars
<1>14. ASSUME NEW c \in Conn, NEW a \in Agent, Resolve(c, a) PROVE TypeOK'
  BY <1>14 DEF Resolve, pumpVars, socketVars, adminVars, closeVars
<1>15. ASSUME NEW a \in Agent, CreateAgent(a) PROVE TypeOK'
  BY <1>15 DEF CreateAgent, pumpVars, socketVars, adminVars, closeVars
<1>16. ASSUME NEW a \in Agent, DeleteAgent(a) PROVE TypeOK'
  BY <1>16 DEF DeleteAgent, pumpVars, socketVars, closeVars
<1>17. ASSUME NEW a \in Agent, FindVictim(a) PROVE TypeOK'
  BY <1>17 DEF FindVictim, dbVars, pumpVars, socketVars, closeVars
<1>18. ASSUME NEW a \in Agent, StopVictim(a) PROVE TypeOK'
  BY <1>18 DEF StopVictim, dbVars, pumpVars, closeVars, Stop
<1>19. ASSUME NEW j \in Job, NEW a \in Agent, DispatchJob(j, a) PROVE TypeOK'
  <2>1. [job |-> j, to |-> a] \in Msg  BY DEF Msg, JobMsg
  <2>2. send' \in [Conn -> Seq(Msg)]  BY <1>19, <2>1, OfferType DEF DispatchJob
  <2> QED  BY <1>19, <2>2 DEF DispatchJob, dbVars, socketVars, adminVars, closeVars
<1>20. ASSUME NEW c \in Conn, CloseStop(c) PROVE TypeOK'
  BY <1>20 DEF CloseStop, dbVars, pumpVars, adminVars, Stop
<1>21. ASSUME NEW c \in Conn, CloseAwait(c) PROVE TypeOK'
  <2>1. owner[c] \in Agent  BY <1>21 DEF CloseAwait, AwaitedIsStopped
  <2>2. RemoveAgentConnection(owner[c], c)  BY <1>21 DEF CloseAwait
  <2> QED  BY <1>21, <2>1, <2>2, RemoveType
       DEF CloseAwait, pumpVars, socketVars, adminVars
<1>22. ASSUME CloseSnapshot PROVE TypeOK'
  BY <1>22 DEF CloseSnapshot, dbVars, pumpVars, socketVars, adminVars
<1>23. ASSUME CloseReturns PROVE TypeOK'
  BY <1>23 DEF CloseReturns, dbVars, pumpVars, socketVars, adminVars
<1>24. ASSUME ProcessEnds PROVE TypeOK'
  BY <1>24 DEF ProcessEnds
<1>25. ASSUME Restart PROVE TypeOK'
  BY <1>25 DEF Restart, dbVars, pumpVars, socketVars, adminVars
<1>26. ASSUME AllServed PROVE TypeOK'
  BY <1>26 DEF AllServed, vars, dbVars, pumpVars, socketVars, adminVars,
         closeVars
<1>27. ASSUME UNCHANGED vars PROVE TypeOK'
  BY <1>27 DEF vars, dbVars, pumpVars, socketVars, adminVars, closeVars
<1> QED
  BY <1>1, <1>2, <1>3, <1>4, <1>5, <1>6, <1>7, <1>8, <1>9, <1>10, <1>11,
     <1>12, <1>13, <1>14, <1>15, <1>16, <1>17, <1>18, <1>19, <1>20, <1>21,
     <1>22, <1>23, <1>24, <1>25, <1>26, <1>27 DEF Next, Handler, Pump,
     Delete, Close

\* What SetAgentConnection and RemoveAgentConnection change, with the
\* definitions they share expanded once.
StatusSet(a, v) ==
    /\ \A b \in Agent \ {a} : online'[b] = online[b] /\ (b \in stale' <=> b \in stale)
    /\ row[a] = "present" /\ a \notin stale' => online'[a] = v

LEMMA StatusEffect ==
  ASSUME TypeOK, NEW a \in Agent, NEW v \in BOOLEAN, UpdateAgentStatus(a, v)
  PROVE  StatusSet(a, v)
BY DEF TypeOK, UpdateAgentStatus, StatusSet

ConnectionSet(a, c) ==
    /\ a \in Agent /\ a = owner[c] /\ row[a] # "unused"
    /\ agents' = [agents EXCEPT ![a] = c]
    /\ pc[c] = "greeted" /\ pc' = [pc EXCEPT ![c] = "displacing"]
    /\ existing' = [existing EXCEPT ![c] = agents[a]]
    /\ row' = row /\ owner' = owner /\ stopped' = stopped
    /\ toStop' = toStop /\ toAwait' = toAwait
    /\ StatusSet(a, TRUE)

LEMMA SetEffect ==
  ASSUME HubInv, NEW c \in Conn, SetAgentConnection(c)
  PROVE  ConnectionSet(owner[c], c)
<1>1. owner[c] \in Agent /\ row[owner[c]] # "unused"
  BY DEF HubInv, ResolvedHasRow, SetAgentConnection
<1>2. StatusSet(owner[c], TRUE)
  BY <1>1, StatusEffect DEF HubInv, SetAgentConnection
<1> QED  BY <1>1, <1>2 DEF ConnectionSet, SetAgentConnection, socketVars, closeVars

\* The entry of agent a is cleared if it holds c, which has stopped.
ConnectionRemoved(a, c) ==
    /\ a \in Agent /\ a = owner[c]
    /\ stopped[c] /\ pump[c] = "done"
    /\ row' = row /\ owner' = owner /\ existing' = existing /\ stopped' = stopped
    /\ \A b \in Agent : agents'[b] = IF agents[b] = c THEN NoConn ELSE agents[b]
    /\ \/ /\ agents[a] = c
          /\ agents' = [agents EXCEPT ![a] = NoConn]
          /\ StatusSet(a, FALSE)
       \/ agents[a] # c /\ agents' = agents /\ online' = online /\ stale' = stale

LEMMA RemoveEffect ==
  ASSUME HubInv, NEW a \in Agent, NEW c \in Conn, RemoveAgentConnection(a, c),
         a = owner[c], stopped[c], pump[c] = "done",
         owner' = owner, existing' = existing, stopped' = stopped
  PROVE  ConnectionRemoved(a, c)
<1>1. CASE agents[a] = c
  <2>1. StatusSet(a, FALSE)
    BY <1>1, StatusEffect DEF HubInv, RemoveAgentConnection
  <2>2. \A b \in Agent : agents[b] = c => b = a
    BY DEF HubInv, TypeOK, ListedIsServed
  <2>3. agents' = [agents EXCEPT ![a] = NoConn] /\ row' = row
    BY <1>1 DEF RemoveAgentConnection
  <2>4. \A b \in Agent : agents'[b] = IF agents[b] = c THEN NoConn ELSE agents[b]
    BY <1>1, <2>2, <2>3 DEF HubInv, TypeOK
  <2> QED  BY <1>1, <2>1, <2>3, <2>4 DEF ConnectionRemoved
<1>2. CASE agents[a] # c
  <2>1. \A b \in Agent : agents[b] # c
    BY <1>2 DEF HubInv, TypeOK, ListedIsServed
  <2> QED  BY <1>2, <2>1 DEF ConnectionRemoved, RemoveAgentConnection, dbVars
<1> QED  BY <1>1, <1>2

LEMMA FinishEffect ==
  ASSUME HubInv, NEW c \in Conn, Finish(c)
  PROVE  /\ ConnectionRemoved(owner[c], c)
         /\ pc[c] = "waiting" /\ pc' = [pc EXCEPT ![c] = "finished"]
         /\ toStop' = toStop /\ toAwait' = toAwait
<1>1. owner[c] \in Agent /\ stopped[c]
  BY DEF HubInv, ResolvedHasRow, AwaitedIsStopped, Finish
<1>2. ConnectionRemoved(owner[c], c)
  BY <1>1, RemoveEffect DEF Finish, socketVars
<1> QED  BY <1>2 DEF Finish, closeVars

LEMMA CloseAwaitEffect ==
  ASSUME HubInv, NEW c \in Conn, CloseAwait(c)
  PROVE  ConnectionRemoved(owner[c], c) /\ pc' = pc
<1>1. owner[c] \in Agent /\ stopped[c]
  BY DEF HubInv, AwaitedIsStopped, CloseAwait
<1> QED  BY <1>1, RemoveEffect DEF CloseAwait, socketVars

\* A row is claimed before a handler acts for its agent.
LEMMA UnusedStep ==
  ASSUME HubInv, [Next]_vars
  PROVE  UnusedIsOffline'
<1>1. ASSUME NEW c \in Conn, Greet(c) PROVE UnusedIsOffline'
  BY <1>1 DEF Greet, dbVars, socketVars, adminVars, closeVars, HubInv, TypeOK,
         UnusedIsOffline, ResolvedHasRow, AwaitedIsStopped
<1>2. ASSUME NEW c \in Conn, GreetFails(c) PROVE UnusedIsOffline'
  BY <1>2 DEF GreetFails, dbVars, pumpVars, socketVars, adminVars, closeVars,
         HubInv, TypeOK, UnusedIsOffline, ResolvedHasRow, AwaitedIsStopped
<1>3. ASSUME NEW c \in Conn, SetAgentConnection(c) PROVE UnusedIsOffline'
  BY <1>3 DEF SetAgentConnection, pumpVars, socketVars, adminVars, closeVars,
         UpdateAgentStatus, HubInv, TypeOK, UnusedIsOffline, ResolvedHasRow,
         AwaitedIsStopped
<1>4. ASSUME NEW c \in Conn, StopExisting(c) PROVE UnusedIsOffline'
  BY <1>4 DEF StopExisting, dbVars, pumpVars, socketVars, adminVars,
         closeVars, Stop, HubInv, TypeOK, UnusedIsOffline, ResolvedHasRow,
         AwaitedIsStopped
<1>5. ASSUME NEW c \in Conn, Reply(c) PROVE UnusedIsOffline'
  BY <1>5 DEF Reply, dbVars, socketVars, adminVars, closeVars, Offer, HubInv,
         TypeOK, UnusedIsOffline, ResolvedHasRow, AwaitedIsStopped
<1>6. ASSUME NEW c \in Conn, Leave(c) PROVE UnusedIsOffline'
  BY <1>6 DEF Leave, dbVars, pumpVars, adminVars, closeVars, Stop, HubInv,
         TypeOK, UnusedIsOffline, ResolvedHasRow, AwaitedIsStopped
<1>7. ASSUME NEW c \in Conn, Finish(c) PROVE UnusedIsOffline'
  BY <1>7 DEF Finish, pumpVars, socketVars, adminVars, closeVars,
         RemoveAgentConnection, UpdateAgentStatus, dbVars, HubInv, TypeOK,
         UnusedIsOffline, ResolvedHasRow, AwaitedIsStopped
<1>8. ASSUME NEW c \in Conn, PumpTake(c) PROVE UnusedIsOffline'
  BY <1>8 DEF PumpTake, dbVars, socketVars, adminVars, closeVars, HubInv,
         TypeOK, UnusedIsOffline, ResolvedHasRow, AwaitedIsStopped
<1>9. ASSUME NEW c \in Conn, PumpWrite(c) PROVE UnusedIsOffline'
  BY <1>9 DEF PumpWrite, dbVars, socketVars, adminVars, closeVars, HubInv,
         TypeOK, UnusedIsOffline, ResolvedHasRow, AwaitedIsStopped
<1>10. ASSUME NEW c \in Conn, PumpEnds(c) PROVE UnusedIsOffline'
  BY <1>10 DEF PumpEnds, dbVars, adminVars, closeVars, HubInv, TypeOK,
         UnusedIsOffline, ResolvedHasRow, AwaitedIsStopped
<1>11. ASSUME NEW c \in Conn, Reject(c) PROVE UnusedIsOffline'
  BY <1>11 DEF Reject, dbVars, pumpVars, adminVars, closeVars, HubInv, TypeOK,
         UnusedIsOffline, ResolvedHasRow, AwaitedIsStopped
<1>12. ASSUME NEW c \in Conn, ReadPing(c) PROVE UnusedIsOffline'
  BY <1>12 DEF ReadPing, dbVars, pumpVars, socketVars, adminVars, closeVars,
         HubInv, TypeOK, UnusedIsOffline, ResolvedHasRow, AwaitedIsStopped
<1>13. ASSUME NEW c \in Conn, LoseSocket(c) PROVE UnusedIsOffline'
  BY <1>13 DEF LoseSocket, dbVars, pumpVars, adminVars, closeVars, HubInv,
         TypeOK, UnusedIsOffline, ResolvedHasRow, AwaitedIsStopped
<1>14. ASSUME NEW c \in Conn, NEW a \in Agent, Resolve(c, a) PROVE UnusedIsOffline'
  BY <1>14 DEF Resolve, pumpVars, socketVars, adminVars, closeVars, HubInv,
         TypeOK, UnusedIsOffline, ResolvedHasRow, AwaitedIsStopped
<1>15. ASSUME NEW a \in Agent, CreateAgent(a) PROVE UnusedIsOffline'
  BY <1>15 DEF CreateAgent, pumpVars, socketVars, adminVars, closeVars,
         HubInv, TypeOK, UnusedIsOffline, ResolvedHasRow, AwaitedIsStopped
<1>16. ASSUME NEW a \in Agent, DeleteAgent(a) PROVE UnusedIsOffline'
  BY <1>16 DEF DeleteAgent, pumpVars, socketVars, closeVars, HubInv, TypeOK,
         UnusedIsOffline, ResolvedHasRow, AwaitedIsStopped
<1>17. ASSUME NEW a \in Agent, FindVictim(a) PROVE UnusedIsOffline'
  BY <1>17 DEF FindVictim, dbVars, pumpVars, socketVars, closeVars, HubInv,
         TypeOK, UnusedIsOffline, ResolvedHasRow, AwaitedIsStopped
<1>18. ASSUME NEW a \in Agent, StopVictim(a) PROVE UnusedIsOffline'
  BY <1>18 DEF StopVictim, dbVars, pumpVars, closeVars, Stop, HubInv, TypeOK,
         UnusedIsOffline, ResolvedHasRow, AwaitedIsStopped
<1>19. ASSUME NEW j \in Job, NEW a \in Agent, DispatchJob(j, a) PROVE UnusedIsOffline'
  BY <1>19 DEF DispatchJob, dbVars, socketVars, adminVars, closeVars, Offer,
         HubInv, TypeOK, UnusedIsOffline, ResolvedHasRow, AwaitedIsStopped
<1>20. ASSUME NEW c \in Conn, CloseStop(c) PROVE UnusedIsOffline'
  BY <1>20 DEF CloseStop, dbVars, pumpVars, adminVars, Stop, HubInv, TypeOK,
         UnusedIsOffline, ResolvedHasRow, AwaitedIsStopped
<1>21. ASSUME NEW c \in Conn, CloseAwait(c) PROVE UnusedIsOffline'
  BY <1>21 DEF CloseAwait, pumpVars, socketVars, adminVars,
         RemoveAgentConnection, UpdateAgentStatus, dbVars, HubInv, TypeOK,
         UnusedIsOffline, ResolvedHasRow, AwaitedIsStopped
<1>22. ASSUME CloseSnapshot PROVE UnusedIsOffline'
  BY <1>22 DEF CloseSnapshot, dbVars, pumpVars, socketVars, adminVars, HubInv,
         TypeOK, UnusedIsOffline, ResolvedHasRow, AwaitedIsStopped
<1>23. ASSUME CloseReturns PROVE UnusedIsOffline'
  BY <1>23 DEF CloseReturns, dbVars, pumpVars, socketVars, adminVars, HubInv,
         TypeOK, UnusedIsOffline, ResolvedHasRow, AwaitedIsStopped
<1>24. ASSUME ProcessEnds PROVE UnusedIsOffline'
  BY <1>24 DEF ProcessEnds, HubInv, TypeOK, UnusedIsOffline, ResolvedHasRow,
         AwaitedIsStopped
<1>25. ASSUME Restart PROVE UnusedIsOffline'
  BY <1>25 DEF Restart, dbVars, pumpVars, socketVars, adminVars, HubInv,
         TypeOK, UnusedIsOffline, ResolvedHasRow, AwaitedIsStopped
<1>26. ASSUME AllServed PROVE UnusedIsOffline'
  BY <1>26 DEF AllServed, vars, dbVars, pumpVars, socketVars, adminVars,
         closeVars, HubInv, TypeOK, UnusedIsOffline, ResolvedHasRow,
         AwaitedIsStopped
<1>27. ASSUME UNCHANGED vars PROVE UnusedIsOffline'
  BY <1>27 DEF vars, dbVars, pumpVars, socketVars, adminVars, closeVars,
         HubInv, TypeOK, UnusedIsOffline, ResolvedHasRow, AwaitedIsStopped
<1> QED
  BY <1>1, <1>2, <1>3, <1>4, <1>5, <1>6, <1>7, <1>8, <1>9, <1>10, <1>11,
     <1>12, <1>13, <1>14, <1>15, <1>16, <1>17, <1>18, <1>19, <1>20, <1>21,
     <1>22, <1>23, <1>24, <1>25, <1>26, <1>27 DEF Next, Handler, Pump,
     Delete, Close

\* A handler keeps the agent it resolved, and a row is never unused again.
LEMMA ResolvedStep ==
  ASSUME HubInv, [Next]_vars
  PROVE  ResolvedHasRow'
<1>1. ASSUME NEW c \in Conn, Greet(c) PROVE ResolvedHasRow'
  BY <1>1 DEF Greet, dbVars, socketVars, adminVars, closeVars, HubInv, TypeOK,
         ResolvedHasRow, HandlerPc
<1>2. ASSUME NEW c \in Conn, GreetFails(c) PROVE ResolvedHasRow'
  BY <1>2 DEF GreetFails, dbVars, pumpVars, socketVars, adminVars, closeVars,
         HubInv, TypeOK, ResolvedHasRow, HandlerPc
<1>3. ASSUME NEW c \in Conn, SetAgentConnection(c) PROVE ResolvedHasRow'
  BY <1>3 DEF SetAgentConnection, pumpVars, socketVars, adminVars, closeVars,
         UpdateAgentStatus, HubInv, TypeOK, ResolvedHasRow, HandlerPc
<1>4. ASSUME NEW c \in Conn, StopExisting(c) PROVE ResolvedHasRow'
  BY <1>4 DEF StopExisting, dbVars, pumpVars, socketVars, adminVars,
         closeVars, Stop, HubInv, TypeOK, ResolvedHasRow, HandlerPc
<1>5. ASSUME NEW c \in Conn, Reply(c) PROVE ResolvedHasRow'
  BY <1>5 DEF Reply, dbVars, socketVars, adminVars, closeVars, Offer, HubInv,
         TypeOK, ResolvedHasRow, HandlerPc
<1>6. ASSUME NEW c \in Conn, Leave(c) PROVE ResolvedHasRow'
  BY <1>6 DEF Leave, dbVars, pumpVars, adminVars, closeVars, Stop, HubInv,
         TypeOK, ResolvedHasRow, HandlerPc
<1>7. ASSUME NEW c \in Conn, Finish(c) PROVE ResolvedHasRow'
  BY <1>7 DEF Finish, pumpVars, socketVars, adminVars, closeVars,
         RemoveAgentConnection, UpdateAgentStatus, dbVars, HubInv, TypeOK,
         ResolvedHasRow, HandlerPc
<1>8. ASSUME NEW c \in Conn, PumpTake(c) PROVE ResolvedHasRow'
  BY <1>8 DEF PumpTake, dbVars, socketVars, adminVars, closeVars, HubInv,
         TypeOK, ResolvedHasRow, HandlerPc
<1>9. ASSUME NEW c \in Conn, PumpWrite(c) PROVE ResolvedHasRow'
  BY <1>9 DEF PumpWrite, dbVars, socketVars, adminVars, closeVars, HubInv,
         TypeOK, ResolvedHasRow, HandlerPc
<1>10. ASSUME NEW c \in Conn, PumpEnds(c) PROVE ResolvedHasRow'
  BY <1>10 DEF PumpEnds, dbVars, adminVars, closeVars, HubInv, TypeOK,
         ResolvedHasRow, HandlerPc
<1>11. ASSUME NEW c \in Conn, Reject(c) PROVE ResolvedHasRow'
  BY <1>11 DEF Reject, dbVars, pumpVars, adminVars, closeVars, HubInv, TypeOK,
         ResolvedHasRow, HandlerPc
<1>12. ASSUME NEW c \in Conn, ReadPing(c) PROVE ResolvedHasRow'
  BY <1>12 DEF ReadPing, dbVars, pumpVars, socketVars, adminVars, closeVars,
         HubInv, TypeOK, ResolvedHasRow, HandlerPc
<1>13. ASSUME NEW c \in Conn, LoseSocket(c) PROVE ResolvedHasRow'
  BY <1>13 DEF LoseSocket, dbVars, pumpVars, adminVars, closeVars, HubInv,
         TypeOK, ResolvedHasRow, HandlerPc
<1>14. ASSUME NEW c \in Conn, NEW a \in Agent, Resolve(c, a) PROVE ResolvedHasRow'
  BY <1>14 DEF Resolve, pumpVars, socketVars, adminVars, closeVars, HubInv,
         TypeOK, ResolvedHasRow, HandlerPc
<1>15. ASSUME NEW a \in Agent, CreateAgent(a) PROVE ResolvedHasRow'
  BY <1>15 DEF CreateAgent, pumpVars, socketVars, adminVars, closeVars,
         HubInv, TypeOK, ResolvedHasRow, HandlerPc
<1>16. ASSUME NEW a \in Agent, DeleteAgent(a) PROVE ResolvedHasRow'
  BY <1>16 DEF DeleteAgent, pumpVars, socketVars, closeVars, HubInv, TypeOK,
         ResolvedHasRow, HandlerPc
<1>17. ASSUME NEW a \in Agent, FindVictim(a) PROVE ResolvedHasRow'
  BY <1>17 DEF FindVictim, dbVars, pumpVars, socketVars, closeVars, HubInv,
         TypeOK, ResolvedHasRow, HandlerPc
<1>18. ASSUME NEW a \in Agent, StopVictim(a) PROVE ResolvedHasRow'
  BY <1>18 DEF StopVictim, dbVars, pumpVars, closeVars, Stop, HubInv, TypeOK,
         ResolvedHasRow, HandlerPc
<1>19. ASSUME NEW j \in Job, NEW a \in Agent, DispatchJob(j, a) PROVE ResolvedHasRow'
  BY <1>19 DEF DispatchJob, dbVars, socketVars, adminVars, closeVars, Offer,
         HubInv, TypeOK, ResolvedHasRow, HandlerPc
<1>20. ASSUME NEW c \in Conn, CloseStop(c) PROVE ResolvedHasRow'
  BY <1>20 DEF CloseStop, dbVars, pumpVars, adminVars, Stop, HubInv, TypeOK,
         ResolvedHasRow, HandlerPc
<1>21. ASSUME NEW c \in Conn, CloseAwait(c) PROVE ResolvedHasRow'
  BY <1>21 DEF CloseAwait, pumpVars, socketVars, adminVars,
         RemoveAgentConnection, UpdateAgentStatus, dbVars, HubInv, TypeOK,
         ResolvedHasRow, HandlerPc
<1>22. ASSUME CloseSnapshot PROVE ResolvedHasRow'
  BY <1>22 DEF CloseSnapshot, dbVars, pumpVars, socketVars, adminVars, HubInv,
         TypeOK, ResolvedHasRow, HandlerPc
<1>23. ASSUME CloseReturns PROVE ResolvedHasRow'
  BY <1>23 DEF CloseReturns, dbVars, pumpVars, socketVars, adminVars, HubInv,
         TypeOK, ResolvedHasRow, HandlerPc
<1>24. ASSUME ProcessEnds PROVE ResolvedHasRow'
  BY <1>24 DEF ProcessEnds, HubInv, TypeOK, ResolvedHasRow, HandlerPc
<1>25. ASSUME Restart PROVE ResolvedHasRow'
  BY <1>25 DEF Restart, dbVars, pumpVars, socketVars, adminVars, HubInv,
         TypeOK, ResolvedHasRow, HandlerPc
<1>26. ASSUME AllServed PROVE ResolvedHasRow'
  BY <1>26 DEF AllServed, vars, dbVars, pumpVars, socketVars, adminVars,
         closeVars, HubInv, TypeOK, ResolvedHasRow, HandlerPc
<1>27. ASSUME UNCHANGED vars PROVE ResolvedHasRow'
  BY <1>27 DEF vars, dbVars, pumpVars, socketVars, adminVars, closeVars,
         HubInv, TypeOK, ResolvedHasRow, HandlerPc
<1> QED
  BY <1>1, <1>2, <1>3, <1>4, <1>5, <1>6, <1>7, <1>8, <1>9, <1>10, <1>11,
     <1>12, <1>13, <1>14, <1>15, <1>16, <1>17, <1>18, <1>19, <1>20, <1>21,
     <1>22, <1>23, <1>24, <1>25, <1>26, <1>27 DEF Next, Handler, Pump,
     Delete, Close

\* Leave and CloseStop stop a connection before anyone waits for its pump.
LEMMA AwaitedStep ==
  ASSUME HubInv, [Next]_vars
  PROVE  AwaitedIsStopped'
<1>1. ASSUME NEW c \in Conn, Greet(c) PROVE AwaitedIsStopped'
  BY <1>1 DEF Greet, dbVars, socketVars, adminVars, closeVars, HubInv, TypeOK,
         AwaitedIsStopped, ResolvedHasRow
<1>2. ASSUME NEW c \in Conn, GreetFails(c) PROVE AwaitedIsStopped'
  BY <1>2 DEF GreetFails, dbVars, pumpVars, socketVars, adminVars, closeVars,
         HubInv, TypeOK, AwaitedIsStopped, ResolvedHasRow
<1>3. ASSUME NEW c \in Conn, SetAgentConnection(c) PROVE AwaitedIsStopped'
  <2>1. ConnectionSet(owner[c], c)  BY <1>3, SetEffect
  <2> QED  BY <2>1 DEF ConnectionSet, HubInv, TypeOK, AwaitedIsStopped
<1>4. ASSUME NEW c \in Conn, StopExisting(c) PROVE AwaitedIsStopped'
  <2>1. \A d \in Conn : stopped[d] => stopped'[d]
    BY <1>4 DEF StopExisting, Stop, socketVars, HubInv, TypeOK
  <2> QED
    BY <1>4, <2>1 DEF StopExisting, HubInv, TypeOK, AwaitedIsStopped, closeVars
<1>5. ASSUME NEW c \in Conn, Reply(c) PROVE AwaitedIsStopped'
  BY <1>5 DEF Reply, dbVars, socketVars, adminVars, closeVars, Offer, HubInv,
         TypeOK, AwaitedIsStopped, ResolvedHasRow
<1>6. ASSUME NEW c \in Conn, Leave(c) PROVE AwaitedIsStopped'
  BY <1>6 DEF Leave, dbVars, closeVars, Stop, HubInv, TypeOK, AwaitedIsStopped
<1>7. ASSUME NEW c \in Conn, Finish(c) PROVE AwaitedIsStopped'
  <2>1. ConnectionRemoved(owner[c], c)  BY <1>7, FinishEffect
  <2>2. pc[c] = "waiting" /\ pc' = [pc EXCEPT ![c] = "finished"]
        /\ toStop' = toStop /\ toAwait' = toAwait
    BY <1>7, FinishEffect
  <2> QED  BY <2>1, <2>2 DEF ConnectionRemoved, HubInv, TypeOK, AwaitedIsStopped
<1>8. ASSUME NEW c \in Conn, PumpTake(c) PROVE AwaitedIsStopped'
  BY <1>8 DEF PumpTake, dbVars, socketVars, adminVars, closeVars, HubInv,
         TypeOK, AwaitedIsStopped, ResolvedHasRow
<1>9. ASSUME NEW c \in Conn, PumpWrite(c) PROVE AwaitedIsStopped'
  BY <1>9 DEF PumpWrite, dbVars, socketVars, adminVars, closeVars, HubInv,
         TypeOK, AwaitedIsStopped, ResolvedHasRow
<1>10. ASSUME NEW c \in Conn, PumpEnds(c) PROVE AwaitedIsStopped'
  BY <1>10 DEF PumpEnds, dbVars, adminVars, closeVars, HubInv, TypeOK,
         AwaitedIsStopped, ResolvedHasRow
<1>11. ASSUME NEW c \in Conn, Reject(c) PROVE AwaitedIsStopped'
  BY <1>11 DEF Reject, dbVars, pumpVars, adminVars, closeVars, HubInv, TypeOK,
         AwaitedIsStopped, ResolvedHasRow
<1>12. ASSUME NEW c \in Conn, ReadPing(c) PROVE AwaitedIsStopped'
  BY <1>12 DEF ReadPing, dbVars, pumpVars, socketVars, adminVars, closeVars,
         HubInv, TypeOK, AwaitedIsStopped, ResolvedHasRow
<1>13. ASSUME NEW c \in Conn, LoseSocket(c) PROVE AwaitedIsStopped'
  BY <1>13 DEF LoseSocket, dbVars, pumpVars, adminVars, closeVars, HubInv,
         TypeOK, AwaitedIsStopped, ResolvedHasRow
<1>14. ASSUME NEW c \in Conn, NEW a \in Agent, Resolve(c, a) PROVE AwaitedIsStopped'
  BY <1>14 DEF Resolve, pumpVars, socketVars, adminVars, closeVars, HubInv,
         TypeOK, AwaitedIsStopped, ResolvedHasRow
<1>15. ASSUME NEW a \in Agent, CreateAgent(a) PROVE AwaitedIsStopped'
  BY <1>15 DEF CreateAgent, pumpVars, socketVars, adminVars, closeVars,
         HubInv, TypeOK, AwaitedIsStopped, ResolvedHasRow
<1>16. ASSUME NEW a \in Agent, DeleteAgent(a) PROVE AwaitedIsStopped'
  BY <1>16 DEF DeleteAgent, pumpVars, socketVars, closeVars, HubInv, TypeOK,
         AwaitedIsStopped, ResolvedHasRow
<1>17. ASSUME NEW a \in Agent, FindVictim(a) PROVE AwaitedIsStopped'
  BY <1>17 DEF FindVictim, dbVars, pumpVars, socketVars, closeVars, HubInv,
         TypeOK, AwaitedIsStopped, ResolvedHasRow
<1>18. ASSUME NEW a \in Agent, StopVictim(a) PROVE AwaitedIsStopped'
  BY <1>18 DEF StopVictim, dbVars, pumpVars, closeVars, Stop, HubInv, TypeOK,
         AwaitedIsStopped, ResolvedHasRow
<1>19. ASSUME NEW j \in Job, NEW a \in Agent, DispatchJob(j, a) PROVE AwaitedIsStopped'
  BY <1>19 DEF DispatchJob, dbVars, socketVars, adminVars, closeVars, Offer,
         HubInv, TypeOK, AwaitedIsStopped, ResolvedHasRow
<1>20. ASSUME NEW c \in Conn, CloseStop(c) PROVE AwaitedIsStopped'
  BY <1>20 DEF CloseStop, dbVars, pumpVars, adminVars, Stop, HubInv, TypeOK,
         AwaitedIsStopped, ResolvedHasRow
<1>21. ASSUME NEW c \in Conn, CloseAwait(c) PROVE AwaitedIsStopped'
  BY <1>21 DEF CloseAwait, pumpVars, socketVars, adminVars,
         RemoveAgentConnection, UpdateAgentStatus, dbVars, HubInv, TypeOK,
         AwaitedIsStopped, ResolvedHasRow
<1>22. ASSUME CloseSnapshot PROVE AwaitedIsStopped'
  <2>1. toStop' = toAwait' /\ pc' = pc /\ owner' = owner /\ stopped' = stopped
    BY <1>22 DEF CloseSnapshot, socketVars
  <2>2. \A d \in toAwait' : \E a \in Agent : d = agents[a] /\ d # NoConn
    BY <1>22 DEF CloseSnapshot
  <2>3. \A d \in toAwait' : pc[d] # "idle" /\ owner[d] \in Agent
    BY <2>2 DEF HubInv, ListedIsServed, Registered
  <2> QED
    BY <2>1, <2>3 DEF HubInv, AwaitedIsStopped
<1>23. ASSUME CloseReturns PROVE AwaitedIsStopped'
  BY <1>23 DEF CloseReturns, dbVars, pumpVars, socketVars, adminVars, HubInv,
         TypeOK, AwaitedIsStopped, ResolvedHasRow
<1>24. ASSUME ProcessEnds PROVE AwaitedIsStopped'
  BY <1>24 DEF ProcessEnds, HubInv, TypeOK, AwaitedIsStopped, ResolvedHasRow
<1>25. ASSUME Restart PROVE AwaitedIsStopped'
  BY <1>25 DEF Restart, dbVars, pumpVars, socketVars, adminVars, HubInv,
         TypeOK, AwaitedIsStopped, ResolvedHasRow
<1>26. ASSUME AllServed PROVE AwaitedIsStopped'
  BY <1>26 DEF AllServed, vars, dbVars, pumpVars, socketVars, adminVars,
         closeVars, HubInv, TypeOK, AwaitedIsStopped, ResolvedHasRow
<1>27. ASSUME UNCHANGED vars PROVE AwaitedIsStopped'
  BY <1>27 DEF vars, dbVars, pumpVars, socketVars, adminVars, closeVars,
         HubInv, TypeOK, AwaitedIsStopped, ResolvedHasRow
<1> QED
  BY <1>1, <1>2, <1>3, <1>4, <1>5, <1>6, <1>7, <1>8, <1>9, <1>10, <1>11,
     <1>12, <1>13, <1>14, <1>15, <1>16, <1>17, <1>18, <1>19, <1>20, <1>21,
     <1>22, <1>23, <1>24, <1>25, <1>26, <1>27 DEF Next, Handler, Pump,
     Delete, Close

\* The deferred RemoveAgentConnection of a handler takes out its own entry.
LEMMA ListedStep ==
  ASSUME HubInv, [Next]_vars
  PROVE  ListedIsServed'
<1>1. ASSUME NEW c \in Conn, Greet(c) PROVE ListedIsServed'
  BY <1>1 DEF Greet, dbVars, socketVars, adminVars, closeVars, HubInv, TypeOK,
         ListedIsServed, Registered
<1>2. ASSUME NEW c \in Conn, GreetFails(c) PROVE ListedIsServed'
  BY <1>2 DEF GreetFails, dbVars, pumpVars, socketVars, adminVars, closeVars,
         HubInv, TypeOK, ListedIsServed, Registered
<1>3. ASSUME NEW c \in Conn, SetAgentConnection(c) PROVE ListedIsServed'
  <2>1. ConnectionSet(owner[c], c)  BY <1>3, SetEffect
  <2> QED  BY <2>1 DEF ConnectionSet, HubInv, TypeOK, ListedIsServed, Registered
<1>4. ASSUME NEW c \in Conn, StopExisting(c) PROVE ListedIsServed'
  BY <1>4 DEF StopExisting, dbVars, pumpVars, socketVars, adminVars,
         closeVars, Stop, HubInv, TypeOK, ListedIsServed, Registered
<1>5. ASSUME NEW c \in Conn, Reply(c) PROVE ListedIsServed'
  BY <1>5 DEF Reply, dbVars, socketVars, adminVars, closeVars, Offer, HubInv,
         TypeOK, ListedIsServed, Registered
<1>6. ASSUME NEW c \in Conn, Leave(c) PROVE ListedIsServed'
  BY <1>6 DEF Leave, dbVars, pumpVars, adminVars, closeVars, Stop, HubInv,
         TypeOK, ListedIsServed, Registered
<1>7. ASSUME NEW c \in Conn, Finish(c) PROVE ListedIsServed'
  <2>1. ConnectionRemoved(owner[c], c)  BY <1>7, FinishEffect
  <2>2. pc[c] = "waiting" /\ pc' = [pc EXCEPT ![c] = "finished"]  BY <1>7, FinishEffect
  <2> QED  BY <2>1, <2>2 DEF ConnectionRemoved, HubInv, TypeOK, ListedIsServed, Registered
<1>8. ASSUME NEW c \in Conn, PumpTake(c) PROVE ListedIsServed'
  BY <1>8 DEF PumpTake, dbVars, socketVars, adminVars, closeVars, HubInv,
         TypeOK, ListedIsServed, Registered
<1>9. ASSUME NEW c \in Conn, PumpWrite(c) PROVE ListedIsServed'
  BY <1>9 DEF PumpWrite, dbVars, socketVars, adminVars, closeVars, HubInv,
         TypeOK, ListedIsServed, Registered
<1>10. ASSUME NEW c \in Conn, PumpEnds(c) PROVE ListedIsServed'
  BY <1>10 DEF PumpEnds, dbVars, adminVars, closeVars, HubInv, TypeOK,
         ListedIsServed, Registered
<1>11. ASSUME NEW c \in Conn, Reject(c) PROVE ListedIsServed'
  BY <1>11 DEF Reject, dbVars, pumpVars, adminVars, closeVars, HubInv, TypeOK,
         ListedIsServed, Registered
<1>12. ASSUME NEW c \in Conn, ReadPing(c) PROVE ListedIsServed'
  BY <1>12 DEF ReadPing, dbVars, pumpVars, socketVars, adminVars, closeVars,
         HubInv, TypeOK, ListedIsServed, Registered
<1>13. ASSUME NEW c \in Conn, LoseSocket(c) PROVE ListedIsServed'
  BY <1>13 DEF LoseSocket, dbVars, pumpVars, adminVars, closeVars, HubInv,
         TypeOK, ListedIsServed, Registered
<1>14. ASSUME NEW c \in Conn, NEW a \in Agent, Resolve(c, a) PROVE ListedIsServed'
  BY <1>14 DEF Resolve, pumpVars, socketVars, adminVars, closeVars, HubInv,
         TypeOK, ListedIsServed, Registered
<1>15. ASSUME NEW a \in Agent, CreateAgent(a) PROVE ListedIsServed'
  BY <1>15 DEF CreateAgent, pumpVars, socketVars, adminVars, closeVars,
         HubInv, TypeOK, ListedIsServed, Registered
<1>16. ASSUME NEW a \in Agent, DeleteAgent(a) PROVE ListedIsServed'
  BY <1>16 DEF DeleteAgent, pumpVars, socketVars, closeVars, HubInv, TypeOK,
         ListedIsServed, Registered
<1>17. ASSUME NEW a \in Agent, FindVictim(a) PROVE ListedIsServed'
  BY <1>17 DEF FindVictim, dbVars, pumpVars, socketVars, closeVars, HubInv,
         TypeOK, ListedIsServed, Registered
<1>18. ASSUME NEW a \in Agent, StopVictim(a) PROVE ListedIsServed'
  BY <1>18 DEF StopVictim, dbVars, pumpVars, closeVars, Stop, HubInv, TypeOK,
         ListedIsServed, Registered
<1>19. ASSUME NEW j \in Job, NEW a \in Agent, DispatchJob(j, a) PROVE ListedIsServed'
  BY <1>19 DEF DispatchJob, dbVars, socketVars, adminVars, closeVars, Offer,
         HubInv, TypeOK, ListedIsServed, Registered
<1>20. ASSUME NEW c \in Conn, CloseStop(c) PROVE ListedIsServed'
  BY <1>20 DEF CloseStop, dbVars, pumpVars, adminVars, Stop, HubInv, TypeOK,
         ListedIsServed, Registered
<1>21. ASSUME NEW c \in Conn, CloseAwait(c) PROVE ListedIsServed'
  <2>1. ConnectionRemoved(owner[c], c) /\ pc' = pc  BY <1>21, CloseAwaitEffect
  <2> QED  BY <2>1 DEF ConnectionRemoved, HubInv, TypeOK, ListedIsServed, Registered
<1>22. ASSUME CloseSnapshot PROVE ListedIsServed'
  BY <1>22 DEF CloseSnapshot, dbVars, pumpVars, socketVars, adminVars, HubInv,
         TypeOK, ListedIsServed, Registered
<1>23. ASSUME CloseReturns PROVE ListedIsServed'
  BY <1>23 DEF CloseReturns, dbVars, pumpVars, socketVars, adminVars, HubInv,
         TypeOK, ListedIsServed, Registered
<1>24. ASSUME ProcessEnds PROVE ListedIsServed'
  BY <1>24 DEF ProcessEnds, HubInv, TypeOK, ListedIsServed, Registered
<1>25. ASSUME Restart PROVE ListedIsServed'
  BY <1>25 DEF Restart, dbVars, pumpVars, socketVars, adminVars, HubInv,
         TypeOK, ListedIsServed, Registered
<1>26. ASSUME AllServed PROVE ListedIsServed'
  BY <1>26 DEF AllServed, vars, dbVars, pumpVars, socketVars, adminVars,
         closeVars, HubInv, TypeOK, ListedIsServed, Registered
<1>27. ASSUME UNCHANGED vars PROVE ListedIsServed'
  BY <1>27 DEF vars, dbVars, pumpVars, socketVars, adminVars, closeVars,
         HubInv, TypeOK, ListedIsServed, Registered
<1> QED
  BY <1>1, <1>2, <1>3, <1>4, <1>5, <1>6, <1>7, <1>8, <1>9, <1>10, <1>11,
     <1>12, <1>13, <1>14, <1>15, <1>16, <1>17, <1>18, <1>19, <1>20, <1>21,
     <1>22, <1>23, <1>24, <1>25, <1>26, <1>27 DEF Next, Handler, Pump,
     Delete, Close

\* Map and column change together under Hub.mu.
LEMMA PresenceStep ==
  ASSUME HubInv, [Next]_vars
  PROVE  PresenceAgrees'
<1>1. ASSUME NEW c \in Conn, Greet(c) PROVE PresenceAgrees'
  BY <1>1 DEF Greet, dbVars, socketVars, adminVars, closeVars, HubInv, TypeOK,
         PresenceAgrees, UnusedIsOffline
<1>2. ASSUME NEW c \in Conn, GreetFails(c) PROVE PresenceAgrees'
  BY <1>2 DEF GreetFails, dbVars, pumpVars, socketVars, adminVars, closeVars,
         HubInv, TypeOK, PresenceAgrees, UnusedIsOffline
<1>3. ASSUME NEW c \in Conn, SetAgentConnection(c) PROVE PresenceAgrees'
  <2>1. ConnectionSet(owner[c], c)  BY <1>3, SetEffect
  <2> QED  BY <2>1 DEF ConnectionSet, StatusSet, HubInv, TypeOK, PresenceAgrees
<1>4. ASSUME NEW c \in Conn, StopExisting(c) PROVE PresenceAgrees'
  BY <1>4 DEF StopExisting, dbVars, pumpVars, socketVars, adminVars,
         closeVars, Stop, HubInv, TypeOK, PresenceAgrees, UnusedIsOffline
<1>5. ASSUME NEW c \in Conn, Reply(c) PROVE PresenceAgrees'
  BY <1>5 DEF Reply, dbVars, socketVars, adminVars, closeVars, Offer, HubInv,
         TypeOK, PresenceAgrees, UnusedIsOffline
<1>6. ASSUME NEW c \in Conn, Leave(c) PROVE PresenceAgrees'
  BY <1>6 DEF Leave, dbVars, pumpVars, adminVars, closeVars, Stop, HubInv,
         TypeOK, PresenceAgrees, UnusedIsOffline
<1>7. ASSUME NEW c \in Conn, Finish(c) PROVE PresenceAgrees'
  <2>1. ConnectionRemoved(owner[c], c)  BY <1>7, FinishEffect
  <2>2. pc[c] = "waiting" /\ pc' = [pc EXCEPT ![c] = "finished"]  BY <1>7, FinishEffect
  <2> QED  BY <2>1, <2>2 DEF ConnectionRemoved, StatusSet, HubInv, TypeOK, PresenceAgrees
<1>8. ASSUME NEW c \in Conn, PumpTake(c) PROVE PresenceAgrees'
  BY <1>8 DEF PumpTake, dbVars, socketVars, adminVars, closeVars, HubInv,
         TypeOK, PresenceAgrees, UnusedIsOffline
<1>9. ASSUME NEW c \in Conn, PumpWrite(c) PROVE PresenceAgrees'
  BY <1>9 DEF PumpWrite, dbVars, socketVars, adminVars, closeVars, HubInv,
         TypeOK, PresenceAgrees, UnusedIsOffline
<1>10. ASSUME NEW c \in Conn, PumpEnds(c) PROVE PresenceAgrees'
  BY <1>10 DEF PumpEnds, dbVars, adminVars, closeVars, HubInv, TypeOK,
         PresenceAgrees, UnusedIsOffline
<1>11. ASSUME NEW c \in Conn, Reject(c) PROVE PresenceAgrees'
  BY <1>11 DEF Reject, dbVars, pumpVars, adminVars, closeVars, HubInv, TypeOK,
         PresenceAgrees, UnusedIsOffline
<1>12. ASSUME NEW c \in Conn, ReadPing(c) PROVE PresenceAgrees'
  BY <1>12 DEF ReadPing, dbVars, pumpVars, socketVars, adminVars, closeVars,
         HubInv, TypeOK, PresenceAgrees, UnusedIsOffline
<1>13. ASSUME NEW c \in Conn, LoseSocket(c) PROVE PresenceAgrees'
  BY <1>13 DEF LoseSocket, dbVars, pumpVars, adminVars, closeVars, HubInv,
         TypeOK, PresenceAgrees, UnusedIsOffline
<1>14. ASSUME NEW c \in Conn, NEW a \in Agent, Resolve(c, a) PROVE PresenceAgrees'
  BY <1>14 DEF Resolve, pumpVars, socketVars, adminVars, closeVars, HubInv,
         TypeOK, PresenceAgrees, UnusedIsOffline
<1>15. ASSUME NEW a \in Agent, CreateAgent(a) PROVE PresenceAgrees'
  BY <1>15 DEF CreateAgent, pumpVars, socketVars, adminVars, closeVars,
         HubInv, TypeOK, PresenceAgrees, UnusedIsOffline
<1>16. ASSUME NEW a \in Agent, DeleteAgent(a) PROVE PresenceAgrees'
  BY <1>16 DEF DeleteAgent, pumpVars, socketVars, closeVars, HubInv, TypeOK,
         PresenceAgrees, UnusedIsOffline
<1>17. ASSUME NEW a \in Agent, FindVictim(a) PROVE PresenceAgrees'
  BY <1>17 DEF FindVictim, dbVars, pumpVars, socketVars, closeVars, HubInv,
         TypeOK, PresenceAgrees, UnusedIsOffline
<1>18. ASSUME NEW a \in Agent, StopVictim(a) PROVE PresenceAgrees'
  BY <1>18 DEF StopVictim, dbVars, pumpVars, closeVars, Stop, HubInv, TypeOK,
         PresenceAgrees, UnusedIsOffline
<1>19. ASSUME NEW j \in Job, NEW a \in Agent, DispatchJob(j, a) PROVE PresenceAgrees'
  BY <1>19 DEF DispatchJob, dbVars, socketVars, adminVars, closeVars, Offer,
         HubInv, TypeOK, PresenceAgrees, UnusedIsOffline
<1>20. ASSUME NEW c \in Conn, CloseStop(c) PROVE PresenceAgrees'
  BY <1>20 DEF CloseStop, dbVars, pumpVars, adminVars, Stop, HubInv, TypeOK,
         PresenceAgrees, UnusedIsOffline
<1>21. ASSUME NEW c \in Conn, CloseAwait(c) PROVE PresenceAgrees'
  <2>1. ConnectionRemoved(owner[c], c) /\ pc' = pc  BY <1>21, CloseAwaitEffect
  <2> QED  BY <2>1 DEF ConnectionRemoved, StatusSet, HubInv, TypeOK, PresenceAgrees
<1>22. ASSUME CloseSnapshot PROVE PresenceAgrees'
  BY <1>22 DEF CloseSnapshot, dbVars, pumpVars, socketVars, adminVars, HubInv,
         TypeOK, PresenceAgrees, UnusedIsOffline
<1>23. ASSUME CloseReturns PROVE PresenceAgrees'
  BY <1>23 DEF CloseReturns, dbVars, pumpVars, socketVars, adminVars, HubInv,
         TypeOK, PresenceAgrees, UnusedIsOffline
<1>24. ASSUME ProcessEnds PROVE PresenceAgrees'
  BY <1>24 DEF ProcessEnds, HubInv, TypeOK, PresenceAgrees, UnusedIsOffline
<1>25. ASSUME Restart PROVE PresenceAgrees'
  BY <1>25 DEF Restart, dbVars, pumpVars, socketVars, adminVars, HubInv,
         TypeOK, PresenceAgrees, UnusedIsOffline
<1>26. ASSUME AllServed PROVE PresenceAgrees'
  BY <1>26 DEF AllServed, vars, dbVars, pumpVars, socketVars, adminVars,
         closeVars, HubInv, TypeOK, PresenceAgrees, UnusedIsOffline
<1>27. ASSUME UNCHANGED vars PROVE PresenceAgrees'
  BY <1>27 DEF vars, dbVars, pumpVars, socketVars, adminVars, closeVars,
         HubInv, TypeOK, PresenceAgrees, UnusedIsOffline
<1> QED
  BY <1>1, <1>2, <1>3, <1>4, <1>5, <1>6, <1>7, <1>8, <1>9, <1>10, <1>11,
     <1>12, <1>13, <1>14, <1>15, <1>16, <1>17, <1>18, <1>19, <1>20, <1>21,
     <1>22, <1>23, <1>24, <1>25, <1>26, <1>27 DEF Next, Handler, Pump,
     Delete, Close

\* Whoever displaces a connection is about to stop it.
LEMMA SupersededStep ==
  ASSUME HubInv, [Next]_vars
  PROVE  SupersededIsStopped'
<1>1. ASSUME NEW c \in Conn, Greet(c) PROVE SupersededIsStopped'
  BY <1>1 DEF Greet, dbVars, socketVars, adminVars, closeVars, HubInv, TypeOK,
         SupersededIsStopped, Registered, ResolvedHasRow
<1>2. ASSUME NEW c \in Conn, GreetFails(c) PROVE SupersededIsStopped'
  BY <1>2 DEF GreetFails, dbVars, pumpVars, socketVars, adminVars, closeVars,
         HubInv, TypeOK, SupersededIsStopped, Registered, ResolvedHasRow
<1>3. ASSUME NEW c \in Conn, SetAgentConnection(c) PROVE SupersededIsStopped'
  <2>1. ConnectionSet(owner[c], c)  BY <1>3, SetEffect
  <2> QED  BY <2>1 DEF ConnectionSet, HubInv, TypeOK, SupersededIsStopped, Registered
<1>4. ASSUME NEW c \in Conn, StopExisting(c) PROVE SupersededIsStopped'
  BY <1>4 DEF StopExisting, dbVars, pumpVars, socketVars, adminVars,
         closeVars, Stop, HubInv, TypeOK, SupersededIsStopped, Registered,
         ResolvedHasRow
<1>5. ASSUME NEW c \in Conn, Reply(c) PROVE SupersededIsStopped'
  BY <1>5 DEF Reply, dbVars, socketVars, adminVars, closeVars, Offer, HubInv,
         TypeOK, SupersededIsStopped, Registered, ResolvedHasRow
<1>6. ASSUME NEW c \in Conn, Leave(c) PROVE SupersededIsStopped'
  BY <1>6 DEF Leave, dbVars, pumpVars, adminVars, closeVars, Stop, HubInv,
         TypeOK, SupersededIsStopped, Registered, ResolvedHasRow
<1>7. ASSUME NEW c \in Conn, Finish(c) PROVE SupersededIsStopped'
  <2>1. ConnectionRemoved(owner[c], c)  BY <1>7, FinishEffect
  <2>2. pc[c] = "waiting" /\ pc' = [pc EXCEPT ![c] = "finished"]  BY <1>7, FinishEffect
  <2>3. \A d \in Conn : Registered(d)' => Registered(d) /\ owner[d] \in Agent
    BY <2>1, <2>2 DEF Registered, HubInv, ResolvedHasRow, TypeOK
  <2>4. \A d \in Conn : Registered(d)' /\ agents'[owner[d]] # d =>
            stopped[d] \/ agents[owner[d]] # d
    BY <2>1, <2>2, <2>3 DEF ConnectionRemoved
  <2>5. \A d \in Conn : pc[d] = "displacing" => pc'[d] = "displacing"
    BY <2>1, <2>2 DEF HubInv, TypeOK
  <2> QED
    BY <2>1, <2>3, <2>4, <2>5 DEF ConnectionRemoved, HubInv, SupersededIsStopped
<1>8. ASSUME NEW c \in Conn, PumpTake(c) PROVE SupersededIsStopped'
  BY <1>8 DEF PumpTake, dbVars, socketVars, adminVars, closeVars, HubInv,
         TypeOK, SupersededIsStopped, Registered, ResolvedHasRow
<1>9. ASSUME NEW c \in Conn, PumpWrite(c) PROVE SupersededIsStopped'
  BY <1>9 DEF PumpWrite, dbVars, socketVars, adminVars, closeVars, HubInv,
         TypeOK, SupersededIsStopped, Registered, ResolvedHasRow
<1>10. ASSUME NEW c \in Conn, PumpEnds(c) PROVE SupersededIsStopped'
  BY <1>10 DEF PumpEnds, dbVars, adminVars, closeVars, HubInv, TypeOK,
         SupersededIsStopped, Registered, ResolvedHasRow
<1>11. ASSUME NEW c \in Conn, Reject(c) PROVE SupersededIsStopped'
  BY <1>11 DEF Reject, dbVars, pumpVars, adminVars, closeVars, HubInv, TypeOK,
         SupersededIsStopped, Registered, ResolvedHasRow
<1>12. ASSUME NEW c \in Conn, ReadPing(c) PROVE SupersededIsStopped'
  BY <1>12 DEF ReadPing, dbVars, pumpVars, socketVars, adminVars, closeVars,
         HubInv, TypeOK, SupersededIsStopped, Registered, ResolvedHasRow
<1>13. ASSUME NEW c \in Conn, LoseSocket(c) PROVE SupersededIsStopped'
  BY <1>13 DEF LoseSocket, dbVars, pumpVars, adminVars, closeVars, HubInv,
         TypeOK, SupersededIsStopped, Registered, ResolvedHasRow
<1>14. ASSUME NEW c \in Conn, NEW a \in Agent, Resolve(c, a) PROVE SupersededIsStopped'
  BY <1>14 DEF Resolve, pumpVars, socketVars, adminVars, closeVars, HubInv,
         TypeOK, SupersededIsStopped, Registered, ResolvedHasRow
<1>15. ASSUME NEW a \in Agent, CreateAgent(a) PROVE SupersededIsStopped'
  BY <1>15 DEF CreateAgent, pumpVars, socketVars, adminVars, closeVars,
         HubInv, TypeOK, SupersededIsStopped, Registered, ResolvedHasRow
<1>16. ASSUME NEW a \in Agent, DeleteAgent(a) PROVE SupersededIsStopped'
  BY <1>16 DEF DeleteAgent, pumpVars, socketVars, closeVars, HubInv, TypeOK,
         SupersededIsStopped, Registered, ResolvedHasRow
<1>17. ASSUME NEW a \in Agent, FindVictim(a) PROVE SupersededIsStopped'
  BY <1>17 DEF FindVictim, dbVars, pumpVars, socketVars, closeVars, HubInv,
         TypeOK, SupersededIsStopped, Registered, ResolvedHasRow
<1>18. ASSUME NEW a \in Agent, StopVictim(a) PROVE SupersededIsStopped'
  BY <1>18 DEF StopVictim, dbVars, pumpVars, closeVars, Stop, HubInv, TypeOK,
         SupersededIsStopped, Registered, ResolvedHasRow
<1>19. ASSUME NEW j \in Job, NEW a \in Agent, DispatchJob(j, a) PROVE SupersededIsStopped'
  BY <1>19 DEF DispatchJob, dbVars, socketVars, adminVars, closeVars, Offer,
         HubInv, TypeOK, SupersededIsStopped, Registered, ResolvedHasRow
<1>20. ASSUME NEW c \in Conn, CloseStop(c) PROVE SupersededIsStopped'
  BY <1>20 DEF CloseStop, dbVars, pumpVars, adminVars, Stop, HubInv, TypeOK,
         SupersededIsStopped, Registered, ResolvedHasRow
<1>21. ASSUME NEW c \in Conn, CloseAwait(c) PROVE SupersededIsStopped'
  <2>1. ConnectionRemoved(owner[c], c)  BY <1>21, CloseAwaitEffect
  <2>2. pc' = pc  BY <1>21, CloseAwaitEffect
  <2>3. \A d \in Conn : Registered(d)' => Registered(d) /\ owner[d] \in Agent
    BY <2>1, <2>2 DEF Registered, HubInv, ResolvedHasRow, TypeOK
  <2>4. \A d \in Conn : Registered(d)' /\ agents'[owner[d]] # d =>
            stopped[d] \/ agents[owner[d]] # d
    BY <2>1, <2>2, <2>3 DEF ConnectionRemoved
  <2>5. \A d \in Conn : pc[d] = "displacing" => pc'[d] = "displacing"
    BY <2>1, <2>2 DEF HubInv, TypeOK
  <2> QED
    BY <2>1, <2>3, <2>4, <2>5 DEF ConnectionRemoved, HubInv, SupersededIsStopped
<1>22. ASSUME CloseSnapshot PROVE SupersededIsStopped'
  BY <1>22 DEF CloseSnapshot, dbVars, pumpVars, socketVars, adminVars, HubInv,
         TypeOK, SupersededIsStopped, Registered, ResolvedHasRow
<1>23. ASSUME CloseReturns PROVE SupersededIsStopped'
  BY <1>23 DEF CloseReturns, dbVars, pumpVars, socketVars, adminVars, HubInv,
         TypeOK, SupersededIsStopped, Registered, ResolvedHasRow
<1>24. ASSUME ProcessEnds PROVE SupersededIsStopped'
  BY <1>24 DEF ProcessEnds, HubInv, TypeOK, SupersededIsStopped, Registered,
         ResolvedHasRow
<1>25. ASSUME Restart PROVE SupersededIsStopped'
  BY <1>25 DEF Restart, dbVars, pumpVars, socketVars, adminVars, HubInv,
         TypeOK, SupersededIsStopped, Registered, ResolvedHasRow
<1>26. ASSUME AllServed PROVE SupersededIsStopped'
  BY <1>26 DEF AllServed, vars, dbVars, pumpVars, socketVars, adminVars,
         closeVars, HubInv, TypeOK, SupersededIsStopped, Registered,
         ResolvedHasRow
<1>27. ASSUME UNCHANGED vars PROVE SupersededIsStopped'
  BY <1>27 DEF vars, dbVars, pumpVars, socketVars, adminVars, closeVars,
         HubInv, TypeOK, SupersededIsStopped, Registered, ResolvedHasRow
<1> QED
  BY <1>1, <1>2, <1>3, <1>4, <1>5, <1>6, <1>7, <1>8, <1>9, <1>10, <1>11,
     <1>12, <1>13, <1>14, <1>15, <1>16, <1>17, <1>18, <1>19, <1>20, <1>21,
     <1>22, <1>23, <1>24, <1>25, <1>26, <1>27 DEF Next, Handler, Pump,
     Delete, Close

----------------------------------------------------------------------------

LEMMA InitHubInv == Init => HubInv
BY DEF Init, HubInv, TypeOK, PresenceAgrees, SupersededIsStopped, ListedIsServed,
       UnusedIsOffline, ResolvedHasRow, AwaitedIsStopped, Registered, HandlerPc

\* The inductive invariant holds in every reachable state.
THEOREM HubInvariant == Spec => []HubInv
<1>1. HubInv /\ [Next]_vars => HubInv'
  <2> SUFFICES ASSUME HubInv, [Next]_vars PROVE HubInv'
    OBVIOUS
  <2>1. TypeOK'  BY TypeStep DEF HubInv
  <2> QED  BY <2>1, UnusedStep, ResolvedStep, AwaitedStep, ListedStep,
              PresenceStep, SupersededStep DEF HubInv
<1> QED  BY InitHubInv, <1>1, PTL DEF Spec

\* The variables stay in the ranges the code declares.
THEOREM TypeCorrect == Spec => []TypeOK
BY HubInvariant, PTL DEF HubInv

\* For any number of agents, reconnects, deletions, failed status writes and
\* restarts, the online column of a row whose last status write was not lost
\* tells whether the hub lists a connection for it.
THEOREM PresenceCorrect == Spec => []PresenceAgrees
BY HubInvariant, PTL DEF HubInv

\* No superseded connection is left running: it is stopped, or the handler
\* that displaced it is about to stop it.
THEOREM SupersededCorrect == Spec => []SupersededIsStopped
BY HubInvariant, PTL DEF HubInv

\* No entry of the map outlives the handler that has to remove it.
THEOREM ListedCorrect == Spec => []ListedIsServed
BY HubInvariant, PTL DEF HubInv

\* A late handler or a late Close never clears the entry of a newer
\* connection.
THEOREM EntriesCorrect == Spec => EntriesChangeInTurn
<1> DEFINE InTurn == \A a \in Agent :
         agents'[a] # agents[a] =>
            \/ srv' = "down"
            \/ agents'[a] # NoConn /\ pc[agents'[a]] = "greeted"
            \/ agents'[a] = NoConn /\ stopped[agents[a]]
                                   /\ pump[agents[a]] = "done"
<1>1. HubInv /\ [Next]_vars => [InTurn]_vars
  <2> SUFFICES ASSUME HubInv, [Next]_vars PROVE InTurn
    OBVIOUS
  <2>1. ASSUME NEW c \in Conn, Greet(c) PROVE InTurn
    BY <2>1 DEF Greet, dbVars, socketVars, adminVars, closeVars
  <2>2. ASSUME NEW c \in Conn, GreetFails(c) PROVE InTurn
    BY <2>2 DEF GreetFails, dbVars, pumpVars, socketVars, adminVars, closeVars
  <2>3. ASSUME NEW c \in Conn, SetAgentConnection(c) PROVE InTurn
    <3>1. ConnectionSet(owner[c], c)  BY <2>3, SetEffect
    <3> QED  BY <3>1 DEF ConnectionSet, HubInv, TypeOK
  <2>4. ASSUME NEW c \in Conn, StopExisting(c) PROVE InTurn
    BY <2>4 DEF StopExisting, dbVars, pumpVars, socketVars, adminVars,
           closeVars, Stop
  <2>5. ASSUME NEW c \in Conn, Reply(c) PROVE InTurn
    BY <2>5 DEF Reply, dbVars, socketVars, adminVars, closeVars, Offer
  <2>6. ASSUME NEW c \in Conn, Leave(c) PROVE InTurn
    BY <2>6 DEF Leave, dbVars, pumpVars, adminVars, closeVars, Stop
  <2>7. ASSUME NEW c \in Conn, Finish(c) PROVE InTurn
    <3>1. ConnectionRemoved(owner[c], c)  BY <2>7, FinishEffect
    <3> QED  BY <3>1 DEF ConnectionRemoved
  <2>8. ASSUME NEW c \in Conn, PumpTake(c) PROVE InTurn
    BY <2>8 DEF PumpTake, dbVars, socketVars, adminVars, closeVars
  <2>9. ASSUME NEW c \in Conn, PumpWrite(c) PROVE InTurn
    BY <2>9 DEF PumpWrite, dbVars, socketVars, adminVars, closeVars
  <2>10. ASSUME NEW c \in Conn, PumpEnds(c) PROVE InTurn
    BY <2>10 DEF PumpEnds, dbVars, adminVars, closeVars
  <2>11. ASSUME NEW c \in Conn, Reject(c) PROVE InTurn
    BY <2>11 DEF Reject, dbVars, pumpVars, adminVars, closeVars
  <2>12. ASSUME NEW c \in Conn, ReadPing(c) PROVE InTurn
    BY <2>12 DEF ReadPing, dbVars, pumpVars, socketVars, adminVars, closeVars
  <2>13. ASSUME NEW c \in Conn, LoseSocket(c) PROVE InTurn
    BY <2>13 DEF LoseSocket, dbVars, pumpVars, adminVars, closeVars
  <2>14. ASSUME NEW c \in Conn, NEW a \in Agent, Resolve(c, a) PROVE InTurn
    BY <2>14 DEF Resolve, pumpVars, socketVars, adminVars, closeVars
  <2>15. ASSUME NEW a \in Agent, CreateAgent(a) PROVE InTurn
    BY <2>15 DEF CreateAgent, pumpVars, socketVars, adminVars, closeVars
  <2>16. ASSUME NEW a \in Agent, DeleteAgent(a) PROVE InTurn
    BY <2>16 DEF DeleteAgent, pumpVars, socketVars, closeVars
  <2>17. ASSUME NEW a \in Agent, FindVictim(a) PROVE InTurn
    BY <2>17 DEF FindVictim, dbVars, pumpVars, socketVars, closeVars
  <2>18. ASSUME NEW a \in Agent, StopVictim(a) PROVE InTurn
    BY <2>18 DEF StopVictim, dbVars, pumpVars, closeVars, Stop
  <2>19. ASSUME NEW j \in Job, NEW a \in Agent, DispatchJob(j, a) PROVE InTurn
    BY <2>19 DEF DispatchJob, dbVars, socketVars, adminVars, closeVars, Offer
  <2>20. ASSUME NEW c \in Conn, CloseStop(c) PROVE InTurn
    BY <2>20 DEF CloseStop, dbVars, pumpVars, adminVars, Stop
  <2>21. ASSUME NEW c \in Conn, CloseAwait(c) PROVE InTurn
    <3>1. ConnectionRemoved(owner[c], c)  BY <2>21, CloseAwaitEffect
    <3> QED  BY <3>1 DEF ConnectionRemoved
  <2>22. ASSUME CloseSnapshot PROVE InTurn
    BY <2>22 DEF CloseSnapshot, dbVars, pumpVars, socketVars, adminVars
  <2>23. ASSUME CloseReturns PROVE InTurn
    BY <2>23 DEF CloseReturns, dbVars, pumpVars, socketVars, adminVars
  <2>24. ASSUME ProcessEnds PROVE InTurn
    BY <2>24 DEF ProcessEnds
  <2>25. ASSUME Restart PROVE InTurn
    BY <2>25 DEF Restart, dbVars, pumpVars, socketVars, adminVars
  <2>26. ASSUME AllServed PROVE InTurn
    BY <2>26 DEF AllServed, vars, dbVars, pumpVars, socketVars, adminVars,
           closeVars
  <2>27. ASSUME UNCHANGED vars PROVE InTurn
    BY <2>27 DEF vars, dbVars, pumpVars, socketVars, adminVars, closeVars
  <2> QED
    BY <2>1, <2>2, <2>3, <2>4, <2>5, <2>6, <2>7, <2>8, <2>9, <2>10, <2>11,
     <2>12, <2>13, <2>14, <2>15, <2>16, <2>17, <2>18, <2>19, <2>20, <2>21,
     <2>22, <2>23, <2>24, <2>25, <2>26, <2>27 DEF Next, Handler, Pump,
     Delete, Close
<1> QED  BY HubInvariant, <1>1, PTL DEF Spec, EntriesChangeInTurn

----------------------------------------------------------------------------
(* Hub implements Presence.                                                *)

NewPc == {"idle", "resolved", "greeted"}

\* A step that leaves the map alone and moves no handler out of its handshake
\* is a stutter.
LEMMA SameLife ==
  ASSUME agents' = agents, \A c \in Conn : pc'[c] \in NewPc <=> pc[c] \in NewPc
  PROVE  UNCHANGED Abstract!vars
BY DEF Abstract!vars, Life, NewPc

\* A connection turned away during its handshake was never listed.
LEMMA RefuseStep ==
  ASSUME HubInv, NEW c \in Conn, pc[c] \in NewPc, agents' = agents,
         pc' = [pc EXCEPT ![c] = "finished"]
  PROVE  Abstract!Refuse(c)
<1>1. ~ \E a \in Agent : agents[a] = c
  BY DEF HubInv, ListedIsServed, Registered, NewPc
<1>2. Life[c] = "new"  BY <1>1 DEF Life, NewPc
<1>3. Life' = [Life EXCEPT ![c] = "over"]
  BY <1>1 DEF Life, HubInv, TypeOK, NewPc
<1> QED  BY <1>2, <1>3 DEF Abstract!Refuse

LEMMA ArriveStep ==
  ASSUME HubInv, NEW c \in Conn, SetAgentConnection(c)
  PROVE  Abstract!Arrive(owner[c], c) /\ owner[c] \in Agent
<1> DEFINE a == owner[c]
<1>1. ConnectionSet(a, c)  BY SetEffect
<1>2. a \in Agent /\ agents' = [agents EXCEPT ![a] = c]
      /\ pc[c] = "greeted" /\ pc' = [pc EXCEPT ![c] = "displacing"]
  BY <1>1 DEF ConnectionSet
<1>3. ASSUME NEW b \in Agent PROVE agents[b] # c
  <2>1. ~Registered(c)  BY <1>2 DEF Registered
  <2> QED  BY <2>1 DEF HubInv, ListedIsServed
<1>4. Life[c] = "new"  BY <1>2, <1>3 DEF Life
<1>5. \A b \in Agent : agents'[b] = IF b = a THEN c ELSE agents[b]
  BY <1>2 DEF HubInv, TypeOK
<1>6. \A d \in Conn \ {c} : pc'[d] = pc[d]
  BY <1>2 DEF HubInv, TypeOK
<1>7. ASSUME NEW d \in Conn
      PROVE  Life'[d] = IF d = c THEN "current"
                        ELSE IF d = agents[a] THEN "over" ELSE Life[d]
  <2>1. CASE d = c
    BY <1>2, <1>5, <2>1 DEF Life
  <2>2. CASE d # c /\ d = agents[a]
    <3>1. Registered(d) /\ owner[d] = a
      BY <1>2, <2>2 DEF HubInv, TypeOK, ListedIsServed
    <3>2. \A b \in Agent : agents'[b] # d
      BY <1>2, <1>5, <2>2, <3>1 DEF HubInv, TypeOK, ListedIsServed
    <3> QED  BY <1>6, <2>2, <3>1, <3>2 DEF Life, Registered
  <2>3. CASE d # c /\ d # agents[a]
    <3>1. (\E b \in Agent : agents'[b] = d) <=> (\E b \in Agent : agents[b] = d)
      BY <1>2, <1>5, <2>3
    <3> QED  BY <1>6, <2>3, <3>1 DEF Life
  <2> QED  BY <2>1, <2>2, <2>3
<1> QED  BY <1>2, <1>4, <1>7 DEF Abstract!Arrive, Life

\* Taking the stopped connection out of the map is a Leave, and nothing if a
\* newer connection has its place.
LEMMA LeaveStep ==
  ASSUME HubInv, NEW c \in Conn, ConnectionRemoved(owner[c], c), pc[c] \notin NewPc,
         \A d \in Conn : pc'[d] \in NewPc <=> pc[d] \in NewPc
  PROVE  Abstract!Leave(owner[c]) \/ UNCHANGED Abstract!vars
<1> DEFINE a == owner[c]
<1>1. a \in Agent  BY DEF ConnectionRemoved
<1>2. CASE agents[a] # c
  <2>1. agents' = agents  BY <1>2 DEF ConnectionRemoved
  <2> QED  BY <2>1, SameLife
<1>3. CASE agents[a] = c
  <2>1. agents' = [agents EXCEPT ![a] = NoConn]
    BY <1>3 DEF ConnectionRemoved
  <2>2. \A b \in Agent : agents'[b] = IF agents[b] = c THEN NoConn ELSE agents[b]
    BY DEF ConnectionRemoved
  <2>3. \A d \in Conn : Life'[d] = IF d = c THEN "over" ELSE Life[d]
    BY <2>2 DEF Life, NewPc
  <2> QED  BY <1>1, <1>3, <2>1, <2>3 DEF Abstract!Leave, Life
<1> QED  BY <1>2, <1>3

LEMMA CollapseStep ==
  ASSUME HubInv, ProcessEnds
  PROVE  \E S \in SUBSET Conn : Abstract!Collapse(S)
<1> DEFINE S == {c \in Conn : pc[c] \in {"resolved", "greeted"}}
<1>1. \A c \in S : ~ \E a \in Agent : agents[a] = c
  BY DEF HubInv, ListedIsServed, Registered
<1>2. \A c \in S : Life[c] = "new"  BY <1>1 DEF Life
<1>3. \A c \in Conn : (\E a \in Agent : agents[a] = c) => pc[c] # "idle"
  BY DEF HubInv, ListedIsServed, Registered
<1>4. \A a \in Agent : agents'[a] = NoConn
  BY DEF ProcessEnds
<1>5. \A c \in Conn : pc'[c] = IF pc[c] = "idle" THEN "idle" ELSE "finished"
  BY DEF ProcessEnds
<1>6. \A c \in Conn : Life'[c] = IF pc[c] = "idle" THEN "new" ELSE "over"
  BY <1>4, <1>5 DEF Life
<1>7. \A c \in Conn : Life'[c] = IF Life[c] = "current" \/ c \in S THEN "over" ELSE Life[c]
  BY <1>3, <1>6 DEF Life, HubInv, TypeOK, HandlerPc
<1>8. agents' = [a \in Agent |-> NoConn]  BY DEF ProcessEnds
<1>9. Abstract!Collapse(S)
  BY <1>2, <1>7, <1>8 DEF Abstract!Collapse, Life
<1> QED  BY <1>9

LEMMA PresenceNext ==
  ASSUME HubInv, [Next]_vars
  PROVE  Abstract!Next \/ UNCHANGED Abstract!vars
<1> DEFINE Goal == Abstract!Next \/ UNCHANGED Abstract!vars
<1>1. ASSUME NEW c \in Conn, Greet(c) PROVE Goal
  BY <1>1, SameLife DEF HubInv, TypeOK, NewPc, Greet, dbVars, socketVars,
         adminVars, closeVars
<1>2. ASSUME NEW c \in Conn, GreetFails(c) PROVE Goal
  <2>1. Abstract!Refuse(c)  BY <1>2, RefuseStep DEF GreetFails, NewPc
  <2> QED  BY <2>1 DEF Abstract!Next
<1>3. ASSUME NEW c \in Conn, SetAgentConnection(c) PROVE Goal
  BY <1>3, ArriveStep DEF Abstract!Next
<1>4. ASSUME NEW c \in Conn, StopExisting(c) PROVE Goal
  BY <1>4, SameLife DEF HubInv, TypeOK, NewPc, StopExisting, dbVars, pumpVars,
         socketVars, adminVars, closeVars, Stop
<1>5. ASSUME NEW c \in Conn, Reply(c) PROVE Goal
  BY <1>5, SameLife DEF HubInv, TypeOK, NewPc, Reply, dbVars, socketVars,
         adminVars, closeVars, Offer
<1>6. ASSUME NEW c \in Conn, Leave(c) PROVE Goal
  BY <1>6, SameLife DEF HubInv, TypeOK, NewPc, Leave, dbVars, pumpVars,
         adminVars, closeVars, Stop
<1>7. ASSUME NEW c \in Conn, Finish(c) PROVE Goal
  <2>1. ConnectionRemoved(owner[c], c) /\ owner[c] \in Agent
    BY <1>7, FinishEffect DEF ConnectionRemoved
  <2>2. pc[c] = "waiting" /\ pc' = [pc EXCEPT ![c] = "finished"]  BY <1>7, FinishEffect
  <2>3. \A d \in Conn : pc'[d] \in NewPc <=> pc[d] \in NewPc
    BY <2>2 DEF HubInv, TypeOK, NewPc
  <2> QED  BY <2>1, <2>2, <2>3, LeaveStep DEF Abstract!Next, NewPc
<1>8. ASSUME NEW c \in Conn, PumpTake(c) PROVE Goal
  BY <1>8, SameLife DEF HubInv, TypeOK, NewPc, PumpTake, dbVars, socketVars,
         adminVars, closeVars
<1>9. ASSUME NEW c \in Conn, PumpWrite(c) PROVE Goal
  BY <1>9, SameLife DEF HubInv, TypeOK, NewPc, PumpWrite, dbVars, socketVars,
         adminVars, closeVars
<1>10. ASSUME NEW c \in Conn, PumpEnds(c) PROVE Goal
  BY <1>10, SameLife DEF HubInv, TypeOK, NewPc, PumpEnds, dbVars, adminVars,
         closeVars
<1>11. ASSUME NEW c \in Conn, Reject(c) PROVE Goal
  <2>1. Abstract!Refuse(c)  BY <1>11, RefuseStep DEF Reject, NewPc
  <2> QED  BY <2>1 DEF Abstract!Next
<1>12. ASSUME NEW c \in Conn, ReadPing(c) PROVE Goal
  BY <1>12, SameLife DEF HubInv, TypeOK, NewPc, ReadPing, dbVars, pumpVars,
         socketVars, adminVars, closeVars
<1>13. ASSUME NEW c \in Conn, LoseSocket(c) PROVE Goal
  BY <1>13, SameLife DEF HubInv, TypeOK, NewPc, LoseSocket, dbVars, pumpVars,
         adminVars, closeVars
<1>14. ASSUME NEW c \in Conn, NEW a \in Agent, Resolve(c, a) PROVE Goal
  BY <1>14, SameLife DEF HubInv, TypeOK, NewPc, Resolve, pumpVars, socketVars,
         adminVars, closeVars
<1>15. ASSUME NEW a \in Agent, CreateAgent(a) PROVE Goal
  BY <1>15, SameLife DEF HubInv, TypeOK, NewPc, CreateAgent, pumpVars, socketVars,
         adminVars, closeVars
<1>16. ASSUME NEW a \in Agent, DeleteAgent(a) PROVE Goal
  BY <1>16, SameLife DEF HubInv, TypeOK, NewPc, DeleteAgent, pumpVars, socketVars,
         closeVars
<1>17. ASSUME NEW a \in Agent, FindVictim(a) PROVE Goal
  BY <1>17, SameLife DEF HubInv, TypeOK, NewPc, FindVictim, dbVars, pumpVars,
         socketVars, closeVars
<1>18. ASSUME NEW a \in Agent, StopVictim(a) PROVE Goal
  BY <1>18, SameLife DEF HubInv, TypeOK, NewPc, StopVictim, dbVars, pumpVars,
         closeVars, Stop
<1>19. ASSUME NEW j \in Job, NEW a \in Agent, DispatchJob(j, a) PROVE Goal
  BY <1>19, SameLife DEF HubInv, TypeOK, NewPc, DispatchJob, dbVars, socketVars,
         adminVars, closeVars, Offer
<1>20. ASSUME NEW c \in Conn, CloseStop(c) PROVE Goal
  BY <1>20, SameLife DEF HubInv, TypeOK, NewPc, CloseStop, dbVars, pumpVars,
         adminVars, Stop
<1>21. ASSUME NEW c \in Conn, CloseAwait(c) PROVE Goal
  <2>1. ConnectionRemoved(owner[c], c) /\ owner[c] \in Agent /\ pc' = pc
    BY <1>21, CloseAwaitEffect DEF ConnectionRemoved
  <2>2. pc[c] \notin NewPc \/ agents' = agents
    <3>1. CASE agents[owner[c]] = c
      <4>1. Registered(c)  BY <2>1, <3>1 DEF HubInv, ListedIsServed
      <4> QED  BY <4>1 DEF Registered, NewPc
    <3>2. CASE agents[owner[c]] # c  BY <2>1, <3>2 DEF ConnectionRemoved
    <3> QED  BY <3>1, <3>2
  <2> QED  BY <2>1, <2>2, LeaveStep, SameLife DEF Abstract!Next
<1>22. ASSUME CloseSnapshot PROVE Goal
  BY <1>22, SameLife DEF HubInv, TypeOK, NewPc, CloseSnapshot, dbVars, pumpVars,
         socketVars, adminVars
<1>23. ASSUME CloseReturns PROVE Goal
  BY <1>23, SameLife DEF HubInv, TypeOK, NewPc, CloseReturns, dbVars, pumpVars,
         socketVars, adminVars
<1>24. ASSUME ProcessEnds PROVE Goal
  BY <1>24, CollapseStep DEF Abstract!Next
<1>25. ASSUME Restart PROVE Goal
  BY <1>25, SameLife DEF HubInv, TypeOK, NewPc, Restart, dbVars, pumpVars,
         socketVars, adminVars
<1>26. ASSUME AllServed PROVE Goal
  BY <1>26, SameLife DEF HubInv, TypeOK, NewPc, AllServed, vars
<1>27. ASSUME UNCHANGED vars PROVE Goal
  BY <1>27, SameLife DEF vars
<1> QED
  BY <1>1, <1>2, <1>3, <1>4, <1>5, <1>6, <1>7, <1>8, <1>9, <1>10, <1>11,
     <1>12, <1>13, <1>14, <1>15, <1>16, <1>17, <1>18, <1>19, <1>20, <1>21,
     <1>22, <1>23, <1>24, <1>25, <1>26, <1>27 DEF Next, Handler, Pump,
     Delete, Close

\* The hub keeps what Presence promises: displaced connections are never
\* reinstated, an agent never has two, a connection serves one agent.
THEOREM HubImplementsPresence == Spec => ImplementsPresence
<1>1. Init => Abstract!Init
  BY DEF Init, Abstract!Init, Life
<1> QED  BY <1>1, HubInvariant, PresenceNext, PTL
         DEF Spec, ImplementsPresence, Abstract!Spec
=============================================================================
