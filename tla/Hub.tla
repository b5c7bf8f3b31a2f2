-------------------------------- MODULE Hub --------------------------------
(***************************************************************************)
(* The controller's connection hub (internal/server/hub.go): the map from  *)
(* agents to their current websocket connection, the goroutines that serve *)
(* one connection (the handler, which reads, and its write pump), the      *)
(* agents.online column that mirrors the map, and the three other parties  *)
(* that act on connections: the scheduler that dispatches jobs, the        *)
(* request that deletes an agent, and the shutdown of the controller.      *)
(*                                                                         *)
(* One element of Conn is one accepted websocket, used once.  A handler's  *)
(* program counter pc[c] walks through                                     *)
(*   idle -> resolved -> greeted -> displacing -> reading <-> replying     *)
(*        -> waiting -> finished                                           *)
(* and every step between two accesses to shared state is an action.       *)
(***************************************************************************)
EXTENDS Naturals, Sequences, FiniteSets

CONSTANTS
    Agent,             \* database identities of agents (never reused)
    Conn,              \* websocket connections
    Job,               \* jobs the scheduler may dispatch, each once
    NoAgent, NoConn,   \* "no such value"
    NoMsg, Pong,       \* an empty hand of the pump, and a keepalive answer
    QueueCap,          \* capacity of AgentConn.Send (100 in the code)
    Occurs,            \* what the environment does, of EnvironmentEvents
    MaxDowns           \* bound: how often the process ends

\* A failing UPDATE of the status, a keepalive from an agent, the request that
\* deletes an agent, a SIGTERM.
EnvironmentEvents == {"status write fails", "ping", "delete", "shutdown"}

ASSUME ConstantsAssumption ==
    /\ NoAgent \notin Agent
    /\ NoConn \notin Conn
    /\ QueueCap \in Nat \ {0}
    /\ Occurs \subseteq EnvironmentEvents
    /\ MaxDowns \in Nat

JobMsg == [job : Job, to : Agent]
Msg    == JobMsg \cup {Pong}

ASSUME MessagesAssumption ==
    /\ Pong \notin JobMsg
    /\ NoMsg \notin Msg

VARIABLES
    \* Shared by every goroutine, under Hub.mu.
    agents,      \* Hub.agents: Agent -> current connection or NoConn
    \* The database.
    row,         \* the agent's row: "unused", "present" or "deleted"
    online,      \* its online column
    stale,       \* ghost: agents whose last status write was lost, in a
                 \* failed UPDATE or with the process that owed it
    \* One handler goroutine per connection.
    pc,          \* where HandleAgentConnection is
    owner,       \* AgentConn.AgentID
    existing,    \* local `existing` of SetAgentConnection
    target,      \* local `conn` of sendEnvelope
    \* One write pump per connection.
    pump,        \* "off", "select", "writing", "done" (Done is closed)
    hand,        \* the message the pump has received and not yet written
    send,        \* AgentConn.Send
    stopped,     \* AgentConn.Stop is closed
    alive,       \* the socket still works on the controller's side
    written,     \* ghost: job messages written to the socket
    \* The scheduler, the delete requests, the shutdown.
    dispatched,  \* jobs given to DispatchJob so far
    delPc,       \* HandleDeleteAgent: "none", "deleted", "stopping", "done"
    victim,      \* local `conn` of DisconnectAgent
    srv,         \* "serving", "closing", "closed", "down"
    toStop,      \* connections Hub.Close has yet to stop
    toAwait,     \* connections Hub.Close has yet to wait for
    downs        \* how often the process ended

dbVars     == <<row, online, stale>>
pumpVars   == <<pump, hand, send, written>>
socketVars == <<stopped, alive>>
adminVars  == <<delPc, victim>>
closeVars  == <<srv, toStop, toAwait, downs>>
vars == <<agents, dbVars, pc, owner, existing, target, pumpVars, socketVars,
          dispatched, adminVars, closeVars>>

HandlerPc == {"idle", "resolved", "greeted", "displacing", "reading",
              "replying", "waiting", "finished"}

\* A handler between SetAgentConnection and RemoveAgentConnection.
Registered(c) == pc[c] \in {"displacing", "reading", "replying", "waiting"}

TypeOK ==
    /\ agents \in [Agent -> Conn \cup {NoConn}]
    /\ row \in [Agent -> {"unused", "present", "deleted"}]
    /\ online \in [Agent -> BOOLEAN]
    /\ stale \in SUBSET Agent
    /\ pc \in [Conn -> HandlerPc]
    /\ owner \in [Conn -> Agent \cup {NoAgent}]
    /\ existing \in [Conn -> Conn \cup {NoConn}]
    /\ target \in [Conn -> Conn \cup {NoConn}]
    /\ pump \in [Conn -> {"off", "select", "writing", "done"}]
    /\ hand \in [Conn -> Msg \cup {NoMsg}]
    /\ send \in [Conn -> Seq(Msg)]
    /\ stopped \in [Conn -> BOOLEAN]
    /\ alive \in [Conn -> BOOLEAN]
    /\ written \in [Conn -> SUBSET JobMsg]
    /\ dispatched \in SUBSET Job
    /\ delPc \in [Agent -> {"none", "deleted", "stopping", "done"}]
    /\ victim \in [Agent -> Conn \cup {NoConn}]
    /\ srv \in {"serving", "closing", "closed", "down"}
    /\ toStop \in SUBSET Conn
    /\ toAwait \in SUBSET Conn
    /\ downs \in 0..MaxDowns
    /\ \A c \in Conn : pump[c] = "writing" => hand[c] # NoMsg

Init ==
    /\ agents = [a \in Agent |-> NoConn]
    /\ row = [a \in Agent |-> "unused"]
    /\ online = [a \in Agent |-> FALSE]
    /\ stale = {}
    /\ pc = [c \in Conn |-> "idle"]
    /\ owner = [c \in Conn |-> NoAgent]
    /\ existing = [c \in Conn |-> NoConn]
    /\ target = [c \in Conn |-> NoConn]
    /\ pump = [c \in Conn |-> "off"]
    /\ hand = [c \in Conn |-> NoMsg]
    /\ send = [c \in Conn |-> <<>>]
    /\ stopped = [c \in Conn |-> FALSE]
    /\ alive = [c \in Conn |-> TRUE]
    /\ written = [c \in Conn |-> {}]
    /\ dispatched = {}
    /\ delPc = [a \in Agent |-> "none"]
    /\ victim = [a \in Agent |-> NoConn]
    /\ srv = "serving"
    /\ toStop = {}
    /\ toAwait = {}
    /\ downs = 0

----------------------------------------------------------------------------
(* Helpers shared by several actions.                                      *)

\* AgentConn.stop: closes Stop and the socket, once.
Stop(c) ==
    /\ stopped' = [stopped EXCEPT ![c] = TRUE]
    /\ alive' = [alive EXCEPT ![c] = FALSE]

\* UpdateAgentStatus as SetAgentConnection and RemoveAgentConnection use it:
\* an UPDATE of no row is no error, and an error is only logged.
UpdateAgentStatus(a, isOnline) ==
    \/ /\ row[a] = "present"
       /\ online' = [online EXCEPT ![a] = isOnline]
       /\ stale' = stale \ {a}
    \/ /\ row[a] # "present"
       /\ UNCHANGED <<online, stale>>
    \/ /\ "status write fails" \in Occurs
       /\ stale' = stale \cup {a}
       /\ UNCHANGED online

\* Mutant of Offer: a full queue makes room by dropping its oldest message.
OfferDroppingOldest(c, m) ==
    send' = [send EXCEPT ![c] = Append(IF Len(@) < QueueCap THEN @ ELSE Tail(@), m)]

\* The non-blocking send on AgentConn.Send: a full queue drops the message.
Offer(c, m) ==
    send' = IF Len(send[c]) < QueueCap
            THEN [send EXCEPT ![c] = Append(@, m)]
            ELSE send

\* Mutants of RemoveAgentConnection: whatever the map holds is removed; the
\* agent is marked offline before the entry is compared.
RemoveUnchecked(a, c) ==
    /\ agents' = [agents EXCEPT ![a] = NoConn]
    /\ UpdateAgentStatus(a, FALSE)
    /\ UNCHANGED row

RemoveOfflineFirst(a, c) ==
    /\ agents' = IF agents[a] = c THEN [agents EXCEPT ![a] = NoConn] ELSE agents
    /\ UpdateAgentStatus(a, FALSE)
    /\ UNCHANGED row

\* RemoveAgentConnection, under Hub.mu: only the current connection of the
\* agent is removed, and only then is the agent marked offline.
RemoveAgentConnection(a, c) ==
    IF agents[a] = c
    THEN /\ agents' = [agents EXCEPT ![a] = NoConn]
         /\ UpdateAgentStatus(a, FALSE)
         /\ UNCHANGED row
    ELSE UNCHANGED <<agents, dbVars>>

----------------------------------------------------------------------------
(* The handler of connection c.                                            *)

\* HandleRegisterAgent: an administrator adds a row nobody has claimed yet.
CreateAgent(a) ==
    /\ srv # "down"
    /\ row[a] = "unused"
    /\ row' = [row EXCEPT ![a] = "present"]
    /\ UNCHANGED <<agents, online, stale, pc, owner, existing, target,
                   pumpVars, socketVars, dispatched, adminVars, closeVars>>

\* The hello arrived and RegisterAgent resolved it to a row, which a token
\* used by a new instance inserts.  The metadata update that follows leaves
\* the presence state alone.
Resolve(c, a) ==
    /\ srv # "down"
    /\ pc[c] = "idle"
    /\ row[a] # "deleted"
    /\ pc' = [pc EXCEPT ![c] = "resolved"]
    /\ owner' = [owner EXCEPT ![c] = a]
    /\ row' = [row EXCEPT ![a] = "present"]
    /\ UNCHANGED <<agents, online, stale, existing, target, pumpVars,
                   socketVars, dispatched, adminVars, closeVars>>

\* No hello in 10 s, a malformed one, or one RegisterAgent refuses.
Reject(c) ==
    /\ srv # "down"
    /\ pc[c] = "idle"
    /\ pc' = [pc EXCEPT ![c] = "finished"]
    /\ alive' = [alive EXCEPT ![c] = FALSE]
    /\ UNCHANGED <<agents, dbVars, owner, existing, target, pumpVars, stopped,
                   dispatched, adminVars, closeVars>>

\* hello_ok is written and the write pump started.
Greet(c) ==
    /\ pc[c] = "resolved"
    /\ alive[c]
    /\ pc' = [pc EXCEPT ![c] = "greeted"]
    /\ pump' = [pump EXCEPT ![c] = "select"]
    /\ UNCHANGED <<agents, dbVars, owner, existing, target, hand, send,
                   written, socketVars, dispatched, adminVars, closeVars>>

\* hello_ok cannot be written: return before there is anything to undo.
GreetFails(c) ==
    /\ pc[c] = "resolved"
    /\ ~alive[c]
    /\ pc' = [pc EXCEPT ![c] = "finished"]
    /\ UNCHANGED <<agents, dbVars, owner, existing, target, pumpVars,
                   socketVars, dispatched, adminVars, closeVars>>

\* The critical section of SetAgentConnection.
SetAgentConnection(c) ==
    LET a == owner[c] IN
    /\ pc[c] = "greeted"
    /\ existing' = [existing EXCEPT ![c] = agents[a]]
    /\ agents' = [agents EXCEPT ![a] = c]
    /\ UpdateAgentStatus(a, TRUE)
    /\ pc' = [pc EXCEPT ![c] = "displacing"]
    /\ UNCHANGED <<row, owner, target, pumpVars, socketVars, dispatched,
                   adminVars, closeVars>>

\* Mutant of StopExisting: the displaced connection is forgotten.
ForgetExisting(c) ==
    /\ pc[c] = "displacing"
    /\ existing' = [existing EXCEPT ![c] = NoConn]
    /\ pc' = [pc EXCEPT ![c] = "reading"]
    /\ UNCHANGED <<agents, dbVars, owner, target, pumpVars, socketVars,
                   dispatched, adminVars, closeVars>>

\* Mutant of StopExisting: the entry is written again, outside Hub.mu.
InstallLate(c) ==
    /\ pc[c] = "displacing"
    /\ IF existing[c] # NoConn THEN Stop(existing[c])
                               ELSE UNCHANGED socketVars
    /\ agents' = [agents EXCEPT ![owner[c]] = c]
    /\ existing' = [existing EXCEPT ![c] = NoConn]
    /\ pc' = [pc EXCEPT ![c] = "reading"]
    /\ UNCHANGED <<dbVars, owner, target, pumpVars, dispatched, adminVars,
                   closeVars>>

\* existing.stop(), after Hub.mu is released.
StopExisting(c) ==
    /\ pc[c] = "displacing"
    /\ IF existing[c] # NoConn THEN Stop(existing[c])
                               ELSE UNCHANGED socketVars
    /\ existing' = [existing EXCEPT ![c] = NoConn]
    /\ pc' = [pc EXCEPT ![c] = "reading"]
    /\ UNCHANGED <<agents, dbVars, owner, target, pumpVars, dispatched,
                   adminVars, closeVars>>

\* A ping was read and sendEnvelope looked the connection up under Hub.mu:
\* by agent, so it may find a newer connection than the one it read from.
ReadPing(c) ==
    LET found == agents[owner[c]] IN
    /\ "ping" \in Occurs
    /\ pc[c] = "reading"
    /\ alive[c]
    /\ found # NoConn
    /\ target' = [target EXCEPT ![c] = found]
    /\ pc' = [pc EXCEPT ![c] = "replying"]
    /\ UNCHANGED <<agents, dbVars, owner, existing, pumpVars, socketVars,
                   dispatched, adminVars, closeVars>>

\* sendEnvelope sends after it has released Hub.mu.
Reply(c) ==
    /\ pc[c] = "replying"
    /\ Offer(target[c], Pong)
    /\ target' = [target EXCEPT ![c] = NoConn]
    /\ pc' = [pc EXCEPT ![c] = "reading"]
    /\ UNCHANGED <<agents, dbVars, owner, existing, pump, hand, written,
                   socketVars, dispatched, adminVars, closeVars>>

\* Mutant of Leave: the deferred call waits for the pump without stopping it.
LeaveWithoutStop(c) ==
    /\ pc[c] = "reading"
    /\ stopped[c] \/ ~alive[c]
    /\ pc' = [pc EXCEPT ![c] = "waiting"]
    /\ UNCHANGED <<agents, dbVars, owner, existing, target, pumpVars,
                   socketVars, dispatched, adminVars, closeVars>>

\* Stop is closed or a read failed: the loop returns, the deferred call
\* stops the connection and then waits for the pump.
Leave(c) ==
    /\ pc[c] = "reading"
    /\ stopped[c] \/ ~alive[c]
    /\ Stop(c)
    /\ pc' = [pc EXCEPT ![c] = "waiting"]
    /\ UNCHANGED <<agents, dbVars, owner, existing, target, pumpVars,
                   dispatched, adminVars, closeVars>>

\* <-ac.Done, then RemoveAgentConnection.
Finish(c) ==
    /\ pc[c] = "waiting"
    /\ pump[c] = "done"
    /\ RemoveAgentConnection(owner[c], c)
    /\ pc' = [pc EXCEPT ![c] = "finished"]
    /\ UNCHANGED <<owner, existing, target, pumpVars, socketVars, dispatched,
                   adminVars, closeVars>>

\* The peer goes away, the network fails or a deadline passes.
LoseSocket(c) ==
    /\ pc[c] \notin {"idle", "finished"}
    /\ alive[c]
    /\ alive' = [alive EXCEPT ![c] = FALSE]
    /\ UNCHANGED <<agents, dbVars, pc, owner, existing, target, pumpVars,
                   stopped, dispatched, adminVars, closeVars>>

----------------------------------------------------------------------------
(* The write pump of connection c.                                         *)

PumpTake(c) ==
    /\ pump[c] = "select"
    /\ send[c] # <<>>
    /\ hand' = [hand EXCEPT ![c] = Head(send[c])]
    /\ send' = [send EXCEPT ![c] = Tail(@)]
    /\ pump' = [pump EXCEPT ![c] = "writing"]
    /\ UNCHANGED <<agents, dbVars, pc, owner, existing, target, written,
                   socketVars, dispatched, adminVars, closeVars>>

PumpWrite(c) ==
    /\ pump[c] = "writing"
    /\ alive[c]
    /\ written' = [written EXCEPT ![c] = @ \cup ({hand[c]} \ {Pong})]
    /\ hand' = [hand EXCEPT ![c] = NoMsg]
    /\ pump' = [pump EXCEPT ![c] = "select"]
    /\ UNCHANGED <<agents, dbVars, pc, owner, existing, target, send,
                   socketVars, dispatched, adminVars, closeVars>>

\* The pump ends, on a failed write or because Stop is closed (select picks
\* either case when a message waits as well): socket and Done are closed.
PumpEnds(c) ==
    /\ \/ pump[c] = "writing" /\ ~alive[c]
       \/ pump[c] = "select" /\ stopped[c]
    /\ pump' = [pump EXCEPT ![c] = "done"]
    /\ hand' = [hand EXCEPT ![c] = NoMsg]
    /\ alive' = [alive EXCEPT ![c] = FALSE]
    /\ UNCHANGED <<agents, dbVars, pc, owner, existing, target, send, written,
                   stopped, dispatched, adminVars, closeVars>>

----------------------------------------------------------------------------
(* The scheduler, the delete requests and the shutdown.                    *)

\* DispatchJob holds Hub.mu for reading from the lookup to the send.  The
\* call for an agent that is not connected changes nothing.
DispatchJob(j, a) ==
    /\ j \notin dispatched
    /\ agents[a] # NoConn
    /\ Offer(agents[a], [job |-> j, to |-> a])
    /\ dispatched' = dispatched \cup {j}
    /\ UNCHANGED <<agents, dbVars, pc, owner, existing, target, pump, hand,
                   written, socketVars, adminVars, closeVars>>

\* HandleDeleteAgent: the transaction that deletes the row ...
DeleteAgent(a) ==
    /\ "delete" \in Occurs
    /\ srv # "down"
    /\ row[a] = "present"
    /\ row' = [row EXCEPT ![a] = "deleted"]
    /\ online' = [online EXCEPT ![a] = FALSE]
    /\ stale' = stale \ {a}
    /\ delPc' = [delPc EXCEPT ![a] = "deleted"]
    /\ UNCHANGED <<agents, pc, owner, existing, target, pumpVars, socketVars,
                   dispatched, victim, closeVars>>

\* ... then DisconnectAgent, which reads the map under Hub.mu ...
FindVictim(a) ==
    /\ delPc[a] = "deleted"
    /\ victim' = [victim EXCEPT ![a] = agents[a]]
    /\ delPc' = [delPc EXCEPT
                   ![a] = IF agents[a] = NoConn THEN "done" ELSE "stopping"]
    /\ UNCHANGED <<agents, dbVars, pc, owner, existing, target, pumpVars,
                   socketVars, dispatched, closeVars>>

\* ... and stops what it found after releasing Hub.mu.
StopVictim(a) ==
    /\ delPc[a] = "stopping"
    /\ Stop(victim[a])
    /\ victim' = [victim EXCEPT ![a] = NoConn]
    /\ delPc' = [delPc EXCEPT ![a] = "done"]
    /\ UNCHANGED <<agents, dbVars, pc, owner, existing, target, pumpVars,
                   dispatched, closeVars>>

\* Hub.Close: the snapshot under Hub.mu.  The HTTP server is still accepting
\* connections: runServer calls Shutdown only after Close has returned.
CloseSnapshot ==
    /\ "shutdown" \in Occurs
    /\ srv = "serving"
    /\ srv' = "closing"
    /\ toStop' = {agents[a] : a \in Agent} \ {NoConn}
    /\ toAwait' = toStop'
    /\ UNCHANGED <<agents, dbVars, pc, owner, existing, target, pumpVars,
                   socketVars, dispatched, adminVars, downs>>

\* Mutant of CloseStop: the connections are waited for and never stopped.
CloseStopSkipped(c) ==
    /\ c \in toStop
    /\ toStop' = toStop \ {c}
    /\ UNCHANGED <<agents, dbVars, pc, owner, existing, target, pumpVars,
                   socketVars, dispatched, adminVars, srv, toAwait, downs>>

CloseStop(c) ==
    /\ c \in toStop
    /\ Stop(c)
    /\ toStop' = toStop \ {c}
    /\ UNCHANGED <<agents, dbVars, pc, owner, existing, target, pumpVars,
                   dispatched, adminVars, srv, toAwait, downs>>

CloseAwait(c) ==
    /\ toStop = {}
    /\ c \in toAwait
    /\ pump[c] = "done"
    /\ RemoveAgentConnection(owner[c], c)
    /\ toAwait' = toAwait \ {c}
    /\ UNCHANGED <<pc, owner, existing, target, pumpVars, socketVars,
                   dispatched, adminVars, srv, toStop, downs>>

CloseReturns ==
    /\ srv = "closing"
    /\ toStop = {}
    /\ toAwait = {}
    /\ srv' = "closed"
    /\ UNCHANGED <<agents, dbVars, pc, owner, existing, target, pumpVars,
                   socketVars, dispatched, adminVars, toStop, toAwait, downs>>

\* The process ends, after Close or in a crash: everything but the database
\* is gone.
ProcessEnds ==
    /\ srv # "down"
    /\ downs < MaxDowns
    /\ srv' = "down"
    /\ downs' = downs + 1
    /\ agents' = [a \in Agent |-> NoConn]
    /\ stale' = stale \cup {a \in Agent : online[a]}
    /\ pc' = [c \in Conn |-> IF pc[c] = "idle" THEN "idle" ELSE "finished"]
    /\ alive' = [c \in Conn |-> alive[c] /\ pc[c] = "idle"]
    /\ pump' = [c \in Conn |-> IF pump[c] = "off" THEN "off" ELSE "done"]
    /\ existing' = [c \in Conn |-> NoConn]
    /\ target' = [c \in Conn |-> NoConn]
    /\ hand' = [c \in Conn |-> NoMsg]
    /\ send' = [c \in Conn |-> <<>>]
    /\ delPc' = [a \in Agent |-> IF delPc[a] = "none" THEN "none" ELSE "done"]
    /\ victim' = [a \in Agent |-> NoConn]
    /\ toStop' = {}
    /\ toAwait' = {}
    /\ UNCHANGED <<row, online, owner, stopped, written, dispatched>>

\* runServer opens and migrates the database and creates an empty hub.  No
\* statement of the startup touches agents.online.
Restart ==
    /\ srv = "down"
    /\ srv' = "serving"
    /\ UNCHANGED <<agents, dbVars, pc, owner, existing, target, pumpVars,
                   socketVars, dispatched, adminVars, toStop, toAwait, downs>>

\* Every connection the model offers has been served and nobody is waiting.
AllServed ==
    /\ \A c \in Conn : pc[c] = "finished"
    /\ \A a \in Agent : delPc[a] \in {"none", "done"}
    /\ srv # "closing"
    /\ UNCHANGED vars

----------------------------------------------------------------------------

Handler(c) == \/ Greet(c) \/ GreetFails(c) \/ SetAgentConnection(c)
              \/ StopExisting(c) \/ Reply(c) \/ Leave(c) \/ Finish(c)
Pump(c)    == PumpTake(c) \/ PumpWrite(c) \/ PumpEnds(c)
Delete(a)  == FindVictim(a) \/ StopVictim(a)
Close      == CloseReturns \/ \E c \in Conn : CloseStop(c) \/ CloseAwait(c)

Next ==
    \/ \E c \in Conn : \/ Handler(c) \/ Pump(c) \/ Reject(c) \/ ReadPing(c)
                       \/ LoseSocket(c)
    \/ \E c \in Conn, a \in Agent : Resolve(c, a)
    \/ \E a \in Agent : CreateAgent(a) \/ DeleteAgent(a) \/ Delete(a)
    \/ \E j \in Job, a \in Agent : DispatchJob(j, a)
    \/ CloseSnapshot
    \/ Close
    \/ ProcessEnds
    \/ Restart
    \/ AllServed

Spec == Init /\ [][Next]_vars

\* The Go scheduler runs every goroutine that can run, Hub.mu is handed to
\* waiters in turn, and reads and writes end by their deadlines.  Nothing
\* makes a peer connect, ping or vanish, nor the controller stop or start.
Fairness ==
    /\ \A c \in Conn : WF_vars(Handler(c)) /\ WF_vars(Pump(c))
    /\ \A a \in Agent : WF_vars(Delete(a))
    /\ WF_vars(Close)

FairSpec == Spec /\ Fairness

----------------------------------------------------------------------------
(* Safety.                                                                 *)

\* The online column tells whether the hub lists a connection for the agent,
\* for every row whose last status write was not lost: SetAgentConnection and
\* RemoveAgentConnection keep the two in step under Hub.mu, however handlers
\* of one agent, deletions and the shutdown interleave.
PresenceAgrees ==
    \A a \in Agent :
        row[a] = "present" /\ a \notin stale => (online[a] <=> agents[a] # NoConn)

\* A connection that was registered and is no longer the agent's current one
\* has been told to stop, or the handler that displaced it is about to tell
\* it: no superseded connection is left running (hub.go:77-80).
SupersededIsStopped ==
    \A c \in Conn :
        Registered(c) /\ agents[owner[c]] # c =>
            \/ stopped[c]
            \/ \E d \in Conn : pc[d] = "displacing" /\ existing[d] = c

\* The hub lists, under each agent, only a connection that agent opened and
\* whose handler is still there to remove it (the deferred call of
\* HandleAgentConnection): no entry outlives its handler.
ListedIsServed ==
    \A a \in Agent :
        agents[a] # NoConn => owner[agents[a]] = a /\ Registered(agents[a])

\* An entry of the map is only ever replaced by a connection that has just
\* been set up, or cleared when the connection it holds has stopped and its
\* pump has ended: a handler or a Close that is late never clears the entry
\* of a newer connection.
EntriesChangeInTurn ==
    [][\A a \in Agent :
         agents'[a] # agents[a] =>
            \/ srv' = "down"
            \/ agents'[a] # NoConn /\ pc[agents'[a]] = "greeted"
            \/ agents'[a] = NoConn /\ stopped[agents[a]]
                                   /\ pump[agents[a]] = "done"]_vars

\* The conjunction that is inductive: the three invariants above need to know
\* that a row is unused until a connection or an administrator claims it, that
\* a resolved connection belongs to a used row, and that the connections whose
\* pump somebody waits for have been stopped.
UnusedIsOffline ==
    \A a \in Agent : row[a] = "unused" => agents[a] = NoConn /\ ~online[a]

ResolvedHasRow ==
    \A c \in Conn : pc[c] \notin {"idle", "finished"} =>
        owner[c] \in Agent /\ row[owner[c]] # "unused"

AwaitedIsStopped ==
    /\ \A c \in Conn : pc[c] = "waiting" => stopped[c]
    /\ \A c \in toAwait : /\ c \in toStop \/ stopped[c]
                         /\ pc[c] # "idle"
                         /\ owner[c] \in Agent

HubInv ==
    /\ TypeOK
    /\ PresenceAgrees
    /\ SupersededIsStopped
    /\ ListedIsServed
    /\ UnusedIsOffline
    /\ ResolvedHasRow
    /\ AwaitedIsStopped

----------------------------------------------------------------------------
(* Liveness, under Fairness.                                               *)

\* A registered connection that another one displaced, or whose socket is
\* lost, ends with both of its goroutines, and its entry with it.
EndedFinishes ==
    \A c \in Conn :
        (Registered(c) /\ (agents[owner[c]] # c \/ ~alive[c]))
            ~> (pc[c] = "finished" /\ \A a \in Agent : agents[a] # c)

\* A connection whose hello was accepted and that lasts comes to be the one
\* that jobs are dispatched on, and stays it: whichever handler registers
\* first, and however late the others clean up, no agent is left connected and
\* out of reach.
LiveIsListed ==
    \A c \in Conn :
        <>[](alive[c] /\ pc[c] \notin {"idle", "finished"})
            => <>[](owner[c] \in Agent /\ agents[owner[c]] = c)

\* A queued job is written to its socket unless the connection's pump ends.
QueuedJobIsWritten ==
    \A c \in Conn, m \in JobMsg :
        (\E i \in DOMAIN send[c] : send[c][i] = m)
            ~> (m \in written[c] \/ pump[c] = "done")

\* Hub.Close returns: waiting for Done of every stopped connection ends.
CloseTerminates == srv = "closing" ~> srv # "closing"

----------------------------------------------------------------------------
(* What the documentation says.                                            *)

\* README.md:396, "Deleting an agent also disconnects it": once the request
\* is done the agent is eventually not connected.
DeletedIsDisconnected ==
    \A a \in Agent : delPc[a] = "done" ~> agents[a] = NoConn
=============================================================================
