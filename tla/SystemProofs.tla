---------------------------- MODULE SystemProofs ----------------------------
(***************************************************************************)
(* Jobs from end to end, for any numbers of jobs, workers, queue places,   *)
(* connections and losses: where a job may be on its way (SystemInv), and  *)
(* that System implements Jobs.  And the time limits of one websocket, for *)
(* all periods, deadlines and delays (Keepalive).                          *)
(*                                                                         *)
(* A step of System is a step of the hub, of the agent or of both, so what *)
(* HubProofs and AgentRuntimeProofs show of either holds here.             *)
(***************************************************************************)
EXTENDS System, Keepalive, FiniteSetTheorems, TLAPS

HP == INSTANCE HubProofs WITH Agent <- {Me}, Conn <- 1..MaxConns, Occurs <- {}, MaxDowns <- 0
AP == INSTANCE AgentRuntimeProofs WITH Garbled <- {}

----------------------------------------------------------------------------
(* Each side keeps its invariants.                                         *)

\* The hub and the agent of System are those of the proofs.
LEMMA SameHub ==
  /\ H!Init => HP!Init
  /\ [H!Next]_H!vars => [HP!Next]_HP!vars
  /\ HP!HubInv => H!HubInv
  /\ HP!ConstantsAssumption /\ HP!MessagesAssumption
<1>1. H!Init => HP!Init
  BY DEF H!Init, HP!Init
<1>2. H!Next => HP!Next
  BY DEF H!Next, H!Handler, H!Pump, H!Reject, H!ReadPing, H!LoseSocket, H!Resolve,
         H!CreateAgent, H!DeleteAgent, H!Delete, H!DispatchJob, H!CloseSnapshot,
         H!Close, H!ProcessEnds, H!Restart, H!AllServed, H!Greet, H!GreetFails,
         H!SetAgentConnection, H!StopExisting, H!Reply, H!Leave, H!Finish, H!PumpTake,
         H!PumpWrite, H!PumpEnds, H!FindVictim, H!StopVictim, H!CloseReturns,
         H!CloseStop, H!CloseAwait, H!Offer, H!Stop, H!UpdateAgentStatus,
         H!RemoveAgentConnection, H!vars, H!dbVars, H!pumpVars, H!socketVars,
         H!adminVars, H!closeVars,
         HP!Next, HP!Handler, HP!Pump, HP!Reject, HP!ReadPing, HP!LoseSocket, HP!Resolve,
         HP!CreateAgent, HP!DeleteAgent, HP!Delete, HP!DispatchJob, HP!CloseSnapshot,
         HP!Close, HP!ProcessEnds, HP!Restart, HP!AllServed, HP!Greet, HP!GreetFails,
         HP!SetAgentConnection, HP!StopExisting, HP!Reply, HP!Leave, HP!Finish, HP!PumpTake,
         HP!PumpWrite, HP!PumpEnds, HP!FindVictim, HP!StopVictim, HP!CloseReturns,
         HP!CloseStop, HP!CloseAwait, HP!Offer, HP!Stop, HP!UpdateAgentStatus,
         HP!RemoveAgentConnection, HP!vars, HP!dbVars, HP!pumpVars, HP!socketVars,
         HP!adminVars, HP!closeVars
<1>3. H!vars = HP!vars
  BY DEF H!vars, H!dbVars, H!pumpVars, H!socketVars, H!adminVars, H!closeVars,
         HP!vars, HP!dbVars, HP!pumpVars, HP!socketVars, HP!adminVars, HP!closeVars
<1>4. HP!HubInv => H!HubInv
  BY DEF H!HubInv, H!TypeOK, H!PresenceAgrees, H!SupersededIsStopped, H!ListedIsServed,
         H!UnusedIsOffline, H!ResolvedHasRow, H!AwaitedIsStopped, H!Registered,
         H!HandlerPc, H!JobMsg, H!Msg,
         HP!HubInv, HP!TypeOK, HP!PresenceAgrees, HP!SupersededIsStopped, HP!ListedIsServed,
         HP!UnusedIsOffline, HP!ResolvedHasRow, HP!AwaitedIsStopped, HP!Registered,
         HP!HandlerPc, HP!JobMsg, HP!Msg
<1>5. HP!ConstantsAssumption /\ HP!MessagesAssumption
  BY SystemAssumption
     DEF SystemAssumption, H!ConstantsAssumption, H!MessagesAssumption,
         H!EnvironmentEvents, H!JobMsg, H!Msg, HP!ConstantsAssumption,
         HP!MessagesAssumption, HP!EnvironmentEvents, HP!JobMsg, HP!Msg
<1>6. ASSUME H!vars' = H!vars PROVE HP!vars' = HP!vars
  BY <1>6 DEF H!vars, H!dbVars, H!pumpVars, H!socketVars, H!adminVars, H!closeVars,
         HP!vars, HP!dbVars, HP!pumpVars, HP!socketVars, HP!adminVars, HP!closeVars
<1> QED  BY <1>1, <1>2, <1>4, <1>5, <1>6

LEMMA SameAgent ==
  /\ A!Init => AP!Init
  /\ [A!Next]_A!vars => [AP!Next]_AP!vars
  /\ AP!AgentInv <=> A!AgentInv
  /\ AP!AgentAssumption
<1>1. A!Init => AP!Init
  BY DEF A!Init, AP!Init, A!Conn, AP!Conn
<1>2. A!Next => AP!Next
  BY DEF A!Next, A!Signal, A!SocketBecomes, A!GoesMute, A!LoseSocket, A!MainGoes,
         A!StartDial, A!DialFails, A!DialSucceeds, A!BackoffEnds, A!AgentReturns,
         A!HelloSent, A!HelloFails, A!ReaderChecks, A!Readable, A!ReadJob, A!ReadPing,
         A!ReadOther, A!ReadFails, A!Locks, A!Unlocked, A!Wrote, A!ReaderLocks,
         A!ReaderRejects, A!ReaderPongs, A!Cancel, A!CloseSocket, A!Quiet,
         A!AwaitGoroutines, A!CloserCloses, A!KeeperGoes, A!KeeperTicks, A!KeeperEnds,
         A!KeeperLocks, A!KeeperPings, A!WorkerGoes, A!WorkerChecks, A!WorkerStops,
         A!WorkerTakes, A!ProbeEnds, A!WorkerLocks, A!WorkerWrites, A!Dialling,
         A!Reading, A!Reader, A!Teardown, A!Keeper, A!Worker, A!Stopped, A!vars,
         A!Conn, A!Actor, A!Ended,
         AP!Next, AP!Signal, AP!SocketBecomes, AP!GoesMute, AP!LoseSocket, AP!MainGoes,
         AP!StartDial, AP!DialFails, AP!DialSucceeds, AP!BackoffEnds, AP!AgentReturns,
         AP!HelloSent, AP!HelloFails, AP!ReaderChecks, AP!Readable, AP!ReadJob, AP!ReadPing,
         AP!ReadOther, AP!ReadFails, AP!Locks, AP!Unlocked, AP!Wrote, AP!ReaderLocks,
         AP!ReaderRejects, AP!ReaderPongs, AP!Cancel, AP!CloseSocket, AP!Quiet,
         AP!AwaitGoroutines, AP!CloserCloses, AP!KeeperGoes, AP!KeeperTicks, AP!KeeperEnds,
         AP!KeeperLocks, AP!KeeperPings, AP!WorkerGoes, AP!WorkerChecks, AP!WorkerStops,
         AP!WorkerTakes, AP!ProbeEnds, AP!WorkerLocks, AP!WorkerWrites, AP!Dialling,
         AP!Reading, AP!Reader, AP!Teardown, AP!Keeper, AP!Worker, AP!Stopped, AP!vars,
         AP!Conn, AP!Actor, AP!Ended
<1>3. AP!AgentInv <=> A!AgentInv
  BY DEF A!AgentInv, A!TypeOK, A!OneGeneration, A!HolderWrites, A!Between, A!Quiet,
         A!MainStates, A!Goroutine, A!Actor, A!Conn,
         AP!AgentInv, AP!TypeOK, AP!OneGeneration, AP!HolderWrites, AP!Between, AP!Quiet,
         AP!MainStates, AP!Goroutine, AP!Actor, AP!Conn
<1>4. AP!AgentAssumption
  BY SystemAssumption
     DEF SystemAssumption, A!AgentAssumption, A!Actor, AP!AgentAssumption, AP!Actor
<1>5. ASSUME A!vars' = A!vars PROVE AP!vars' = AP!vars
  BY <1>5 DEF A!vars, AP!vars
<1> QED  BY <1>1, <1>2, <1>3, <1>4, <1>5

\* Every step of System is a step of the hub or leaves it alone, and the same
\* for the agent.
LEMMA Sides ==
  ASSUME [Next]_vars
  PROVE  [H!Next]_H!vars /\ [A!Next]_A!vars
<1> USE DEF H!vars, hubVars, A!vars, agentVars
<1>0. /\ UNCHANGED hubVars => UNCHANGED H!vars
      /\ UNCHANGED agentVars => UNCHANGED A!vars
  BY DEF H!vars, H!dbVars, H!pumpVars, H!socketVars, H!adminVars, H!closeVars
<1>1. CASE Main
  BY <1>0, <1>1 DEF Main, MainSteps, AgentAlone, SendHello, ReadHelloOK, ReadFails,
     ReaderRejects, Answers, ReadJob, A!Next, A!Dialling, A!Reader, A!Reading, A!Teardown
<1>2. CASE Rests
  BY <1>0, <1>2 DEF Rests, vars
<1>3. ASSUME NEW j \in Job, DispatchJob(j) PROVE [H!Next]_H!vars /\ [A!Next]_A!vars
  BY <1>0, <1>3 DEF DispatchJob, H!Next
<1>4. ASSUME NEW c \in Conn, Handler(c) PROVE [H!Next]_H!vars /\ [A!Next]_A!vars
  BY <1>0, <1>4 DEF Handler, Resolve, Reject, Greet, HandlerSteps, HandleResult, HubAlone,
     H!Next, H!Handler, Conn
<1>5. ASSUME NEW c \in Conn, Pump(c) PROVE [H!Next]_H!vars /\ [A!Next]_A!vars
  BY <1>0, <1>5 DEF Pump, PumpSteps, PumpWrite, HubAlone, H!Next, H!Pump, Conn
<1>6. ASSUME NEW c \in Conn, GoroutineSteps(c) \/ AgentLoses(c)
      PROVE  [H!Next]_H!vars /\ [A!Next]_A!vars
  BY <1>0, <1>6 DEF GoroutineSteps, AgentLoses, AgentAlone, A!Next, A!Keeper, Conn, A!Conn
<1>7. ASSUME NEW c \in Conn, HubLoses(c) PROVE [H!Next]_H!vars /\ [A!Next]_A!vars
  BY <1>0, <1>7 DEF HubLoses, H!Next, Conn
<1>8. ASSUME NEW c \in Conn, NEW s \in Slot, Worker(c, s)
      PROVE  [H!Next]_H!vars /\ [A!Next]_A!vars
  BY <1>0, <1>8 DEF Worker, WorkerSteps, WorkerWrites, Answers, AgentAlone, A!Next, A!Worker,
     Conn, A!Conn
<1>9. CASE UNCHANGED vars
  BY <1>0, <1>9 DEF vars
<1> QED  BY <1>1, <1>2, <1>3, <1>4, <1>5, <1>6, <1>7, <1>8, <1>9 DEF Next

\* System restricts the hub and the agent and adds nothing to either: each is
\* seen to behave as it does on its own, so what holds of it there holds here.
THEOREM SystemComposesSides == Spec => H!Spec /\ A!Spec
<1>1. Init => H!Init /\ A!Init  BY DEF Init
<1>2. [Next]_vars => [H!Next]_H!vars /\ [A!Next]_A!vars  BY Sides
<1> QED  BY <1>1, <1>2, PTL DEF Spec, H!Spec, A!Spec

\* What the proofs about the two sides give.
EachSide == H!HubInv /\ A!AgentInv /\ AP!JobsPlaced

LEMMA EachSideHolds == Spec => []EachSide
<1>1. Init => HP!Init /\ AP!Init
  BY SameHub, SameAgent DEF Init
<1>2. [Next]_vars => [HP!Next]_HP!vars /\ [AP!Next]_AP!vars
  BY Sides, SameHub, SameAgent
<1>3. HP!Spec => []HP!HubInv
  BY SameHub, HP!HubInvariant
<1>4. AP!Spec => []AP!AgentInv
  BY SameAgent, AP!AgentInvariant
<1>5. AP!Spec => []AP!JobsPlaced
  BY SameAgent, AP!JobsPlacedCorrect
<1>6. HP!HubInv /\ AP!AgentInv /\ AP!JobsPlaced => EachSide
  BY SameHub, SameAgent DEF EachSide
<1> QED
  BY <1>1, <1>2, <1>3, <1>4, <1>5, <1>6, PTL DEF Spec, HP!Spec, AP!Spec

----------------------------------------------------------------------------
(* Sequences.                                                              *)

Has(seq, x)  == \E k \in 1..Len(seq) : seq[k] = x
Once(seq, x) == \A k, l \in 1..Len(seq) : seq[k] = x /\ seq[l] = x => k = l

LEMMA AppendHas ==
  ASSUME NEW S, NEW q \in Seq(S), NEW m \in S, NEW x
  PROVE  /\ Append(q, m) \in Seq(S) /\ Append(q, m) # q
         /\ Has(Append(q, m), x) <=> Has(q, x) \/ x = m
         /\ Once(q, x) /\ (x = m => ~Has(q, x)) => Once(Append(q, m), x)
<1>1. /\ Append(q, m) \in Seq(S) /\ Len(q) \in Nat /\ Len(Append(q, m)) = Len(q) + 1
      /\ \A k \in 1..Len(q) : Append(q, m)[k] = q[k]
      /\ Append(q, m)[Len(q) + 1] = m
  OBVIOUS
<1>2. Append(q, m) # q  BY <1>1
<1>3. Has(Append(q, m), x) <=> Has(q, x) \/ x = m
  <2>1. ASSUME Has(q, x) PROVE Has(Append(q, m), x)
    <3>1. PICK k \in 1..Len(q) : q[k] = x  BY <2>1 DEF Has
    <3>2. k \in 1..Len(Append(q, m)) /\ Append(q, m)[k] = x  BY <1>1, <3>1
    <3> QED  BY <3>2 DEF Has
  <2>2. ASSUME x = m PROVE Has(Append(q, m), x)
    <3>1. Len(q) + 1 \in 1..Len(Append(q, m))  BY <1>1
    <3> QED  BY <1>1, <2>2, <3>1 DEF Has
  <2>3. ASSUME Has(Append(q, m), x), x # m PROVE Has(q, x)
    <3>1. PICK k \in 1..Len(Append(q, m)) : Append(q, m)[k] = x  BY <2>3 DEF Has
    <3>2. k \in 1..Len(q) /\ q[k] = x  BY <1>1, <2>3, <3>1
    <3> QED  BY <3>2 DEF Has
  <2> QED  BY <2>1, <2>2, <2>3
<1>4. ASSUME Once(q, x), x = m => ~Has(q, x) PROVE Once(Append(q, m), x)
  <2> SUFFICES ASSUME NEW k \in 1..Len(Append(q, m)), NEW l \in 1..Len(Append(q, m)),
                      Append(q, m)[k] = x, Append(q, m)[l] = x, k # l
               PROVE  FALSE
    BY DEF Once
  <2>1. CASE k \in 1..Len(q) /\ l \in 1..Len(q)
    BY <1>1, <1>4, <2>1 DEF Once
  <2>2. CASE k = Len(q) + 1
    <3>1. l \in 1..Len(q) /\ q[l] = x /\ x = m  BY <1>1, <2>2
    <3> QED  BY <1>4, <3>1 DEF Has
  <2>3. CASE l = Len(q) + 1
    <3>1. k \in 1..Len(q) /\ q[k] = x /\ x = m  BY <1>1, <2>3
    <3> QED  BY <1>4, <3>1 DEF Has
  <2> QED  BY <1>1, <2>1, <2>2, <2>3
<1> QED  BY <1>1, <1>2, <1>3, <1>4

LEMMA TailHas ==
  ASSUME NEW S, NEW q \in Seq(S), q # <<>>, NEW x
  PROVE  /\ Tail(q) \in Seq(S) /\ Head(q) \in S /\ Has(q, Head(q))
         /\ x # Head(q) => (Has(Tail(q), x) <=> Has(q, x))
         /\ Once(q, x) => Once(Tail(q), x)
         /\ Once(q, x) /\ x = Head(q) => ~Has(Tail(q), x)
<1>1. /\ Tail(q) \in Seq(S) /\ Head(q) \in S /\ Head(q) = q[1]
      /\ Len(q) \in Nat /\ Len(q) > 0 /\ Len(Tail(q)) = Len(q) - 1
      /\ \A k \in 1..Len(Tail(q)) : Tail(q)[k] = q[k + 1]
  OBVIOUS
<1>2. Has(q, Head(q))  BY <1>1 DEF Has
<1>3. ASSUME x # Head(q) PROVE Has(Tail(q), x) <=> Has(q, x)
  <2>1. ASSUME Has(q, x) PROVE Has(Tail(q), x)
    <3>1. PICK k \in 1..Len(q) : q[k] = x  BY <2>1 DEF Has
    <3>2. k # 1  BY <1>1, <1>3, <3>1
    <3>3. k - 1 \in 1..Len(Tail(q)) /\ Tail(q)[k - 1] = x  BY <1>1, <3>1, <3>2
    <3> QED  BY <3>3 DEF Has
  <2>2. ASSUME Has(Tail(q), x) PROVE Has(q, x)
    <3>1. PICK k \in 1..Len(Tail(q)) : Tail(q)[k] = x  BY <2>2 DEF Has
    <3>2. k + 1 \in 1..Len(q) /\ q[k + 1] = x  BY <1>1, <3>1
    <3> QED  BY <3>2 DEF Has
  <2> QED  BY <2>1, <2>2
<1>4. ASSUME Once(q, x) PROVE Once(Tail(q), x)
  <2> SUFFICES ASSUME NEW k \in 1..Len(Tail(q)), NEW l \in 1..Len(Tail(q)),
                      Tail(q)[k] = x, Tail(q)[l] = x
               PROVE  k = l
    BY DEF Once
  <2>1. /\ k + 1 \in 1..Len(q) /\ q[k + 1] = x
        /\ l + 1 \in 1..Len(q) /\ q[l + 1] = x
    BY <1>1
  <2>2. k + 1 = l + 1  BY <1>4, <2>1 DEF Once
  <2> QED  BY <2>2
<1>5. ASSUME Once(q, x), x = Head(q), Has(Tail(q), x) PROVE FALSE
  <2>1. PICK k \in 1..Len(Tail(q)) : Tail(q)[k] = x  BY <1>5 DEF Has
  <2>2. /\ k + 1 \in 1..Len(q) /\ q[k + 1] = x
        /\ 1 \in 1..Len(q) /\ q[1] = x
    BY <1>1, <1>5, <2>1
  <2>3. k + 1 = 1  BY <1>5, <2>2 DEF Once
  <2> QED  BY <2>3
<1> QED  BY <1>1, <1>2, <1>3, <1>4, <1>5

LEMMA InCount ==
  ASSUME NEW q, NEW x, Once(q, x)
  PROVE  In(q, x) = IF Has(q, x) THEN 1 ELSE 0
<1> DEFINE places == {i \in 1..Len(q) : q[i] = x}
<1>1. CASE Has(q, x)
  <2>1. PICK k \in 1..Len(q) : q[k] = x  BY <1>1 DEF Has
  <2>2. places = {k}  BY <2>1 DEF Once
  <2> QED  BY <1>1, <2>2, FS_Singleton DEF In
<1>2. CASE ~Has(q, x)
  <2>1. places = {}  BY <1>2 DEF Has
  <2> QED  BY <1>2, <2>1, FS_EmptySet DEF In
<1> QED  BY <1>1, <1>2

----------------------------------------------------------------------------
(* The inductive invariant.                                                *)

Message(j) == [job |-> j, to |-> Me]

\* The hub sends jobs only and a pump starts with the greeting; before its
\* handler begins a connection is neither lost nor stopped at the hub's end,
\* and one that another supersedes has begun.
HubSide ==
    \A c \in Conn :
        /\ send[c] \in Seq(H!JobMsg)
        /\ pump[c] = "writing" => hand[c] \in H!JobMsg
        /\ pump[c] # "writing" => hand[c] = NoMsg
        /\ pc[c] \in {"idle", "resolved"} => pump[c] = "off"
        /\ pc[c] # "replying"
        /\ pc[c] = "idle" => alive[c] /\ ~stopped[c]
        /\ stopped[c] => ~alive[c]
        /\ existing[c] # NoConn => pc[existing[c]] # "idle"

\* A handler runs only for a connection that the agent has opened.
Reached ==
    \A c \in Conn :
        /\ pc[c] # "idle" => socket[c] # "none"
        /\ toHub[c] # <<>> => socket[c] # "none"
        /\ c > conn \/ (c = conn /\ main = "dialing") => socket[c] = "none"

\* Under way to the agent.
Waiting(j, c) ==
    \/ Has(send[c], Message(j))
    \/ hand[c] = Message(j)
    \/ Has(toAgent[c], j)

\* Wherever a job or its answer is, it is there once ...
OutOnce ==
    \A j \in Job : \A c \in Conn :
        /\ Has(send[c], Message(j)) => hand[c] # Message(j) /\ ~Has(toAgent[c], j)
        /\ hand[c] = Message(j) => ~Has(toAgent[c], j)
        /\ Once(send[c], Message(j)) /\ Once(toAgent[c], j)

BackOnce == \A j \in Job : \A c \in Conn : Once(toHub[c], j)

\* ... and on the connection that took it, and on a healthy connection it is
\* somewhere.
OnTrack(j, c) ==
    /\ Waiting(j, c) => via[j] = c /\ carried[j] = 0
    /\ carried[j] = c => via[j] = c
    /\ Has(toHub[c], j) => carried[j] = c /\ answers[j] = 1 /\ handled[j] = 0
    /\ via[j] = c => pc[c] \notin {"idle", "resolved", "greeted"} /\ j \in dispatched
    /\ via[j] = c /\ Healthy(c) =>
          /\ Waiting(j, c) \/ carried[j] = c
          /\ answers[j] = 1 => Has(toHub[c], j) \/ handled[j] = 1

HandledOnce == \A j \in Job : handled[j] > 0 => handled[j] = 1 /\ answers[j] = 1

Tracks == OutOnce /\ BackOnce /\ (\A j \in Job : \A c \in Conn : OnTrack(j, c)) /\ HandledOnce

SystemInductive == EachSide /\ TypeOK /\ HubSide /\ Reached /\ Tracks

\* What the hub does in System with a connection that has begun.
HubActs(c) ==
    \/ H!Greet(c) \/ H!GreetFails(c) \/ H!SetAgentConnection(c) \/ H!StopExisting(c)
    \/ H!Leave(c) \/ H!Finish(c) \/ H!PumpTake(c) \/ H!PumpWrite(c) \/ H!PumpEnds(c)
    \/ H!LoseSocket(c)

LEMMA HubStep ==
  ASSUME [Next]_vars
  PROVE  \/ UNCHANGED hubVars
         \/ \E j \in Job : H!DispatchJob(j, Me)
         \/ \E c \in Conn : H!Resolve(c, Me) /\ toHub[c] # <<>>
         \/ \E c \in Conn : H!Reject(c) /\ socket[c] # "none"
         \/ \E c \in Conn : HubActs(c)
<1>1. ASSUME NEW c \in Conn, Handler(c)
      PROVE  \/ UNCHANGED hubVars
             \/ H!Resolve(c, Me) /\ toHub[c] # <<>>
             \/ H!Reject(c) /\ socket[c] # "none"
             \/ HubActs(c)
  BY <1>1 DEF Handler, Resolve, Reject, Greet, HandlerSteps, HandleResult, HubActs, Gets
<1>2. ASSUME NEW c \in Conn, Pump(c) \/ HubLoses(c) PROVE HubActs(c)
  BY <1>2 DEF Pump, PumpSteps, PumpWrite, HubLoses, HubActs
<1>3. ASSUME NEW c \in Conn, \/ GoroutineSteps(c) \/ AgentLoses(c)
                             \/ \E s \in Slot : Worker(c, s)
      PROVE  UNCHANGED hubVars
  BY <1>3 DEF GoroutineSteps, AgentLoses, AgentAlone, Worker, WorkerSteps, WorkerWrites, Answers
<1>4. ASSUME Main \/ Rests \/ UNCHANGED vars PROVE UNCHANGED hubVars
  BY <1>4 DEF Main, MainSteps, AgentAlone, SendHello, ReadHelloOK, ReadFails, ReaderRejects,
     Answers, ReadJob, Rests, vars
<1> QED  BY <1>1, <1>2, <1>3, <1>4 DEF Next, DispatchJob

\* What is known of the hub's state between two steps.
LEMMA HubTypes ==
  ASSUME SystemInductive
  PROVE  /\ pc \in [Conn -> H!HandlerPc] /\ alive \in [Conn -> BOOLEAN]
         /\ stopped \in [Conn -> BOOLEAN] /\ send \in [Conn -> Seq(H!Msg)]
         /\ hand \in [Conn -> H!Msg \cup {NoMsg}]
         /\ pump \in [Conn -> {"off", "select", "writing", "done"}]
         /\ existing \in [Conn -> Conn \cup {NoConn}]
         /\ agents[Me] \in Conn \cup {NoConn} /\ NoConn \notin Conn
         /\ NoMsg \notin H!JobMsg
         /\ agents[Me] # NoConn => H!Registered(agents[Me])
         /\ \A c \in Conn : pc[c] \notin {"idle", "finished"} => owner[c] = Me
BY SystemAssumption
   DEF SystemInductive, EachSide, H!HubInv, H!TypeOK, H!ListedIsServed, H!ResolvedHasRow,
       SystemAssumption, H!ConstantsAssumption, H!MessagesAssumption, H!Msg, Conn

LEMMA HubSideStep ==
  ASSUME SystemInductive, [Next]_vars
  PROVE  HubSide'
<1> USE HubTypes DEF HubSide, H!Registered, H!HandlerPc
<1>0. HubSide  BY DEF SystemInductive
<1>1. CASE UNCHANGED hubVars
  BY <1>0, <1>1 DEF hubVars
<1>2. ASSUME NEW j \in Job, H!DispatchJob(j, Me) PROVE HubSide'
  <2> DEFINE m == [job |-> j, to |-> Me]
  <2>1. /\ agents[Me] \in Conn /\ H!Offer(agents[Me], m)
        /\ UNCHANGED <<pc, pump, hand, stopped, alive, existing>>
    BY <1>2 DEF H!DispatchJob, H!socketVars
  <2>2. m \in H!JobMsg  BY DEF H!JobMsg
  <2>3. Append(send[agents[Me]], m) \in Seq(H!JobMsg)  BY <1>0, <2>1, <2>2, AppendHas
  <2>4. \A c \in Conn : send'[c] \in Seq(H!JobMsg)
    BY <1>0, <2>1, <2>3 DEF H!Offer
  <2> QED  BY <1>0, <2>1, <2>4
<1>3. ASSUME NEW c \in Conn, H!Resolve(c, Me) PROVE HubSide'
  BY <1>0, <1>3 DEF H!Resolve, H!pumpVars, H!socketVars
<1>4. ASSUME NEW c \in Conn, H!Reject(c) PROVE HubSide'
  BY <1>0, <1>4 DEF H!Reject, H!pumpVars
<1>5. ASSUME NEW c \in Conn, H!Greet(c) PROVE HubSide'
  BY <1>0, <1>5 DEF H!Greet, H!socketVars
<1>6. ASSUME NEW c \in Conn, H!GreetFails(c) PROVE HubSide'
  BY <1>0, <1>6 DEF H!GreetFails, H!pumpVars, H!socketVars
<1>7. ASSUME NEW c \in Conn, H!SetAgentConnection(c) PROVE HubSide'
  BY <1>0, <1>7 DEF H!SetAgentConnection, H!pumpVars, H!socketVars
<1>8. ASSUME NEW c \in Conn, H!StopExisting(c) PROVE HubSide'
  <2>1. /\ pc[c] = "displacing" /\ pc' = [pc EXCEPT ![c] = "reading"]
        /\ existing' = [existing EXCEPT ![c] = NoConn]
        /\ UNCHANGED <<send, hand, pump>>
    BY <1>8 DEF H!StopExisting, H!pumpVars
  <2>2. \A d \in Conn : /\ pc'[d] # "idle" <=> pc[d] # "idle"
                        /\ pc'[d] \in {"idle", "resolved"} => pc[d] \in {"idle", "resolved"}
                        /\ pc'[d] # "replying"
                        /\ existing'[d] = existing[d] \/ existing'[d] = NoConn
    BY <1>0, <2>1
  <2>3. \A d \in Conn : \/ alive'[d] = alive[d] /\ stopped'[d] = stopped[d]
                        \/ pc[d] # "idle" /\ ~alive'[d]
    BY <1>0, <1>8 DEF H!StopExisting, H!Stop, H!socketVars
  <2>4. \A d \in Conn : existing'[d] # NoConn => pc'[existing'[d]] # "idle"
    BY <1>0, <2>2
  <2> QED  BY <1>0, <2>1, <2>2, <2>3, <2>4
<1>9. ASSUME NEW c \in Conn, H!Leave(c) PROVE HubSide'
  BY <1>0, <1>9 DEF H!Leave, H!Stop, H!pumpVars
<1>10. ASSUME NEW c \in Conn, H!Finish(c) PROVE HubSide'
  BY <1>0, <1>10 DEF H!Finish, H!pumpVars, H!socketVars
<1>11. ASSUME NEW c \in Conn, H!PumpTake(c) PROVE HubSide'
  <2>1. /\ Tail(send[c]) \in Seq(H!JobMsg) /\ Head(send[c]) \in H!JobMsg
    BY <1>0, <1>11, TailHas DEF H!PumpTake
  <2> QED  BY <1>0, <1>11, <2>1 DEF H!PumpTake, H!socketVars
<1>12. ASSUME NEW c \in Conn, H!PumpWrite(c) PROVE HubSide'
  BY <1>0, <1>12 DEF H!PumpWrite, H!socketVars
<1>13. ASSUME NEW c \in Conn, H!PumpEnds(c) PROVE HubSide'
  BY <1>0, <1>13 DEF H!PumpEnds
<1>14. ASSUME NEW c \in Conn, H!LoseSocket(c) PROVE HubSide'
  BY <1>0, <1>14 DEF H!LoseSocket, H!pumpVars
<1> QED
  BY <1>1, <1>2, <1>3, <1>4, <1>5, <1>6, <1>7, <1>8, <1>9, <1>10, <1>11, <1>12, <1>13, <1>14,
     HubStep DEF HubActs

LEMMA AgentTypes ==
  ASSUME SystemInductive
  PROVE  /\ conn \in 0..MaxConns /\ (main \notin {"idle", "stopped"} => conn \in Conn)
         /\ socket \in [Conn -> {"none", "open", "mute", "lost", "closed"}]
         /\ queue \in [Conn -> Seq(Job)] /\ answers \in [Job -> Nat]
         /\ carried \in [Job -> 0..MaxConns] /\ refusing \in Job \cup {NoJob}
         /\ doing \in [Conn -> [Slot -> Job \cup {NoJob}]] /\ NoJob \notin Job
         /\ \A c \in Conn : c # conn \/ main = "dialing" => closer[c] \in {"none", "done"}
         /\ MaxConns \in Nat
BY SystemAssumption
   DEF SystemInductive, EachSide, A!AgentInv, A!TypeOK, A!OneGeneration, A!Between, A!Quiet,
       A!Conn, Conn, SystemAssumption, A!AgentAssumption

\* Sockets are opened by the dial only, and for good.
LEMMA SocketStep ==
  ASSUME SystemInductive, [Next]_vars
  PROVE  \/ /\ socket' = socket
            /\ \/ conn' = conn /\ (main' = "dialing" => main = "dialing")
               \/ conn' = conn + 1 /\ conn' \in Conn
         \/ /\ main = "dialing" /\ main' = "hello" /\ conn' = conn
            /\ socket' = [socket EXCEPT ![conn] = "open"]
         \/ \E c \in Conn : \E s \in {"mute", "lost", "closed"} :
               /\ socket' = [socket EXCEPT ![c] = s]
               /\ socket[c] # "none" \/ (c = conn /\ main # "dialing")
               /\ conn' = conn /\ (main' = "dialing" => main = "dialing")
<1> DEFINE Keeps   == socket' = socket /\ conn' = conn /\ (main' = "dialing" => main = "dialing")
           Changes == \E c \in Conn : \E s \in {"mute", "lost", "closed"} :
                         /\ socket' = [socket EXCEPT ![c] = s]
                         /\ socket[c] # "none" \/ (c = conn /\ main # "dialing")
                         /\ conn' = conn /\ (main' = "dialing" => main = "dialing")
<1> USE AgentTypes
<1>1. ASSUME A!Signal PROVE Keeps
  BY <1>1 DEF A!Signal
<1>2. ASSUME A!StartDial PROVE socket' = socket /\ conn' = conn + 1 /\ conn' \in Conn
  BY <1>2 DEF A!StartDial, Conn
<1>3. ASSUME A!DialFails \/ A!BackoffEnds \/ A!AgentReturns \/ A!HelloSent \/ A!HelloFails
             \/ A!ReaderChecks \/ A!ReaderLocks \/ A!ReaderRejects \/ A!ReaderPongs
             \/ A!Cancel \/ A!AwaitGoroutines
      PROVE  Keeps
  BY <1>3 DEF A!DialFails, A!BackoffEnds, A!AgentReturns, A!HelloSent, A!HelloFails,
     A!ReaderChecks, A!ReaderLocks, A!ReaderRejects, A!ReaderPongs, A!Cancel,
     A!AwaitGoroutines, A!MainGoes, A!Locks
<1>4. ASSUME A!Reading PROVE Keeps
  BY <1>4 DEF A!Reading, A!ReadJob, A!ReadPing, A!ReadOther, A!ReadFails, A!Readable, A!MainGoes
<1>5. ASSUME A!DialSucceeds PROVE /\ main = "dialing" /\ main' = "hello" /\ conn' = conn
                                  /\ socket' = [socket EXCEPT ![conn] = "open"]
  BY <1>5 DEF A!DialSucceeds
<1>6. ASSUME A!CloseSocket PROVE Changes
  BY <1>6 DEF A!CloseSocket
<1>7. ASSUME NEW c \in Conn, A!GoesMute(c) \/ A!LoseSocket(c) \/ A!CloserCloses(c) PROVE Changes
  BY <1>7 DEF A!GoesMute, A!LoseSocket, A!CloserCloses, A!SocketBecomes
<1>8. ASSUME NEW c \in Conn, A!KeeperTicks(c) \/ A!Keeper(c) PROVE Keeps
  BY <1>8 DEF A!KeeperTicks, A!Keeper, A!KeeperEnds, A!KeeperLocks, A!KeeperPings,
     A!KeeperGoes, A!Locks
<1>9. ASSUME NEW c \in Conn, NEW s \in Slot, A!Worker(c, s) PROVE Keeps
  BY <1>9 DEF A!Worker, A!WorkerChecks, A!WorkerStops, A!WorkerTakes, A!ProbeEnds,
     A!WorkerLocks, A!WorkerWrites, A!WorkerGoes, A!Locks
<1>10. ASSUME A!Stopped \/ UNCHANGED A!vars PROVE Keeps
  BY <1>10 DEF A!Stopped, A!vars
<1> HIDE DEF Keeps, Changes
<1>11. \/ socket' = socket /\ conn' = conn + 1 /\ conn' \in Conn
       \/ Keeps
       \/ Changes
       \/ (/\ main = "dialing" /\ main' = "hello" /\ conn' = conn
           /\ socket' = [socket EXCEPT ![conn] = "open"])
  BY <1>1, <1>2, <1>3, <1>4, <1>5, <1>6, <1>7, <1>8, <1>9, <1>10, Sides
     DEF A!Next, A!Dialling, A!Reader, A!Teardown, A!Conn, Conn
<1> QED  BY <1>11 DEF Keeps, Changes

\* What follows for one socket.
LEMMA SocketMoves ==
  ASSUME SystemInductive, [Next]_vars
  PROVE  /\ \A c \in Conn : socket[c] # "none" => socket'[c] # "none"
         /\ \A c \in Conn : socket'[c] = "open" => socket[c] \in {"none", "open"}
         /\ \A c \in Conn : c > conn' \/ (c = conn' /\ main' = "dialing") => socket'[c] = "none"
         /\ \A c, d \in Conn : socket'[c] # socket[c] /\ socket'[d] # socket[d] => c = d
<1> USE AgentTypes
<1>0. \A c \in Conn : c > conn \/ (c = conn /\ main = "dialing") => socket[c] = "none"
  BY DEF SystemInductive, Reached
<1>1. CASE socket' = socket /\ conn' = conn /\ (main' = "dialing" => main = "dialing")
  BY <1>0, <1>1
<1>2. CASE socket' = socket /\ conn' = conn + 1 /\ conn' \in Conn
  BY <1>0, <1>2 DEF Conn
<1>3. CASE /\ main = "dialing" /\ main' = "hello" /\ conn' = conn
           /\ socket' = [socket EXCEPT ![conn] = "open"]
  BY <1>0, <1>3 DEF Conn
<1>4. ASSUME NEW c \in Conn, NEW s \in {"mute", "lost", "closed"},
             socket' = [socket EXCEPT ![c] = s],
             socket[c] # "none" \/ (c = conn /\ main # "dialing"),
             conn' = conn, main' = "dialing" => main = "dialing"
      PROVE  /\ \A d \in Conn : socket[d] # "none" => socket'[d] # "none"
             /\ \A d \in Conn : socket'[d] = "open" => socket[d] \in {"none", "open"}
             /\ \A d \in Conn : d > conn' \/ (d = conn' /\ main' = "dialing") => socket'[d] = "none"
             /\ \A e, d \in Conn : socket'[e] # socket[e] /\ socket'[d] # socket[d] => e = d
  BY <1>0, <1>4 DEF Conn
<1> QED  BY <1>1, <1>2, <1>3, <1>4, SocketStep

\* The wires fill only at an end that is open.
LEMMA ToHubChanges ==
  ASSUME SystemInductive, [Next]_vars
  PROVE  \/ UNCHANGED toHub
         \/ \E c \in Conn, m \in Job \cup {Hello} :
               toHub' = [toHub EXCEPT ![c] = Append(@, m)] /\ socket[c] = "open"
         \/ \E c \in Conn : toHub[c] # <<>> /\ toHub' = [toHub EXCEPT ![c] = Tail(@)]
<1>1. ASSUME SendHello
      PROVE  /\ conn \in Conn /\ socket[conn] = "open"
             /\ toHub' = [toHub EXCEPT ![conn] = Append(@, Hello)]
  BY <1>1, AgentTypes DEF SendHello, A!HelloSent, Puts
<1>2. ASSUME ReaderRejects
      PROVE  /\ conn \in Conn /\ refusing \in Job
             /\ \/ UNCHANGED toHub
                \/ socket[conn] = "open" /\ toHub' = [toHub EXCEPT ![conn] = Append(@, refusing)]
  BY <1>2, AgentTypes DEF ReaderRejects, Answers, Puts, A!ReaderRejects, SystemInductive,
     EachSide, AP!JobsPlaced, AP!Holding
<1>3. ASSUME Main, ~SendHello, ~ReaderRejects PROVE UNCHANGED toHub
  BY <1>3 DEF Main, MainSteps, ReadHelloOK, ReadFails, ReadJob, AgentAlone, wires
<1>4. ASSUME NEW c \in Conn, Handler(c)
      PROVE  UNCHANGED toHub \/ (toHub[c] # <<>> /\ toHub' = [toHub EXCEPT ![c] = Tail(@)])
  BY <1>4 DEF Handler, Resolve, Reject, Greet, HandlerSteps, HandleResult, HubAlone, wires, Gets
<1>5. ASSUME NEW c \in Conn, NEW s \in Slot, WorkerWrites(c, s)
      PROVE  /\ doing[c][s] \in Job
             /\ \/ UNCHANGED toHub
                \/ socket[c] = "open" /\ toHub' = [toHub EXCEPT ![c] = Append(@, doing[c][s])]
  BY <1>5 DEF WorkerWrites, Answers, Puts, A!WorkerWrites, SystemInductive, EachSide,
     AP!JobsPlaced, AP!Holding, AP!Conn, Conn
<1>6. ASSUME NEW c \in Conn, NEW s \in Slot, WorkerSteps(c, s) PROVE UNCHANGED toHub
  BY <1>6 DEF WorkerSteps, AgentAlone, wires
<1>7. ASSUME NEW c \in Conn, Pump(c) \/ GoroutineSteps(c) \/ AgentLoses(c) \/ HubLoses(c)
      PROVE  UNCHANGED toHub
  BY <1>7 DEF Pump, PumpSteps, PumpWrite, GoroutineSteps, AgentLoses, HubLoses, AgentAlone,
     HubAlone, wires
<1>8. ASSUME Rests \/ (\E j \in Job : DispatchJob(j)) \/ UNCHANGED vars PROVE UNCHANGED toHub
  BY <1>8 DEF Rests, vars, DispatchJob, wires
<1> QED
  BY <1>1, <1>2, <1>3, <1>4, <1>5, <1>6, <1>7, <1>8 DEF Next, Worker

LEMMA ToHubStep ==
  ASSUME SystemInductive, [Next]_vars
  PROVE  /\ \A c \in Conn : toHub'[c] # <<>> => toHub[c] # <<>> \/ socket[c] = "open"
         /\ toHub' \in [Conn -> Seq(Job \cup {Hello})]
<1> DEFINE M == Job \cup {Hello}
<1>0. toHub \in [Conn -> Seq(M)]  BY DEF SystemInductive, TypeOK
<1>1. ASSUME NEW c \in Conn, NEW m \in M,
             toHub' = [toHub EXCEPT ![c] = Append(@, m)], socket[c] = "open"
      PROVE  /\ \A d \in Conn : toHub'[d] # <<>> => toHub[d] # <<>> \/ socket[d] = "open"
             /\ toHub' \in [Conn -> Seq(M)]
  <2>1. Append(toHub[c], m) \in Seq(M)  BY <1>0
  <2> QED  BY <1>0, <1>1, <2>1
<1>2. ASSUME NEW c \in Conn, toHub[c] # <<>>, toHub' = [toHub EXCEPT ![c] = Tail(@)]
      PROVE  /\ \A d \in Conn : toHub'[d] # <<>> => toHub[d] # <<>> \/ socket[d] = "open"
             /\ toHub' \in [Conn -> Seq(M)]
  <2>1. Tail(toHub[c]) \in Seq(M)  BY <1>0, <1>2
  <2> QED  BY <1>0, <1>2, <2>1
<1> QED  BY <1>0, <1>1, <1>2, ToHubChanges

LEMMA ReachedStep ==
  ASSUME SystemInductive, [Next]_vars
  PROVE  Reached'
<1> USE HubTypes DEF H!Registered, H!HandlerPc
<1>0. \A c \in Conn : /\ pc[c] # "idle" => socket[c] # "none"
                      /\ toHub[c] # <<>> => socket[c] # "none"
  BY DEF SystemInductive, Reached
<1>1. \A c \in Conn : pc'[c] # "idle" => socket[c] # "none"
  <2>1. CASE UNCHANGED hubVars  BY <1>0, <2>1 DEF hubVars
  <2>2. ASSUME NEW j \in Job, H!DispatchJob(j, Me)
        PROVE  \A c \in Conn : pc'[c] # "idle" => socket[c] # "none"
    BY <1>0, <2>2 DEF H!DispatchJob
  <2>3. ASSUME NEW c \in Conn, H!Resolve(c, Me), toHub[c] # <<>>
        PROVE  \A d \in Conn : pc'[d] # "idle" => socket[d] # "none"
    BY <1>0, <2>3 DEF H!Resolve
  <2>4. ASSUME NEW c \in Conn, H!Reject(c), socket[c] # "none"
        PROVE  \A d \in Conn : pc'[d] # "idle" => socket[d] # "none"
    BY <1>0, <2>4 DEF H!Reject
  <2>5. ASSUME NEW c \in Conn, HubActs(c)
        PROVE  \A d \in Conn : pc'[d] # "idle" => socket[d] # "none"
    BY <1>0, <2>5 DEF HubActs, H!Greet, H!GreetFails, H!SetAgentConnection, H!StopExisting,
       H!Leave, H!Finish, H!PumpTake, H!PumpWrite, H!PumpEnds, H!LoseSocket
  <2> QED  BY <2>1, <2>2, <2>3, <2>4, <2>5, HubStep
<1> QED  BY <1>0, <1>1, SocketMoves, ToHubStep DEF Reached

----------------------------------------------------------------------------
(* Health.                                                                 *)

\* No step changes both sides: the wires are between them.
LEMMA OneSide ==
  ASSUME [Next]_vars
  PROVE  UNCHANGED hubVars \/ UNCHANGED agentVars
<1>1. ASSUME NEW c \in Conn, Handler(c) \/ Pump(c) \/ HubLoses(c) PROVE UNCHANGED agentVars
  BY <1>1 DEF Handler, Resolve, Reject, Greet, HandlerSteps, HandleResult, HubAlone, Pump,
     PumpSteps, PumpWrite, HubLoses
<1>2. ASSUME NEW c \in Conn, \/ GoroutineSteps(c) \/ AgentLoses(c)
                             \/ \E s \in Slot : Worker(c, s)
      PROVE  UNCHANGED hubVars
  BY <1>2 DEF GoroutineSteps, AgentLoses, AgentAlone, Worker, WorkerSteps, WorkerWrites, Answers
<1>3. ASSUME Main \/ Rests \/ UNCHANGED vars PROVE UNCHANGED hubVars
  BY <1>3 DEF Main, MainSteps, AgentAlone, SendHello, ReadHelloOK, ReadFails, ReaderRejects,
     Answers, ReadJob, Rests, vars
<1>4. ASSUME NEW j \in Job, DispatchJob(j) PROVE UNCHANGED agentVars
  BY <1>4 DEF DispatchJob
<1> QED  BY <1>1, <1>2, <1>3, <1>4 DEF Next

\* The hub's part of being healthy.
Fit(c) == pc[c] # "finished" /\ alive[c] /\ ~stopped[c]

\* What ends at the hub's end stays so, and connections end one at a time.
LEMMA HubEnds ==
  ASSUME SystemInductive, [Next]_vars
  PROVE  /\ \A c \in Conn :
               /\ pc[c] = "finished" => pc'[c] = "finished"
               /\ alive'[c] => alive[c]
               /\ stopped[c] => stopped'[c]
               /\ pc'[c] \in {"idle", "resolved", "greeted"} =>
                     pc[c] \in {"idle", "resolved", "greeted"}
               /\ pc'[c] \in {"displacing", "reading"} =>
                     pc[c] \in {"greeted", "displacing", "reading"}
         /\ \A c, d \in Conn : Fit(c) /\ ~Fit(c)' /\ Fit(d) /\ ~Fit(d)' => c = d
<1> USE HubTypes DEF H!HandlerPc
<1> DEFINE Same(C) == \A c \in Conn \ C : /\ alive'[c] = alive[c] /\ stopped'[c] = stopped[c]
                                          /\ pc'[c] = "finished" <=> pc[c] = "finished"
           Ends(c) == /\ pc[c] = "finished" => pc'[c] = "finished"
                      /\ alive'[c] => alive[c]
                      /\ stopped[c] => stopped'[c]
                      /\ pc'[c] \in {"idle", "resolved", "greeted"} =>
                            pc[c] \in {"idle", "resolved", "greeted"}
                      /\ pc'[c] \in {"displacing", "reading"} =>
                            pc[c] \in {"greeted", "displacing", "reading"}
<1>1. CASE UNCHANGED hubVars
  BY <1>1 DEF hubVars, Fit
<1>2. ASSUME NEW j \in Job, H!DispatchJob(j, Me) PROVE Same({}) /\ \A c \in Conn : Ends(c)
  BY <1>2 DEF H!DispatchJob, H!socketVars
<1>3. ASSUME NEW c \in Conn, H!Resolve(c, Me) PROVE Same({c}) /\ \A d \in Conn : Ends(d)
  BY <1>3 DEF H!Resolve, H!socketVars
<1>4. ASSUME NEW c \in Conn, H!Reject(c) PROVE Same({c}) /\ \A d \in Conn : Ends(d)
  BY <1>4 DEF H!Reject
<1>5. ASSUME NEW c \in Conn, H!Greet(c) PROVE Same({c}) /\ \A d \in Conn : Ends(d)
  BY <1>5 DEF H!Greet, H!socketVars
<1>6. ASSUME NEW c \in Conn, H!GreetFails(c) PROVE Same({c}) /\ \A d \in Conn : Ends(d)
  BY <1>6 DEF H!GreetFails, H!socketVars
<1>7. ASSUME NEW c \in Conn, H!SetAgentConnection(c) PROVE Same({c}) /\ \A d \in Conn : Ends(d)
  BY <1>7 DEF H!SetAgentConnection, H!socketVars
<1>8. ASSUME NEW c \in Conn, H!StopExisting(c)
      PROVE  Same({existing[c]}) /\ \A d \in Conn : Ends(d)
  BY <1>8 DEF H!StopExisting, H!Stop, H!socketVars
<1>9. ASSUME NEW c \in Conn, H!Leave(c) PROVE Same({c}) /\ \A d \in Conn : Ends(d)
  BY <1>9 DEF H!Leave, H!Stop
<1>10. ASSUME NEW c \in Conn, H!Finish(c) PROVE Same({c}) /\ \A d \in Conn : Ends(d)
  BY <1>10 DEF H!Finish, H!socketVars
<1>11. ASSUME NEW c \in Conn, H!PumpTake(c) PROVE Same({c}) /\ \A d \in Conn : Ends(d)
  BY <1>11 DEF H!PumpTake, H!socketVars
<1>12. ASSUME NEW c \in Conn, H!PumpWrite(c) PROVE Same({c}) /\ \A d \in Conn : Ends(d)
  BY <1>12 DEF H!PumpWrite, H!socketVars
<1>13. ASSUME NEW c \in Conn, H!PumpEnds(c) PROVE Same({c}) /\ \A d \in Conn : Ends(d)
  BY <1>13 DEF H!PumpEnds
<1>14. ASSUME NEW c \in Conn, H!LoseSocket(c) PROVE Same({c}) /\ \A d \in Conn : Ends(d)
  BY <1>14 DEF H!LoseSocket
<1>15. ASSUME NEW e, Same({e})
       PROVE  \A c, d \in Conn : Fit(c) /\ ~Fit(c)' /\ Fit(d) /\ ~Fit(d)' => c = d
  BY <1>15 DEF Fit
<1>16. ASSUME Same({})
       PROVE  \A c, d \in Conn : Fit(c) /\ ~Fit(c)' /\ Fit(d) /\ ~Fit(d)' => c = d
  BY <1>16 DEF Fit
<1> HIDE DEF Same
<1> QED
  BY <1>1, <1>2, <1>3, <1>4, <1>5, <1>6, <1>7, <1>8, <1>9, <1>10, <1>11, <1>12, <1>13, <1>14,
     <1>15, <1>16, HubStep DEF HubActs

\* A connection begins healthy or not at all.
LEMMA HealthStep ==
  ASSUME SystemInductive, [Next]_vars, NEW c \in Conn
  PROVE  Healthy(c)' => Healthy(c) \/ pc[c] = "idle"
<1>1. pc[c] # "idle" => socket[c] # "none"  BY DEF SystemInductive, Reached
<1> QED  BY <1>1, HubEnds, SocketMoves, HubTypes DEF Healthy

----------------------------------------------------------------------------
(* What each message does.                                                 *)

LEMMA MessagesDiffer ==
  /\ \A j \in Job : Message(j) \in H!JobMsg /\ Message(j).job = j
  /\ \A j, i \in Job : Message(j) = Message(i) <=> j = i
  /\ \A m \in H!JobMsg : \E i \in Job : m = Message(i)
<1>1. \A m \in H!JobMsg : m.job \in Job /\ m = Message(m.job)
  BY DEF H!JobMsg, Message
<1>2. \A j \in Job : Message(j) \in H!JobMsg /\ Message(j).job = j
  BY DEF H!JobMsg, Message
<1> QED  BY <1>1, <1>2

LEMMA WireTypes ==
  ASSUME SystemInductive
  PROVE  /\ toAgent \in [Conn -> Seq(Job \cup {HelloOK})]
         /\ toHub \in [Conn -> Seq(Job \cup {Hello})]
         /\ via \in [Job -> Conn \cup {NoConn}]
         /\ handled \in [Job -> Nat]
         /\ \A c \in Conn : c \in Nat /\ c # 0
BY DEF SystemInductive, TypeOK, Conn

LEMMA SendTypes ==
  ASSUME SystemInductive, NEW c \in Conn
  PROVE  send[c] \in Seq(H!JobMsg) /\ NoMsg \notin H!JobMsg
BY HubTypes DEF SystemInductive, HubSide

LEMMA NotJobs == Hello \notin Job /\ HelloOK \notin Job
BY SystemAssumption DEF SystemAssumption

\* A job that is dispatched is nowhere yet.
LEMMA DispatchEffect ==
  ASSUME SystemInductive, NEW j \in Job, DispatchJob(j)
  PROVE  /\ agents[Me] \in Conn /\ H!Registered(agents[Me])
         /\ j \notin dispatched /\ dispatched' = dispatched \cup {j}
         /\ via[j] = NoConn /\ carried[j] = 0 /\ handled[j] = 0
         /\ \A c \in Conn : ~Waiting(j, c) /\ ~Has(toHub[c], j)
         /\ UNCHANGED <<pc, hand, alive, stopped, agentVars, toAgent, toHub, handled>>
         /\ \/ /\ via' = [via EXCEPT ![j] = agents[Me]]
               /\ \A c \in Conn, i \in Job :
                     Has(send'[c], Message(i)) <=>
                        Has(send[c], Message(i)) \/ (c = agents[Me] /\ i = j)
            \/ via' = via /\ send' = send
         /\ \A c \in Conn, i \in Job :
               Once(send[c], Message(i)) => Once(send'[c], Message(i))
<1>1. /\ agents[Me] \in Conn /\ H!Registered(agents[Me])
      /\ j \notin dispatched /\ dispatched' = dispatched \cup {j}
      /\ H!Offer(agents[Me], Message(j))
      /\ via' = IF send'[agents[Me]] # send[agents[Me]] THEN [via EXCEPT ![j] = agents[Me]] ELSE via
      /\ UNCHANGED <<pc, hand, alive, stopped, agentVars, toAgent, toHub, handled>>
  BY HubTypes DEF DispatchJob, H!DispatchJob, H!socketVars, wires, Message
<1>2. \A c \in Conn : OnTrack(j, c)  BY DEF SystemInductive, Tracks
<1>3. via[j] = NoConn /\ NoConn \notin Conn  BY <1>1, <1>2, WireTypes, HubTypes DEF OnTrack
<1>4. \A c \in Conn : ~Waiting(j, c) /\ carried[j] # c /\ ~Has(toHub[c], j)
  BY <1>2, <1>3 DEF OnTrack
<1>5. carried[j] = 0  BY <1>4, AgentTypes DEF Conn
<1>6. handled[j] = 0
  <2>1. handled[j] > 0 => answers[j] = 1  BY DEF SystemInductive, Tracks, HandledOnce
  <2>2. answers[j] > 0 => carried[j] # 0
    BY DEF SystemInductive, EachSide, AP!JobsPlaced, AP!OnePlace
  <2> QED  BY <1>5, <2>1, <2>2, WireTypes
<1>7. CASE Len(send[agents[Me]]) < QueueCap
  <2> DEFINE c == agents[Me]
  <2>1. send' = [send EXCEPT ![c] = Append(@, Message(j))]  BY <1>1, <1>7 DEF H!Offer
  <2>2. send'[c] = Append(send[c], Message(j)) /\ \A d \in Conn \ {c} : send'[d] = send[d]
    BY <1>1, <2>1, HubTypes
  <2>3. \A i \in Job : /\ Append(send[c], Message(j)) # send[c]
                       /\ Has(Append(send[c], Message(j)), Message(i)) <=>
                             Has(send[c], Message(i)) \/ i = j
                       /\ Once(send[c], Message(i)) => Once(Append(send[c], Message(j)), Message(i))
    <3> TAKE i \in Job
    <3>1. send[c] \in Seq(H!JobMsg) /\ Message(j) \in H!JobMsg  BY <1>1, SendTypes, MessagesDiffer
    <3>2. ~Has(send[c], Message(j))  BY <1>1, <1>4 DEF Waiting
    <3>3. Message(i) = Message(j) <=> i = j  BY MessagesDiffer
    <3> HIDE DEF c
    <3> QED  BY <3>1, <3>2, <3>3, AppendHas
  <2>4. via' = [via EXCEPT ![j] = c]  BY <1>1, <2>2, <2>3
  <2>5. \A d \in Conn, i \in Job :
           /\ Has(send'[d], Message(i)) <=> Has(send[d], Message(i)) \/ (d = c /\ i = j)
           /\ Once(send[d], Message(i)) => Once(send'[d], Message(i))
    BY <2>2, <2>3
  <2> QED  BY <1>1, <1>3, <1>4, <1>5, <1>6, <2>4, <2>5
<1>8. CASE ~(Len(send[agents[Me]]) < QueueCap)
  <2>1. send' = send  BY <1>1, <1>8 DEF H!Offer
  <2> QED  BY <1>1, <1>3, <1>4, <1>5, <1>6, <2>1
<1> QED  BY <1>7, <1>8

\* From the queue into the pump's hand.
LEMMA PumpTakeEffect ==
  ASSUME SystemInductive, NEW c \in Conn, H!PumpTake(c)
  PROVE  /\ \A j \in Job, d \in Conn :
               Has(send'[d], Message(j)) \/ hand'[d] = Message(j) <=>
                  Has(send[d], Message(j)) \/ hand[d] = Message(j)
         /\ \A j \in Job, d \in Conn :
               /\ Has(send'[d], Message(j)) => hand'[d] # Message(j)
               /\ Once(send'[d], Message(j))
         /\ UNCHANGED <<pc, alive, stopped, dispatched>>
<1>1. /\ send[c] # <<>> /\ pump[c] = "select"
      /\ hand'[c] = Head(send[c]) /\ send'[c] = Tail(send[c])
      /\ \A d \in Conn \ {c} : hand'[d] = hand[d] /\ send'[d] = send[d]
      /\ UNCHANGED <<pc, alive, stopped, dispatched>>
  BY HubTypes DEF H!PumpTake, H!socketVars
<1>2. hand[c] = NoMsg /\ \A j \in Job : hand[c] # Message(j)
  BY <1>1, SendTypes, MessagesDiffer DEF SystemInductive, HubSide
<1>3. \A j \in Job, d \in Conn : /\ Has(send[d], Message(j)) => hand[d] # Message(j)
                                 /\ Once(send[d], Message(j))
  BY DEF SystemInductive, Tracks, OutOnce
<1>4. ASSUME NEW j \in Job
      PROVE  /\ Has(Tail(send[c]), Message(j)) \/ Head(send[c]) = Message(j) <=>
                   Has(send[c], Message(j))
             /\ Has(Tail(send[c]), Message(j)) => Head(send[c]) # Message(j)
             /\ Once(Tail(send[c]), Message(j))
  <2>1. send[c] \in Seq(H!JobMsg) /\ Once(send[c], Message(j))  BY <1>3, SendTypes
  <2> QED  BY <1>1, <2>1, TailHas
<1> QED  BY <1>1, <1>2, <1>3, <1>4

\* From the pump's hand onto the wire.
LEMMA PumpWriteEffect ==
  ASSUME SystemInductive, NEW c \in Conn, PumpWrite(c)
  PROVE  /\ \A j \in Job, d \in Conn :
               hand'[d] = Message(j) \/ Has(toAgent'[d], j) <=>
                  hand[d] = Message(j) \/ Has(toAgent[d], j)
         /\ \A j \in Job, d \in Conn :
               /\ hand'[d] = Message(j) => ~Has(toAgent'[d], j)
               /\ Has(send[d], Message(j)) => hand'[d] # Message(j)
               /\ Once(toAgent'[d], j)
         /\ toAgent' \in [Conn -> Seq(Job \cup {HelloOK})]
         /\ UNCHANGED <<pc, alive, stopped, dispatched, send>>
<1>1. /\ pump[c] = "writing" /\ hand'[c] = NoMsg
      /\ toAgent' = [toAgent EXCEPT ![c] = Append(@, hand[c].job)]
      /\ \A d \in Conn \ {c} : hand'[d] = hand[d]
      /\ UNCHANGED <<pc, alive, stopped, dispatched, send>>
      /\ \A j \in Job : NoMsg # Message(j)
  BY HubTypes, WireTypes, SendTypes, MessagesDiffer DEF PumpWrite, Puts, H!PumpWrite, H!socketVars
<1>2. hand[c] \in H!JobMsg  BY <1>1 DEF SystemInductive, HubSide
<1>3. PICK i \in Job : hand[c] = Message(i) /\ hand[c].job = i  BY <1>2, MessagesDiffer
<1>4. \A j \in Job, d \in Conn : /\ Has(send[d], Message(j)) => hand[d] # Message(j)
                                 /\ hand[d] = Message(j) => ~Has(toAgent[d], j)
                                 /\ Once(toAgent[d], j)
  BY DEF SystemInductive, Tracks, OutOnce
<1>5. /\ toAgent'[c] = Append(toAgent[c], i)
      /\ \A d \in Conn \ {c} : toAgent'[d] = toAgent[d]
  BY <1>1, <1>3, WireTypes
<1>6. ASSUME NEW j \in Job
      PROVE  /\ Append(toAgent[c], i) \in Seq(Job \cup {HelloOK})
             /\ Has(Append(toAgent[c], i), j) <=> Has(toAgent[c], j) \/ i = j
             /\ Once(Append(toAgent[c], i), j)
  <2>1. toAgent[c] \in Seq(Job \cup {HelloOK}) /\ i \in Job \cup {HelloOK}  BY WireTypes
  <2>2. Once(toAgent[c], j) /\ ~Has(toAgent[c], i)  BY <1>3, <1>4
  <2> QED  BY <2>1, <2>2, AppendHas
<1>7. toAgent' \in [Conn -> Seq(Job \cup {HelloOK})]  BY <1>1, <1>3, <1>6, WireTypes
<1>8. \A j \in Job : hand[c] = Message(j) <=> i = j  BY <1>3, MessagesDiffer
<1> QED  BY <1>1, <1>3, <1>4, <1>5, <1>6, <1>7, <1>8

\* A message put on a wire, and one taken from it.
LEMMA ToHubAppend ==
  ASSUME SystemInductive, NEW c \in Conn, NEW m \in Job \cup {Hello},
         toHub' = [toHub EXCEPT ![c] = Append(@, m)]
  PROVE  /\ toHub' \in [Conn -> Seq(Job \cup {Hello})]
         /\ \A d \in Conn, x \in Job :
               /\ Has(toHub'[d], x) <=> Has(toHub[d], x) \/ (d = c /\ x = m)
               /\ Once(toHub[d], x) /\ (d = c /\ x = m => ~Has(toHub[d], x)) => Once(toHub'[d], x)
<1>1. toHub \in [Conn -> Seq(Job \cup {Hello})]  BY WireTypes
<1>2. toHub[c] \in Seq(Job \cup {Hello})  BY <1>1
<1>3. /\ Append(toHub[c], m) \in Seq(Job \cup {Hello})
      /\ \A x \in Job :
            /\ Has(Append(toHub[c], m), x) <=> Has(toHub[c], x) \/ x = m
            /\ Once(toHub[c], x) /\ (x = m => ~Has(toHub[c], x)) => Once(Append(toHub[c], m), x)
  BY <1>2, AppendHas
<1>4. /\ toHub'[c] = Append(toHub[c], m) /\ \A d \in Conn \ {c} : toHub'[d] = toHub[d]
      /\ toHub' \in [Conn -> Seq(Job \cup {Hello})]
  BY <1>1, <1>3
<1> QED  BY <1>3, <1>4

LEMMA ToAgentAppend ==
  ASSUME SystemInductive, NEW c \in Conn, NEW m \in Job \cup {HelloOK},
         toAgent' = [toAgent EXCEPT ![c] = Append(@, m)]
  PROVE  /\ toAgent' \in [Conn -> Seq(Job \cup {HelloOK})]
         /\ \A d \in Conn, x \in Job :
               /\ Has(toAgent'[d], x) <=> Has(toAgent[d], x) \/ (d = c /\ x = m)
               /\ Once(toAgent[d], x) /\ (d = c /\ x = m => ~Has(toAgent[d], x)) => Once(toAgent'[d], x)
<1>1. toAgent \in [Conn -> Seq(Job \cup {HelloOK})]  BY WireTypes
<1>2. toAgent[c] \in Seq(Job \cup {HelloOK})  BY <1>1
<1>3. /\ Append(toAgent[c], m) \in Seq(Job \cup {HelloOK})
      /\ \A x \in Job :
            /\ Has(Append(toAgent[c], m), x) <=> Has(toAgent[c], x) \/ x = m
            /\ Once(toAgent[c], x) /\ (x = m => ~Has(toAgent[c], x)) => Once(Append(toAgent[c], m), x)
  BY <1>2, AppendHas
<1>4. /\ toAgent'[c] = Append(toAgent[c], m) /\ \A d \in Conn \ {c} : toAgent'[d] = toAgent[d]
      /\ toAgent' \in [Conn -> Seq(Job \cup {HelloOK})]
  BY <1>1, <1>3
<1> QED  BY <1>3, <1>4

LEMMA ToHubTail ==
  ASSUME SystemInductive, NEW c \in Conn, toHub[c] # <<>>,
         toHub' = [toHub EXCEPT ![c] = Tail(@)]
  PROVE  /\ toHub' \in [Conn -> Seq(Job \cup {Hello})]
         /\ Has(toHub[c], Head(toHub[c]))
         /\ \A d \in Conn, x \in Job :
               /\ d # c \/ x # Head(toHub[c]) => (Has(toHub'[d], x) <=> Has(toHub[d], x))
               /\ Has(toHub'[d], x) => Has(toHub[d], x)
               /\ Once(toHub[d], x) => Once(toHub'[d], x)
               /\ Once(toHub[c], x) /\ x = Head(toHub[c]) => ~Has(toHub'[c], x)
<1>1. toHub \in [Conn -> Seq(Job \cup {Hello})]  BY WireTypes
<1>2. toHub[c] \in Seq(Job \cup {Hello}) /\ toHub[c] # <<>>  BY <1>1
<1>3. /\ Tail(toHub[c]) \in Seq(Job \cup {Hello}) /\ Has(toHub[c], Head(toHub[c]))
      /\ \A x \in Job :
            /\ x # Head(toHub[c]) => (Has(Tail(toHub[c]), x) <=> Has(toHub[c], x))
            /\ Once(toHub[c], x) => Once(Tail(toHub[c]), x)
            /\ Once(toHub[c], x) /\ x = Head(toHub[c]) => ~Has(Tail(toHub[c]), x)
  BY <1>2, TailHas
<1>4. /\ toHub'[c] = Tail(toHub[c]) /\ \A d \in Conn \ {c} : toHub'[d] = toHub[d]
      /\ toHub' \in [Conn -> Seq(Job \cup {Hello})]
  BY <1>1, <1>3
<1> QED  BY <1>3, <1>4

LEMMA ToAgentTail ==
  ASSUME SystemInductive, NEW c \in Conn, toAgent[c] # <<>>,
         toAgent' = [toAgent EXCEPT ![c] = Tail(@)]
  PROVE  /\ toAgent' \in [Conn -> Seq(Job \cup {HelloOK})]
         /\ Has(toAgent[c], Head(toAgent[c]))
         /\ \A d \in Conn, x \in Job :
               /\ d # c \/ x # Head(toAgent[c]) => (Has(toAgent'[d], x) <=> Has(toAgent[d], x))
               /\ Has(toAgent'[d], x) => Has(toAgent[d], x)
               /\ Once(toAgent[d], x) => Once(toAgent'[d], x)
               /\ Once(toAgent[c], x) /\ x = Head(toAgent[c]) => ~Has(toAgent'[c], x)
<1>1. toAgent \in [Conn -> Seq(Job \cup {HelloOK})]  BY WireTypes
<1>2. toAgent[c] \in Seq(Job \cup {HelloOK}) /\ toAgent[c] # <<>>  BY <1>1
<1>3. /\ Tail(toAgent[c]) \in Seq(Job \cup {HelloOK}) /\ Has(toAgent[c], Head(toAgent[c]))
      /\ \A x \in Job :
            /\ x # Head(toAgent[c]) => (Has(Tail(toAgent[c]), x) <=> Has(toAgent[c], x))
            /\ Once(toAgent[c], x) => Once(Tail(toAgent[c]), x)
            /\ Once(toAgent[c], x) /\ x = Head(toAgent[c]) => ~Has(Tail(toAgent[c]), x)
  BY <1>2, TailHas
<1>4. /\ toAgent'[c] = Tail(toAgent[c]) /\ \A d \in Conn \ {c} : toAgent'[d] = toAgent[d]
      /\ toAgent' \in [Conn -> Seq(Job \cup {HelloOK})]
  BY <1>1, <1>3
<1> QED  BY <1>3, <1>4

\* A step that answers nothing and moves jobs forward at most, or drops them
\* with their connection.
Carries ==
    /\ UNCHANGED <<via, carried, answers, handled, dispatched>>
    /\ \A j \in Job : \A c \in Conn :
          /\ Waiting(j, c)' => Waiting(j, c)
          /\ Waiting(j, c) /\ Healthy(c)' => Waiting(j, c)'
          /\ Has(toHub'[c], j) <=> Has(toHub[c], j)
    /\ OutOnce' /\ BackOnce'

LEMMA CarriesOn ==
  ASSUME SystemInductive, [Next]_vars, Carries
  PROVE  Tracks'
<1>1. HandledOnce'  BY DEF SystemInductive, Tracks, HandledOnce, Carries
<1>2. ASSUME NEW j \in Job, NEW c \in Conn PROVE OnTrack(j, c)'
  <2>1. OnTrack(j, c)  BY DEF SystemInductive, Tracks
  <2>2. via[j] = c /\ Healthy(c)' => Healthy(c)  BY <2>1, HealthStep DEF OnTrack
  <2>3. via[j] = c => pc'[c] \notin {"idle", "resolved", "greeted"}
    BY <2>1, HubEnds DEF OnTrack
  <2> QED  BY <2>1, <2>2, <2>3 DEF OnTrack, Carries
<1> QED  BY <1>1, <1>2 DEF Tracks, Carries

LEMMA StandsStill ==
  ASSUME SystemInductive,
         UNCHANGED <<send, hand, toAgent, toHub, via, carried, answers, handled, dispatched>>
  PROVE  Carries
<1>1. OutOnce /\ BackOnce  BY DEF SystemInductive, Tracks
<1> QED  BY <1>1 DEF Carries, OutOnce, BackOnce, Waiting

\* The agent on its own.
LEMMA AgentAloneCarries ==
  ASSUME SystemInductive,
         \/ MainSteps \/ ReadFails
         \/ \E c \in Conn : GoroutineSteps(c) \/ AgentLoses(c)
         \/ \E c \in Conn : \E s \in Slot : WorkerSteps(c, s)
  PROVE  Carries
<1>1. CASE MainSteps
  BY <1>1, StandsStill DEF MainSteps, AgentAlone, hubVars, wires, A!StartDial, A!DialFails,
     A!DialSucceeds, A!BackoffEnds, A!HelloFails, A!ReaderChecks, A!ReaderLocks, A!Cancel,
     A!CloseSocket, A!AwaitGoroutines, A!MainGoes, A!Locks
<1>2. CASE ReadFails
  BY <1>2, StandsStill DEF ReadFails, AgentAlone, hubVars, wires, A!ReadFails, A!MainGoes
<1>3. ASSUME NEW c \in Conn, GoroutineSteps(c) \/ AgentLoses(c) PROVE Carries
  BY <1>3, StandsStill DEF GoroutineSteps, AgentLoses, AgentAlone, hubVars, wires,
     A!CloserCloses, A!KeeperEnds, A!KeeperGoes, A!LoseSocket, A!SocketBecomes
<1>4. ASSUME NEW c \in Conn, NEW s \in Slot, WorkerSteps(c, s) PROVE Carries
  BY <1>4, StandsStill DEF WorkerSteps, AgentAlone, hubVars, wires, A!WorkerChecks,
     A!WorkerStops, A!WorkerTakes, A!ProbeEnds, A!WorkerLocks, A!WorkerGoes, A!Locks
<1> QED  BY <1>1, <1>2, <1>3, <1>4

\* The hub on its own.
LEMMA HubAloneCarries ==
  ASSUME SystemInductive, NEW c \in Conn, HandlerSteps(c) \/ Reject(c) \/ HubLoses(c)
  PROVE  Carries
BY StandsStill DEF HandlerSteps, Reject, HubLoses, HubAlone, agentVars, wires, H!GreetFails,
   H!SetAgentConnection, H!StopExisting, H!Leave, H!Finish, H!Reject, H!LoseSocket, H!pumpVars

\* Messages that are not jobs.
LEMMA HelloCarries ==
  ASSUME SystemInductive, SendHello \/ \E c \in Conn : Resolve(c)
  PROVE  Carries
<1>0. \A j \in Job : j # Hello
  BY NotJobs
<1>1. OutOnce /\ BackOnce  BY DEF SystemInductive, Tracks
<1>2. CASE SendHello
  <2>1. /\ conn \in Conn /\ toHub' = [toHub EXCEPT ![conn] = Append(@, Hello)]
        /\ UNCHANGED <<send, hand, toAgent, via, carried, answers, handled, dispatched>>
    BY <1>2, AgentTypes DEF SendHello, A!HelloSent, Puts, hubVars
  <2>2. \A d \in Conn, x \in Job :
           /\ Has(toHub'[d], x) <=> Has(toHub[d], x)
           /\ Once(toHub[d], x) => Once(toHub'[d], x)
    BY <1>0, <2>1, ToHubAppend
  <2> QED  BY <1>1, <2>1, <2>2 DEF Carries, OutOnce, BackOnce, Waiting
<1>3. ASSUME NEW c \in Conn, Resolve(c) PROVE Carries
  <2>1. /\ toHub[c] # <<>> /\ Head(toHub[c]) = Hello /\ toHub' = [toHub EXCEPT ![c] = Tail(@)]
        /\ UNCHANGED <<send, hand, toAgent, via, carried, answers, handled, dispatched>>
    BY <1>3 DEF Resolve, H!Resolve, Gets, agentVars, H!pumpVars
  <2>2. \A d \in Conn, x \in Job :
           /\ Has(toHub'[d], x) <=> Has(toHub[d], x)
           /\ Once(toHub[d], x) => Once(toHub'[d], x)
    BY <1>0, <2>1, ToHubTail
  <2> QED  BY <1>1, <2>1, <2>2 DEF Carries, OutOnce, BackOnce, Waiting
<1> QED  BY <1>2, <1>3

LEMMA HelloOKCarries ==
  ASSUME SystemInductive, ReadHelloOK \/ \E c \in Conn : Greet(c)
  PROVE  Carries
<1>0. \A j \in Job : j # HelloOK
  BY NotJobs
<1>1. OutOnce /\ BackOnce  BY DEF SystemInductive, Tracks
<1>2. ASSUME NEW c \in Conn, Greet(c) PROVE Carries
  <2>1. /\ toAgent' = [toAgent EXCEPT ![c] = Append(@, HelloOK)]
        /\ UNCHANGED <<send, hand, toHub, via, carried, answers, handled, dispatched>>
    BY <1>2 DEF Greet, H!Greet, Puts, agentVars
  <2>2. \A d \in Conn, x \in Job :
           /\ Has(toAgent'[d], x) <=> Has(toAgent[d], x)
           /\ Once(toAgent[d], x) => Once(toAgent'[d], x)
    BY <1>0, <2>1, ToAgentAppend
  <2> QED  BY <1>1, <2>1, <2>2 DEF Carries, OutOnce, BackOnce, Waiting
<1>3. CASE ReadHelloOK
  <2>1. /\ conn \in Conn
        /\ toAgent[conn] # <<>> /\ Head(toAgent[conn]) = HelloOK
        /\ toAgent' = [toAgent EXCEPT ![conn] = Tail(@)]
        /\ UNCHANGED <<send, hand, toHub, via, carried, answers, handled, dispatched>>
    BY <1>3, AgentTypes DEF ReadHelloOK, A!ReadOther, A!Readable, A!MainGoes, Gets, hubVars
  <2>2. \A d \in Conn, x \in Job :
           /\ Has(toAgent'[d], x) <=> Has(toAgent[d], x)
           /\ Once(toAgent[d], x) => Once(toAgent'[d], x)
    BY <1>0, <2>1, ToAgentTail
  <2> QED  BY <1>1, <2>1, <2>2 DEF Carries, OutOnce, BackOnce, Waiting
<1> QED  BY <1>2, <1>3

\* The pump.
LEMMA PumpCarries ==
  ASSUME SystemInductive, NEW c \in Conn, Pump(c)
  PROVE  Carries
<1>0. OutOnce /\ BackOnce  BY DEF SystemInductive, Tracks
<1>1. CASE H!PumpTake(c) /\ HubAlone
  <2>1. UNCHANGED <<toAgent, toHub, via, carried, answers, handled, dispatched>>
    BY <1>1, PumpTakeEffect DEF HubAlone, wires, agentVars
  <2>2. \A j \in Job, d \in Conn : Waiting(j, d)' <=> Waiting(j, d)
    BY <1>1, <2>1, PumpTakeEffect DEF Waiting
  <2>3. OutOnce'
    <3> SUFFICES ASSUME NEW j \in Job, NEW d \in Conn
                 PROVE  /\ Has(send'[d], Message(j)) =>
                              hand'[d] # Message(j) /\ ~Has(toAgent'[d], j)
                        /\ hand'[d] = Message(j) => ~Has(toAgent'[d], j)
                        /\ Once(send'[d], Message(j)) /\ Once(toAgent'[d], j)
      BY DEF OutOnce
    <3>1. /\ Has(send[d], Message(j)) \/ hand[d] = Message(j) => ~Has(toAgent[d], j)
          /\ Once(toAgent[d], j)
      BY <1>0 DEF OutOnce
    <3> QED  BY <1>1, <2>1, <3>1, PumpTakeEffect
  <2> QED  BY <1>0, <2>1, <2>2, <2>3 DEF Carries, BackOnce
<1>2. CASE PumpWrite(c)
  <2>1. UNCHANGED <<toHub, via, carried, answers, handled, dispatched, send>>
    BY <1>2, PumpWriteEffect DEF PumpWrite, agentVars
  <2>2. \A j \in Job, d \in Conn : Waiting(j, d)' <=> Waiting(j, d)
    BY <1>2, <2>1, PumpWriteEffect DEF Waiting
  <2>3. OutOnce'
    <3> SUFFICES ASSUME NEW j \in Job, NEW d \in Conn
                 PROVE  /\ Has(send'[d], Message(j)) =>
                              hand'[d] # Message(j) /\ ~Has(toAgent'[d], j)
                        /\ hand'[d] = Message(j) => ~Has(toAgent'[d], j)
                        /\ Once(send'[d], Message(j)) /\ Once(toAgent'[d], j)
      BY DEF OutOnce
    <3>1. /\ Has(send[d], Message(j)) => hand[d] # Message(j) /\ ~Has(toAgent[d], j)
          /\ Once(send[d], Message(j))
      BY <1>0 DEF OutOnce
    <3> QED  BY <1>2, <2>1, <3>1, PumpWriteEffect
  <2> QED  BY <1>0, <2>1, <2>2, <2>3 DEF Carries, BackOnce
<1>3. CASE H!PumpEnds(c) /\ HubAlone
  <2>1. /\ hand'[c] = NoMsg /\ ~alive'[c] /\ \A d \in Conn \ {c} : hand'[d] = hand[d]
        /\ UNCHANGED <<toAgent, toHub, via, carried, answers, handled, dispatched, send>>
        /\ \A j \in Job : NoMsg # Message(j)
    BY <1>3, HubTypes, SendTypes, MessagesDiffer DEF H!PumpEnds, HubAlone, wires, agentVars
  <2>2. \A j \in Job, d \in Conn : hand'[d] = Message(j) => hand[d] = Message(j)
    BY <2>1
  <2>3. OutOnce'  BY <1>0, <2>1, <2>2 DEF OutOnce
  <2>4. BackOnce'  BY <1>0, <2>1 DEF BackOnce
  <2>5. \A j \in Job, d \in Conn : /\ Waiting(j, d)' => Waiting(j, d)
                                   /\ Waiting(j, d) /\ Healthy(d)' => Waiting(j, d)'
    BY <2>1, <2>2 DEF Waiting, Healthy
  <2> QED  BY <2>1, <2>3, <2>4, <2>5 DEF Carries
<1> QED  BY <1>1, <1>2, <1>3 DEF Pump, PumpSteps

\* What the agent's invariant says of the place of a job.
LEMMA Places ==
  ASSUME SystemInductive, NEW j \in Job
  PROVE  /\ \A c \in Conn : \A s \in Slot : doing[c][s] = j => carried[j] = c /\ answers[j] = 0
         /\ refusing = j => carried[j] = conn /\ answers[j] = 0
         /\ answers[j] > 0 => answers[j] = 1 /\ carried[j] # 0
BY DEF SystemInductive, EachSide, AP!JobsPlaced, AP!OnePlace, AP!InHand, AP!Conn, Conn

\* The queue takes a job, or refuses it.
LEMMA DispatchTracks ==
  ASSUME SystemInductive, NEW j \in Job, DispatchJob(j)
  PROVE  Tracks' /\ via' \in [Job -> Conn \cup {NoConn}]
<1> DEFINE a == agents[Me]
<1>0. /\ OutOnce /\ BackOnce /\ HandledOnce
      /\ \A i \in Job, c \in Conn : OnTrack(i, c)
  BY DEF SystemInductive, Tracks
<1>1. /\ a \in Conn /\ pc[a] \notin {"idle", "resolved", "greeted"}
      /\ j \notin dispatched /\ dispatched' = dispatched \cup {j}
      /\ via[j] = NoConn /\ carried[j] = 0 /\ handled[j] = 0
      /\ \A c \in Conn : ~Waiting(j, c) /\ ~Has(toHub[c], j)
      /\ UNCHANGED <<pc, hand, alive, stopped, agentVars, toAgent, toHub, handled>>
      /\ \A c \in Conn, i \in Job :
            Once(send[c], Message(i)) => Once(send'[c], Message(i))
  BY DispatchEffect DEF H!Registered
<1>2. UNCHANGED <<socket, carried, answers>>  BY <1>1 DEF agentVars
<1>3. \A c \in Conn : Healthy(c)' <=> Healthy(c)  BY <1>1, <1>2 DEF Healthy
<1>4. BackOnce' /\ HandledOnce'
  BY <1>0, <1>1, <1>2 DEF BackOnce, HandledOnce
<1>5. via \in [Job -> Conn \cup {NoConn}] /\ NoConn \notin Conn  BY WireTypes, HubTypes
<1>6. CASE /\ via' = [via EXCEPT ![j] = a]
           /\ \A c \in Conn, i \in Job :
                 Has(send'[c], Message(i)) <=> Has(send[c], Message(i)) \/ (c = a /\ i = j)
  <2>1. via'[j] = a /\ \A i \in Job \ {j} : via'[i] = via[i]  BY <1>5, <1>6
  <2>2. \A i \in Job, c \in Conn : Waiting(i, c)' <=> Waiting(i, c) \/ (c = a /\ i = j)
    BY <1>1, <1>6 DEF Waiting
  <2>3. OutOnce'
    <3> SUFFICES ASSUME NEW i \in Job, NEW c \in Conn
                 PROVE  /\ Has(send'[c], Message(i)) =>
                              hand'[c] # Message(i) /\ ~Has(toAgent'[c], i)
                        /\ hand'[c] = Message(i) => ~Has(toAgent'[c], i)
                        /\ Once(send'[c], Message(i)) /\ Once(toAgent'[c], i)
      BY DEF OutOnce
    <3>1. /\ Has(send[c], Message(i)) => hand[c] # Message(i) /\ ~Has(toAgent[c], i)
          /\ hand[c] = Message(i) => ~Has(toAgent[c], i)
          /\ Once(send[c], Message(i)) /\ Once(toAgent[c], i)
      BY <1>0 DEF OutOnce
    <3>2. c = a /\ i = j => hand[c] # Message(i) /\ ~Has(toAgent[c], i)
      BY <1>1 DEF Waiting
    <3> QED  BY <1>1, <1>6, <3>1, <3>2
  <2>4. ASSUME NEW i \in Job, NEW c \in Conn, i # j PROVE OnTrack(i, c)'
    BY <1>0, <1>1, <1>2, <1>3, <2>1, <2>2, <2>4 DEF OnTrack
  <2>5. ASSUME NEW c \in Conn PROVE OnTrack(j, c)'
    <3>1. answers[j] # 1  BY <1>1, Places
    <3>2. carried[j] # c  BY <1>1, WireTypes
    <3>3. Waiting(j, c)' <=> c = a  BY <1>1, <2>2
    <3>4. /\ via'[j] = a /\ j \in dispatched' /\ ~Has(toHub'[c], j) /\ answers'[j] # 1
          /\ carried'[j] = 0 /\ carried'[j] # c
          /\ pc'[a] \notin {"idle", "resolved", "greeted"}
      BY <1>1, <1>2, <2>1, <3>1, <3>2
    <3> HIDE DEF a
    <3> QED  BY <3>3, <3>4 DEF OnTrack
  <2>6. \A i \in Job : \A c \in Conn : OnTrack(i, c)'  BY <2>4, <2>5
  <2>7. via' \in [Job -> Conn \cup {NoConn}]  BY <1>1, <1>5, <1>6
  <2> QED  BY <1>4, <2>3, <2>6, <2>7 DEF Tracks
<1>7. CASE via' = via /\ send' = send
  <2>1. \A i \in Job, c \in Conn : Waiting(i, c)' <=> Waiting(i, c)
    BY <1>1, <1>7 DEF Waiting
  <2>2. OutOnce'  BY <1>0, <1>1, <1>7 DEF OutOnce
  <2>3. ASSUME NEW i \in Job, NEW c \in Conn PROVE OnTrack(i, c)'
    BY <1>0, <1>1, <1>2, <1>3, <1>7, <2>1 DEF OnTrack
  <2> QED  BY <1>4, <1>5, <1>7, <2>2, <2>3 DEF Tracks
<1> QED  BY <1>6, <1>7, DispatchEffect

\* The agent takes a job from the wire.
LEMMA ReadJobEffect ==
  ASSUME SystemInductive, NEW j \in Job, ReadJob(j)
  PROVE  /\ conn \in Conn /\ carried[j] = 0 /\ carried' = [carried EXCEPT ![j] = conn]
         /\ Has(toAgent[conn], j) /\ ~Has(toAgent'[conn], j)
         /\ \A c \in Conn, i \in Job :
               /\ c # conn \/ i # j => (Has(toAgent'[c], i) <=> Has(toAgent[c], i))
               /\ Once(toAgent'[c], i)
         /\ toAgent' \in [Conn -> Seq(Job \cup {HelloOK})]
         /\ UNCHANGED <<hubVars, toHub, socket, answers, via, handled, losses>>
<1>1. /\ conn \in Conn /\ carried[j] = 0 /\ carried' = [carried EXCEPT ![j] = conn]
      /\ toAgent[conn] # <<>> /\ Head(toAgent[conn]) = j
      /\ toAgent' = [toAgent EXCEPT ![conn] = Tail(@)]
      /\ UNCHANGED <<hubVars, toHub, socket, answers, via, handled, losses>>
  BY AgentTypes DEF ReadJob, A!ReadJob, A!Readable, Gets
<1>2. \A c \in Conn, i \in Job : Once(toAgent[c], i)
  BY DEF SystemInductive, Tracks, OutOnce
<1> QED  BY <1>1, <1>2, ToAgentTail

LEMMA ReadJobTracks ==
  ASSUME SystemInductive, NEW j \in Job, ReadJob(j)
  PROVE  Tracks'
<1>0. /\ OutOnce /\ BackOnce /\ HandledOnce
      /\ \A i \in Job, c \in Conn : OnTrack(i, c)
  BY DEF SystemInductive, Tracks
<1>1. /\ conn \in Conn /\ carried[j] = 0 /\ carried'[j] = conn
      /\ \A i \in Job \ {j} : carried'[i] = carried[i]
      /\ Has(toAgent[conn], j) /\ ~Has(toAgent'[conn], j)
      /\ \A c \in Conn, i \in Job :
            /\ c # conn \/ i # j => (Has(toAgent'[c], i) <=> Has(toAgent[c], i))
            /\ Once(toAgent'[c], i)
      /\ UNCHANGED <<pc, alive, stopped, send, hand, dispatched, toHub, socket, answers,
                     via, handled>>
  BY ReadJobEffect, AgentTypes DEF hubVars
<1>2. BackOnce' /\ HandledOnce'  BY <1>0, <1>1 DEF BackOnce, HandledOnce
<1>3. \A c \in Conn : Healthy(c)' <=> Healthy(c)  BY <1>1 DEF Healthy
<1>4. OutOnce'  BY <1>0, <1>1 DEF OutOnce
<1>5. \A c \in Conn, i \in Job :
         Waiting(i, c)' <=> Waiting(i, c) /\ (c # conn \/ i # j)
  BY <1>0, <1>1 DEF Waiting, OutOnce
<1>6. ASSUME NEW i \in Job, NEW c \in Conn, i # j PROVE OnTrack(i, c)'
  BY <1>0, <1>1, <1>3, <1>5, <1>6 DEF OnTrack
<1>7. ASSUME NEW c \in Conn PROVE OnTrack(j, c)'
  <2>1. Waiting(j, conn)  BY <1>1 DEF Waiting
  <2>2. via[j] = conn  BY <1>0, <1>1, <2>1 DEF OnTrack
  <2>3. answers[j] # 1  BY <1>1, Places
  <2>4. carried[j] # c  BY <1>1, WireTypes
  <2> QED  BY <1>0, <1>1, <1>3, <1>5, <2>2, <2>3, <2>4 DEF OnTrack
<1> QED  BY <1>2, <1>4, <1>6, <1>7 DEF Tracks

\* A result or a rejection is written.
LEMMA AnswerTracks ==
  ASSUME SystemInductive, [Next]_vars, NEW j \in Job, NEW c \in Conn,
         carried[j] = c, answers[j] = 0,
         UNCHANGED <<hubVars, toAgent, via, handled, carried, socket>>,
         \/ socket[c] # "open" /\ answers' = answers /\ toHub' = toHub
         \/ /\ answers' = [answers EXCEPT ![j] = @ + 1]
            /\ toHub' = [toHub EXCEPT ![c] = Append(@, j)]
  PROVE  Tracks'
<1>0. /\ OutOnce /\ BackOnce /\ HandledOnce
      /\ \A i \in Job, d \in Conn : OnTrack(i, d)
  BY DEF SystemInductive, Tracks
<1>1. UNCHANGED <<pc, alive, stopped, send, hand, dispatched>>  BY DEF hubVars
<1>2. CASE answers' = answers /\ toHub' = toHub
  BY <1>1, <1>2, StandsStill, CarriesOn
<1>3. CASE /\ answers' = [answers EXCEPT ![j] = @ + 1]
           /\ toHub' = [toHub EXCEPT ![c] = Append(@, j)]
  <2>1. answers'[j] = 1 /\ \A i \in Job \ {j} : answers'[i] = answers[i]
    BY <1>3, AgentTypes
  <2>2. ~Has(toHub[c], j)  BY <1>0 DEF OnTrack
  <2>3. \A d \in Conn, i \in Job :
           /\ Has(toHub'[d], i) <=> Has(toHub[d], i) \/ (d = c /\ i = j)
           /\ Once(toHub[d], i) /\ (d = c /\ i = j => ~Has(toHub[d], i)) => Once(toHub'[d], i)
    BY <1>3, ToHubAppend
  <2>4. BackOnce'  BY <1>0, <2>2, <2>3 DEF BackOnce
  <2>5. OutOnce'  BY <1>0, <1>1 DEF OutOnce
  <2>6. handled[j] = 0  BY <1>0, WireTypes DEF HandledOnce
  <2>7. HandledOnce'  BY <1>0, <2>1, <2>6 DEF HandledOnce
  <2>8. \A i \in Job, d \in Conn : /\ Waiting(i, d)' <=> Waiting(i, d)
                                   /\ Healthy(d)' <=> Healthy(d)
    BY <1>1 DEF Waiting, Healthy
  <2>9. ASSUME NEW i \in Job, NEW d \in Conn, i # j PROVE OnTrack(i, d)'
    BY <1>0, <1>1, <2>1, <2>3, <2>8, <2>9 DEF OnTrack
  <2>10. ASSUME NEW d \in Conn PROVE OnTrack(j, d)'
    BY <1>0, <1>1, <2>1, <2>3, <2>6, <2>8 DEF OnTrack
  <2> QED  BY <2>4, <2>5, <2>7, <2>9, <2>10 DEF Tracks
<1> QED  BY <1>2, <1>3

LEMMA WritersTrack ==
  ASSUME SystemInductive, [Next]_vars,
         ReaderRejects \/ \E c \in Conn : \E s \in Slot : WorkerWrites(c, s)
  PROVE  Tracks'
<1>1. CASE ReaderRejects
  <2>1. /\ conn \in Conn /\ refusing \in Job
        /\ UNCHANGED <<hubVars, toAgent, via, handled, carried, socket>>
        /\ answers' = IF socket[conn] = "open" THEN [answers EXCEPT ![refusing] = @ + 1]
                                               ELSE answers
        /\ IF socket[conn] = "open" THEN toHub' = [toHub EXCEPT ![conn] = Append(@, refusing)]
                                    ELSE toHub' = toHub
    BY <1>1, AgentTypes DEF ReaderRejects, Answers, Puts, A!ReaderRejects, A!Wrote,
       SystemInductive, EachSide, AP!JobsPlaced, AP!Holding
  <2>2. carried[refusing] = conn /\ answers[refusing] = 0  BY <2>1, Places
  <2> QED  BY <2>1, <2>2, AnswerTracks
<1>2. ASSUME NEW c \in Conn, NEW s \in Slot, WorkerWrites(c, s) PROVE Tracks'
  <2> DEFINE j == doing[c][s]
  <2>1. /\ j \in Job
        /\ UNCHANGED <<hubVars, toAgent, via, handled, carried, socket>>
        /\ answers' = IF socket[c] = "open" THEN [answers EXCEPT ![j] = @ + 1] ELSE answers
        /\ IF socket[c] = "open" THEN toHub' = [toHub EXCEPT ![c] = Append(@, j)]
                                 ELSE toHub' = toHub
    BY <1>2 DEF WorkerWrites, Answers, Puts, A!WorkerWrites, A!Wrote,
       SystemInductive, EachSide, AP!JobsPlaced, AP!Holding, AP!Conn, Conn
  <2>2. carried[j] = c /\ answers[j] = 0  BY <2>1, Places
  <2> HIDE DEF j
  <2> QED  BY <2>1, <2>2, AnswerTracks
<1> QED  BY <1>1, <1>2

\* The hub takes a result from the wire.
LEMMA ResultEffect ==
  ASSUME SystemInductive, NEW c \in Conn, NEW j \in Job, HandleResult(c, j)
  PROVE  /\ pc[c] = "reading" /\ alive[c]
         /\ Has(toHub[c], j) /\ ~Has(toHub'[c], j)
         /\ \A d \in Conn, i \in Job :
               /\ d # c \/ i # j => (Has(toHub'[d], i) <=> Has(toHub[d], i))
               /\ Once(toHub'[d], i)
         /\ handled[j] = 0 /\ handled' = [handled EXCEPT ![j] = 1]
         /\ carried[j] = c /\ answers[j] = 1 /\ via[j] = c
         /\ UNCHANGED <<hubVars, agentVars, toAgent, via, losses>>
<1>1. /\ pc[c] = "reading" /\ alive[c]
      /\ toHub[c] # <<>> /\ Head(toHub[c]) = j /\ toHub' = [toHub EXCEPT ![c] = Tail(@)]
      /\ handled' = [handled EXCEPT ![j] = @ + 1]
      /\ UNCHANGED <<hubVars, agentVars, toAgent, via, losses>>
  BY DEF HandleResult, Gets
<1>2. \A d \in Conn, i \in Job : Once(toHub[d], i)
  BY DEF SystemInductive, Tracks, BackOnce
<1>3. /\ Has(toHub[c], j) /\ ~Has(toHub'[c], j)
      /\ \A d \in Conn, i \in Job :
            /\ d # c \/ i # j => (Has(toHub'[d], i) <=> Has(toHub[d], i))
            /\ Once(toHub'[d], i)
  BY <1>1, <1>2, ToHubTail
<1>4. handled[j] = 0 /\ carried[j] = c /\ answers[j] = 1 /\ via[j] = c
  BY <1>3 DEF SystemInductive, Tracks, OnTrack
<1>5. handled' = [handled EXCEPT ![j] = 1]  BY <1>1, <1>4, WireTypes
<1> QED  BY <1>1, <1>3, <1>4, <1>5

LEMMA ResultTracks ==
  ASSUME SystemInductive, NEW c \in Conn, NEW j \in Job, HandleResult(c, j)
  PROVE  Tracks'
<1>0. /\ OutOnce /\ BackOnce /\ HandledOnce
      /\ \A i \in Job, d \in Conn : OnTrack(i, d)
  BY DEF SystemInductive, Tracks
<1>1. /\ Has(toHub[c], j) /\ ~Has(toHub'[c], j)
      /\ \A d \in Conn, i \in Job :
            /\ d # c \/ i # j => (Has(toHub'[d], i) <=> Has(toHub[d], i))
            /\ Once(toHub'[d], i)
      /\ handled'[j] = 1 /\ \A i \in Job \ {j} : handled'[i] = handled[i]
      /\ carried[j] = c /\ answers[j] = 1 /\ via[j] = c
      /\ UNCHANGED <<pc, alive, stopped, send, hand, dispatched, toAgent, socket, carried,
                     answers, via>>
  BY ResultEffect, WireTypes DEF hubVars, agentVars
<1>2. BackOnce' /\ OutOnce'  BY <1>0, <1>1 DEF BackOnce, OutOnce
<1>3. HandledOnce'  BY <1>0, <1>1 DEF HandledOnce
<1>4. \A i \in Job, d \in Conn : /\ Waiting(i, d)' <=> Waiting(i, d)
                                 /\ Healthy(d)' <=> Healthy(d)
  BY <1>1 DEF Waiting, Healthy
<1>5. ASSUME NEW i \in Job, NEW d \in Conn, i # j PROVE OnTrack(i, d)'
  BY <1>0, <1>1, <1>4, <1>5 DEF OnTrack
<1>6. ASSUME NEW d \in Conn PROVE OnTrack(j, d)'
  BY <1>0, <1>1, <1>4 DEF OnTrack
<1> QED  BY <1>2, <1>3, <1>5, <1>6 DEF Tracks

\* Every other step carries on.
LEMMA OthersCarry ==
  ASSUME SystemInductive, [Next]_vars
  PROVE  \/ Carries
         \/ ReaderRejects \/ \E c \in Conn : \E s \in Slot : WorkerWrites(c, s)
         \/ \E j \in Job : DispatchJob(j) \/ ReadJob(j) \/ \E c \in Conn : HandleResult(c, j)
<1>1. ASSUME NEW c \in Conn, Handler(c)
      PROVE  Carries \/ \E j \in Job : HandleResult(c, j)
  BY <1>1, HubAloneCarries, HelloCarries, HelloOKCarries DEF Handler
<1>2. CASE Main
  BY <1>2, AgentAloneCarries, HelloCarries, HelloOKCarries DEF Main
<1>3. CASE Rests \/ UNCHANGED vars
  BY <1>3, StandsStill DEF Rests, vars, hubVars, agentVars, wires
<1> QED
  BY <1>1, <1>2, <1>3, PumpCarries, HubAloneCarries, AgentAloneCarries DEF Next, Worker

LEMMA TracksStep ==
  ASSUME SystemInductive, [Next]_vars
  PROVE  Tracks'
BY OthersCarry, CarriesOn, WritersTrack, DispatchTracks, ReadJobTracks, ResultTracks

LEMMA ToAgentType ==
  ASSUME SystemInductive, [Next]_vars
  PROVE  toAgent' \in [Conn -> Seq(Job \cup {HelloOK})]
<1> DEFINE Typed == toAgent' \in [Conn -> Seq(Job \cup {HelloOK})]
<1>0. UNCHANGED toAgent => Typed  BY WireTypes
<1>1. ASSUME NEW c \in Conn, Greet(c) PROVE Typed
  BY <1>1, ToAgentAppend DEF Greet, Puts
<1>2. ASSUME NEW c \in Conn, Handler(c), ~Greet(c) PROVE UNCHANGED toAgent
  BY <1>2 DEF Handler, Resolve, Reject, HandlerSteps, HandleResult, HubAlone, wires
<1>3. ASSUME NEW c \in Conn, Pump(c) PROVE UNCHANGED toAgent \/ Typed
  BY <1>3, PumpWriteEffect DEF Pump, PumpSteps, HubAlone, wires
<1>4. ASSUME ReadHelloOK PROVE Typed
  BY <1>4, ToAgentTail, AgentTypes DEF ReadHelloOK, A!ReadOther, A!Readable, Gets
<1>5. ASSUME NEW j \in Job, ReadJob(j) PROVE Typed
  BY <1>5, ReadJobEffect
<1>6. ASSUME Main, ~ReadHelloOK, ~\E j \in Job : ReadJob(j) PROVE UNCHANGED toAgent
  BY <1>6 DEF Main, MainSteps, SendHello, ReadFails, ReaderRejects, Answers, AgentAlone, wires
<1>7. ASSUME NEW c \in Conn, \/ GoroutineSteps(c) \/ AgentLoses(c) \/ HubLoses(c)
                             \/ \E s \in Slot : Worker(c, s)
      PROVE  UNCHANGED toAgent
  BY <1>7 DEF GoroutineSteps, AgentLoses, HubLoses, AgentAlone, Worker, WorkerSteps,
     WorkerWrites, Answers, wires
<1>8. ASSUME Rests \/ (\E j \in Job : DispatchJob(j)) \/ UNCHANGED vars PROVE UNCHANGED toAgent
  BY <1>8 DEF Rests, vars, DispatchJob, wires
<1> HIDE DEF Typed
<1>9. \A c \in Conn : Handler(c) \/ Pump(c) => Typed  BY <1>0, <1>1, <1>2, <1>3
<1>10. Main => Typed  BY <1>0, <1>4, <1>5, <1>6
<1>11. Typed  BY <1>0, <1>7, <1>8, <1>9, <1>10 DEF Next
<1> QED  BY <1>11 DEF Typed

\* The ghosts and the losses.
LEMMA GhostChanges ==
  ASSUME [Next]_vars
  PROVE  /\ \/ UNCHANGED <<via, handled>>
            \/ \E j \in Job : DispatchJob(j) \/ \E c \in Conn : HandleResult(c, j)
         /\ \/ UNCHANGED losses
            \/ \E c \in Conn : AgentLoses(c) \/ HubLoses(c)
<1>1. ASSUME NEW c \in Conn, Handler(c)
      PROVE  /\ UNCHANGED <<via, losses>>
             /\ UNCHANGED handled \/ \E j \in Job : HandleResult(c, j)
  BY <1>1 DEF Handler, Resolve, Reject, Greet, HandlerSteps, HandleResult, HubAlone
<1>2. ASSUME NEW c \in Conn, \/ Pump(c) \/ GoroutineSteps(c)
                             \/ \E s \in Slot : Worker(c, s)
      PROVE  UNCHANGED <<via, handled, losses>>
  BY <1>2 DEF Pump, PumpSteps, PumpWrite, HubAlone, GoroutineSteps, AgentAlone, Worker,
     WorkerSteps, WorkerWrites, Answers
<1>3. ASSUME Main \/ Rests \/ UNCHANGED vars PROVE UNCHANGED <<via, handled, losses>>
  BY <1>3 DEF Main, MainSteps, SendHello, ReadHelloOK, ReadJob, ReadFails, ReaderRejects,
     Answers, AgentAlone, Rests, vars
<1>4. ASSUME NEW c \in Conn, AgentLoses(c) \/ HubLoses(c) PROVE UNCHANGED <<via, handled>>
  BY <1>4 DEF AgentLoses, HubLoses
<1>5. ASSUME NEW j \in Job, DispatchJob(j) PROVE UNCHANGED <<handled, losses>>
  BY <1>5 DEF DispatchJob
<1> QED  BY <1>1, <1>2, <1>3, <1>4, <1>5 DEF Next

LEMMA GhostTypes ==
  ASSUME SystemInductive, [Next]_vars
  PROVE  /\ via' \in [Job -> Conn \cup {NoConn}]
         /\ handled' \in [Job -> Nat]
         /\ losses' \in 0..MaxLosses
<1>0. /\ via \in [Job -> Conn \cup {NoConn}] /\ handled \in [Job -> Nat]
      /\ losses \in 0..MaxLosses /\ MaxLosses \in Nat
  BY SystemAssumption DEF SystemInductive, TypeOK, SystemAssumption
<1>1. ASSUME NEW j \in Job, DispatchJob(j)
      PROVE  via' \in [Job -> Conn \cup {NoConn}] /\ handled' = handled
  BY <1>1, DispatchTracks DEF DispatchJob
<1>2. ASSUME NEW c \in Conn, NEW j \in Job, HandleResult(c, j)
      PROVE  handled' \in [Job -> Nat] /\ via' = via
  BY <1>0, <1>2, ResultEffect
<1>3. ASSUME NEW c \in Conn, AgentLoses(c) \/ HubLoses(c) PROVE losses' \in 0..MaxLosses
  BY <1>0, <1>3 DEF AgentLoses, HubLoses, Loses
<1> QED  BY <1>0, <1>1, <1>2, <1>3, GhostChanges

LEMMA SystemInit ==
  ASSUME Init, EachSide
  PROVE  SystemInductive
<1>1. TypeOK
  BY SystemAssumption
     DEF Init, EachSide, TypeOK, H!HubInv, A!AgentInv, SystemAssumption
<1>2. HubSide
  BY SystemAssumption DEF Init, H!Init, HubSide, Conn, SystemAssumption
<1>3. Reached
  BY DEF Init, H!Init, A!Init, Reached, Conn, A!Conn
<1>4. NoMsg \notin H!JobMsg
  BY SystemAssumption DEF SystemAssumption, H!MessagesAssumption, H!Msg
<1>5. /\ \A c \in Conn : /\ send[c] = <<>> /\ hand[c] = NoMsg
                         /\ toAgent[c] = <<>> /\ toHub[c] = <<>>
                         /\ c # 0 /\ c # NoConn
      /\ \A j \in Job : via[j] = NoConn /\ carried[j] = 0 /\ answers[j] = 0 /\ handled[j] = 0
  BY SystemAssumption
     DEF Init, H!Init, A!Init, Conn, SystemAssumption, H!ConstantsAssumption
<1>6. \A x : ~Has(<<>>, x) /\ Once(<<>>, x)  BY DEF Has, Once
<1>7. \A j \in Job : Message(j) # NoMsg  BY <1>4, MessagesDiffer
<1>8. Tracks
  BY <1>5, <1>6, <1>7 DEF Tracks, OutOnce, BackOnce, HandledOnce, OnTrack, Waiting
<1> QED  BY <1>1, <1>2, <1>3, <1>8 DEF SystemInductive

LEMMA SystemStep ==
  ASSUME SystemInductive, [Next]_vars, EachSide'
  PROVE  SystemInductive'
<1>1. TypeOK'
  BY ToHubStep, ToAgentType, GhostTypes DEF TypeOK, EachSide, H!HubInv, A!AgentInv, Conn
<1> QED  BY <1>1, HubSideStep, ReachedStep, TracksStep DEF SystemInductive

LEMMA SystemInvariant == Spec => []SystemInductive
<1>1. Init /\ EachSide => SystemInductive  BY SystemInit
<1>2. SystemInductive /\ [Next]_vars /\ EachSide' => SystemInductive'  BY SystemStep
<1> QED  BY <1>1, <1>2, EachSideHolds, PTL DEF Spec

\* Counting the places.
LEMMA CountPlaces ==
  ASSUME SystemInductive, NEW j \in Job, NEW c \in Conn
  PROVE  /\ Outbound(c, j) = IF Waiting(j, c) THEN 1 ELSE 0
         /\ In(toHub[c], j) = IF Has(toHub[c], j) THEN 1 ELSE 0
         /\ A!Occurrences(j, c) \in {0, 1}
         /\ carried[j] = c /\ socket[c] = "open" => A!Occurrences(j, c) = 1
         /\ answers[j] > 0 => answers[j] = 1
<1>1. /\ Has(send[c], Message(j)) => hand[c] # Message(j) /\ ~Has(toAgent[c], j)
      /\ hand[c] = Message(j) => ~Has(toAgent[c], j)
      /\ Once(send[c], Message(j)) /\ Once(toAgent[c], j) /\ Once(toHub[c], j)
  BY DEF SystemInductive, Tracks, OutOnce, BackOnce
<1>2. /\ In(send[c], Message(j)) = IF Has(send[c], Message(j)) THEN 1 ELSE 0
      /\ In(toAgent[c], j) = IF Has(toAgent[c], j) THEN 1 ELSE 0
      /\ In(toHub[c], j) = IF Has(toHub[c], j) THEN 1 ELSE 0
  BY <1>1, InCount
<1>3. Outbound(c, j) = In(send[c], Message(j)) + (IF hand[c] = Message(j) THEN 1 ELSE 0)
                       + In(toAgent[c], j)
  BY DEF Outbound, Message
<1>4. Outbound(c, j) = IF Waiting(j, c) THEN 1 ELSE 0
  BY <1>1, <1>2, <1>3 DEF Waiting
<1>5. AP!AgentInv /\ AP!OnePlace /\ AP!SomePlace /\ c \in AP!Conn
  BY SameAgent DEF SystemInductive, EachSide, AP!JobsPlaced, AP!Conn, Conn
<1>6. /\ AP!Occurrences(j, c) \in {0, 1}
      /\ AP!Occurrences(j, c) = 1 <=>
            AP!InQueue(c, j) \/ AP!InHand(c, j) \/ refusing = j \/ answers[j] = 1
  BY <1>5, SameAgent, AP!PlacesCount
<1>7. A!Occurrences(j, c) = AP!Occurrences(j, c)
  <2>1. \A S : A!Cardinality(S) = AP!Cardinality(S)  BY DEF A!Cardinality, AP!Cardinality
  <2> QED  BY <2>1 DEF A!Occurrences, AP!Occurrences
<1>8. carried[j] = c /\ socket[c] = "open" => AP!Occurrences(j, c) = 1
  BY <1>5, <1>6 DEF AP!SomePlace
<1> QED  BY <1>2, <1>4, <1>6, <1>7, <1>8, Places

\* A job is in one place at most wherever it is between the scheduler and
\* handleResult, on the connection that took it, and on a healthy connection
\* it is in one.
THEOREM SystemCorrect == Spec => []SystemInv
<1>1. ASSUME SystemInductive PROVE JobsInOnePlace
  <2> SUFFICES ASSUME NEW j \in Job, NEW c \in Conn
               PROVE  LET places == Outbound(c, j)
                                    + (IF carried[j] = c THEN A!Occurrences(j, c) ELSE 0)
                      IN /\ places <= (IF via[j] = c THEN 1 ELSE 0)
                         /\ Inbound(c, j) > 0 /\ via[j] = c =>
                               Inbound(c, j) = 1 /\ answers[j] = 1
                         /\ via[j] = c /\ Healthy(c) =>
                               places = 1 /\ Inbound(c, j) = answers[j]
    BY DEF JobsInOnePlace
  <2>1. OnTrack(j, c) /\ (handled[j] > 0 => handled[j] = 1 /\ answers[j] = 1)
    BY <1>1 DEF SystemInductive, Tracks, HandledOnce
  <2>2. Healthy(c) => socket[c] = "open"  BY DEF Healthy
  <2>3. c # 0 /\ handled[j] \in Nat /\ answers[j] \in Nat  BY <1>1, WireTypes, AgentTypes
  <2>4. /\ Outbound(c, j) = IF Waiting(j, c) THEN 1 ELSE 0
        /\ In(toHub[c], j) = IF Has(toHub[c], j) THEN 1 ELSE 0
        /\ A!Occurrences(j, c) \in {0, 1}
        /\ carried[j] = c /\ socket[c] = "open" => A!Occurrences(j, c) = 1
        /\ answers[j] > 0 => answers[j] = 1
    BY <1>1, CountPlaces
  <2>5. Inbound(c, j) = In(toHub[c], j) + handled[j]  BY DEF Inbound
  <2> QED  BY <2>1, <2>2, <2>3, <2>4, <2>5 DEF OnTrack
<1>2. SystemInductive => SystemInv
  BY <1>1 DEF SystemInv, SystemInductive
<1> QED  BY <1>2, SystemInvariant, PTL

----------------------------------------------------------------------------
(* System implements Jobs.                                                 *)

Broken == {c \in Conn : socket[c] # "none" /\ ~Healthy(c)}

Stage(j) == IF handled[j] > 0 THEN "done"
            ELSE IF via[j] = NoConn THEN "new"
            ELSE IF UnderWay(j) THEN "taken" ELSE "lost"

Stages == [j \in Job |-> Stage(j)]

\* Where a job is that has no answer yet.
Coming(j, c) == answers[j] = 0 /\ (Waiting(j, c) \/ A!Occurrences(j, c) = 1)

LEMMA UnderWayMeans ==
  ASSUME SystemInductive, NEW j \in Job, via[j] # NoConn
  PROVE  /\ via[j] \in Conn
         /\ UnderWay(j) <=> /\ alive[via[j]] /\ pc[via[j]] \in {"displacing", "reading"}
                            /\ \/ socket[via[j]] = "open" /\ Coming(j, via[j])
                               \/ Has(toHub[via[j]], j)
<1> DEFINE c == via[j]
<1>1. c \in Conn  BY WireTypes
<1>2. /\ Outbound(c, j) = IF Waiting(j, c) THEN 1 ELSE 0
      /\ In(toHub[c], j) = IF Has(toHub[c], j) THEN 1 ELSE 0
      /\ A!Occurrences(j, c) \in {0, 1}
      /\ answers[j] > 0 => answers[j] = 1
  BY <1>1, CountPlaces
<1>3. answers[j] \in Nat  BY AgentTypes
<1>4. Waiting(j, c) => answers[j] = 0
  <2>1. Waiting(j, c) => carried[j] = 0  BY <1>1 DEF SystemInductive, Tracks, OnTrack
  <2> QED  BY <1>3, <2>1, Places
<1>5. Outbound(c, j) + A!Occurrences(j, c) > answers[j] <=> Coming(j, c)
  BY <1>2, <1>3, <1>4 DEF Coming
<1>6. In(toHub[c], j) > 0 <=> Has(toHub[c], j)  BY <1>2
<1> QED  BY <1>1, <1>5, <1>6 DEF UnderWay

\* On a healthy connection nothing is lost.
LEMMA HealthyIsUnderWay ==
  ASSUME SystemInductive, NEW j \in Job, via[j] # NoConn, handled[j] = 0
  PROVE  /\ pc[via[j]] \notin {"idle", "resolved", "greeted", "replying"}
         /\ socket[via[j]] # "none"
         /\ Healthy(via[j]) => UnderWay(j)
<1> DEFINE c == via[j]
<1>1. c \in Conn  BY WireTypes
<1>2. OnTrack(j, c)  BY <1>1 DEF SystemInductive, Tracks
<1>3. pc[c] \notin {"idle", "resolved", "greeted", "replying"}
  BY <1>1, <1>2 DEF OnTrack, SystemInductive, HubSide
<1>4. socket[c] # "none"  BY <1>1, <1>3 DEF SystemInductive, Reached
<1>5. ASSUME Healthy(c) PROVE UnderWay(j)
  <2>1. pc[c] # "waiting"
    BY <1>1, <1>5 DEF Healthy, SystemInductive, EachSide, H!HubInv, H!AwaitedIsStopped, Conn
  <2>2. alive[c] /\ pc[c] \in {"displacing", "reading"} /\ socket[c] = "open"
    BY <1>1, <1>3, <1>5, <2>1, HubTypes DEF Healthy, H!HandlerPc
  <2>3. Waiting(j, c) \/ carried[j] = c  BY <1>2, <1>5 DEF OnTrack
  <2>4. answers[j] = 1 => Has(toHub[c], j)  BY <1>2, <1>5 DEF OnTrack
  <2>5. carried[j] = c => A!Occurrences(j, c) = 1  BY <1>1, <2>2, CountPlaces
  <2>6. answers[j] = 0 \/ answers[j] = 1  BY AgentTypes, Places
  <2>7. Coming(j, c) \/ Has(toHub[c], j)  BY <2>3, <2>4, <2>5, <2>6 DEF Coming
  <2> QED  BY <2>2, <2>7, UnderWayMeans
<1> QED  BY <1>3, <1>4, <1>5

\* What is under way has its way open; what is lost is lost with its
\* connection.
StagesAgree ==
    \A j \in Job : via[j] # NoConn /\ handled[j] = 0 =>
        /\ via[j] \in Conn
        /\ UnderWay(j) => /\ alive[via[j]] /\ pc[via[j]] \in {"displacing", "reading"}
                          /\ socket[via[j]] = "open" \/ Has(toHub[via[j]], j)
        /\ ~UnderWay(j) => via[j] \in Broken
        /\ ~UnderWay(j) => \/ ~alive[via[j]] \/ pc[via[j]] \notin {"displacing", "reading"}
                           \/ ~Has(toHub[via[j]], j)

LEMMA StagesDoAgree == SystemInductive => StagesAgree
<1> SUFFICES ASSUME SystemInductive, NEW j \in Job, via[j] # NoConn, handled[j] = 0
             PROVE  /\ via[j] \in Conn
                    /\ UnderWay(j) => /\ alive[via[j]] /\ pc[via[j]] \in {"displacing", "reading"}
                                      /\ socket[via[j]] = "open" \/ Has(toHub[via[j]], j)
                    /\ ~UnderWay(j) => via[j] \in Broken
                    /\ ~UnderWay(j) => \/ ~alive[via[j]] \/ pc[via[j]] \notin {"displacing", "reading"}
                                       \/ ~Has(toHub[via[j]], j)
  BY DEF StagesAgree
<1>1. via[j] \in Conn  BY WireTypes
<1>2. ~UnderWay(j) => via[j] \in Broken  BY <1>1, HealthyIsUnderWay DEF Broken
<1> QED  BY <1>1, <1>2, UnderWayMeans

\* A socket that is alive at the hub's end and not healthy is not open.
LEMMA AliveMeans ==
  ASSUME SystemInductive, NEW c \in Conn, alive[c], pc[c] # "finished"
  PROVE  Healthy(c) <=> socket[c] = "open"
BY HubTypes DEF SystemInductive, HubSide, Healthy

\* Nothing that is lost comes back.
LEMMA NoRevival ==
  ASSUME SystemInductive, [Next]_vars, StagesAgree', NEW j \in Job,
         via'[j] = via[j], via[j] # NoConn, handled'[j] = handled[j], handled[j] = 0, UnderWay(j)'
  PROVE  UnderWay(j)
<1> DEFINE c == via[j]
<1>1. c \in Conn /\ pc[c] \notin {"idle", "resolved", "greeted", "replying"} /\ socket[c] # "none"
  BY HealthyIsUnderWay, WireTypes
<1>2. /\ alive'[c] /\ pc'[c] \in {"displacing", "reading"}
      /\ socket'[c] = "open" \/ Has(toHub'[c], j)
  BY DEF StagesAgree
<1>3. alive[c] /\ pc[c] \in {"displacing", "reading"}  BY <1>1, <1>2, HubEnds
<1>4. CASE socket[c] = "open"
  BY <1>1, <1>3, <1>4, AliveMeans, HealthyIsUnderWay
<1>5. CASE socket[c] # "open"
  <2>1. socket'[c] # "open"  BY <1>1, <1>5, SocketMoves
  <2>2. Has(toHub'[c], j)  BY <1>2, <2>1
  <2>3. ASSUME NEW d \in Conn, toHub[d] # <<>>, toHub' = [toHub EXCEPT ![d] = Tail(@)]
        PROVE  Has(toHub[c], j)
    BY <1>1, <2>2, <2>3, ToHubTail
  <2>4. ASSUME NEW d \in Conn, NEW m \in Job \cup {Hello}, socket[d] = "open",
               toHub' = [toHub EXCEPT ![d] = Append(@, m)]
        PROVE  Has(toHub[c], j)
    BY <1>1, <1>5, <2>2, <2>4, ToHubAppend
  <2>5. Has(toHub[c], j)  BY <2>2, <2>3, <2>4, ToHubChanges
  <2> QED  BY <1>3, <2>5, UnderWayMeans
<1> QED  BY <1>4, <1>5

\* Connections break for good, and one at a time.
LEMMA BrokenGrows ==
  ASSUME SystemInductive, [Next]_vars
  PROVE  /\ Broken \subseteq Broken'
         /\ \A c, d \in Broken' \ Broken : c = d
<1>1. ASSUME NEW c \in Broken PROVE c \in Broken'
  <2>1. c \in Conn /\ socket[c] # "none" /\ ~Healthy(c)  BY DEF Broken
  <2>2. socket'[c] # "none"  BY <2>1, SocketMoves
  <2>3. pc[c] = "idle" => socket[c] # "open"
    BY <2>1 DEF Healthy, SystemInductive, HubSide
  <2>4. ~Healthy(c)'
    <3> SUFFICES ASSUME Healthy(c)' PROVE FALSE  OBVIOUS
    <3>1. pc[c] = "idle"  BY <2>1, HealthStep
    <3>2. socket'[c] = "open"  BY DEF Healthy
    <3> QED  BY <2>1, <2>3, <3>1, <3>2, SocketMoves
  <2> QED  BY <2>1, <2>2, <2>4 DEF Broken
<1>2. ASSUME NEW c \in Broken' \ Broken, NEW d \in Broken' \ Broken PROVE c = d
  <2>1. /\ c \in Conn /\ d \in Conn
        /\ ~Healthy(c)' /\ ~Healthy(d)'
        /\ socket'[c] # "none" /\ socket'[d] # "none"
        /\ socket[c] = "none" \/ Healthy(c)
        /\ socket[d] = "none" \/ Healthy(d)
    BY DEF Broken
  <2>2. CASE UNCHANGED hubVars
    <3>1. socket'[c] # socket[c] /\ socket'[d] # socket[d]
      BY <2>1, <2>2 DEF hubVars, Healthy
    <3> QED  BY <2>1, <3>1, SocketMoves
  <2>3. CASE UNCHANGED agentVars
    <3>1. socket' = socket  BY <2>3 DEF agentVars
    <3>2. Fit(c) /\ ~Fit(c)' /\ Fit(d) /\ ~Fit(d)'  BY <2>1, <3>1 DEF Healthy, Fit
    <3> QED  BY <2>1, <3>2, HubEnds
  <2> QED  BY <2>2, <2>3, OneSide
<1> QED  BY <1>1, <1>2

\* The steps of Jobs, said of System.
LEMMA PromiseForms ==
  /\ Promise!Init <=> /\ Stages = [j \in Job |-> "new"]
                      /\ via = [j \in Job |-> NoConn]
                      /\ Broken = {}
  /\ \A c \in Conn :
        /\ via' = via
        /\ Broken' = Broken \cup {c}
        /\ \E gone \in SUBSET {j \in Job : Stages[j] = "taken" /\ via[j] \in Broken'} :
              Stages' = [j \in Job |-> IF j \in gone THEN "lost" ELSE Stages[j]]
        => Promise!Next
  /\ \A j \in Job : \A c \in Conn :
        /\ Stages[j] = "new"
        /\ Stages' = [Stages EXCEPT ![j] = IF c \in Broken THEN "lost" ELSE "taken"]
        /\ via' = [via EXCEPT ![j] = c]
        /\ Broken' = Broken
        => Promise!Next
  /\ \A j \in Job :
        /\ Stages[j] = "taken"
        /\ Stages' = [Stages EXCEPT ![j] = "done"]
        /\ via' = via /\ Broken' = Broken
        => Promise!Next
  /\ via' = via /\ Broken' = Broken /\ Stages' = Stages => UNCHANGED Promise!vars
<1>1. Promise!Init <=> /\ Stages = [j \in Job |-> "new"]
                       /\ via = [j \in Job |-> NoConn]
                       /\ Broken = {}
  BY DEF Promise!Init, Stages, Stage, Broken
<1>2. ASSUME NEW c \in Conn, via' = via, Broken' = Broken \cup {c},
             \E gone \in SUBSET {j \in Job : Stages[j] = "taken" /\ via[j] \in Broken'} :
                Stages' = [j \in Job |-> IF j \in gone THEN "lost" ELSE Stages[j]]
      PROVE  Promise!Next
  BY <1>2 DEF Promise!Next, Promise!Break, Stages, Stage, Broken
<1>3. ASSUME NEW j \in Job, NEW c \in Conn, Stages[j] = "new",
             Stages' = [Stages EXCEPT ![j] = IF c \in Broken THEN "lost" ELSE "taken"],
             via' = [via EXCEPT ![j] = c], Broken' = Broken
      PROVE  Promise!Next
  BY <1>3 DEF Promise!Next, Promise!Take, Stages, Stage, Broken
<1>4. ASSUME NEW j \in Job, Stages[j] = "taken", Stages' = [Stages EXCEPT ![j] = "done"],
             via' = via, Broken' = Broken
      PROVE  Promise!Next
  BY <1>4 DEF Promise!Next, Promise!Finish, Stages, Stage, Broken
<1>5. via' = via /\ Broken' = Broken /\ Stages' = Stages => UNCHANGED Promise!vars
  BY DEF Promise!vars, Stages, Stage, Broken
<1> QED  BY <1>1, <1>2, <1>3, <1>4, <1>5

LEMMA StageRanges ==
  ASSUME SystemInductive, NEW j \in Job
  PROVE  /\ Stages[j] = Stage(j)
         /\ Stage(j) = "done" <=> handled[j] # 0
         /\ Stage(j) = "new" <=> handled[j] = 0 /\ via[j] = NoConn
         /\ Stage(j) = "taken" <=> handled[j] = 0 /\ via[j] # NoConn /\ UnderWay(j)
         /\ Stage(j) = "lost" <=> handled[j] = 0 /\ via[j] # NoConn /\ ~UnderWay(j)
<1>1. handled[j] \in Nat  BY WireTypes
<1> QED  BY <1>1 DEF Stages, Stage

\* A step that neither takes nor finishes a job breaks one connection at most,
\* and loses nothing but jobs of broken connections.
LEMMA OthersBreak ==
  ASSUME SystemInductive, [Next]_vars, StagesAgree', UNCHANGED <<via, handled>>
  PROVE  [Promise!Next]_Promise!vars
<1> DEFINE gone == {j \in Job : Stage(j) = "taken" /\ Stage(j)' = "lost"}
<1>1. ASSUME NEW j \in Job
      PROVE  \/ Stage(j)' = Stage(j)
             \/ Stage(j) = "taken" /\ Stage(j)' = "lost"
  <2>1. handled[j] = 0 /\ via[j] # NoConn /\ UnderWay(j)' => UnderWay(j)
    BY NoRevival
  <2> QED  BY <2>1, WireTypes DEF Stage
<1>2. \A j \in gone : j \in Job /\ Stage(j) = "taken" /\ via[j] \in Broken' /\ via[j] \in Conn
  <2> SUFFICES ASSUME NEW j \in Job, Stage(j) = "taken", Stage(j)' = "lost"
               PROVE  via[j] \in Broken' /\ via[j] \in Conn
    OBVIOUS
  <2>1. handled[j] = 0 /\ via[j] # NoConn  BY StageRanges
  <2>2. ~UnderWay(j)'
    BY <2>1 DEF Stage
  <2> QED  BY <2>1, <2>2 DEF StagesAgree
<1>3. Stages' = [j \in Job |-> IF j \in gone THEN "lost" ELSE Stages[j]]
  BY <1>1 DEF Stages
<1>4. gone \in SUBSET {j \in Job : Stages[j] = "taken" /\ via[j] \in Broken'}
  BY <1>2 DEF Stages
<1> HIDE DEF gone
<1>5. ASSUME NEW c \in Conn, Broken' = Broken \cup {c} PROVE Promise!Next
  BY <1>3, <1>4, <1>5, PromiseForms
<1>6. CASE Broken' # Broken
  <2>1. PICK c : c \in Broken' \ Broken  BY <1>6, BrokenGrows
  <2>2. c \in Conn  BY <2>1 DEF Broken
  <2>3. Broken' = Broken \cup {c}  BY <2>1, BrokenGrows
  <2> QED  BY <1>5, <2>2, <2>3
<1>7. CASE Broken' = Broken /\ gone # {}
  <2>1. PICK j : j \in gone  BY <1>7
  <2>2. via[j] \in Broken /\ via[j] \in Conn  BY <1>2, <1>7, <2>1
  <2>3. Broken' = Broken \cup {via[j]}  BY <1>7, <2>2
  <2> QED  BY <1>5, <2>2, <2>3
<1>8. CASE Broken' = Broken /\ gone = {}
  <2>1. Stages' = Stages  BY <1>3, <1>8 DEF Stages
  <2> QED  BY <1>8, <2>1, PromiseForms
<1> QED  BY <1>6, <1>7, <1>8

\* A job that a step leaves alone, on a connection it leaves alone.
LEMMA StageKept ==
  ASSUME SystemInductive, [Next]_vars, StagesAgree', NEW j \in Job,
         via'[j] = via[j], handled'[j] = handled[j], Broken' = Broken, pc' = pc, alive' = alive,
         \A c \in Conn : Has(toHub[c], j) => Has(toHub'[c], j)
  PROVE  Stage(j)' = Stage(j)
<1>1. CASE handled[j] > 0 \/ via[j] = NoConn
  BY <1>1 DEF Stage
<1>2. CASE ~(handled[j] > 0) /\ via[j] # NoConn
  <2> DEFINE c == via[j]
  <2>1. handled[j] = 0 /\ c \in Conn  BY <1>2, WireTypes
  <2>2. UnderWay(j)' => UnderWay(j)  BY <1>2, <2>1, NoRevival
  <2>3. ASSUME UnderWay(j), ~UnderWay(j)' PROVE FALSE
    <3>1. /\ c \in Broken
          /\ ~alive[c] \/ pc[c] \notin {"displacing", "reading"} \/ ~Has(toHub'[c], j)
      BY <1>2, <2>1, <2>3 DEF StagesAgree
    <3>2. /\ alive[c] /\ pc[c] \in {"displacing", "reading"}
          /\ socket[c] = "open" \/ Has(toHub[c], j)
      BY <1>2, <2>1, <2>3, StagesDoAgree DEF StagesAgree
    <3>3. socket[c] # "open"  BY <2>1, <3>1, <3>2, AliveMeans DEF Broken
    <3> QED  BY <2>1, <3>1, <3>2, <3>3
  <2> QED  BY <1>2, <2>1, <2>2, <2>3 DEF Stage
<1> QED  BY <1>1, <1>2

\* A job that is taken is under way unless its connection is broken already.
LEMMA DispatchTakes ==
  ASSUME SystemInductive, [Next]_vars, StagesAgree', NEW j \in Job, DispatchJob(j)
  PROVE  [Promise!Next]_Promise!vars
<1> DEFINE a == agents[Me]
<1>1. /\ a \in Conn /\ pc[a] \notin {"idle", "resolved", "greeted", "finished"}
      /\ via[j] = NoConn /\ handled[j] = 0
      /\ \A c \in Conn : ~Has(toHub[c], j)
      /\ UNCHANGED <<pc, alive, stopped, agentVars, toHub, handled>>
  BY DispatchEffect DEF H!Registered
<1>2. UNCHANGED socket  BY <1>1 DEF agentVars
<1>3. \A c \in Conn : Healthy(c)' <=> Healthy(c)  BY <1>1, <1>2 DEF Healthy
<1>4. Broken' = Broken  BY <1>2, <1>3 DEF Broken
<1>5. CASE via' = via
  BY <1>1, <1>5, OthersBreak
<1>6. CASE via' = [via EXCEPT ![j] = a]
  <2>1. /\ via'[j] = a /\ a # NoConn /\ \A i \in Job \ {j} : via'[i] = via[i]
        /\ handled'[j] = 0
    BY <1>1, <1>6, WireTypes, HubTypes
  <2>2. ASSUME NEW i \in Job, i # j PROVE Stage(i)' = Stage(i)
    BY <1>1, <1>4, <2>1, <2>2, StageKept
  <2>3. Stage(j) = "new"  BY <1>1, StageRanges
  <2>4. UnderWay(j)' <=> a \notin Broken
    <3>1. ASSUME ~UnderWay(j)' PROVE a \in Broken
      BY <1>4, <2>1, <3>1 DEF StagesAgree
    <3>2. ASSUME UnderWay(j)', a \in Broken PROVE FALSE
      <4>1. alive[a] /\ socket[a] = "open"
        BY <1>1, <1>2, <2>1, <3>2 DEF StagesAgree
      <4> QED  BY <1>1, <3>2, <4>1, AliveMeans DEF Broken
    <3> QED  BY <3>1, <3>2
  <2>5. Stage(j)' = IF a \in Broken THEN "lost" ELSE "taken"
    BY <2>1, <2>4 DEF Stage
  <2>6. Stages' = [Stages EXCEPT ![j] = IF a \in Broken THEN "lost" ELSE "taken"]
    BY <2>2, <2>5 DEF Stages
  <2> HIDE DEF a
  <2> QED  BY <1>1, <1>4, <1>6, <2>3, <2>6, PromiseForms, StageRanges
<1> QED  BY <1>5, <1>6, DispatchEffect

\* A result is handled once, of a job that was under way.
LEMMA ResultFinishes ==
  ASSUME SystemInductive, [Next]_vars, StagesAgree', NEW c \in Conn, NEW j \in Job,
         HandleResult(c, j)
  PROVE  [Promise!Next]_Promise!vars
<1>1. /\ pc[c] = "reading" /\ alive[c] /\ Has(toHub[c], j)
      /\ \A d \in Conn, i \in Job : i # j => (Has(toHub'[d], i) <=> Has(toHub[d], i))
      /\ handled[j] = 0 /\ handled'[j] = 1 /\ \A i \in Job \ {j} : handled'[i] = handled[i]
      /\ via[j] = c /\ via' = via
      /\ UNCHANGED <<pc, alive, stopped, socket>>
  BY ResultEffect, WireTypes DEF hubVars, agentVars
<1>2. c # NoConn  BY HubTypes
<1>3. Broken' = Broken  BY <1>1 DEF Broken, Healthy
<1>4. Stage(j) = "taken"
  <2>1. UnderWay(j)  BY <1>1, <1>2, UnderWayMeans
  <2> QED  BY <1>1, <1>2, <2>1, StageRanges
<1>5. Stage(j)' = "done"  BY <1>1 DEF Stage
<1>6. ASSUME NEW i \in Job, i # j PROVE Stage(i)' = Stage(i)
  BY <1>1, <1>3, <1>6, StageKept
<1>7. Stages' = [Stages EXCEPT ![j] = "done"]  BY <1>5, <1>6 DEF Stages
<1> QED  BY <1>1, <1>3, <1>4, <1>7, PromiseForms, StageRanges

\* The hub and the agent together keep what Jobs promises: a job ends once and
\* for good, and is lost only with its connection.
THEOREM SystemImplementsJobs == Spec => ImplementsJobs
<1>1. Init => Promise!Init
  <2> SUFFICES ASSUME Init PROVE Promise!Init  OBVIOUS
  <2>1. \A j \in Job : via[j] = NoConn /\ handled[j] = 0  BY DEF Init
  <2>2. Stages = [j \in Job |-> "new"]  BY <2>1 DEF Stages, Stage
  <2>3. Broken = {}  BY DEF Init, A!Init, Broken, Conn, A!Conn
  <2>4. via = [j \in Job |-> NoConn]  BY DEF Init
  <2> QED  BY <2>2, <2>3, <2>4, PromiseForms
<1>2. SystemInductive /\ StagesAgree' /\ [Next]_vars => [Promise!Next]_Promise!vars
  BY GhostChanges, OthersBreak, DispatchTakes, ResultFinishes
<1>3. SystemInductive => StagesAgree  BY StagesDoAgree
<1> QED  BY <1>1, <1>2, <1>3, SystemInvariant, PTL DEF Spec, ImplementsJobs, Promise!Spec

----------------------------------------------------------------------------
(* Keepalive: KeepaliveInv without EndsInTime is inductive; EndsInTime     *)
(* follows from it in every state.                                         *)

KeepaliveInductive == KeepaliveTypeOK /\ LivesOn /\ WaitingIsShort /\ WaitingIsLong

\* An end that is still open has waited less than its deadline, but at least
\* as long as the silence lasts, the handling of what had come aside.
LEMMA SilenceEnds == KeepaliveInductive => EndsInTime
  BY DelaysAssumption
     DEF KeepaliveInductive, EndsInTime, KeepaliveTypeOK, WaitingIsLong, LongSilence

LEMMA KeepaliveInitInductive == KeepaliveInit => KeepaliveInductive
  BY DelaysAssumption
     DEF KeepaliveInit, KeepaliveInductive, KeepaliveTypeOK, LivesOn, WaitingIsShort, WaitingIsLong,
         SinceTick, LongSilence

LEMMA KeepaliveNextInductive ==
  KeepaliveInductive /\ [KeepaliveNext]_keepaliveVars => KeepaliveInductive'
<1> SUFFICES ASSUME KeepaliveInductive, [KeepaliveNext]_keepaliveVars PROVE KeepaliveInductive'
  OBVIOUS
<1> USE DelaysAssumption
     DEF KeepaliveInductive, KeepaliveTypeOK, LivesOn, WaitingIsShort, WaitingIsLong, SinceTick,
         LongSilence
<1>1. CASE Ping
  BY <1>1 DEF Ping, downVars, ends, lossVars
<1>2. CASE PingArrives
  BY <1>2 DEF PingArrives, downVars, ends, lossVars
<1>3. ASSUME NEW w \in 1..Busy, ResultArrives(w) PROVE KeepaliveInductive'
  BY <1>3 DEF ResultArrives, downVars, ends, lossVars
<1>4. CASE ReadPing
  BY <1>4 DEF ReadPing, Sends, ends, lossVars
<1>5. CASE JobsAreSent
  BY <1>5 DEF JobsAreSent, Sends, upVars, ends, lossVars
<1>6. CASE AgentReads
  BY <1>6 DEF AgentReads, upVars, ends, lossVars
<1>7. ASSUME NEW what \in {"writer", "network"}, Falls(what) PROVE KeepaliveInductive'
  BY <1>7 DEF Falls, upVars, downVars, ends
<1>8. CASE AgentTimesOut
  BY <1>8 DEF AgentTimesOut, upVars, downVars, lossVars
<1>9. CASE HubTimesOut
  BY <1>9 DEF HubTimesOut, upVars, downVars, lossVars
<1>10. CASE Pass
  BY <1>10 DEF Pass, NothingIsDue, Carried, Idle, ends
<1>11. CASE UNCHANGED keepaliveVars
  BY <1>11 DEF keepaliveVars
<1>12. QED
  BY <1>1, <1>2, <1>3, <1>4, <1>5, <1>6, <1>7, <1>8, <1>9, <1>10, <1>11 DEF KeepaliveNext

\* A connection that nothing happens to is closed for silence only when results
\* kept the hub from a ping for what the deadline leaves, however long results
\* take; and one that has fallen silent ends in time.
THEOREM KeepaliveCorrect == KeepaliveSpec => []KeepaliveInv
<1>1. KeepaliveInductive => KeepaliveInv
  BY SilenceEnds DEF KeepaliveInductive, KeepaliveInv
<1>2. QED
  BY <1>1, KeepaliveInitInductive, KeepaliveNextInductive, PTL DEF KeepaliveSpec
=============================================================================
