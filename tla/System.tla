------------------------------- MODULE System -------------------------------
(***************************************************************************)
(* The controller's hub and one agent process joined by their websockets:  *)
(* the way of a job from the scheduler's call of DispatchJob through the   *)
(* send queue, the pump, the wire, the agent's queue and its workers, and  *)
(* of its result back to handleResult, across reconnects.                  *)
(*                                                                         *)
(* Hub and AgentRuntime keep their state and their actions; what one of    *)
(* them leaves open about the other end (what a read returns, who a hello  *)
(* is from, when a socket is lost) is tied here to what the other end did. *)
(* A connection bears the number of the agent's dial.  Keepalives, the     *)
(* signal, a writer gone mute, deletions and the shutdown stay in the two  *)
(* modules.                                                                *)
(***************************************************************************)
EXTENDS Naturals, Sequences, FiniteSets

CONSTANTS
    Me,                            \* the agent's identity
    Job, Slot, QueueSize, MaxConns, NoJob, NoOne,        \* of AgentRuntime
    NoAgent, NoConn, NoMsg, Pong, QueueCap,              \* of Hub
    Hello, HelloOK,                \* messages that are not jobs
    MaxLosses                      \* bound: sockets the network loses

VARIABLES
    agents, row, online, stale, pc, owner, existing, target, pump, hand, send,
    stopped, alive, written, dispatched, delPc, victim, srv, toStop, toAwait,
    downs,
    signalled, main, conn, socket, cancelled, queue, worker, doing, refusing,
    closer, keeper, holder, carried, answers,
    toAgent,   \* Conn -> jobs and HelloOK under way to the agent
    toHub,     \* Conn -> Hello and results, by their job, under way to the hub
    via,       \* ghost: Job -> the connection whose queue took it, or NoConn
    handled,   \* ghost: Job -> results of it that handleResult has seen
    losses     \* sockets the network has lost so far

H == INSTANCE Hub WITH Agent <- {Me}, Conn <- 1..MaxConns, Occurs <- {}, MaxDowns <- 0
A == INSTANCE AgentRuntime WITH Garbled <- {}

Conn == 1..MaxConns

\* What the two modules assume of their constants, and that a message which is
\* not a job can be told from one.
ASSUME SystemAssumption ==
    /\ H!ConstantsAssumption /\ H!MessagesAssumption /\ A!AgentAssumption
    /\ Hello \notin Job /\ HelloOK \notin Job
    /\ MaxLosses \in Nat

hubVars   == <<agents, row, online, stale, pc, owner, existing, target, pump,
               hand, send, stopped, alive, written, dispatched, delPc, victim,
               srv, toStop, toAwait, downs>>
agentVars == <<signalled, main, conn, socket, cancelled, queue, worker, doing,
               refusing, closer, keeper, holder, carried, answers>>
wires     == <<toAgent, toHub>>
vars      == <<hubVars, agentVars, wires, via, handled, losses>>

TypeOK ==
    /\ H!TypeOK
    /\ A!TypeOK
    /\ toAgent \in [Conn -> Seq(Job \cup {HelloOK})]
    /\ toHub \in [Conn -> Seq(Job \cup {Hello})]
    /\ via \in [Job -> Conn \cup {NoConn}]
    /\ handled \in [Job -> Nat]
    /\ losses \in 0..MaxLosses

Init ==
    /\ H!Init
    /\ A!Init
    /\ toAgent = [c \in Conn |-> <<>>]
    /\ toHub = [c \in Conn |-> <<>>]
    /\ via = [j \in Job |-> NoConn]
    /\ handled = [j \in Job |-> 0]
    /\ losses = 0

----------------------------------------------------------------------------
(* Steps of one side that the other does not see.                          *)

AgentAlone == UNCHANGED <<hubVars, wires, via, handled, losses>>
HubAlone   == UNCHANGED <<agentVars, wires, via, handled, losses>>

MainSteps ==
    /\ \/ A!StartDial \/ A!DialFails \/ A!DialSucceeds \/ A!BackoffEnds
       \/ A!HelloFails \/ A!ReaderChecks
       \/ A!ReaderLocks \/ A!Cancel \/ A!CloseSocket \/ A!AwaitGoroutines
    /\ AgentAlone

\* A read fails when the socket is gone, not for want of messages: the
\* deadlines are in Keepalive.
ReadFails == A!ReadFails /\ socket[conn] # "open" /\ AgentAlone

GoroutineSteps(c) == (A!CloserCloses(c) \/ A!KeeperEnds(c)) /\ AgentAlone

WorkerSteps(c, s) ==
    /\ \/ A!WorkerChecks(c, s) \/ A!WorkerStops(c, s) \/ A!WorkerTakes(c, s)
       \/ A!ProbeEnds(c, s) \/ A!WorkerLocks(c, s)
    /\ AgentAlone

HandlerSteps(c) ==
    /\ \/ H!GreetFails(c) \/ H!SetAgentConnection(c) \/ H!StopExisting(c)
       \/ H!Leave(c) \/ H!Finish(c)
    /\ HubAlone

PumpSteps(c) == (H!PumpTake(c) \/ H!PumpEnds(c)) /\ HubAlone

----------------------------------------------------------------------------
(* The websockets.                                                         *)

Puts(wire, c, m) == wire' = [wire EXCEPT ![c] = Append(@, m)]

Gets(wire, c, m) ==
    /\ wire[c] # <<>>
    /\ Head(wire[c]) = m
    /\ wire' = [wire EXCEPT ![c] = Tail(@)]

\* An end of a socket is lost because the other end has closed, or because the
\* network loses it.
Loses(otherClosed) ==
    IF otherClosed THEN UNCHANGED losses
                   ELSE losses < MaxLosses /\ losses' = losses + 1

AgentLoses(c) ==
    /\ A!LoseSocket(c)
    /\ Loses(~alive[c])
    /\ UNCHANGED <<hubVars, wires, via, handled>>

HubLoses(c) ==
    /\ socket[c] # "none"
    /\ H!LoseSocket(c)
    /\ Loses(socket[c] # "open")
    /\ UNCHANGED <<agentVars, wires, via, handled>>

----------------------------------------------------------------------------
(* Messages.                                                               *)

SendHello ==
    /\ A!HelloSent
    /\ Puts(toHub, conn, Hello)
    /\ UNCHANGED <<hubVars, toAgent, via, handled, losses>>

\* HandleWebSocket reads the hello and HandleAgentConnection resolves it.
Resolve(c) ==
    /\ Gets(toHub, c, Hello)
    /\ H!Resolve(c, Me)
    /\ UNCHANGED <<agentVars, toAgent, via, handled, losses>>

\* No hello within ten seconds, or the socket was lost before.
Reject(c) ==
    /\ socket[c] # "none"
    /\ toHub[c] = <<>> \/ socket[c] # "open"
    /\ H!Reject(c)
    /\ HubAlone

Greet(c) ==
    /\ H!Greet(c)
    /\ Puts(toAgent, c, HelloOK)
    /\ UNCHANGED <<agentVars, toHub, via, handled, losses>>

ReadHelloOK ==
    /\ A!ReadOther
    /\ Gets(toAgent, conn, HelloOK)
    /\ UNCHANGED <<hubVars, toHub, via, handled, losses>>

\* The scheduler's call; a full queue refuses the job.
DispatchJob(j) ==
    LET c == agents[Me] IN
    /\ H!DispatchJob(j, Me)
    /\ via' = IF send'[c] # send[c] THEN [via EXCEPT ![j] = c] ELSE via
    /\ UNCHANGED <<agentVars, wires, handled, losses>>

PumpWrite(c) ==
    /\ H!PumpWrite(c)
    /\ Puts(toAgent, c, hand[c].job)
    /\ UNCHANGED <<agentVars, toHub, via, handled, losses>>

ReadJob(j) ==
    /\ A!ReadJob(j)
    /\ Gets(toAgent, conn, j)
    /\ UNCHANGED <<hubVars, toHub, via, handled, losses>>

\* A result or a rejection is written; into a socket that is gone it is lost.
Answers(c, j) ==
    /\ IF socket[c] = "open" THEN Puts(toHub, c, j) ELSE UNCHANGED toHub
    /\ UNCHANGED <<hubVars, toAgent, via, handled, losses>>

WorkerWrites(c, s) == A!WorkerWrites(c, s) /\ Answers(c, doing[c][s])
ReaderRejects      == A!ReaderRejects /\ Answers(conn, refusing)

\* Mutant of HandleResult: the handler reads on only while it is the current
\* one and drops what a superseded connection still delivers.
HandleIfCurrent(c, j) ==
    /\ pc[c] = "reading"
    /\ alive[c]
    /\ Gets(toHub, c, j)
    /\ handled' = IF agents[Me] = c THEN [handled EXCEPT ![j] = @ + 1] ELSE handled
    /\ UNCHANGED <<hubVars, agentVars, toAgent, via, losses>>

\* handleMessage and handleResult, in the handler's goroutine: whether the
\* result can be saved or not, it is dealt with.
HandleResult(c, j) ==
    /\ pc[c] = "reading"
    /\ alive[c]
    /\ Gets(toHub, c, j)
    /\ handled' = [handled EXCEPT ![j] = @ + 1]
    /\ UNCHANGED <<hubVars, agentVars, toAgent, via, losses>>

\* Nothing is left to do: the dials are used up, or the last connection waits
\* for messages.
Rests ==
    /\ conn = MaxConns
    /\ \/ main = "idle"
       \/ main = "reading" /\ dispatched = Job /\ losses = MaxLosses
    /\ \A c \in Conn : \/ pc[c] = "finished"
                       \/ socket[c] = "none"
                       \/ c = conn /\ pc[c] = "reading"
    /\ UNCHANGED vars

----------------------------------------------------------------------------

Main == \/ MainSteps \/ SendHello \/ ReadHelloOK \/ ReadFails \/ ReaderRejects
        \/ \E j \in Job : ReadJob(j)
Handler(c) == \/ Resolve(c) \/ Reject(c) \/ Greet(c) \/ HandlerSteps(c)
              \/ \E j \in Job : HandleResult(c, j)
Pump(c)    == PumpSteps(c) \/ PumpWrite(c)
Worker(c, s) == WorkerSteps(c, s) \/ WorkerWrites(c, s)

Next ==
    \/ Main \/ Rests
    \/ \E j \in Job : DispatchJob(j)
    \/ \E c \in Conn :
          \/ Handler(c) \/ Pump(c) \/ GoroutineSteps(c)
          \/ AgentLoses(c) \/ HubLoses(c)
          \/ \E s \in Slot : Worker(c, s)

Spec == Init /\ [][Next]_vars

----------------------------------------------------------------------------
(* Safety.                                                                 *)

In(seq, x) == Cardinality({i \in 1..Len(seq) : seq[i] = x})

\* A job before the agent has read it, and its answer before the hub has.
Outbound(c, j) == In(send[c], [job |-> j, to |-> Me])
                  + (IF hand[c] = [job |-> j, to |-> Me] THEN 1 ELSE 0)
                  + In(toAgent[c], j)
Inbound(c, j)  == In(toHub[c], j) + handled[j]

Healthy(c) == pc[c] # "finished" /\ alive[c] /\ ~stopped[c] /\ socket[c] = "open"

\* Wherever a job is, it is there once and on the connection that took it: in
\* the hub's queue, in the pump's hand, on the wire, in the agent, on the way
\* back or handled; and on a healthy connection it is somewhere.
JobsInOnePlace ==
    \A j \in Job : \A c \in Conn :
        LET places == Outbound(c, j) + (IF carried[j] = c THEN A!Occurrences(j, c) ELSE 0) IN
        /\ places <= (IF via[j] = c THEN 1 ELSE 0)
        /\ Inbound(c, j) > 0 /\ via[j] = c => Inbound(c, j) = 1 /\ answers[j] = 1
        /\ via[j] = c /\ Healthy(c) => places = 1 /\ Inbound(c, j) = answers[j]

SystemInv == TypeOK /\ JobsInOnePlace

----------------------------------------------------------------------------
(* What the two sides promise together.                                    *)

\* The job is still on its way there or back, and its way is still open.
UnderWay(j) ==
    LET c == via[j] IN
    /\ alive[c] /\ pc[c] \in {"displacing", "reading"}
    /\ \/ socket[c] = "open" /\ Outbound(c, j) + A!Occurrences(j, c) > answers[j]
       \/ In(toHub[c], j) > 0

Promise == INSTANCE Jobs WITH
    carrier <- via,
    broken <- {c \in Conn : socket[c] # "none" /\ ~Healthy(c)},
    stage <- [j \in Job |-> IF handled[j] > 0 THEN "done"
                            ELSE IF via[j] = NoConn THEN "new"
                            ELSE IF UnderWay(j) THEN "taken" ELSE "lost"]

\* Jobs end, done or lost, once and for good, and are lost only with their
\* connection: never between two queues, by a full queue, by a reconnect that
\* overtakes a cleanup, or because two connections of the agent overlap.
ImplementsJobs == Promise!Spec
=============================================================================
