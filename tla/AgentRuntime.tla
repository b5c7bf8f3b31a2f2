---------------------------- MODULE AgentRuntime ----------------------------
(***************************************************************************)
(* The agent process (cmd/netprob/agent.go).  runAgent dials the           *)
(* controller over and over; every connection has a reader, which is the   *)
(* main goroutine inside connectToController, MaxConcurrentJobs workers    *)
(* behind a bounded job queue, a keepalive goroutine and a goroutine that  *)
(* closes the socket when the connection's context ends.  They share one   *)
(* websocketWriter, whose mutex a slow write holds.  Probes are abstracted *)
(* to the time they take.                                                  *)
(***************************************************************************)
EXTENDS Naturals, Sequences, FiniteSets

CONSTANTS
    Job,        \* identities of the jobs the controller may send
    Garbled,    \* those whose payload does not decode
    Slot,       \* the workers of one connection
    QueueSize,  \* capacity of jobQueue
    MaxConns,   \* bound on connections dialled
    NoJob,
    NoOne       \* nobody holds the writer's mutex

Conn  == 1..MaxConns
Actor == Slot \cup {"reader", "keeper"}

ASSUME AgentAssumption ==
    /\ Garbled \subseteq Job
    /\ NoJob \notin Job
    /\ NoOne \notin Actor
    /\ QueueSize \in Nat \ {0}
    /\ MaxConns \in Nat
    /\ {"reader", "keeper"} \cap Slot = {}

VARIABLES
    signalled,  \* the process's context is cancelled (SIGINT or SIGTERM)
    main,       \* the main goroutine
    conn,       \* number of the connection it works on
    socket,     \* Conn -> "none", "open", "mute" (writes fail), "lost", "closed"
    cancelled,  \* Conn -> cancelConnection has been called
    queue,      \* Conn -> jobQueue
    worker,     \* Conn -> Slot -> where the worker is
    doing,      \* Conn -> Slot -> its job
    refusing,   \* the job the reader is rejecting
    closer,     \* Conn -> the goroutine that waits for connCtx
    keeper,     \* Conn -> the keepalive goroutine
    holder,     \* Conn -> who holds websocketWriter.mu
    carried,    \* ghost: Job -> the connection that brought it, or 0
    answers     \* ghost: Job -> results and rejections written for it

vars == <<signalled, main, conn, socket, cancelled, queue, worker, doing,
          refusing, closer, keeper, holder, carried, answers>>

MainStates == {"idle", "dialing", "hello", "top", "reading", "refusing",
               "ponging", "teardown", "closing", "awaiting", "backoff", "stopped"}
Goroutine  == {"none", "waits", "done"}

TypeOK ==
    /\ signalled \in BOOLEAN
    /\ main \in MainStates
    /\ conn \in 0..MaxConns
    /\ socket \in [Conn -> {"none", "open", "mute", "lost", "closed"}]
    /\ cancelled \in [Conn -> BOOLEAN]
    /\ queue \in [Conn -> Seq(Job)]
    /\ worker \in [Conn -> [Slot -> {"none", "checks", "selects", "probes",
                                     "answers", "done"}]]
    /\ doing \in [Conn -> [Slot -> Job \cup {NoJob}]]
    /\ refusing \in Job \cup {NoJob}
    /\ closer \in [Conn -> Goroutine]
    /\ keeper \in [Conn -> Goroutine \cup {"pings"}]
    /\ holder \in [Conn -> Actor \cup {NoOne}]
    /\ carried \in [Job -> 0..MaxConns]
    /\ answers \in [Job -> Nat]

Init ==
    /\ signalled = FALSE
    /\ main = "idle"
    /\ conn = 0
    /\ socket = [c \in Conn |-> "none"]
    /\ cancelled = [c \in Conn |-> FALSE]
    /\ queue = [c \in Conn |-> <<>>]
    /\ worker = [c \in Conn |-> [s \in Slot |-> "none"]]
    /\ doing = [c \in Conn |-> [s \in Slot |-> NoJob]]
    /\ refusing = NoJob
    /\ closer = [c \in Conn |-> "none"]
    /\ keeper = [c \in Conn |-> "none"]
    /\ holder = [c \in Conn |-> NoOne]
    /\ carried = [j \in Job |-> 0]
    /\ answers = [j \in Job |-> 0]

\* connCtx.Done(): the connection's own cancel, or its parent's.
Ended(c) == signalled \/ cancelled[c]

----------------------------------------------------------------------------
(* The environment: the operating system and the network.                  *)

Signal ==
    /\ ~signalled
    /\ signalled' = TRUE
    /\ UNCHANGED <<main, conn, socket, cancelled, queue, worker, doing, refusing,
                   closer, keeper, holder, carried, answers>>

SocketBecomes(c, s) ==
    /\ socket' = [socket EXCEPT ![c] = s]
    /\ UNCHANGED <<signalled, main, conn, cancelled, queue, worker, doing,
                   refusing, closer, keeper, holder, carried, answers>>

\* A write missed its deadline: the library refuses every later one.
GoesMute(c) == socket[c] = "open" /\ SocketBecomes(c, "mute")

\* The controller closes the connection or the network resets it.
LoseSocket(c) == socket[c] \in {"open", "mute"} /\ SocketBecomes(c, "lost")

----------------------------------------------------------------------------
(* runAgent.                                                               *)

MainGoes(s) ==
    /\ main' = s
    /\ UNCHANGED <<signalled, conn, socket, cancelled, queue, worker, doing,
                   refusing, closer, keeper, holder, carried, answers>>

\* The check of ctx at the top of the loop, then the dial.
StartDial ==
    /\ main = "idle"
    /\ ~signalled
    /\ conn < MaxConns
    /\ conn' = conn + 1
    /\ main' = "dialing"
    /\ UNCHANGED <<signalled, socket, cancelled, queue, worker, doing, refusing,
                   closer, keeper, holder, carried, answers>>

DialFails == main = "dialing" /\ MainGoes("backoff")

\* The workers and the closing goroutine start before the hello is sent.
DialSucceeds ==
    /\ main = "dialing"
    /\ main' = "hello"
    /\ socket' = [socket EXCEPT ![conn] = "open"]
    /\ worker' = [worker EXCEPT ![conn] = [s \in Slot |-> "checks"]]
    /\ closer' = [closer EXCEPT ![conn] = "waits"]
    /\ UNCHANGED <<signalled, conn, cancelled, queue, doing, refusing, keeper,
                   holder, carried, answers>>

\* The wait of 5 or 10 seconds before the next attempt.
BackoffEnds == main = "backoff" /\ MainGoes("idle")

AgentReturns == main \in {"idle", "backoff"} /\ signalled /\ MainGoes("stopped")

----------------------------------------------------------------------------
(* The reader of connectToController.                                      *)

\* No other goroutine writes before the hello: the mutex is free.
HelloSent ==
    /\ main = "hello"
    /\ socket[conn] = "open"
    /\ main' = "top"
    /\ keeper' = [keeper EXCEPT ![conn] = "waits"]
    /\ UNCHANGED <<signalled, conn, socket, cancelled, queue, worker, doing,
                   refusing, closer, holder, carried, answers>>

HelloFails == main = "hello" /\ socket[conn] # "open" /\ MainGoes("teardown")

\* The check of ctx before each read.
ReaderChecks ==
    /\ main = "top"
    /\ MainGoes(IF signalled THEN "teardown" ELSE "reading")

Readable == main = "reading" /\ socket[conn] \in {"open", "mute"}

\* Mutant of ReadJob: a job that does not fit is dropped silently.
ReadJobDropping(j) ==
    /\ Readable
    /\ carried[j] = 0
    /\ carried' = [carried EXCEPT ![j] = conn]
    /\ main' = "top"
    /\ queue' = IF Len(queue[conn]) < QueueSize
                THEN [queue EXCEPT ![conn] = Append(@, j)]
                ELSE queue
    /\ UNCHANGED <<signalled, conn, socket, cancelled, worker, doing, refusing,
                   closer, keeper, holder, answers>>

\* A job message: into the queue, or rejected when it is full.
ReadJob(j) ==
    /\ Readable
    /\ carried[j] = 0
    /\ carried' = [carried EXCEPT ![j] = conn]
    /\ \/ /\ Len(queue[conn]) < QueueSize
          /\ queue' = [queue EXCEPT ![conn] = Append(@, j)]
          /\ main' = "top"
          /\ UNCHANGED refusing
       \/ /\ Len(queue[conn]) >= QueueSize
          /\ refusing' = IF j \in Garbled THEN NoJob ELSE j
          /\ main' = IF j \in Garbled THEN "top" ELSE "refusing"
          /\ UNCHANGED queue
    /\ UNCHANGED <<signalled, conn, socket, cancelled, worker, doing, closer,
                   keeper, holder, answers>>

ReadPing == Readable /\ MainGoes("ponging")

\* pong, hello_ok, error, or a message that does not parse.
ReadOther == Readable /\ MainGoes("top")

\* The socket is gone, or nothing came within the 60 seconds of the deadline.
ReadFails == main = "reading" /\ MainGoes("teardown")

Locks(c, a) ==
    /\ holder[c] = NoOne
    /\ holder' = [holder EXCEPT ![c] = a]
    /\ UNCHANGED <<signalled, main, conn, socket, cancelled, queue, worker,
                   doing, refusing, closer, keeper, carried, answers>>

Unlocked(c) == [holder EXCEPT ![c] = NoOne]

Wrote(c, j) == IF socket[c] = "open" THEN [answers EXCEPT ![j] = @ + 1] ELSE answers

ReaderLocks == main \in {"refusing", "ponging"} /\ Locks(conn, "reader")

\* rejectJob: a failed write is only logged.
ReaderRejects ==
    /\ main = "refusing"
    /\ holder[conn] = "reader"
    /\ holder' = Unlocked(conn)
    /\ answers' = Wrote(conn, refusing)
    /\ refusing' = NoJob
    /\ main' = "top"
    /\ UNCHANGED <<signalled, conn, socket, cancelled, queue, worker, doing,
                   closer, keeper, carried>>

ReaderPongs ==
    /\ main = "ponging"
    /\ holder[conn] = "reader"
    /\ holder' = Unlocked(conn)
    /\ main' = IF socket[conn] = "open" THEN "top" ELSE "teardown"
    /\ UNCHANGED <<signalled, conn, socket, cancelled, queue, worker, doing,
                   refusing, closer, keeper, carried, answers>>

\* Mutant of Cancel: the context of the connection is never cancelled.
CancelForgotten == main = "teardown" /\ MainGoes("closing")

\* The deferred function: cancelConnection ...
Cancel ==
    /\ main = "teardown"
    /\ main' = "closing"
    /\ cancelled' = [cancelled EXCEPT ![conn] = TRUE]
    /\ UNCHANGED <<signalled, conn, socket, queue, worker, doing, refusing,
                   closer, keeper, holder, carried, answers>>

\* Mutant of CloseSocket: the wait for the goroutines is left out.
CloseWithoutWait ==
    /\ main = "closing"
    /\ main' = "backoff"
    /\ socket' = [socket EXCEPT ![conn] = "closed"]
    /\ UNCHANGED <<signalled, conn, cancelled, queue, worker, doing, refusing,
                   closer, keeper, holder, carried, answers>>

\* ... conn.Close ...
CloseSocket ==
    /\ main = "closing"
    /\ main' = "awaiting"
    /\ socket' = [socket EXCEPT ![conn] = "closed"]
    /\ UNCHANGED <<signalled, conn, cancelled, queue, worker, doing, refusing,
                   closer, keeper, holder, carried, answers>>

Quiet(c) ==
    /\ \A s \in Slot : worker[c][s] \in {"none", "done"}
    /\ closer[c] \in {"none", "done"}
    /\ keeper[c] \in {"none", "done"}

\* ... and workerWG.Wait.
AwaitGoroutines == main = "awaiting" /\ Quiet(conn) /\ MainGoes("backoff")

----------------------------------------------------------------------------
(* The other goroutines of a connection.                                   *)

CloserCloses(c) ==
    /\ closer[c] = "waits"
    /\ Ended(c)
    /\ closer' = [closer EXCEPT ![c] = "done"]
    /\ socket' = [socket EXCEPT ![c] = "closed"]
    /\ UNCHANGED <<signalled, main, conn, cancelled, queue, worker, doing,
                   refusing, keeper, holder, carried, answers>>

KeeperGoes(c, s) ==
    /\ keeper' = [keeper EXCEPT ![c] = s]
    /\ UNCHANGED <<signalled, main, conn, socket, cancelled, queue, worker,
                   doing, refusing, closer, carried, answers>>

KeeperTicks(c) == keeper[c] = "waits" /\ KeeperGoes(c, "pings") /\ UNCHANGED holder

KeeperEnds(c) ==
    keeper[c] = "waits" /\ Ended(c) /\ KeeperGoes(c, "done") /\ UNCHANGED holder

KeeperLocks(c) == keeper[c] = "pings" /\ Locks(c, "keeper")

\* Mutant of KeeperPings: a failed write keeps the mutex.
KeeperPingsLeaking(c) ==
    /\ keeper[c] = "pings"
    /\ holder[c] = "keeper"
    /\ holder' = IF socket[c] = "open" THEN Unlocked(c) ELSE holder
    /\ KeeperGoes(c, IF socket[c] = "open" THEN "waits" ELSE "done")

\* A failed ping ends the keepalive and nothing else.
KeeperPings(c) ==
    /\ keeper[c] = "pings"
    /\ holder[c] = "keeper"
    /\ holder' = Unlocked(c)
    /\ KeeperGoes(c, IF socket[c] = "open" THEN "waits" ELSE "done")

WorkerGoes(c, s, to) == worker' = [worker EXCEPT ![c][s] = to]

\* The check of connCtx at the top of the loop.
WorkerChecks(c, s) ==
    /\ worker[c][s] = "checks"
    /\ WorkerGoes(c, s, IF Ended(c) THEN "done" ELSE "selects")
    /\ UNCHANGED <<signalled, main, conn, socket, cancelled, queue, doing,
                   refusing, closer, keeper, holder, carried, answers>>

WorkerStops(c, s) ==
    /\ worker[c][s] = "selects"
    /\ Ended(c)
    /\ WorkerGoes(c, s, "done")
    /\ UNCHANGED <<signalled, main, conn, socket, cancelled, queue, doing,
                   refusing, closer, keeper, holder, carried, answers>>

\* Mutant of WorkerTakes: a payload that does not decode ends the worker.
WorkerTakesOrEnds(c, s) ==
    /\ worker[c][s] = "selects"
    /\ queue[c] # <<>>
    /\ queue' = [queue EXCEPT ![c] = Tail(@)]
    /\ IF Head(queue[c]) \in Garbled
       THEN WorkerGoes(c, s, "done") /\ UNCHANGED doing
       ELSE WorkerGoes(c, s, "probes") /\ doing' = [doing EXCEPT ![c][s] = Head(queue[c])]
    /\ UNCHANGED <<signalled, main, conn, socket, cancelled, refusing, closer,
                   keeper, holder, carried, answers>>

\* The second select may still take a job when the connection has ended.
WorkerTakes(c, s) ==
    /\ worker[c][s] = "selects"
    /\ queue[c] # <<>>
    /\ queue' = [queue EXCEPT ![c] = Tail(@)]
    /\ IF Head(queue[c]) \in Garbled
       THEN WorkerGoes(c, s, "checks") /\ UNCHANGED doing
       ELSE WorkerGoes(c, s, "probes") /\ doing' = [doing EXCEPT ![c][s] = Head(queue[c])]
    /\ UNCHANGED <<signalled, main, conn, socket, cancelled, refusing, closer,
                   keeper, holder, carried, answers>>

\* The probe ends by itself, at its timeout or because connCtx has ended; its
\* result, good or bad, is always reported.
ProbeEnds(c, s) ==
    /\ worker[c][s] = "probes"
    /\ WorkerGoes(c, s, "answers")
    /\ UNCHANGED <<signalled, main, conn, socket, cancelled, queue, doing,
                   refusing, closer, keeper, holder, carried, answers>>

WorkerLocks(c, s) == worker[c][s] = "answers" /\ Locks(c, s)

\* writeJobResult: a failed write is only logged and the result is lost.
WorkerWrites(c, s) ==
    /\ worker[c][s] = "answers"
    /\ holder[c] = s
    /\ holder' = Unlocked(c)
    /\ answers' = Wrote(c, doing[c][s])
    /\ doing' = [doing EXCEPT ![c][s] = NoJob]
    /\ WorkerGoes(c, s, "checks")
    /\ UNCHANGED <<signalled, main, conn, socket, cancelled, queue, refusing,
                   closer, keeper, carried>>

----------------------------------------------------------------------------

Dialling == StartDial \/ DialFails \/ DialSucceeds \/ BackoffEnds \/ AgentReturns
Reading  == (\E j \in Job : ReadJob(j)) \/ ReadPing \/ ReadOther \/ ReadFails
Reader   == \/ HelloSent \/ HelloFails \/ ReaderChecks \/ Reading
            \/ ReaderLocks \/ ReaderRejects \/ ReaderPongs
Teardown == Cancel \/ CloseSocket \/ AwaitGoroutines
Keeper(c)    == KeeperEnds(c) \/ KeeperLocks(c) \/ KeeperPings(c)
Worker(c, s) == \/ WorkerChecks(c, s) \/ WorkerStops(c, s) \/ WorkerTakes(c, s)
                \/ ProbeEnds(c, s) \/ WorkerLocks(c, s) \/ WorkerWrites(c, s)

\* The process has returned from runAgent.
Stopped == main = "stopped" /\ UNCHANGED vars

Next ==
    \/ Signal \/ Dialling \/ Reader \/ Teardown \/ Stopped
    \/ \E c \in Conn :
          \/ GoesMute(c) \/ LoseSocket(c)
          \/ CloserCloses(c) \/ KeeperTicks(c) \/ Keeper(c)
          \/ \E s \in Slot : Worker(c, s)

Spec == Init /\ [][Next]_vars

\* Every goroutine keeps running and no write, probe or read outlasts its
\* deadline; the mutex is granted to whoever keeps asking for it (sync.Mutex
\* hands over to a waiter that has starved); a silent agent is closed by the
\* controller's own read deadline.
Fairness ==
    /\ WF_vars(Dialling \/ Reader \/ Teardown)
    /\ WF_vars(ReaderRejects \/ ReaderPongs)
    /\ SF_vars(ReaderLocks)
    /\ \A c \in Conn :
        /\ WF_vars(CloserCloses(c))
        /\ WF_vars(Keeper(c))
        /\ SF_vars(KeeperLocks(c))
        /\ WF_vars(socket[c] = "mute" /\ LoseSocket(c))
        /\ \A s \in Slot : WF_vars(Worker(c, s)) /\ SF_vars(WorkerLocks(c, s))

FairSpec == Spec /\ Fairness

----------------------------------------------------------------------------
(* Properties.                                                             *)

\* The main goroutine is between connections.
Between == main \in {"idle", "dialing", "backoff", "stopped"}

\* A new connection is dialled, and the process ends, only after every
\* goroutine of the old connections has ended and their sockets are closed: so
\* no more than MaxConcurrentJobs probes ever run.
OneGeneration ==
    \A c \in Conn :
        (c # conn \/ Between) => Quiet(c) /\ socket[c] \in {"none", "closed"}

Occurrences(j, c) ==
    Cardinality({k \in 1..Len(queue[c]) : queue[c][k] = j}) +
    Cardinality({s \in Slot : doing[c][s] = j}) +
    (IF refusing = j THEN 1 ELSE 0) + answers[j]

\* Every job that arrives is answered at most once; while its connection can
\* write, it waits in one place or has its answer: no job is lost between the
\* reader, a full queue, the workers and the mutex.
JobsAccounted ==
    \A j \in Job : \A c \in Conn :
        carried[j] = c =>
            /\ Occurrences(j, c) <= 1
            /\ socket[c] = "open" /\ j \notin Garbled => Occurrences(j, c) = 1

\* Only the goroutine that is about to write holds the mutex.
HolderWrites ==
    \A c \in Conn :
        /\ holder[c] = "reader" => c = conn /\ main \in {"refusing", "ponging"}
        /\ holder[c] = "keeper" => keeper[c] = "pings"
        /\ \A s \in Slot : holder[c] = s => worker[c][s] = "answers"

\* The inductive invariant: what the properties above need besides themselves.
AgentInv ==
    /\ TypeOK
    /\ OneGeneration
    /\ HolderWrites
    /\ main \notin {"idle", "stopped"} => conn \in Conn
    /\ main = "hello" => keeper[conn] \in {"none", "done"}
    /\ main = "awaiting" => socket[conn] = "closed"

\* A signal stops the process, whatever its goroutines are waiting for.
ShutdownTerminates == signalled ~> main = "stopped"

\* A connection that cannot write any more, or is lost, is torn down.
LossIsNoticed ==
    \A c \in Conn : socket[c] \in {"mute", "lost"} ~> socket[c] = "closed" /\ Quiet(c)

\* A job that arrives is answered unless its connection fails or ends.
JobIsAnswered ==
    \A j \in Job \ Garbled : \A c \in Conn :
        carried[j] = c ~> answers[j] > 0 \/ socket[c] # "open" \/ Ended(c)
=============================================================================
