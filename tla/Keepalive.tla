----------------------------- MODULE Keepalive -----------------------------
(***************************************************************************)
(* The time limits of one open websocket.  The agent pings every Period,   *)
(* the hub's handler answers between the results it handles, and each end  *)
(* closes when it has had nothing to read for a Deadline.  The connection  *)
(* must outlive the delays of its messages, and must not outlive its       *)
(* network; what results that keep the hub from reading do to it is said   *)
(* in LivesOn.                                                             *)
(*                                                                         *)
(* Time passes in units; no step but Pass takes any.  What AgentRuntime    *)
(* and Hub do in many steps (locks, queues, the pump) is here a delay of   *)
(* at most Latency.                                                        *)
(***************************************************************************)
EXTENDS Integers

CONSTANTS
    Period,     \* between two pings, 30 s
    Deadline,   \* of a read, 60 s
    Latency,    \* longest way of a message, from the decision to send it
    Busy        \* bound: the time that all results which wait together take the
                \* hub, each of them the database's busy timeout and up to 30 s
                \* of a metrics backend that does not answer

\* A message arrives before the next ping is due, and an answer before the
\* deadline.  With the constants of the code both say 2 * Latency < 30 s.  Of
\* Busy nothing is assumed: it may be longer than any of the others.
ASSUME DelaysAssumption ==
    /\ Period \in Nat /\ Deadline \in Nat /\ Latency \in Nat /\ Busy \in Nat
    /\ Latency < Period
    /\ Period + 2 * Latency < Deadline

VARIABLES
    tick,        \* until the agent's ticker fires
    ping,        \* the last ping: "none" under way, "sent", "arrived"
    work,        \* what the results before it will still take the hub,
    behind,      \* and those that came after it
    answer,      \* under way to the agent: "none", "jobs", "pong"
    answerAge,
    agentWaits,  \* how long the agent's read has had nothing to return
    hubWaits,    \* and the hub's
    unread,      \* how much of agentWaits a ping lay at the hub, behind results
    agent, hub,  \* the ends: "open", "closed"
    lost,        \* "none", the agent's "writer", the "network"
    silence      \* since then

keepaliveVars == <<tick, ping, work, behind, answer, answerAge, agentWaits,
                   hubWaits, unread, agent, hub, lost, silence>>

upVars    == <<ping, work, behind, hubWaits>>
downVars  == <<answer, answerAge, agentWaits, unread>>
ends      == <<agent, hub>>
lossVars  == <<lost, silence>>

\* Everything that was under way has been handled, and both have waited.
LongSilence == Deadline + Busy + 1

KeepaliveTypeOK ==
    /\ tick \in 0..Period
    /\ ping \in {"none", "sent", "arrived"}
    /\ work \in Nat /\ behind \in Nat /\ work + behind <= Busy
    /\ answer \in {"none", "jobs", "pong"}
    /\ answerAge \in 0..Latency
    /\ agentWaits \in 0..Deadline
    /\ hubWaits \in 0..Deadline
    /\ unread \in 0..agentWaits
    /\ agent \in {"open", "closed"}
    /\ hub \in {"open", "closed"}
    /\ lost \in {"none", "writer", "network"}
    /\ silence \in 0..LongSilence

\* The hello was answered; both ends begin to read, the ticker starts.
KeepaliveInit ==
    /\ tick = Period
    /\ ping = "none" /\ work = 0 /\ behind = 0
    /\ answer = "none" /\ answerAge = 0
    /\ agentWaits = 0 /\ hubWaits = 0 /\ unread = 0
    /\ agent = "open" /\ hub = "open"
    /\ lost = "none" /\ silence = 0

----------------------------------------------------------------------------
(* To the hub.                                                             *)

Ping ==
    /\ agent = "open"
    /\ tick = 0
    /\ tick' = Period
    /\ ping' = IF ping = "none" THEN "sent" ELSE ping
    /\ UNCHANGED <<work, behind, hubWaits, downVars, ends, lossVars>>

PingArrives ==
    /\ ping = "sent"
    /\ lost = "none"
    /\ ping' = "arrived"
    /\ hubWaits' = 0
    /\ UNCHANGED <<tick, work, behind, downVars, ends, lossVars>>

\* handleResult will take it w units: it saves the result and mirrors it before
\* the hub reads on.
ResultArrives(w) ==
    /\ lost = "none"
    /\ hub = "open"
    /\ work + behind + w <= Busy
    /\ IF ping = "arrived" THEN behind' = behind + w /\ UNCHANGED work
                           ELSE work' = work + w /\ UNCHANGED behind
    /\ hubWaits' = 0
    /\ UNCHANGED <<tick, ping, downVars, ends, lossVars>>

Sends(m) ==
    /\ answer' = m
    /\ answerAge' = IF answer = "none" THEN 0 ELSE answerAge

\* The pong joins what is under way: it is dropped only when the queue is full
\* of messages that the agent will read in its place.
ReadPing ==
    /\ ping = "arrived"
    /\ work = 0
    /\ hub = "open"
    /\ ping' = "none"
    /\ work' = behind
    /\ behind' = 0
    /\ Sends("pong")
    /\ UNCHANGED <<tick, hubWaits, agentWaits, unread, ends, lossVars>>

----------------------------------------------------------------------------
(* To the agent.                                                           *)

JobsAreSent ==
    /\ hub = "open"
    /\ answer = "none"
    /\ Sends("jobs")
    /\ UNCHANGED <<tick, upVars, agentWaits, unread, ends, lossVars>>

\* Mutant of AgentReads: the deadline is not renewed for a pong.
AgentReadsJobs ==
    /\ answer # "none"
    /\ agent = "open"
    /\ lost # "network"
    /\ IF answer = "jobs" THEN agentWaits' = 0 /\ unread' = 0
                          ELSE UNCHANGED <<agentWaits, unread>>
    /\ answer' = "none"
    /\ answerAge' = 0
    /\ UNCHANGED <<tick, upVars, ends, lossVars>>

\* Every message renews the deadline.
AgentReads ==
    /\ answer # "none"
    /\ agent = "open"
    /\ lost # "network"
    /\ agentWaits' = 0
    /\ unread' = 0
    /\ answer' = "none"
    /\ answerAge' = 0
    /\ UNCHANGED <<tick, upVars, ends, lossVars>>

----------------------------------------------------------------------------
(* Silence.                                                                *)

\* A write of the agent failed, which ends its keepalive (AgentRuntime), or
\* the network carries nothing any more; nobody is told.
Falls(what) ==
    /\ lost = "none"
    /\ lost' = what
    /\ silence' = 0
    /\ UNCHANGED <<tick, upVars, downVars, ends>>

\* A read fails and the end closes its socket, which the other end sees unless
\* the network is gone.
AgentTimesOut ==
    /\ agent = "open"
    /\ agentWaits = Deadline
    /\ agent' = "closed"
    /\ hub' = IF lost = "network" THEN hub ELSE "closed"
    /\ UNCHANGED <<tick, upVars, downVars, lossVars>>

HubTimesOut ==
    /\ hub = "open"
    /\ hubWaits = Deadline
    /\ hub' = "closed"
    /\ agent' = IF lost = "network" THEN agent ELSE "closed"
    /\ UNCHANGED <<tick, upVars, downVars, lossVars>>

----------------------------------------------------------------------------

Carried == answer # "none" /\ agent = "open" /\ lost # "network"

\* What is due is done before time passes.
NothingIsDue ==
    /\ agent = "open" => tick > 0 /\ agentWaits < Deadline
    /\ hub = "open" => hubWaits < Deadline /\ ~(ping = "arrived" /\ work = 0)
    /\ lost = "none" /\ ping = "sent" => Period - tick < Latency
    /\ Carried => answerAge < Latency

Idle == ping # "arrived" /\ work = 0

Pass ==
    /\ NothingIsDue
    /\ IF agent = "open" THEN tick' = tick - 1 /\ agentWaits' = agentWaits + 1
                         ELSE UNCHANGED <<tick, agentWaits>>
    /\ unread' = IF agent = "open" /\ ping = "arrived" THEN unread + 1 ELSE unread
    /\ work' = IF work > 0 THEN work - 1 ELSE work
    /\ hubWaits' = IF hub = "open" /\ Idle THEN hubWaits + 1 ELSE hubWaits
    /\ answerAge' = IF Carried THEN answerAge + 1 ELSE answerAge
    /\ silence' = IF lost # "none" /\ silence < LongSilence THEN silence + 1 ELSE silence
    /\ UNCHANGED <<ping, behind, answer, ends, lost>>

KeepaliveNext ==
    \/ Ping \/ PingArrives \/ ReadPing
    \/ \E w \in 1..Busy : ResultArrives(w)
    \/ JobsAreSent \/ AgentReads
    \/ \E what \in {"writer", "network"} : Falls(what)
    \/ AgentTimesOut \/ HubTimesOut
    \/ Pass

KeepaliveSpec == KeepaliveInit /\ [][KeepaliveNext]_keepaliveVars

----------------------------------------------------------------------------
(* Properties.                                                             *)

\* A connection that nothing happens to is closed for silence in one case only:
\* results that the hub saves and mirrors before it reads on have kept it from a
\* ping for what the agent's deadline leaves beside a period and the delays
\* (30 s less these, with the code's constants), and no job was sent meanwhile.
\* Then the agent closes; the hub's own deadline never strikes.
LivesOn ==
    lost = "none" =>
        /\ hubWaits < Deadline
        /\ agent = "closed" \/ hub = "closed" => unread >= Deadline - Period - 2 * Latency

\* A connection whose network has gone, or whose agent has stopped writing, is
\* closed at both ends within a deadline after the hub has handled the rest,
\* although the agent's pings and the hub's jobs still seem to be sent.
EndsInTime == lost # "none" /\ silence = LongSilence => agent = "closed" /\ hub = "closed"

\* Why: how long either end has waited, counted from the last tick; for the agent
\* without the time that a ping lay unread.  And what it has waited since the
\* silence began.
SinceTick == Period - tick

WaitingIsShort ==
    /\ work > 0 \/ ping = "arrived" => hubWaits = 0
    /\ lost = "none" =>
          /\ agent = hub
          /\ ping = "sent" => SinceTick <= Latency
          /\ hubWaits <= SinceTick + (IF ping = "sent" THEN Period ELSE 0)
          /\ agentWaits - unread <=
                CASE answer = "pong"  -> Period + Latency + answerAge
                  [] answer # "pong" /\ ping = "arrived" -> Period + Latency
                  [] answer # "pong" /\ ping = "sent"    -> Period + SinceTick
                  [] answer # "pong" /\ ping = "none"    -> SinceTick

WaitingIsLong ==
    /\ lost = "network" /\ agent = "open" => agentWaits >= silence
    /\ lost # "none" /\ hub = "open" => hubWaits + Busy >= silence + work + behind
    /\ lost = "writer" => (agent = "open" <=> hub = "open")

KeepaliveInv == KeepaliveTypeOK /\ LivesOn /\ EndsInTime /\ WaitingIsShort /\ WaitingIsLong
=============================================================================
