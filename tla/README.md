# NetProb in TLA+

NetProb is a controller with agents: agents connect out to the controller over a
websocket, the controller schedules ping and MTR probes between them, and the
results are kept in SQLite, optionally mirrored to VictoriaMetrics, and shown in
a web UI.  This directory holds TLA+ models of the controller and of the agent,
TLC configurations that check them on small instances, and TLAPS proofs of the
properties that matter most.

## Inventory

| Component | Code | State | Operations | What is hard | What makes it correct |
|---|---|---|---|---|---|
| Connection hub | `server/hub.go`, `websocket.go` | `Hub.agents`, one `AgentConn` (Send, Stop, Done) per websocket, `agents.online` | register, replace, remove, dispatch, disconnect, close | reconnects racing with cleanup; a handler and a pump per connection; shutdown and deletion racing with handshakes | one current connection per agent, the column agrees with the map, nothing superseded keeps running |
| Scheduler | `scheduler/scheduler.go` | directions with `lastPing`, `lastMTR` | refresh every 5 s, tick every 1 s | the list is read outside the lock; dispatch follows the unlock; a failed dispatch has used up its slot | probes keep their interval and never starve, edits arrive |
| Agent | `cmd/netprob/agent.go` | job queue, workers, the connection | connect, keepalive, read, work, reconnect | a full queue; disconnects with jobs queued or running; one mutex for all writers | one generation of workers at a time, no job lost or answered twice, shutdown ends |
| Relational store | `storage/*_repo.go`, `handlers.go` | agents, links, directions, results | create, delete, insert of results, cleanup | late results, deletions table by table, links emptied by a deletion | operations show whole or not at all, what comes late leaves nothing, deletions are never refused |
| Enrollment | `storage/agent_repo.go` | token and instance of each row | resolve | instances competing for one pending row, deletion in between | one identity per token and instance, for good |
| History, retention, link status | `settings_repo.go`, `server.go`, `results_repo.go`, `dashboard_repo.go` | settings, samples | save a result, update, clean up, classify | late samples, cleanups by settings read earlier | the latest sample moves forward, zero keeps, expired goes |
| Administrator sessions, login limit | `auth.go`, `admin_repo.go`, `login_rate_limit.go` | sessions, windows | login, logout, change, limit | logins that overlap with changes of the account | not modelled |
| Jobs end to end | `hub.go`, `agent.go`, `scheduler.go` | queues at both ends, the wire | dispatch, write, read, probe, answer, handle | seven places a job can be in, and two connections of one agent that overlap | a job ends once, and is lost only with its connection |
| Time limits | `hub.go`, `agent.go` | tickers and read deadlines | ping, pong, time out | the hub does not read while it handles results; the deadlines are the only notice of a dead network | a live connection is closed for silence only when results kept its ping unread too long, a dead one in time |
| Migrations, startup | `migrations.go`, `migrations/*.sql`, `store.go`, `cmd/netprob/server.go` | schema version, databases of older releases | read the version, execute, record, commit | a crash between any two statements, an unreadable version, orphans that the constraints refuse | the schema is what it records, only orphans go, the controller gets to serve |
| Metrics export | `store.go`, `victoriametrics.go`, `server.go` | the backend's last inventory | mirror a result, export the inventory | names and tables read by separate queries while requests change them; a backend that is down | only what was committed, names missing only of what is gone, the inventory catches up |
| Probes, network identity | `internal/probe`, `geoip.go`, `network.go` | none | run, parse | output formats | not modelled |
| UI, configuration, build info | `web/`, `grafana/`, `internal/config`, `internal/buildinfo` | none here | display, parse | | not modelled |

How they interact: an agent's hello makes the hub resolve its identity
(Enrollment) and register the connection.  The scheduler reads directions from
the store and hands jobs to the hub, which queues them on the agent's
connection.  The agent answers over the same connection; the hub's handler saves
the result (History) under the foreign keys of the store and then mirrors it to
the metrics backend (Mirror).  Before any of this, startup brings the database
to the schema the rest relies on (Startup).  HTTP handlers change links,
directions, agents and settings at any time, from goroutines of their own, and
everything meets in `Hub.mu`, `Scheduler.mu` and SQLite.

## Modules

| Module | Models | Extends or instantiates |
|---|---|---|
| `Hub` | connection hub | |
| `Presence` | what the hub promises: an abstract specification | |
| `HubPresence` | the refinement mapping from `Hub` to `Presence` | both |
| `Scheduler` | scheduler | |
| `AgentRuntime` | one agent process | |
| `System` | the hub and an agent process joined by their websockets | `Hub`, `AgentRuntime`, `Jobs` |
| `Jobs` | what hub and agent promise together about jobs: an abstract specification | |
| `Keepalive` | pings, deadlines and delays of one websocket, in time units | |
| `Tables` | the tables that refer to each other and their constraints | |
| `Store` | requests, transactions, deletions | `Tables` |
| `Startup` | migrations, from an old database to serving | `Tables` |
| `Mirror` | the metrics backend's samples and inventory | |
| `Enrollment` | `ResolveAgentByTokenAndInstance` | |
| `History` | samples, retention, status of one link | |
| `MC*` | constants and symmetry for TLC | the module they are named after |
| `*Proofs` | theorems | the module they are named after (`HubProofs`: `HubPresence`; `MeasurementProofs`: `History` and `Mirror`; `SystemProofs`: `System` and `Keepalive`), TLAPS |

### Hub

`agents` is the map, `online` the column, `pc` the place of each handler
(`idle`, `resolved`, `greeted`, `displacing`, `reading`, `replying`, `waiting`,
`finished`), `pump` and `hand` the write pump, `send` the queue.  An action is
what happens between two points where another goroutine can come in: a section
under `Hub.mu` together with the status write it contains
(`SetAgentConnection`, `RemoveAgentConnection`), a `stop()` after the unlock
(`StopExisting`), a receive, a write.  `UpdateAgentStatus` may fail when
`Occurs` allows it; `stale` remembers for which agents.  `Hub.Close` is a
snapshot, a stop per connection and a wait per connection; `DisconnectAgent`
runs after the row is gone (`DeleteAgent`, `FindVictim`, `StopVictim`).
`ProcessEnds` is a crash or the end after `Close`; `Restart` starts with an
empty map and the column as it was.  Identities and connections are never
reused.

### Scheduler

Ages replace timestamps: `age` is the age of the stamps in the entries, `since`
the true age whatever became of the entry, both saturating at `Horizon`.
`RefreshLists` reads the table and `RefreshSwaps` replaces the map later;
`TickReadsClock` takes `now`, `TickCollects` uses it up to `MaxLag` later under
the lock, `TickDispatches` hands over one job.  `Edit` writes any settings, so
updates that overwrite each other are included.  A dispatch may fail and the
model, like the code, does nothing about it.

### AgentRuntime

One process over `MaxConns` connections: the main goroutine (dial, hello, read
loop, teardown, backoff), the closer, the keepalive, the workers of each
connection, and the writer's mutex (`holder`).  A probe is the time between
`WorkerTakes` and `ProbeEnds`.  A socket can become `mute` (writes fail, reads
do not yet) or `lost`.

### System

`H` and `A` are instances of `Hub` and `AgentRuntime` over the same variables
plus `toAgent` and `toHub`, what is on the wire of each connection.  A
connection bears the number of the agent's dial.  Most actions are one side's
action with the other side unchanged; the rest tie what one side leaves open to
what the other did: a hello is resolved when it was sent (`Resolve`), a read
returns the head of the wire (`ReadJob`, `HandleResult`), a socket is lost when
the other end has closed or the network takes it (`Loses`, at most `MaxLosses`
times).  `via` and `handled` remember for the properties which connection took
a job and how many of its results the hub has seen.  `Jobs` has a stage per
job; the refinement mapping computes it from where the job is (`UnderWay`).

### Keepalive

Time passes in units, in `Pass` and nowhere else, and only when nothing is due
(`NothingIsDue`).  `tick` is the agent's ticker, `ping` and `answer` what is
under way, `work` what the hub has to do before it reads the ping, `behind`
what arrived after it.  The locks and queues of `Hub` and `AgentRuntime` are
here a delay of at most `Latency`.  The hub saves and mirrors a result in the
goroutine that reads the connection, each result for as long as the database and
the metrics backend make it wait, so nothing is assumed of `Busy`, the time that
the results which wait together take; it may exceed every other time.  `unread`
is a history variable: how much of the agent's present wait a ping lay at the
hub behind results.

### Store

A transaction sees the committed tables until its first write, then writes to
`work`; a write is refused when another transaction writes, or when the
transaction has read and another commit came in between (WAL and
`SQLITE_BUSY_SNAPSHOT`).  `Program` lists the statements of each operation in
the code's order, `Enforced` is the foreign keys and the unique index, checked
at every statement.  A direction goes with its link and a hop with its run
(`ON DELETE CASCADE`), which `Effect` does in the statements that delete links and
runs; every other reference refuses.  Requests stop at any statement (`Fails`,
`Crash`).

### Startup

`done` is the migrations whose effects the schema has, `recorded` their numbers
in `schema_migrations`; `work` is both, and the tables, as the transaction sees
them.  `ReadVersion` may fail, which the code takes for a new database, and
then the first migration runs into what is there.  The five `DELETE`s of
`009_cleanup_orphans.sql` are operators in the file's order, with
`_foreign_keys=on` in force (`CleanupRefused`).  `Crash` and `ExecuteFails` end
the process anywhere.

### Mirror

`at` follows `handleResult` from the save through the four queries of
`metricContext` to the write, `turn` the export from query to query.  Requests
come in between as single steps, since `Store` has their statements.  Every
query may fail (`FindFails`, `ListFails`), the backend may be down at any time,
the process may die (`Restart`), and nothing is written twice.  `deleted`,
`created`, `saved` and `missed` are remembered for the properties.

### Enrollment

The same rules for transactions.  `SeesPending` and `SeesToken` are the reads,
`Claim` and `Insert` the first write, `Commit` the commit, `Refused` every way
to fail.  `Register` and `Delete` commit in one step, and so do the transactions
that write what no enrollment reads, results, statuses and cleanups (`Overtakes`),
which makes snapshots stale all the same.  `Disconnect` makes a process come back.

### History

`samples` are rows of `ping_results` and `mtr_runs`, with the time the agent put
on them, which may be any.  `cleaning` holds the settings a cleanup goes by
between the commit that read or saved them and the one that deletes;
`overtaken` is a history variable, the cleanups under way when a zero was saved.
`LinkStatus` is the SQL classification: a direction counts by its newest sample
(`timestamp DESC, id DESC`).

## What is checked

A passing run also checks the type invariant, as part of the inductive invariant
it is named after (`HistoryInv` is proved and not checked again).

| Run | Instance | Shows |
|---|---|---|
| `hub_two_agents` | 2 agents, 2 connections, deletions, a shutdown, failing status writes, one process end | `PresenceAgrees`, `SupersededIsStopped`, `EntriesChangeInTurn`; `Hub` implements `Presence` |
| `hub_live` | 1 agent, 2 connections, 1 job, queue of 1, keepalives and a shutdown | `EndedFinishes`: what is superseded, lost or closed ends; `LiveIsListed`: what lives on comes to be the listed one; `Close` returns; queued jobs are written unless the pump ends |
| `hub_deleted` (violation) | 1 agent | a deleted agent can stay connected |
| `scheduler` | 1 direction, 2 probes, intervals 1 and 2, late by 1 | `Spacing`; probes go on for ever; edits reach the jobs |
| `agent` | 2 jobs (1 undecodable), 1 worker, queue of 1, 2 connections | `OneGeneration`, `JobsAccounted`; shutdown ends, dead connections are torn down, jobs are answered |
| `system` | 2 jobs, 1 worker, queues of 1, 2 connections, 1 lost socket | `JobsInOnePlace`; hub and agent implement `Jobs` |
| `keepalive` | ping every 6, deadline 12, latency 1, results that wait take up to 6 | `LivesOn`, `EndsInTime` |
| `store_deletions` | 2 agents, 2 links, 2 directions, 2 requests | `AllOrNothing`, `DeletionsPass`, `EmptiedLinksGo` |
| `startup` | 10 migrations, every database with the rows of one direction, 2 failures | `SchemaAgrees`, `OrphansOnly`, `ServesAgain` |
| `mirror` | 2 agents, 1 link, 1 direction, 1 failure, the backend down at any time | `SamplesAreTrue`, `ExportsAreWhole`, `ExportCatchesUp` |
| `enrollment` | 3 processes with 1 token, 2 of them one instance; 5 rows | `SameIdentity`, `IdentityIsKept`, `DeadTokensStayDead`, `Enrolled` |
| `history` | 2 directions, 2 samples, 3 days, hourly loop and one save at a time | `LatestMovesForward`, `OnlyNewsHeals`, `ZeroKeeps`, `ExpiredGo` |

Why the bounds are enough.  Races in the hub are between a connection and the
one that replaces it, and the map is the only thing agents share: two of each.
A keepalive changes nothing but queues, so it is left to `hub_live`, whose
queues carry jobs too; the theorems about presence cover it with the rest.
A queue of one is full and empty as soon as a queue of 100 would be.  A
scheduler entry never looks at another entry's stamps, so one direction, with
two probes because they share the entry and the tick; intervals 1 and 2 make an
edit shorten and lengthen, a lag of one lets time pass between `now` and the
lock.  In the agent, two jobs fill the queue and have one refused; two
connections are a generation and the next.  One worker is what liveness leaves
time for: the workers of a connection share nothing but the queue and the mutex,
and `AgentInv`, `OneGeneration` and `JobsAccounted` are proved for any number of
workers and jobs, `SystemInv` and `ImplementsJobs` for any number of jobs,
workers, places in the queues and connections.  In the
system two jobs are in two places at once, two connections overlap while the
hub still handles the first, and one loss by the network comes on top of the
closings of either end.  In the keepalive a deadline of 12 leaves 4 beside a
period and two delays; results of up to 6 exceed that, so that a live connection
is closed in the run after its ping lay unread for exactly 4, and not after less
(`LivesOn`).  The theorem covers the code's 30 and 60 seconds and any `Busy`.
In the store two links and two directions give the link that is
emptied and the one that is not, and two requests are a deletion and whatever
overtakes it.  At startup rows of different directions do not refer to each
other, so all databases with the rows of one, and two failures are a crash and
another while the controller recovers.  In the mirror the names of a
result take four queries and an inventory three, between all of which one
direction and what it refers to come and go; one failure, besides the backend's,
is one query, one save or one crash at any point.  In enrollment two
equal and one unequal process make all pairs.  In the history two samples are an
older and a newer one.  `Horizon`, `MaxLag`, `MaxDowns`, `MaxConns`, `MaxTime`,
`MaxSamples`, `MaxLosses` and `MaxFailures` are the bounds on counters; each is
a constant and the proofs hold for every value of it.  Runs with liveness
properties use no symmetry.

Deadlock is checked in every run.  Where a system may come to rest, the end is
an action of its own that changes nothing (`AllServed` when the hub has used up
its connections, `Stopped` when the agent's process has ended, `Rests` when the
dials of `System` are used up or `Startup` has got to serving), so that any
other halt is reported.

### Fairness

- Hub: weak fairness of each handler, each pump, each deletion and `Close`.
  Goroutines that can run do run, and reads and writes have deadlines.  Nothing
  makes a peer connect or send, or the process end.
- Scheduler: weak fairness of time, of the refresh and of the tick; they are
  tickers in `for`/`select` loops.
- Agent: weak fairness of every goroutine; strong fairness where one competes
  for the writer's mutex, since Go's mutex hands over to a waiter that has
  starved for a millisecond; and a mute socket is lost eventually, when the
  controller's read deadline passes.
- System, Keepalive: none; their properties are about safety.  (That time does
  not stop in `Keepalive` is no assumption on it: `EndsInTime` bounds what may be
  pending while it passes.)
- Startup: weak fairness of each step, the start of the process included:
  whoever runs the controller starts it again.
- Mirror: weak fairness of the export, a ticker in a `for`/`select` loop whose
  requests have timeouts.  Nothing makes results arrive or the backend return.
- Enrollment: weak fairness of each process's attempts.  `Enrolled` needs the
  administrator, the network and the other writers of the database to rest at
  last, which is its hypothesis: a result or a status committed between the reads
  and the write of every attempt would refuse every one of them, and nothing in
  the code rules that out.
- History: weak fairness of the hourly read; strong fairness of the hourly
  cleanup, that is, it does not fail every time for ever.

### Where code and documentation differ

- `hub_deleted`: `HandleDeleteAgent` stops the connection listed after the
  delete; a handshake that resolved the row before registers later.  README.md:396
  says that deleting an agent also disconnects it.

Met while modelling, and in the models, without a run of their own:

- `Hub.Close` works on a snapshot while the HTTP server still accepts
  (`CloseSnapshot` in `Hub`), so a connection can outlive it.  hub.go:146 says
  that it stops every active connection.
- Nothing resets `agents.online` at startup (`Restart` in `Hub`), so after a
  crash an agent that does not return counts as online.  README.md:406 says that
  `Inactive` means no source direction is online.
- A cleanup deletes by the settings of an earlier commit.  README.md:410 says
  that zero keeps the history forever.  How far this goes is `ZeroKeeps`, which
  is checked and proved: as long as the zero stands, only cleanups already under
  way when it was saved delete, each of them once.
- store.go:79 calls the exported inventory a point-in-time snapshot; it is three
  queries.  How far this goes is `ExportsAreWhole`.
- Not about a document: one request to the metrics backend may take 30 seconds
  (victoriametrics.go:30), as long as the agent's ping period, in the goroutine
  that reads the agent's messages (hub.go:389), and several results may wait.
  A backend that hangs can so have the agent close a connection that nothing
  happened to.  When is what `LivesOn` says, which is checked and proved: only
  after a ping lay unread for 30 seconds less the delays of the messages, and
  never by the hub's deadline.

## What is proved

The theorems hold for all values of the constants that satisfy the named
assumptions: `ConstantsAssumption` and `MessagesAssumption` (Hub: the "no such"
values are not values; the queue has room for one), `SchedulerAssumption`
(`Horizon` is past every interval plus the lag), `AgentAssumption`,
`SystemAssumption` (messages that differ, queues with room for one),
`StoreAssumption`, `StartupAssumption`, `EnrollmentAssumption`,
`HistoryAssumption`, `MirrorAssumption`, `DelaysAssumption` (Keepalive: a message
arrives before the next ping is due, and the deadline leaves room for a period
and two messages; nothing about how long results take).

| Module | Theorems | Argument |
|---|---|---|
| `HubProofs` | `HubInvariant`, `TypeCorrect`, `PresenceCorrect`, `SupersededCorrect`, `ListedCorrect`, `EntriesCorrect` | `HubInv` is inductive.  The four safety properties need each other, and three facts besides: agents without a row are offline, a handshake past its resolve has a row that was once present, and what `Close` awaits has been stopped. |
| | `HubImplementsPresence` | each step of `Hub` is one of `Presence` or leaves `agents` and `Life` alone, from `HubInv` |
| `SchedulerProofs` | `StampsCorrect`, `SpacingCorrect` | `Spacing` speaks of true ages, the code of the stamps in entries that refreshes rebuild; `StampsAreTrue` ties the two together |
| `AgentRuntimeProofs` | `AgentInvariant`, `GenerationCorrect` | a generation ends only if every goroutine does, which depends on who may hold the mutex (`HolderWrites`) |
| | `JobsPlacedCorrect`, `JobsAccountedCorrect` | the positions of a job instead of their number: it is once in the queue, in a hand, with the reader or answered (`OnePlace`), and somewhere while its socket is open (`SomePlace`) |
| `StoreProofs` | `StoreInvariant`, `DeletionsCorrect` | what a deletion has swept stays swept while it holds the write lock (`Swept`), so that its later statements satisfy the constraints |
| | `AllOrNothingCorrect` | the writing transaction's view is what its first statements make of the committed tables, table by table (`Done`, `WorkIsDone`), which nobody else commits to meanwhile; so a commit, which comes after the last statement, keeps the promise (`DoneKeepsPromise`), and that the row of a late result is still there follows from the constraints on the view |
| | `EmptiedLinksCorrect` | `DeleteAgent` writes only while its snapshot is fresh, so what it has collected is what is committed (`CollectedIsTrue`); each statement adds its part (`Removed`) |
| `StartupProofs` | `StartupInvariant`, `OrphansOnlyCorrect`, `CleanupNeverFails` | what the five `DELETE`s leave of any database, table by table (`Cleaned`), is sound, and every row that is missing would break it; the recorded numbers are a beginning, and a step commits the next of them or one that is there |
| `EnrollmentProofs` | `EnrollmentInvariant`, `SameIdentityCorrect`, `IdentityCorrect`, `DeadTokensCorrect` | what an attempt has read is true until a commit makes its snapshot stale, and a stale one does not write |
| `MeasurementProofs` | `HistoryInvariant`, `LatestCorrect`, `OnlyNewsCorrect`, `ZeroKeepsCorrect` | samples are totally ordered by time and id; a cleanup takes the whole past of a direction's samples up to a time; under a zero, a cleanup with a limit is one that the zero overtook (in `HistoryInv`) |
| | `MirrorCorrect` | the tables never dangle (`Referential`), so what a query does not find is deleted and what a later list lacks is created after the earlier one; `Asked` and `Listed` say which queries are done at which step |
| `SystemProofs` | `SystemComposesSides` | a step of `System` is a step of the hub, of the agent or of both, so what is proved of either side holds here |
| | `SystemCorrect` | the positions of a job again, over both ends and the wires: see below |
| | `SystemImplementsJobs` | a job under way means an open way, a lost one a broken connection (`StagesAgree`); a broken connection stays broken (`NoRevival`), and a step breaks at most one (`BrokenGrows`), so it is explained by one step of `Jobs` |
| | `KeepaliveCorrect` | how long an end has waited is bounded above from the last tick of the ticker while the connection lives, the time that a ping lay unread aside (`WaitingIsShort`), and below from the start of the silence when it does not (`WaitingIsLong`) |

`SystemInv` counts the places a job is in, and a count says nothing about which
place it was when a step takes one away.  `SystemInductive` therefore has them by
position.  A job that waits for the agent is in the hub's queue, in the pump's
hand or on the wire, once (`OutOnce`); the agent carries it in the places that
`JobsPlaced` tells apart; its results are on the way back once (`BackOnce`).
`OnTrack` says that a job is in one of these three parts at most, nowhere but on
the connection that took it (`via`), and somewhere on it as long as that is
healthy.  To keep this, three things are needed: the invariants of both sides
(`EachSide`), what a handler of the hub may have open (`HubSide`), and that
nothing is sent or taken on a connection before both ends have got that far
(`Reached`).  Most actions only carry jobs forward within their part (`Carries`),
and one lemma covers them all; a dispatch, a read, an answer and a handled result
are the steps that lead from one part to the next, with a lemma each.  `SystemInv`
then follows by counting a set with one element at most (`CountPlaces`).

Only model-checked: everything under fairness, since TLAPS has no `ENABLED` here.
These are the temporal properties of `hub_live`, `ProbedForever`,
`EditsReachJobs`, `ShutdownTerminates`, `LossIsNoticed`, `JobIsAnswered`,
`Enrolled`, `ExpiredGo`, `ServesAgain` and `ExportCatchesUp`.  Every invariant,
action property and refinement that a passing run checks is a theorem.

## What is not modelled

- Formats: JSON, SQL text, the parsing of ping and MTR output, timestamps as
  text, addresses, the names and values of metrics.
- Administrator sessions, password hashing and the login limit: they touch
  nothing that agents, jobs or results depend on, and are a subject of their own.
- The repository's read-only pages: totals, rows and their links come from
  separate queries (dashboard_repo.go:150), which is visible for one page load.
- Columns of a direction one by one: an edit is any change of settings, so that
  of two updates at once either may win (handlers.go:499).
- Intervals past 2^63 nanoseconds, about 292 years (scheduler.go:133).
- Configuration, build information, the UI, the dashboards.

## Plan

1. Written: `Hub`, `Presence`, `HubPresence`, `Scheduler`, `AgentRuntime`,
   `Store`, `Enrollment`, `History` and their proofs, in this order, the core of
   the system first; then `System` over `Jobs`, `Startup` and `Store` over
   `Tables`, `Mirror`, `Keepalive` and the proofs about them.
2. Links with several directions whose agents come and go: `History` over the
   `online` column that `Hub` maintains, instead of one that changes at will.
3. Proofs left: that `Enrollment`'s rows give `Hub` the identities it takes for
   granted, which joins the two as `System` joins hub and agent.
