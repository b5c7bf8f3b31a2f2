------------------------------- MODULE Store -------------------------------
(***************************************************************************)
(* The relational data of the controller (internal/storage): agents,       *)
(* links, directions and probe history in SQLite, and the API handlers and *)
(* background jobs that change them, statement by statement.               *)
(*                                                                         *)
(* SQLite gives every request a connection of its own: one transaction     *)
(* writes at a time (WAL), readers see the last commit, a transaction that *)
(* has read before it writes is refused when another commit came between,  *)
(* and with _foreign_keys=on every statement is checked.                   *)
(***************************************************************************)
EXTENDS Naturals, Sequences, FiniteSets, Tables

CONSTANTS
    Request,           \* requests and background jobs in progress
    NoTask, NoOne

Task ==
    [op : {"createAgent", "deleteAgent"}, agent : Agent]
    \cup [op : {"createLink", "deleteLink"}, link : Link]
    \cup [op : {"createDirection", "savePing", "saveRun"}, row : Row]
    \cup [op : {"cleanUp"}, old : SUBSET Row]

ASSUME StoreAssumption == NoOne \notin Request /\ NoTask \notin Task

VARIABLES
    committed,  \* the database as readers see it
    work,       \* as the writing transaction sees it; Empty without one
    writer,     \* the request whose transaction writes, or NoOne
    task,       \* Request -> what it does, or NoTask
    step,       \* Request -> statements it has executed
    reader,     \* Request -> its transaction's snapshot: "none", "fresh", "stale"
    collected,  \* Request -> linkIDs of DeleteAgent
    issued      \* directions for which a job, and so a result, may exist

vars == <<committed, work, writer, task, step, reader, collected, issued>>

TypeOK ==
    /\ committed \in Db
    /\ work \in Db
    /\ writer \in Request \cup {NoOne}
    /\ task \in [Request -> Task \cup {NoTask}]
    /\ step \in [Request -> Nat]
    /\ reader \in [Request -> {"none", "fresh", "stale"}]
    /\ collected \in [Request -> SUBSET Link]
    /\ issued \in SUBSET Row

Init ==
    /\ committed = Empty
    /\ work = Empty
    /\ writer = NoOne
    /\ task = [r \in Request |-> NoTask]
    /\ step = [r \in Request |-> 0]
    /\ reader = [r \in Request |-> "none"]
    /\ collected = [r \in Request |-> {}]
    /\ issued = {}

----------------------------------------------------------------------------
(* The constraints, enforced statement by statement.                       *)

Enforced(db) == Unique(db) /\ ForeignKeys(db)

----------------------------------------------------------------------------
(* The statements.                                                         *)

\* Mutant of Concerns: an agent's deletion forgets the directions towards it.
ConcernsAsSource(t, d) ==
    \/ t.op = "deleteAgent" /\ t.agent = d.source
    \/ t.op = "deleteLink" /\ t.link = d.link
    \/ t.op = "cleanUp" /\ d \in t.old

\* The rows a deletion or a cleanup is about.
Concerns(t, d) ==
    \/ t.op = "deleteAgent" /\ t.agent \in Endpoints(d)
    \/ t.op = "deleteLink" /\ t.link = d.link
    \/ t.op = "cleanUp" /\ d \in t.old

Program(t) ==
    CASE t.op = "createAgent"     -> <<"insertAgent">>
      [] t.op = "createLink"      -> <<"insertLink">>
      [] t.op = "createDirection" -> <<"findLink", "findSource", "findDestination", "insertDirection">>
      [] t.op = "savePing"        -> <<"insertPing">>
      [] t.op = "saveRun"         -> <<"insertRun", "insertHops">>
      [] t.op = "deleteAgent"     -> <<"collect", "hops", "runs", "pings", "directions", "links", "agent">>
      [] t.op = "deleteLink"      -> <<"hops", "runs", "pings", "directions", "link">>
      [] t.op = "cleanUp"         -> <<"pings", "hops", "runs">>

\* What the statement s of task t, with linkIDs ls, makes of db.  The hops of a
\* deleted run and the directions of a deleted link go with it (ON DELETE
\* CASCADE); "links" deletes only links without directions.
Effect(s, t, ls, db) ==
    CASE s = "insertAgent"     -> [db EXCEPT !.agents = @ \cup {t.agent}]
      [] s = "insertLink"      -> [db EXCEPT !.links = @ \cup {t.link}]
      [] s = "insertDirection" -> [db EXCEPT !.directions = @ \cup {t.row}]
      [] s = "insertPing"      -> [db EXCEPT !.pings = @ \cup {t.row}]
      [] s = "insertRun"       -> [db EXCEPT !.runs = @ \cup {t.row}]
      [] s = "insertHops"      -> [db EXCEPT !.hops = @ \cup {t.row}]
      [] s = "hops"  -> [db EXCEPT !.hops = {h \in @ : ~(h \in db.runs /\ Concerns(t, h))}]
      [] s = "runs"  -> [db EXCEPT !.runs = {x \in @ : ~Concerns(t, x)},
                           !.hops = {h \in @ : ~(h \in db.runs /\ Concerns(t, h))}]
      [] s = "pings" -> [db EXCEPT !.pings = {x \in @ : ~Concerns(t, x)}]
      [] s = "directions" -> [db EXCEPT !.directions = {x \in @ : ~Concerns(t, x)}]
      [] s = "links" -> [db EXCEPT !.links =
                           {l \in @ : l \in ls => \E d \in db.directions : d.link = l}]
      [] s = "agent" -> [db EXCEPT !.agents = @ \ {t.agent}]
      [] s = "link"  -> [db EXCEPT !.links = @ \ {t.link},
                           !.directions = {d \in @ : d.link # t.link}]

Checks == {"findLink", "findSource", "findDestination"}

\* GetLinkByID and GetAgentByID find what they look for.
Found(s, t) ==
    \/ s = "findLink" /\ t.row.link \in committed.links
    \/ s = "findSource" /\ t.row.source \in committed.agents
    \/ s = "findDestination" /\ t.row.destination \in committed.agents

Running(r) == task[r] # NoTask /\ step[r] < Len(Program(task[r]))

Statement(r) == Program(task[r])[step[r] + 1]

----------------------------------------------------------------------------
(* Requests and jobs start.  Identities are fresh UUIDs; that of a deleted *)
(* agent or link, of which no row is left, may stand for a new one.        *)

Starts(r, t) ==
    /\ task[r] = NoTask
    /\ task' = [task EXCEPT ![r] = t]
    /\ step' = [step EXCEPT ![r] = 0]
    /\ UNCHANGED <<committed, work, writer, reader, collected, issued>>

Taken == {r \in Request : task[r] # NoTask}

CreateAgent(r, a) ==
    /\ a \notin committed.agents
    /\ \A q \in Taken : task[q] # [op |-> "createAgent", agent |-> a]
    /\ Starts(r, [op |-> "createAgent", agent |-> a])

CreateLink(r, l) ==
    /\ l \notin committed.links
    /\ \A q \in Taken : task[q] # [op |-> "createLink", link |-> l]
    /\ Starts(r, [op |-> "createLink", link |-> l])

CreateDirection(r, d) ==
    /\ \A x \in issued : x.id # d.id
    /\ \A q \in Taken : task[q].op = "createDirection" => task[q].row.id # d.id
    /\ Starts(r, [op |-> "createDirection", row |-> d])

DeleteAgent(r, a) == Starts(r, [op |-> "deleteAgent", agent |-> a])

DeleteLink(r, l) == Starts(r, [op |-> "deleteLink", link |-> l])

\* A result arrives, however late; a run identity is new.
SavePingResult(r, d) == d \in issued /\ Starts(r, [op |-> "savePing", row |-> d])

SaveMTRRun(r, d) ==
    /\ d \in issued
    /\ d \notin committed.runs
    /\ \A q \in Taken : task[q] # [op |-> "saveRun", row |-> d]
    /\ Starts(r, [op |-> "saveRun", row |-> d])

\* The results in old are past both cutoffs.
CleanupExpiredProbeHistory(r, old) ==
    old # {} /\ Starts(r, [op |-> "cleanUp", old |-> old])

----------------------------------------------------------------------------
(* Their steps.                                                            *)

\* The task fails; its transaction, if it wrote, is rolled back.
Fails(r) ==
    /\ task' = [task EXCEPT ![r] = NoTask]
    /\ reader' = [reader EXCEPT ![r] = "none"]
    /\ collected' = [collected EXCEPT ![r] = {}]
    /\ writer' = IF writer = r THEN NoOne ELSE writer
    /\ work' = IF writer = r THEN Empty ELSE work
    /\ step' = [step EXCEPT ![r] = 0]

\* One of the checks of HandleCreateDirection, a query of its own.
Check(r) ==
    /\ Running(r)
    /\ Statement(r) \in Checks
    /\ IF Found(Statement(r), task[r])
       THEN /\ step' = [step EXCEPT ![r] = @ + 1]
            /\ UNCHANGED <<work, writer, task, reader, collected>>
       ELSE Fails(r)
    /\ UNCHANGED <<committed, issued>>

\* Mutant of Collect: the query is made outside the transaction.
CollectOutside(r) ==
    /\ Running(r)
    /\ Statement(r) = "collect"
    /\ collected' = [collected EXCEPT ![r] =
         {d.link : d \in {x \in committed.directions : Concerns(task[r], x)}}]
    /\ step' = [step EXCEPT ![r] = @ + 1]
    /\ UNCHANGED <<committed, work, writer, task, reader, issued>>

\* The query DeleteAgent begins its transaction with.
Collect(r) ==
    /\ Running(r)
    /\ Statement(r) = "collect"
    /\ collected' = [collected EXCEPT ![r] =
         {d.link : d \in {x \in committed.directions : Concerns(task[r], x)}}]
    /\ reader' = [reader EXCEPT ![r] = "fresh"]
    /\ step' = [step EXCEPT ![r] = @ + 1]
    /\ UNCHANGED <<committed, work, writer, task, issued>>

\* Mutant of Base: the statements are executed outside the transaction.
BaseOutside(r) == committed

\* The database a statement works on.
Base(r) == IF writer = r THEN work ELSE committed

\* A statement that writes; the first one takes the write lock.  It fails when
\* a constraint does, and DeleteAgent when it finds no agent to delete.
Write(r) ==
    LET s  == Statement(r)
        db == Effect(s, task[r], collected[r], Base(r)) IN
    /\ Running(r)
    /\ s \notin Checks \cup {"collect"}
    /\ writer \in {r, NoOne}
    /\ writer = r \/ reader[r] # "stale"
    /\ IF Enforced(db) /\ (s = "agent" => task[r].agent \in Base(r).agents)
       THEN /\ work' = db
            /\ writer' = r
            /\ step' = [step EXCEPT ![r] = @ + 1]
            /\ UNCHANGED <<task, reader, collected>>
       ELSE Fails(r)
    /\ UNCHANGED <<committed, issued>>

\* Another transaction keeps the lock beyond the busy timeout, or has made the
\* snapshot stale.
Busy(r) ==
    /\ Running(r)
    /\ Statement(r) \notin Checks \cup {"collect"}
    /\ writer # r
    /\ writer # NoOne \/ reader[r] = "stale"
    /\ Fails(r)
    /\ UNCHANGED <<committed, issued>>

\* Mutant of Commit: the deferred call commits on every path out of the
\* function, the error returns included, where it should roll back.
CommitUnfinished(r) ==
    /\ task[r] # NoTask
    /\ writer = r
    /\ committed' = work
    /\ issued' = issued \cup work.directions
    /\ task' = [task EXCEPT ![r] = NoTask]
    /\ reader' = [q \in Request |->
                    IF q = r \/ reader[q] = "none" THEN "none" ELSE "stale"]
    /\ collected' = [collected EXCEPT ![r] = {}]
    /\ writer' = NoOne
    /\ work' = Empty
    /\ step' = [step EXCEPT ![r] = 0]

\* Commit, or the implicit commit of a single statement.
Commit(r) ==
    /\ task[r] # NoTask
    /\ writer = r
    /\ step[r] = Len(Program(task[r]))
    /\ committed' = work
    /\ issued' = issued \cup work.directions
    /\ task' = [task EXCEPT ![r] = NoTask]
    /\ reader' = [q \in Request |->
                    IF q = r \/ reader[q] = "none" THEN "none" ELSE "stale"]
    /\ collected' = [collected EXCEPT ![r] = {}]
    /\ writer' = NoOne
    /\ work' = Empty
    /\ step' = [step EXCEPT ![r] = 0]

\* The controller dies and comes back: what was not committed is gone.
Crash ==
    /\ writer' = NoOne
    /\ task' = [r \in Request |-> NoTask]
    /\ step' = [r \in Request |-> 0]
    /\ reader' = [r \in Request |-> "none"]
    /\ collected' = [r \in Request |-> {}]
    /\ work' = Empty
    /\ UNCHANGED <<committed, issued>>

----------------------------------------------------------------------------

Arrives(r) ==
    \/ \E a \in Agent : CreateAgent(r, a) \/ DeleteAgent(r, a)
    \/ \E l \in Link : CreateLink(r, l) \/ DeleteLink(r, l)
    \/ \E d \in Row : CreateDirection(r, d) \/ SavePingResult(r, d) \/ SaveMTRRun(r, d)
    \/ \E old \in SUBSET issued : CleanupExpiredProbeHistory(r, old)

Next ==
    \/ Crash
    \/ \E r \in Request :
          Arrives(r) \/ Check(r) \/ Collect(r) \/ Write(r) \/ Busy(r) \/ Commit(r)

Spec == Init /\ [][Next]_vars

----------------------------------------------------------------------------
(* Properties.                                                             *)

\* A deletion or a cleanup is never refused by the constraints: its statements
\* come in the right order and leave nothing behind, whatever has been saved
\* meanwhile.
DeletionsPass ==
    \A r \in Request :
        writer = r /\ task[r] # NoTask
        /\ task[r].op \in {"deleteAgent", "deleteLink", "cleanUp"}
        /\ step[r] < Len(Program(task[r]))
            => Enforced(Effect(Statement(r), task[r], collected[r], work))

Clean(t, rows) == \A x \in rows : ~Concerns(t, x)

\* What the n statements a deletion has executed so far leave in db.
Swept(t, n, db) ==
    CASE t.op = "deleteAgent" ->
            /\ n >= 1
            /\ n >= 2 => Clean(t, db.hops)
            /\ n >= 3 => Clean(t, db.runs)
            /\ n >= 4 => Clean(t, db.pings)
            /\ n >= 5 => Clean(t, db.directions)
      [] t.op = "deleteLink" ->
            /\ n >= 1 => Clean(t, db.hops)
            /\ n >= 2 => Clean(t, db.runs)
            /\ n >= 3 => Clean(t, db.pings)
            /\ n >= 4 => Clean(t, db.directions)
      [] t.op = "cleanUp" -> n >= 2 => Clean(t, db.hops)
      [] OTHER -> TRUE

\* The inductive invariant.
StoreInv ==
    /\ TypeOK
    /\ Enforced(committed)
    /\ Enforced(work)
    /\ writer # NoOne =>
          task[writer] # NoTask /\ Swept(task[writer], step[writer], work)
    /\ \A r \in Request : r # writer /\ task[r] # NoTask =>
          /\ task[r].op = "deleteAgent" => step[r] <= 1
          /\ task[r].op \in {"deleteLink", "cleanUp"} => step[r] = 0

Without(db, gone) ==
    [db EXCEPT !.directions = @ \ gone, !.pings = @ \ gone,
               !.runs = @ \ gone, !.hops = @ \ gone]

\* What the handler of task t promises of the database it found, old, and the one
\* it leaves, new.  EmptiedLinksGo says which links a deleted agent takes along.
Promises(t, old, new) ==
    \/ /\ t.op = "createAgent"
       /\ new = [old EXCEPT !.agents = @ \cup {t.agent}]
    \/ /\ t.op = "createLink"
       /\ new = [old EXCEPT !.links = @ \cup {t.link}]
    \/ /\ t.op = "createDirection"
       /\ t.row.link \in old.links /\ Endpoints(t.row) \subseteq old.agents
       /\ new = [old EXCEPT !.directions = @ \cup {t.row}]
    \/ /\ t.op = "savePing"
       /\ t.row \in old.directions
       /\ new = [old EXCEPT !.pings = @ \cup {t.row}]
    \/ /\ t.op = "saveRun"
       /\ t.row \in old.directions
       /\ new = [old EXCEPT !.runs = @ \cup {t.row}, !.hops = @ \cup {t.row}]
    \/ /\ t.op = "deleteAgent"
       /\ t.agent \in old.agents
       /\ new = [Without(old, {d \in Row : t.agent \in Endpoints(d)})
                   EXCEPT !.agents = @ \ {t.agent}, !.links = new.links]
    \/ /\ t.op = "deleteLink"
       /\ new = [Without(old, {d \in Row : d.link = t.link})
                   EXCEPT !.links = @ \ {t.link}]
    \/ /\ t.op = "cleanUp"
       /\ new = [old EXCEPT !.pings = @ \ t.old, !.runs = @ \ t.old, !.hops = @ \ t.old]

\* Readers see the database change from one complete operation to the next: a
\* deletion, a cleanup or a traced run, whatever statement it fails or dies at
\* and whatever is done at the same time, leaves all of its rows or none; a
\* result or a direction that comes after the deletion of what it refers to
\* leaves nothing.
AllOrNothing ==
    [][committed' # committed =>
         \E r \in Request : /\ task[r] # NoTask /\ task'[r] = NoTask
                            /\ Promises(task[r], committed, committed')]_vars

\* A deleted agent takes with it exactly the links that lose their last
\* direction: none is left without directions and none other is removed.
EmptiedLinksGo ==
    [][\A r \in Request :
        LET t == task[r] IN
        t # NoTask /\ t.op = "deleteAgent" /\ writer = r /\ committed' # committed =>
          \A l \in committed.links :
            (l \notin committed'.links) <=>
              /\ \E d \in committed.directions : d.link = l /\ t.agent \in Endpoints(d)
              /\ \A d \in committed'.directions : d.link # l]_vars
=============================================================================
