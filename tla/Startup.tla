------------------------------ MODULE Startup ------------------------------
(***************************************************************************)
(* How the controller gets from a database file to serving requests        *)
(* (runServer, SQLiteStore.ApplyMigrations): it reads the version of the   *)
(* schema and executes the missing migrations, each in a transaction with  *)
(* the insertion of its number; any error ends the process.  Databases of  *)
(* versions before the ninth may hold orphans, rows that refer to rows     *)
(* which are not there; the ninth migration deletes them.                  *)
(***************************************************************************)
EXTENDS Naturals, Tables

CONSTANTS
    Last,          \* schemaVersion, 10
    Cleanup,       \* the migration that deletes orphans, 9
    Found,         \* databases an old controller may have left
    Repeatable,    \* migrations whose statements may be executed twice, 9 and 10
    MaxFailures    \* bound: how often something fails that need not

Migration == 1..Last

ASSUME StartupAssumption ==
    /\ Last \in Nat
    /\ Cleanup \in Repeatable
    /\ Repeatable \subseteq Migration
    /\ Found \subseteq Db
    /\ MaxFailures \in Nat

VARIABLES
    phase,      \* "down", "starting", "migrating", "executed", "recorded", "serving"
    next,       \* local v of ApplyMigrations
    db,         \* the tables, as committed
    done,       \* the migrations the schema has, as committed
    recorded,   \* the numbers in schema_migrations, as committed
    work,       \* all three as the transaction sees them
    failures

vars == <<phase, next, db, done, recorded, work, failures>>

Committed == [db |-> db, done |-> done, recorded |-> recorded]

TypeOK ==
    /\ phase \in {"down", "starting", "migrating", "executed", "recorded", "serving"}
    /\ next \in 1..(Last + 1)
    /\ db \in Db
    /\ done \subseteq Migration
    /\ recorded \subseteq Migration
    /\ work \in [db : Db, done : SUBSET Migration, recorded : SUBSET Migration]
    /\ failures \in 0..MaxFailures

\* A new file, or one that a controller of some version has left.
Init ==
    /\ \E v \in 0..Last : recorded = 1..v
    /\ done = recorded
    /\ db \in Found \cup {Empty}
    /\ done = {} => db = Empty
    /\ Cleanup \in done => ForeignKeys(db)
    /\ phase = "down"
    /\ next = 1
    /\ work = Committed
    /\ failures = 0

----------------------------------------------------------------------------
(* 009_cleanup_orphans.sql, statement by statement.                        *)

Anchored(t, d) == d.link \in t.links /\ Endpoints(d) \subseteq t.agents

\* Mutant of Orphan: the directions that are orphans themselves count.
OrphanOfNone(t, x) == x \notin t.directions \/ ~(Endpoints(x) \subseteq t.agents)

\* A result of no direction, of one that is an orphan, or without its agents.
Orphan(t, x) == x \notin t.directions \/ ~Anchored(t, x)

\* Mutant of WithoutLooseHops: hops without a run are forgotten.
WithLooseHops(t) == t

\* The five DELETEs.  The hops of a deleted run go with it.
WithoutLooseHops(t) == [t EXCEPT !.hops = @ \cap t.runs]
WithoutOrphanHops(t) == [t EXCEPT !.hops = {h \in @ : ~(h \in t.runs /\ Orphan(t, h))}]
WithoutOrphanRuns(t)  == [t EXCEPT !.runs = {r \in @ : ~Orphan(t, r)},
                                   !.hops = {h \in @ : ~(h \in t.runs /\ Orphan(t, h))}]
WithoutOrphanPings(t) == [t EXCEPT !.pings = {p \in @ : ~Orphan(t, p)}]
WithoutOrphanDirections(t) == [t EXCEPT !.directions = {d \in @ : Anchored(t, d)}]

WithoutOrphanResults(t) ==
    WithoutOrphanPings(WithoutOrphanRuns(WithoutOrphanHops(WithoutLooseHops(t))))

WithoutOrphans(t) == WithoutOrphanDirections(WithoutOrphanResults(t))

\* With _foreign_keys=on a DELETE is refused when a row refers to what it
\* deletes; here only the last one deletes what other rows may refer to.
CleanupRefused(t) ==
    LET u == WithoutOrphanResults(t) IN
    (u.pings \cup u.runs) \cap (u.directions \ WithoutOrphans(t).directions) # {}

----------------------------------------------------------------------------
(* The process.                                                            *)

Begins ==
    /\ phase = "down"
    /\ phase' = "starting"
    /\ UNCHANGED <<next, db, done, recorded, work, failures>>

Fails == failures < MaxFailures /\ failures' = failures + 1

Highest == CHOOSE v \in recorded \cup {0} : \A w \in recorded : w <= v

\* Any error of the query is taken for a missing table.
ReadVersion ==
    /\ phase = "starting"
    /\ phase' = "migrating"
    /\ \/ next' = Highest + 1 /\ UNCHANGED failures
       \/ next' = 1 /\ Fails
    /\ UNCHANGED <<db, done, recorded, work>>

\* What a migration makes of the database, unless one of its statements fails:
\* those of the first eight create tables or columns, which must not be there.
Passes == IF next = Cleanup THEN ~CleanupRefused(db) ELSE next \in Repeatable \/ next \notin done

Migrated == [db       |-> IF next = Cleanup THEN WithoutOrphans(db) ELSE db,
             done     |-> done \cup {next},
             recorded |-> recorded]

\* Mutant of Execute: the statements commit one by one, outside a transaction.
ExecuteOutside ==
    /\ phase = "migrating"
    /\ next <= Last
    /\ Passes
    /\ phase' = "executed"
    /\ work' = Migrated
    /\ db' = Migrated.db
    /\ done' = Migrated.done
    /\ UNCHANGED <<next, recorded, failures>>

Execute ==
    /\ phase = "migrating"
    /\ next <= Last
    /\ Passes
    /\ phase' = "executed"
    /\ work' = Migrated
    /\ UNCHANGED <<next, db, done, recorded, failures>>

Ends ==
    /\ phase' = "down"
    /\ next' = 1
    /\ work' = Committed
    /\ UNCHANGED <<db, done, recorded>>

\* Rollback, and log.Fatal.
ExecuteFails ==
    /\ phase = "migrating"
    /\ next <= Last
    /\ ~Passes
    /\ Ends
    /\ UNCHANGED failures

Record ==
    /\ phase = "executed"
    /\ phase' = "recorded"
    /\ work' = [work EXCEPT !.recorded = @ \cup {next}]
    /\ UNCHANGED <<next, db, done, recorded, failures>>

Commit ==
    /\ phase = "recorded"
    /\ phase' = "migrating"
    /\ next' = next + 1
    /\ db' = work.db
    /\ done' = work.done
    /\ recorded' = work.recorded
    /\ UNCHANGED <<work, failures>>

\* The account of the administrator is there, or is inserted; the hub, the
\* scheduler and the listener start.
Serve ==
    /\ phase = "migrating"
    /\ next > Last
    /\ phase' = "serving"
    /\ UNCHANGED <<next, db, done, recorded, work, failures>>

Rests == phase = "serving" /\ UNCHANGED vars

\* The process dies, or any other error makes it end.
Crash == phase # "down" /\ Fails /\ Ends

Next == \/ Begins \/ ReadVersion \/ Execute \/ ExecuteFails \/ Record \/ Commit
        \/ Serve \/ Rests \/ Crash

Spec == Init /\ [][Next]_vars

\* Whoever runs the controller starts it again.
Fairness ==
    WF_vars(Begins \/ ReadVersion \/ Execute \/ ExecuteFails \/ Record \/ Commit \/ Serve)

FairSpec == Spec /\ Fairness

----------------------------------------------------------------------------
(* Properties.                                                             *)

\* After any number of crashes the schema has exactly the migrations whose
\* numbers it records, a beginning of all of them, and from the ninth on no
\* orphan; so the next start goes on where the last one stopped.
SchemaAgrees ==
    /\ done = recorded
    /\ \E v \in 0..Last : recorded = 1..v
    /\ Cleanup \in done => ForeignKeys(db)
    /\ phase \in {"migrating", "executed", "recorded"} =>
          \A v \in Migration : v < next => v \in recorded
    /\ phase = "serving" => recorded = Migration

StartupInv ==
    /\ TypeOK
    /\ SchemaAgrees
    /\ phase \in {"executed", "recorded"} =>
          /\ next \in Migration /\ Passes
          /\ work.db = Migrated.db /\ work.done = Migrated.done
    /\ phase = "executed" => work.recorded = recorded
    /\ phase = "recorded" => work.recorded = recorded \cup {next}

\* new is what is left of old without its orphans, and nothing else is lost:
\* it satisfies the constraints, and adding any row of old to it would not.
Tabled == {"directions", "pings", "runs", "hops"}

LargestSound(new, old) ==
    /\ ForeignKeys(new)
    /\ new.agents = old.agents /\ new.links = old.links
    /\ \A t \in Tabled :
          /\ new[t] \subseteq old[t]
          /\ \A x \in old[t] \ new[t] :
                ~ForeignKeys([new EXCEPT ![t] = @ \cup {x}])

\* The cleanup is not refused by the constraints it restores, and no start of
\* the controller takes a row from the database that is not an orphan.
OrphansOnly ==
    [][db' # db => LargestSound(db', db)]_vars

\* A controller that has to start, after a crash between any two statements,
\* with a version it cannot read, or on an old database, gets to serve.
ServesAgain == phase # "serving" ~> phase = "serving"
=============================================================================
