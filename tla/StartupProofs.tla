--------------------------- MODULE StartupProofs ---------------------------
(***************************************************************************)
(* Startup keeps its invariant and its action property for every database, *)
(* every list of migrations and any number of crashes.                     *)
(***************************************************************************)
EXTENDS Startup, TLAPS

----------------------------------------------------------------------------
(* The cleanup of orphans, as an operator on tables.                       *)

\* What each table holds after the first four DELETEs,
LEMMA ResultsCleaned ==
    ASSUME NEW t \in Db
    PROVE  LET u == WithoutOrphanResults(t) IN
           /\ u \in Db /\ u.agents = t.agents /\ u.links = t.links
           /\ u.directions = t.directions
           /\ u.pings = {p \in t.pings : ~Orphan(t, p)}
           /\ u.runs = {r \in t.runs : ~Orphan(t, r)}
           /\ u.hops = {h \in t.hops : h \in t.runs /\ ~Orphan(t, h)}
<1> DEFINE t1 == WithoutLooseHops(t)
           t2 == WithoutOrphanHops(t1)
           t3 == WithoutOrphanRuns(t2)
           t4 == WithoutOrphanPings(t3)
<1>1. /\ t1 \in Db /\ t1.agents = t.agents /\ t1.links = t.links
      /\ t1.directions = t.directions /\ t1.pings = t.pings /\ t1.runs = t.runs
      /\ t1.hops = t.hops \cap t.runs
  BY DEF Db, WithoutLooseHops
<1>2. /\ t2 \in Db /\ t2.agents = t.agents /\ t2.links = t.links
      /\ t2.directions = t.directions /\ t2.pings = t.pings /\ t2.runs = t.runs
      /\ t2.hops = {h \in t.hops : h \in t.runs /\ ~Orphan(t, h)}
  BY <1>1 DEF Db, WithoutOrphanHops, Orphan, Anchored
<1>3. /\ t3 \in Db /\ t3.agents = t.agents /\ t3.links = t.links
      /\ t3.directions = t.directions /\ t3.pings = t.pings
      /\ t3.runs = {r \in t.runs : ~Orphan(t, r)}
      /\ t3.hops = {h \in t.hops : h \in t.runs /\ ~Orphan(t, h)}
  BY <1>2 DEF Db, WithoutOrphanRuns, Orphan, Anchored
<1>4. /\ t4 \in Db /\ t4.agents = t.agents /\ t4.links = t.links
      /\ t4.directions = t.directions
      /\ t4.pings = {p \in t.pings : ~Orphan(t, p)}
      /\ t4.runs = {r \in t.runs : ~Orphan(t, r)}
      /\ t4.hops = {h \in t.hops : h \in t.runs /\ ~Orphan(t, h)}
  BY <1>3 DEF Db, WithoutOrphanPings, Orphan, Anchored
<1> QED  BY <1>4 DEF WithoutOrphanResults

\* and after the fifth.
LEMMA Cleaned ==
    ASSUME NEW t \in Db
    PROVE  LET u == WithoutOrphans(t) IN
           /\ u \in Db /\ u.agents = t.agents /\ u.links = t.links
           /\ u.directions = {d \in t.directions : Anchored(t, d)}
           /\ u.pings = {p \in t.pings : ~Orphan(t, p)}
           /\ u.runs = {r \in t.runs : ~Orphan(t, r)}
           /\ u.hops = {h \in t.hops : h \in t.runs /\ ~Orphan(t, h)}
<1> DEFINE v == WithoutOrphanResults(t)
<1>1. WithoutOrphans(t) = WithoutOrphanDirections(v)
  BY DEF WithoutOrphans
<1>2. v \in Db /\ v.agents = t.agents /\ v.links = t.links /\ v.directions = t.directions
  BY ResultsCleaned
<1> HIDE DEF v
<1>3. LET u == WithoutOrphanDirections(v) IN
      /\ u \in Db /\ u.agents = t.agents /\ u.links = t.links
      /\ u.directions = {d \in t.directions : Anchored(t, d)}
      /\ u.pings = v.pings /\ u.runs = v.runs /\ u.hops = v.hops
  BY <1>2 DEF Db, WithoutOrphanDirections, Anchored
<1> QED  BY <1>1, <1>3, ResultsCleaned DEF v

\* The tables that are left satisfy the constraints.
LEMMA CleanedIsSound ==
    ASSUME NEW t \in Db
    PROVE  ForeignKeys(WithoutOrphans(t))
<1> DEFINE u == WithoutOrphans(t)
<1>1. \A d \in u.directions : d.link \in u.links /\ Endpoints(d) \subseteq u.agents
  BY Cleaned DEF Anchored
<1>2. \A p \in u.pings \cup u.runs : p \in u.directions /\ Endpoints(p) \subseteq u.agents
  BY Cleaned DEF Orphan, Anchored
<1>3. u.hops \subseteq u.runs
  BY Cleaned
<1> QED  BY <1>1, <1>2, <1>3 DEF ForeignKeys

\* Nothing but orphans is missing from them.
LEMMA CleanedIsLargest ==
    ASSUME NEW t \in Db
    PROVE  LargestSound(WithoutOrphans(t), t)
<1> DEFINE u == WithoutOrphans(t)
<1>1. u \in Db /\ ForeignKeys(u) /\ u.agents = t.agents /\ u.links = t.links
  BY Cleaned, CleanedIsSound
<1>2. \A x \in t.directions \ u.directions :
         ~ForeignKeys([u EXCEPT !.directions = @ \cup {x}])
  <2> SUFFICES ASSUME NEW x \in t.directions \ u.directions
               PROVE  ~ForeignKeys([u EXCEPT !.directions = @ \cup {x}])
    OBVIOUS
  <2>1. ~(x.link \in u.links /\ Endpoints(x) \subseteq u.agents)
    BY Cleaned DEF Anchored
  <2> HIDE DEF u
  <2> QED  BY <1>1, <2>1 DEF ForeignKeys, Db
<1>3. \A x \in t.pings \ u.pings : ~ForeignKeys([u EXCEPT !.pings = @ \cup {x}])
  <2> SUFFICES ASSUME NEW x \in t.pings \ u.pings
               PROVE  ~ForeignKeys([u EXCEPT !.pings = @ \cup {x}])
    OBVIOUS
  <2>1. x \notin u.directions
    BY Cleaned DEF Orphan
  <2> HIDE DEF u
  <2> QED  BY <1>1, <2>1 DEF ForeignKeys, Db
<1>4. \A x \in t.runs \ u.runs : ~ForeignKeys([u EXCEPT !.runs = @ \cup {x}])
  <2> SUFFICES ASSUME NEW x \in t.runs \ u.runs
               PROVE  ~ForeignKeys([u EXCEPT !.runs = @ \cup {x}])
    OBVIOUS
  <2>1. x \notin u.directions
    BY Cleaned DEF Orphan
  <2> HIDE DEF u
  <2> QED  BY <1>1, <2>1 DEF ForeignKeys, Db
<1>5. \A x \in t.hops \ u.hops : ~ForeignKeys([u EXCEPT !.hops = @ \cup {x}])
  <2> SUFFICES ASSUME NEW x \in t.hops \ u.hops
               PROVE  ~ForeignKeys([u EXCEPT !.hops = @ \cup {x}])
    OBVIOUS
  <2>1. x \notin u.runs
    BY Cleaned
  <2> HIDE DEF u
  <2> QED  BY <1>1, <2>1 DEF ForeignKeys, Db
<1>6. /\ u.directions \subseteq t.directions /\ u.pings \subseteq t.pings
      /\ u.runs \subseteq t.runs /\ u.hops \subseteq t.hops
  BY Cleaned
<1>7. \A f \in Tabled : /\ u[f] \subseteq t[f]
                        /\ \A x \in t[f] \ u[f] : ~ForeignKeys([u EXCEPT ![f] = @ \cup {x}])
  <2> SUFFICES ASSUME NEW f \in Tabled
               PROVE  /\ u[f] \subseteq t[f]
                      /\ \A x \in t[f] \ u[f] : ~ForeignKeys([u EXCEPT ![f] = @ \cup {x}])
    OBVIOUS
  <2> HIDE DEF u
  <2>1. CASE f = "directions"
    BY <1>2, <1>6, <2>1
  <2>2. CASE f = "pings"
    BY <1>3, <1>6, <2>2
  <2>3. CASE f = "runs"
    BY <1>4, <1>6, <2>3
  <2>4. CASE f = "hops"
    BY <1>5, <1>6, <2>4
  <2> QED  BY <2>1, <2>2, <2>3, <2>4 DEF Tabled
<1> HIDE DEF u
<1>8. LargestSound(u, t)
  BY <1>1, <1>7 DEF LargestSound
<1> QED  BY <1>8 DEF u

\* The constraints do not refuse the DELETEs that restore them.
LEMMA CleanupPasses ==
    ASSUME NEW t \in Db
    PROVE  ~CleanupRefused(t)
<1> DEFINE u == WithoutOrphanResults(t)
<1>1. /\ u \in Db /\ u.agents = t.agents /\ u.links = t.links
      /\ u.directions = t.directions
      /\ u.pings = {p \in t.pings : ~Orphan(t, p)}
      /\ u.runs = {r \in t.runs : ~Orphan(t, r)}
  BY ResultsCleaned
<1>2. \A p \in u.pings \cup u.runs : p \in WithoutOrphans(t).directions
  BY <1>1, Cleaned DEF Orphan
<1> QED  BY <1>2 DEF CleanupRefused

----------------------------------------------------------------------------
(* The steps of the process.                                               *)

\* The highest number that is recorded, when those before it are.
LEMMA HighestRecorded ==
    ASSUME NEW v \in Nat, recorded = 1..v
    PROVE  Highest = v
<1>1. \A w \in recorded : w <= v
  OBVIOUS
<1>2. v \in recorded \cup {0}
  OBVIOUS
<1>3. \A x \in recorded \cup {0} : (\A w \in recorded : w <= x) => x = v
  OBVIOUS
<1> QED  BY <1>1, <1>2, <1>3 DEF Highest

\* What a migration makes of a database is a database, sound from the ninth on.
LEMMA MigratedIsSound ==
    ASSUME TypeOK, SchemaAgrees, next \in Migration
    PROVE  /\ Migrated \in [db : Db, done : SUBSET Migration, recorded : SUBSET Migration]
           /\ Cleanup \in Migrated.done => ForeignKeys(Migrated.db)
<1>1. CASE next = Cleanup
  BY <1>1, Cleaned, CleanedIsSound DEF Migrated, TypeOK
<1>2. CASE next # Cleanup
  BY <1>2 DEF Migrated, TypeOK, SchemaAgrees
<1> QED  BY <1>1, <1>2

LEMMA InitStartupInv == Init => StartupInv
<1> SUFFICES ASSUME Init PROVE StartupInv
  OBVIOUS
<1>1. TypeOK
  <2>1. db \in Db
    BY StartupAssumption DEF Init, Empty, Db
  <2> QED  BY <2>1, StartupAssumption DEF Init, TypeOK, Committed, Migration
<1>2. SchemaAgrees
  BY DEF Init, SchemaAgrees
<1> QED  BY <1>1, <1>2 DEF Init, StartupInv

LEMMA NextStartupInv == StartupInv /\ [Next]_vars => StartupInv'
<1> SUFFICES ASSUME StartupInv, [Next]_vars PROVE StartupInv'
  OBVIOUS
<1> USE StartupAssumption DEF Migration
<1>0. TypeOK /\ SchemaAgrees
  BY DEF StartupInv
<1>1. CASE Begins
  BY <1>1 DEF Begins, StartupInv, TypeOK, SchemaAgrees
<1>2. CASE ReadVersion
  <2>1. PICK v \in 0..Last : recorded = 1..v
    BY <1>0 DEF SchemaAgrees
  <2>2. next' \in 1..(Last + 1) /\ \A w \in Migration : w < next' => w \in recorded
    BY <1>2, <2>1, HighestRecorded DEF ReadVersion
  <2>3. TypeOK'
    BY <1>0, <1>2, <2>2 DEF ReadVersion, Fails, TypeOK
  <2>4. SchemaAgrees'
    BY <1>0, <1>2, <2>2 DEF ReadVersion, SchemaAgrees
  <2> QED  BY <1>2, <2>3, <2>4 DEF ReadVersion, StartupInv
<1>3. CASE Execute
  <2>1. next \in Migration
    BY <1>0, <1>3 DEF Execute, TypeOK
  <2>2. /\ Migrated' = Migrated /\ Passes' = Passes
    BY <1>3 DEF Execute, Migrated, Passes, CleanupRefused
  <2>3. work'.db = Migrated.db /\ work'.done = Migrated.done /\ work'.recorded = recorded
    BY <1>3 DEF Execute, Migrated
  <2>4. TypeOK'
    BY <1>0, <1>3, <2>1, MigratedIsSound DEF Execute, TypeOK
  <2>5. SchemaAgrees'
    BY <1>0, <1>3 DEF Execute, SchemaAgrees
  <2> HIDE DEF Migration
  <2> QED  BY <1>3, <2>1, <2>2, <2>3, <2>4, <2>5 DEF Execute, StartupInv
<1>4. CASE ExecuteFails
  BY <1>4 DEF ExecuteFails, Ends, Committed, StartupInv, TypeOK, SchemaAgrees
<1>5. CASE Record
  <2>1. /\ next \in Migration /\ Passes /\ work.recorded = recorded
        /\ work.db = Migrated.db /\ work.done = Migrated.done
    BY <1>5 DEF Record, StartupInv
  <2>2. /\ Migrated' = Migrated /\ Passes' = Passes
    BY <1>5 DEF Record, Migrated, Passes, CleanupRefused
  <2>3. /\ work' \in [db : Db, done : SUBSET Migration, recorded : SUBSET Migration]
        /\ work'.db = work.db /\ work'.done = work.done
        /\ work'.recorded = recorded \cup {next}
    BY <1>0, <1>5, <2>1 DEF Record, TypeOK
  <2>4. TypeOK'
    BY <1>0, <1>5, <2>3 DEF Record, TypeOK
  <2>5. SchemaAgrees'
    BY <1>0, <1>5 DEF Record, SchemaAgrees
  <2> HIDE DEF Migration
  <2> QED  BY <1>5, <2>1, <2>2, <2>3, <2>4, <2>5 DEF Record, StartupInv
<1>6. CASE Commit
  <2>1. /\ next \in Migration /\ db' = Migrated.db
        /\ done' = done \cup {next} /\ recorded' = recorded \cup {next}
    BY <1>6 DEF Commit, StartupInv, Migrated
  <2>2. PICK v \in 0..Last : recorded = 1..v
    BY <1>0 DEF SchemaAgrees
  <2>3. \A w \in Migration : w < next => w \in recorded
    BY <1>0, <1>6 DEF Commit, SchemaAgrees
  <2>4. \E w \in 0..Last : recorded' = 1..w
    <3>1. CASE next \in recorded
      BY <2>1, <2>2, <3>1
    <3>2. CASE next \notin recorded
      <4>1. next = v + 1
        BY <2>1, <2>2, <2>3, <3>2
      <4>2. recorded' = 1..(v + 1)
        BY <2>1, <2>2, <4>1
      <4> QED  BY <2>1, <4>1, <4>2
    <3> QED  BY <3>1, <3>2
  <2>5. Cleanup \in done' => ForeignKeys(db')
    BY <1>0, <2>1, MigratedIsSound DEF Migrated
  <2>6. \A w \in Migration : w < next' => w \in recorded'
    BY <1>0, <1>6, <2>1, <2>3 DEF Commit, TypeOK
  <2>7. done' = recorded'
    BY <1>0, <2>1 DEF SchemaAgrees
  <2>8. SchemaAgrees'
    BY <1>6, <2>4, <2>5, <2>6, <2>7 DEF Commit, SchemaAgrees
  <2>9. TypeOK'
    BY <1>0, <1>6, <2>1, MigratedIsSound DEF Commit, TypeOK
  <2> QED  BY <1>6, <2>8, <2>9 DEF Commit, StartupInv
<1>7. CASE Serve
  <2>1. recorded = Migration
    BY <1>0, <1>7 DEF Serve, SchemaAgrees, TypeOK
  <2> QED  BY <1>7, <2>1 DEF Serve, StartupInv, TypeOK, SchemaAgrees
<1>8. CASE Crash
  BY <1>8 DEF Crash, Fails, Ends, Committed, StartupInv, TypeOK, SchemaAgrees
<1>9. CASE UNCHANGED vars
  <2>1. /\ Migrated' = Migrated /\ Passes' = Passes
    BY <1>9 DEF vars, Migrated, Passes, CleanupRefused
  <2>2. TypeOK' /\ SchemaAgrees'
    BY <1>0, <1>9 DEF vars, TypeOK, SchemaAgrees
  <2> HIDE DEF Migration
  <2> QED  BY <1>9, <2>1, <2>2 DEF vars, StartupInv
<1> QED  BY <1>1, <1>2, <1>3, <1>4, <1>5, <1>6, <1>7, <1>8, <1>9 DEF Next, Rests

\* After any number of crashes the schema has exactly the migrations whose
\* numbers it records, a beginning of all of them, and from the ninth on no
\* orphan.
THEOREM StartupInvariant == Spec => []StartupInv
  BY InitStartupInv, NextStartupInv, PTL DEF Spec

----------------------------------------------------------------------------

\* The only step that changes the tables commits the ninth migration.
LEMMA StepOrphansOnly == StartupInv /\ [Next]_vars => (db' # db => LargestSound(db', db))
<1> SUFFICES ASSUME StartupInv, [Next]_vars, db' # db
             PROVE  LargestSound(db', db)
  OBVIOUS
<1>1. Commit
  BY DEF Next, Begins, ReadVersion, Execute, ExecuteFails, Record, Serve, Rests, Crash,
         Ends, vars
<1>2. db' = Migrated.db /\ db \in Db
  BY <1>1 DEF Commit, StartupInv, TypeOK
<1>3. db' = WithoutOrphans(db)
  BY <1>2 DEF Migrated
<1> QED  BY <1>2, <1>3, CleanedIsLargest

\* No start of the controller takes a row from the database that is not an
\* orphan, and the cleanup leaves none.
THEOREM OrphansOnlyCorrect == Spec => OrphansOnly
<1>1. StartupInv /\ [Next]_vars => [db' # db => LargestSound(db', db)]_vars
  BY StepOrphansOnly
<1> QED  BY <1>1, StartupInvariant, PTL DEF Spec, OrphansOnly

\* A start never fails at the ninth migration because of the rows it finds.
THEOREM CleanupNeverFails == Spec => [](next = Cleanup => Passes)
<1>1. StartupInv => (next = Cleanup => Passes)
  BY CleanupPasses DEF StartupInv, TypeOK, Passes
<1> QED  BY <1>1, StartupInvariant, PTL
=============================================================================
