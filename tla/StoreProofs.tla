---------------------------- MODULE StoreProofs ----------------------------
(***************************************************************************)
(* The relational data, for any agents, links, directions and requests:    *)
(* readers see complete operations only, and the statements of a deletion  *)
(* satisfy the constraints one after the other because each of them finds  *)
(* its table's children already swept.                                     *)
(***************************************************************************)
EXTENDS Store, TLAPS

USE StoreAssumption

----------------------------------------------------------------------------
(* The statements of a task, by position.                                  *)

LEMMA DeleteAgentPositions ==
  ASSUME NEW p, p = <<"collect", "hops", "runs", "pings", "directions", "links", "agent">>,
         NEW k \in Nat, k < Len(p)
  PROVE  \/ k = 0 /\ p[k + 1] = "collect"
         \/ k = 1 /\ p[k + 1] = "hops"
         \/ k = 2 /\ p[k + 1] = "runs"
         \/ k = 3 /\ p[k + 1] = "pings"
         \/ k = 4 /\ p[k + 1] = "directions"
         \/ k = 5 /\ p[k + 1] = "links"
         \/ k = 6 /\ p[k + 1] = "agent"
OBVIOUS

LEMMA DeleteLinkPositions ==
  ASSUME NEW p, p = <<"hops", "runs", "pings", "directions", "link">>,
         NEW k \in Nat, k < Len(p)
  PROVE  \/ k = 0 /\ p[k + 1] = "hops"
         \/ k = 1 /\ p[k + 1] = "runs"
         \/ k = 2 /\ p[k + 1] = "pings"
         \/ k = 3 /\ p[k + 1] = "directions"
         \/ k = 4 /\ p[k + 1] = "link"
OBVIOUS

LEMMA CleanUpPositions ==
  ASSUME NEW p, p = <<"pings", "hops", "runs">>,
         NEW k \in Nat, k < Len(p)
  PROVE  \/ k = 0 /\ p[k + 1] = "pings"
         \/ k = 1 /\ p[k + 1] = "hops"
         \/ k = 2 /\ p[k + 1] = "runs"
OBVIOUS

LEMMA CreateDirectionPositions ==
  ASSUME NEW p, p = <<"findLink", "findSource", "findDestination", "insertDirection">>,
         NEW k \in Nat, k < Len(p)
  PROVE  \/ k = 0 /\ p[k + 1] = "findLink"
         \/ k = 1 /\ p[k + 1] = "findSource"
         \/ k = 2 /\ p[k + 1] = "findDestination"
         \/ k = 3 /\ p[k + 1] = "insertDirection"
OBVIOUS

LEMMA SaveRunPositions ==
  ASSUME NEW p, p = <<"insertRun", "insertHops">>,
         NEW k \in Nat, k < Len(p)
  PROVE  \/ k = 0 /\ p[k + 1] = "insertRun"
         \/ k = 1 /\ p[k + 1] = "insertHops"
OBVIOUS

LEMMA OnlyPosition ==
  ASSUME NEW p, NEW a, p = <<a>>, NEW k \in Nat, k < Len(p)
  PROVE  k = 0 /\ p[k + 1] = a
OBVIOUS

LEMMA Operations ==
  ASSUME NEW t \in Task
  PROVE  \/ t.op = "createAgent" /\ t.agent \in Agent
         \/ t.op = "createLink" /\ t.link \in Link
         \/ t.op \in {"createDirection", "savePing", "saveRun"} /\ t.row \in Row
         \/ t.op = "deleteAgent" /\ t.agent \in Agent
         \/ t.op = "deleteLink" /\ t.link \in Link
         \/ t.op = "cleanUp"
BY DEF Task

\* The statement a running deletion is about to execute.
LEMMA DeleteAgentStatement ==
  ASSUME NEW t, t.op = "deleteAgent", NEW k \in Nat, k < Len(Program(t))
  PROVE  \/ k = 0 /\ Program(t)[k + 1] = "collect"
         \/ k = 1 /\ Program(t)[k + 1] = "hops"
         \/ k = 2 /\ Program(t)[k + 1] = "runs"
         \/ k = 3 /\ Program(t)[k + 1] = "pings"
         \/ k = 4 /\ Program(t)[k + 1] = "directions"
         \/ k = 5 /\ Program(t)[k + 1] = "links"
         \/ k = 6 /\ Program(t)[k + 1] = "agent"
<1>1. Program(t) = <<"collect", "hops", "runs", "pings", "directions", "links", "agent">>
  BY DEF Program
<1> QED  BY <1>1, DeleteAgentPositions

LEMMA DeleteLinkStatement ==
  ASSUME NEW t, t.op = "deleteLink", NEW k \in Nat, k < Len(Program(t))
  PROVE  \/ k = 0 /\ Program(t)[k + 1] = "hops"
         \/ k = 1 /\ Program(t)[k + 1] = "runs"
         \/ k = 2 /\ Program(t)[k + 1] = "pings"
         \/ k = 3 /\ Program(t)[k + 1] = "directions"
         \/ k = 4 /\ Program(t)[k + 1] = "link"
<1>1. Program(t) = <<"hops", "runs", "pings", "directions", "link">>
  BY DEF Program
<1> QED  BY <1>1, DeleteLinkPositions

LEMMA CleanUpStatement ==
  ASSUME NEW t, t.op = "cleanUp", NEW k \in Nat, k < Len(Program(t))
  PROVE  \/ k = 0 /\ Program(t)[k + 1] = "pings"
         \/ k = 1 /\ Program(t)[k + 1] = "hops"
         \/ k = 2 /\ Program(t)[k + 1] = "runs"
<1>1. Program(t) = <<"pings", "hops", "runs">>
  BY DEF Program
<1> QED  BY <1>1, CleanUpPositions

\* The other tasks only insert.
LEMMA InsertStatement ==
  ASSUME NEW t \in Task, t.op \notin {"deleteAgent", "deleteLink", "cleanUp"},
         NEW k \in Nat, k < Len(Program(t))
  PROVE  \/ Program(t)[k + 1] = "insertAgent" /\ t.agent \in Agent
         \/ Program(t)[k + 1] = "insertLink" /\ t.link \in Link
         \/ Program(t)[k + 1] \in Checks
         \/ /\ Program(t)[k + 1] \in {"insertDirection", "insertPing", "insertRun",
                                      "insertHops"}
            /\ t.row \in Row
<1>1. CASE t.op = "createAgent"
  <2>1. Program(t) = <<"insertAgent">>  BY <1>1 DEF Program
  <2> QED  BY <1>1, <2>1, OnlyPosition, Operations
<1>2. CASE t.op = "createLink"
  <2>1. Program(t) = <<"insertLink">>  BY <1>2 DEF Program
  <2> QED  BY <1>2, <2>1, OnlyPosition, Operations
<1>3. CASE t.op = "createDirection"
  <2>1. Program(t) = <<"findLink", "findSource", "findDestination", "insertDirection">>
    BY <1>3 DEF Program
  <2> QED  BY <1>3, <2>1, CreateDirectionPositions, Operations DEF Checks
<1>4. CASE t.op = "savePing"
  <2>1. Program(t) = <<"insertPing">>  BY <1>4 DEF Program
  <2> QED  BY <1>4, <2>1, OnlyPosition, Operations
<1>5. CASE t.op = "saveRun"
  <2>1. Program(t) = <<"insertRun", "insertHops">>  BY <1>5 DEF Program
  <2> QED  BY <1>5, <2>1, SaveRunPositions, Operations
<1> QED  BY <1>1, <1>2, <1>3, <1>4, <1>5, Operations

----------------------------------------------------------------------------
(* What the statements do.                                                 *)

LEMMA EmptyDb == Empty \in Db /\ Enforced(Empty)
BY DEF Empty, Db, Enforced, Unique, ForeignKeys

\* A statement yields a database.
LEMMA EffectType ==
  ASSUME NEW t \in Task, NEW k \in Nat, k < Len(Program(t)),
         Program(t)[k + 1] \notin Checks \cup {"collect"},
         NEW ls, NEW db \in Db
  PROVE  Effect(Program(t)[k + 1], t, ls, db) \in Db
<1>1. ASSUME NEW s \in {"hops", "runs", "pings", "directions", "links"}
      PROVE  Effect(s, t, ls, db) \in Db
  BY <1>1 DEF Effect, Db
<1>2. t.agent \in Agent => Effect("insertAgent", t, ls, db) \in Db
                           /\ Effect("agent", t, ls, db) \in Db
  BY DEF Effect, Db
<1>3. t.link \in Link => Effect("insertLink", t, ls, db) \in Db
                         /\ Effect("link", t, ls, db) \in Db
  BY DEF Effect, Db
<1>4. ASSUME t.row \in Row,
             NEW s \in {"insertDirection", "insertPing", "insertRun", "insertHops"}
      PROVE  Effect(s, t, ls, db) \in Db
  BY <1>4 DEF Effect, Db
<1>5. CASE t.op = "deleteAgent"
  BY <1>1, <1>2, <1>5, DeleteAgentStatement, Operations
<1>6. CASE t.op = "deleteLink"
  BY <1>1, <1>3, <1>6, DeleteLinkStatement, Operations
<1>7. CASE t.op = "cleanUp"
  BY <1>1, <1>7, CleanUpStatement
<1>8. CASE t.op \notin {"deleteAgent", "deleteLink", "cleanUp"}
  BY <1>2, <1>3, <1>4, <1>8, InsertStatement
<1> QED  BY <1>5, <1>6, <1>7, <1>8

Deletion(t) == t.op \in {"deleteAgent", "deleteLink", "cleanUp"}

\* Rows may go that nothing refers to.
LEMMA FewerRows ==
  ASSUME NEW db \in Db, Enforced(db), NEW more \in Db,
         more.agents \subseteq db.agents, more.links \subseteq db.links,
         more.directions \subseteq db.directions, more.pings \subseteq db.pings,
         more.runs \subseteq db.runs, more.hops \subseteq db.hops,
         \A d \in more.directions : d.link \in more.links /\ Endpoints(d) \subseteq more.agents,
         more.pings \subseteq more.directions, more.runs \subseteq more.directions,
         more.hops \subseteq more.runs
  PROVE  Enforced(more)
BY DEF Enforced, Unique, ForeignKeys

\* Every statement of a deletion satisfies the constraints.
LEMMA DeletionPasses ==
  ASSUME NEW t \in Task, Deletion(t), NEW ls, NEW db \in Db, Enforced(db),
         NEW k \in Nat, k < Len(Program(t)), Swept(t, k, db)
  PROVE  Enforced(Effect(Program(t)[k + 1], t, ls, db))
<1> DEFINE s == Program(t)[k + 1]
           then == Effect(s, t, ls, db)
<1>1. s # "collect"
  BY DeleteAgentStatement, DeleteLinkStatement, CleanUpStatement DEF Swept, Deletion
<1>2. s \notin Checks
  BY DeleteAgentStatement, DeleteLinkStatement, CleanUpStatement DEF Checks, Deletion
<1>3. then \in Db  BY <1>1, <1>2, EffectType
<1>4. CASE s = "hops"
  <2>1. then = [db EXCEPT !.hops = {h \in @ : ~(h \in db.runs /\ Concerns(t, h))}]
    BY <1>4 DEF Effect
  <2> QED  BY <2>1, <1>3, FewerRows DEF Db, Enforced, ForeignKeys
<1>5. CASE s = "runs"
  <2>1. Clean(t, db.hops)
    BY <1>5, DeleteAgentStatement, DeleteLinkStatement, CleanUpStatement DEF Swept, Deletion
  <2>2. then = [db EXCEPT !.runs = {x \in @ : ~Concerns(t, x)},
                          !.hops = {h \in @ : ~(h \in db.runs /\ Concerns(t, h))}]
    BY <1>5 DEF Effect
  <2>3. /\ then.runs = {x \in db.runs : ~Concerns(t, x)} /\ then.hops = db.hops
        /\ then.agents = db.agents /\ then.links = db.links
        /\ then.directions = db.directions /\ then.pings = db.pings
    BY <2>1, <2>2 DEF Db, Clean
  <2>4. then.hops \subseteq then.runs
    BY <2>1, <2>3 DEF Enforced, ForeignKeys, Clean
  <2> QED  BY <2>3, <2>4, <1>3, FewerRows DEF Enforced, ForeignKeys
<1>6. CASE s = "pings"
  <2>1. then = [db EXCEPT !.pings = {x \in @ : ~Concerns(t, x)}]
    BY <1>6 DEF Effect
  <2> QED  BY <2>1, <1>3, FewerRows DEF Db, Enforced, ForeignKeys
<1>7. CASE s = "directions"
  <2>1. Clean(t, db.runs) /\ Clean(t, db.pings)
    BY <1>7, DeleteAgentStatement, DeleteLinkStatement, CleanUpStatement DEF Swept, Deletion
  <2>2. then = [db EXCEPT !.directions = {x \in @ : ~Concerns(t, x)}]
    BY <1>7 DEF Effect
  <2> QED  BY <2>1, <2>2, <1>3, FewerRows DEF Db, Enforced, ForeignKeys, Clean
<1>8. CASE s = "links"
  <2>1. then = [db EXCEPT !.links = {l \in @ : l \in ls => \E d \in db.directions : d.link = l}]
    BY <1>8 DEF Effect
  <2> QED  BY <2>1, <1>3, FewerRows DEF Db, Enforced, ForeignKeys
<1>9. CASE s = "agent"
  <2>1. t.op = "deleteAgent" /\ Clean(t, db.directions)
    BY <1>9, DeleteAgentStatement, DeleteLinkStatement, CleanUpStatement DEF Swept, Deletion
  <2>2. \A d \in db.directions : t.agent \notin Endpoints(d)
    BY <2>1 DEF Clean, Concerns
  <2>3. then = [db EXCEPT !.agents = @ \ {t.agent}]
    BY <1>9 DEF Effect
  <2> QED  BY <2>2, <2>3, <1>3, FewerRows DEF Db, Enforced, ForeignKeys
<1>10. CASE s = "link"
  <2>1. t.op = "deleteLink" /\ Clean(t, db.directions)
    BY <1>10, DeleteAgentStatement, DeleteLinkStatement, CleanUpStatement DEF Swept, Deletion
  <2>2. \A d \in db.directions : t.link # d.link
    BY <2>1 DEF Clean, Concerns
  <2>3. then = [db EXCEPT !.links = @ \ {t.link},
                          !.directions = {d \in @ : d.link # t.link}]
    BY <1>10 DEF Effect
  <2> QED  BY <2>2, <2>3, <1>3, FewerRows DEF Db, Enforced, ForeignKeys
<1> QED  BY <1>4, <1>5, <1>6, <1>7, <1>8, <1>9, <1>10,
            DeleteAgentStatement, DeleteLinkStatement, CleanUpStatement, <1>1 DEF Deletion

\* Every statement sweeps its table.
LEMMA DeletionSweeps ==
  ASSUME NEW t \in Task, NEW ls, NEW db \in Db, Enforced(db),
         NEW k \in Nat, k < Len(Program(t)), Swept(t, k, db),
         Program(t)[k + 1] \notin Checks \cup {"collect"}
  PROVE  Swept(t, k + 1, Effect(Program(t)[k + 1], t, ls, db))
<1> DEFINE s == Program(t)[k + 1]
           then == Effect(s, t, ls, db)
<1>1. s = "hops" => /\ Clean(t, then.hops)
                    /\ then.runs = db.runs /\ then.pings = db.pings
                    /\ then.directions = db.directions
  <2> SUFFICES ASSUME s = "hops"
               PROVE  /\ Clean(t, then.hops) /\ then.runs = db.runs
                      /\ then.pings = db.pings /\ then.directions = db.directions
    OBVIOUS
  <2>1. then = [db EXCEPT !.hops = {h \in @ : ~(h \in db.runs /\ Concerns(t, h))}]
    BY DEF Effect
  <2>2. db.hops \subseteq db.runs  BY DEF Enforced, ForeignKeys
  <2> QED  BY <2>1, <2>2 DEF Db, Clean
<1>2. s = "runs" => /\ Clean(t, then.runs)
                    /\ then.hops \subseteq db.hops /\ then.pings = db.pings
                    /\ then.directions = db.directions
  BY DEF Effect, Db, Clean
<1>3. s = "pings" => /\ Clean(t, then.pings)
                     /\ then.hops = db.hops /\ then.runs = db.runs
                     /\ then.directions = db.directions
  BY DEF Effect, Db, Clean
<1>4. s = "directions" => /\ Clean(t, then.directions)
                          /\ then.hops = db.hops /\ then.runs = db.runs
                          /\ then.pings = db.pings
  BY DEF Effect, Db, Clean
<1>5. s \in {"links", "agent", "link"} =>
        /\ then.hops = db.hops /\ then.runs = db.runs
        /\ then.pings = db.pings /\ then.directions \subseteq db.directions
  BY DEF Effect, Db
<1>fewer. \A all, some : Clean(t, all) /\ some \subseteq all => Clean(t, some)
  BY DEF Clean
<1> SUFFICES Swept(t, k + 1, then)  OBVIOUS
<1> HIDE DEF then
<1>6. CASE t.op = "deleteAgent"
  <2>1. CASE k = 0  BY <1>6, <2>1, DeleteAgentStatement
  <2>2. CASE k = 1  BY <1>6, <2>2, <1>1, DeleteAgentStatement DEF Swept
  <2>3. CASE k = 2  BY <1>6, <2>3, <1>2, <1>fewer, DeleteAgentStatement DEF Swept
  <2>4. CASE k = 3  BY <1>6, <2>4, <1>3, DeleteAgentStatement DEF Swept
  <2>5. CASE k = 4  BY <1>6, <2>5, <1>4, DeleteAgentStatement DEF Swept
  <2>6. CASE k \in {5, 6}  BY <1>6, <2>6, <1>5, <1>fewer, DeleteAgentStatement DEF Swept
  <2> QED  BY <1>6, <2>1, <2>2, <2>3, <2>4, <2>5, <2>6, DeleteAgentStatement
<1>7. CASE t.op = "deleteLink"
  <2>1. CASE k = 0  BY <1>7, <2>1, <1>1, DeleteLinkStatement DEF Swept
  <2>2. CASE k = 1  BY <1>7, <2>2, <1>2, <1>fewer, DeleteLinkStatement DEF Swept
  <2>3. CASE k = 2  BY <1>7, <2>3, <1>3, DeleteLinkStatement DEF Swept
  <2>4. CASE k = 3  BY <1>7, <2>4, <1>4, DeleteLinkStatement DEF Swept
  <2>5. CASE k = 4  BY <1>7, <2>5, <1>5, <1>fewer, DeleteLinkStatement DEF Swept
  <2> QED  BY <1>7, <2>1, <2>2, <2>3, <2>4, <2>5, DeleteLinkStatement
<1>8. CASE t.op = "cleanUp"
  <2>1. CASE k = 0  BY <1>8, <2>1 DEF Swept
  <2>2. CASE k = 1  BY <1>8, <2>2, <1>1, CleanUpStatement DEF Swept
  <2>3. CASE k = 2  BY <1>8, <2>3, <1>2, <1>fewer, CleanUpStatement DEF Swept
  <2> QED  BY <1>8, <2>1, <2>2, <2>3, CleanUpStatement
<1>9. CASE ~Deletion(t)  BY <1>9 DEF Swept, Deletion
<1> QED  BY <1>6, <1>7, <1>8, <1>9 DEF Deletion

----------------------------------------------------------------------------
(* The inductive invariant.                                                *)

\* A request that has not written yet stands at its first statements.
Unstarted(r) ==
    /\ task[r].op = "deleteAgent" => step[r] <= 1
    /\ task[r].op \in {"deleteLink", "cleanUp"} => step[r] = 0

\* A new task.
LEMMA StartsStep ==
  ASSUME StoreInv, NEW r \in Request, NEW t \in Task, Starts(r, t)
  PROVE  StoreInv'
<1>1. r # writer  BY DEF StoreInv, Starts
<1>2. TypeOK'  BY DEF StoreInv, TypeOK, Starts
<1>3. \A q \in Request : q # writer' /\ task'[q] # NoTask => Unstarted(q)'
  BY DEF StoreInv, TypeOK, Starts, Unstarted
<1>4. writer' # NoOne => task'[writer'] # NoTask /\ Swept(task'[writer'], step'[writer'], work')
  BY <1>1 DEF StoreInv, TypeOK, Starts
<1>5. Enforced(committed') /\ Enforced(work')  BY DEF StoreInv, Starts
<1> QED  BY <1>2, <1>3, <1>4, <1>5 DEF StoreInv, Unstarted

\* A failing task.
LEMMA FailsStep ==
  ASSUME StoreInv, NEW r \in Request, Fails(r), UNCHANGED <<committed, issued>>
  PROVE  StoreInv'
<1>1. work' \in Db /\ Enforced(work')  BY EmptyDb DEF StoreInv, TypeOK, Fails
<1>2. TypeOK'  BY <1>1 DEF StoreInv, TypeOK, Fails
<1>3. \A q \in Request : q # writer' /\ task'[q] # NoTask => Unstarted(q)'
  BY DEF StoreInv, TypeOK, Fails, Unstarted
<1>4. writer' # NoOne => task'[writer'] # NoTask /\ Swept(task'[writer'], step'[writer'], work')
  BY DEF StoreInv, TypeOK, Fails
<1> QED  BY <1>1, <1>2, <1>3, <1>4 DEF StoreInv, Unstarted

LEMMA CheckStep ==
  ASSUME StoreInv, NEW r \in Request, Check(r)
  PROVE  StoreInv'
<1>1. CASE Fails(r)  BY <1>1, FailsStep DEF Check
<1>2. CASE ~Fails(r)
  <2>1. /\ step' = [step EXCEPT ![r] = @ + 1]
        /\ UNCHANGED <<committed, work, writer, task, reader, collected, issued>>
    BY <1>2 DEF Check
  <2>2. task[r] \in Task /\ step[r] \in Nat /\ step[r] < Len(Program(task[r]))
        /\ Program(task[r])[step[r] + 1] \in Checks
    BY DEF StoreInv, TypeOK, Check, Running, Statement
  <2>3. ~Deletion(task[r])
    BY <2>2, DeleteAgentStatement, DeleteLinkStatement, CleanUpStatement
       DEF Deletion, Checks
  <2>4. TypeOK'  BY <2>1 DEF StoreInv, TypeOK
  <2>5. \A q \in Request : q # writer' /\ task'[q] # NoTask => Unstarted(q)'
    BY <2>1, <2>3 DEF StoreInv, TypeOK, Unstarted, Deletion
  <2>6. ASSUME writer' # NoOne
        PROVE  task'[writer'] # NoTask /\ Swept(task'[writer'], step'[writer'], work')
    <3>1. CASE writer = r  BY <2>1, <2>3, <2>6, <3>1 DEF Swept, Deletion, StoreInv
    <3>2. CASE writer # r  BY <2>1, <2>6, <3>2 DEF StoreInv, TypeOK
    <3> QED  BY <3>1, <3>2
  <2>7. Enforced(committed') /\ Enforced(work')  BY <2>1 DEF StoreInv
  <2> QED  BY <2>4, <2>5, <2>6, <2>7 DEF StoreInv, Unstarted
<1> QED  BY <1>1, <1>2

LEMMA CollectStep ==
  ASSUME StoreInv, NEW r \in Request, Collect(r)
  PROVE  StoreInv'
<1>1. task[r] \in Task /\ step[r] \in Nat /\ step[r] < Len(Program(task[r]))
      /\ Program(task[r])[step[r] + 1] = "collect"
  BY DEF StoreInv, TypeOK, Collect, Running, Statement
<1>2. task[r].op = "deleteAgent" /\ step[r] = 0
  BY <1>1, DeleteAgentStatement, DeleteLinkStatement, CleanUpStatement, InsertStatement
     DEF Checks
<1>3. writer # r
  <2> SUFFICES ASSUME writer = r PROVE FALSE  OBVIOUS
  <2>1. Swept(task[r], step[r], work)  BY DEF StoreInv
  <2> QED  BY <2>1, <1>2 DEF Swept
<1>4. TypeOK'
  <2>1. {d.link : d \in {x \in committed.directions : Concerns(task[r], x)}} \in SUBSET Link
    BY DEF StoreInv, TypeOK, Db, Row
  <2> QED  BY <2>1 DEF StoreInv, TypeOK, Collect
<1>5. \A q \in Request : q # writer' /\ task'[q] # NoTask => Unstarted(q)'
  BY <1>2 DEF StoreInv, TypeOK, Collect, Unstarted
<1>6. writer' # NoOne => task'[writer'] # NoTask /\ Swept(task'[writer'], step'[writer'], work')
  BY <1>3 DEF StoreInv, TypeOK, Collect
<1>7. Enforced(committed') /\ Enforced(work')  BY DEF StoreInv, Collect
<1> QED  BY <1>4, <1>5, <1>6, <1>7 DEF StoreInv, Unstarted

\* The transaction of a deletion starts or goes on where the sweep stands.
LEMMA SweptSoFar ==
  ASSUME StoreInv, NEW r \in Request, Running(r), writer \in {r, NoOne},
         Statement(r) # "collect"
  PROVE  /\ Base(r) \in Db /\ Enforced(Base(r))
         /\ Swept(task[r], step[r], Base(r))
<1>1. CASE writer = r  BY <1>1 DEF StoreInv, TypeOK, Base
<1>2. CASE writer # r
  <2>1. task[r] \in Task /\ step[r] \in Nat /\ step[r] < Len(Program(task[r]))
    BY DEF StoreInv, TypeOK, Running
  <2>2. Unstarted(r)  BY <1>2 DEF StoreInv, Running, Unstarted
  <2>3. task[r].op = "deleteAgent" => step[r] # 0
    BY <2>1, DeleteAgentStatement DEF Statement
  <2>4. Swept(task[r], step[r], committed)
    BY <2>1, <2>2, <2>3 DEF Swept, Unstarted
  <2> QED  BY <1>2, <2>4 DEF StoreInv, TypeOK, Base
<1> QED  BY <1>1, <1>2

LEMMA WriteStep ==
  ASSUME StoreInv, NEW r \in Request, Write(r)
  PROVE  StoreInv'
<1> DEFINE db == Effect(Statement(r), task[r], collected[r], Base(r))
<1>1. CASE Fails(r)  BY <1>1, FailsStep DEF Write
<1>2. CASE ~Fails(r)
  <2>1. /\ Enforced(db) /\ work' = db /\ writer' = r
        /\ step' = [step EXCEPT ![r] = @ + 1]
        /\ UNCHANGED <<committed, task, reader, collected, issued>>
    BY <1>2 DEF Write
  <2>2. /\ task[r] \in Task /\ step[r] \in Nat /\ step[r] < Len(Program(task[r]))
        /\ Statement(r) \notin Checks \cup {"collect"}
        /\ Running(r) /\ writer \in {r, NoOne}
    BY DEF StoreInv, TypeOK, Write, Running
  <2>3. Base(r) \in Db /\ Enforced(Base(r)) /\ Swept(task[r], step[r], Base(r))
    BY <2>2, SweptSoFar
  <2>4. db \in Db  BY <2>2, <2>3, EffectType DEF Statement
  <2>5. Swept(task[r], step[r] + 1, db)
    BY <2>2, <2>3, DeletionSweeps DEF Statement
  <2>6. TypeOK'  BY <2>1, <2>4 DEF StoreInv, TypeOK
  <2>7. task'[writer'] # NoTask /\ Swept(task'[writer'], step'[writer'], work')
    BY <2>1, <2>2, <2>5 DEF StoreInv, TypeOK, Running
  <2>8. \A q \in Request : q # writer' /\ task'[q] # NoTask => Unstarted(q)'
    BY <2>1, <2>2 DEF StoreInv, TypeOK, Unstarted
  <2>9. Enforced(committed') /\ Enforced(work')  BY <2>1 DEF StoreInv
  <2> QED  BY <2>6, <2>7, <2>8, <2>9 DEF StoreInv, Unstarted
<1> QED  BY <1>1, <1>2

LEMMA CommitStep ==
  ASSUME StoreInv, NEW r \in Request, Commit(r)
  PROVE  StoreInv'
<1>1. TypeOK'  BY EmptyDb DEF StoreInv, TypeOK, Commit, Db
<1>2. Enforced(committed') /\ Enforced(work')  BY EmptyDb DEF StoreInv, Commit
<1>3. \A q \in Request : q # writer' /\ task'[q] # NoTask => Unstarted(q)'
  BY DEF StoreInv, TypeOK, Commit, Unstarted
<1> QED  BY <1>1, <1>2, <1>3 DEF StoreInv, Unstarted, Commit

LEMMA CrashStep ==
  ASSUME StoreInv, Crash
  PROVE  StoreInv'
<1>1. TypeOK'  BY EmptyDb DEF StoreInv, TypeOK, Crash
<1>2. Enforced(committed') /\ Enforced(work')  BY EmptyDb DEF StoreInv, Crash
<1> QED  BY <1>1, <1>2 DEF StoreInv, Crash

\* The tasks that arrive are tasks.
LEMMA ArrivesAre ==
  ASSUME StoreInv, NEW r \in Request, Arrives(r)
  PROVE  \E t \in Task : Starts(r, t)
<1>1. ASSUME NEW a \in Agent, CreateAgent(r, a) \/ DeleteAgent(r, a)
      PROVE  \E t \in Task : Starts(r, t)
  BY <1>1 DEF CreateAgent, DeleteAgent, Task
<1>2. ASSUME NEW l \in Link, CreateLink(r, l) \/ DeleteLink(r, l)
      PROVE  \E t \in Task : Starts(r, t)
  BY <1>2 DEF CreateLink, DeleteLink, Task
<1>3. ASSUME NEW d \in Row,
             CreateDirection(r, d) \/ SavePingResult(r, d) \/ SaveMTRRun(r, d)
      PROVE  \E t \in Task : Starts(r, t)
  BY <1>3 DEF CreateDirection, SavePingResult, SaveMTRRun, Task
<1>4. ASSUME NEW old \in SUBSET issued, CleanupExpiredProbeHistory(r, old)
      PROVE  \E t \in Task : Starts(r, t)
  <2>1. old \in SUBSET Row  BY DEF StoreInv, TypeOK
  <2> QED  BY <1>4, <2>1 DEF CleanupExpiredProbeHistory, Task
<1> QED  BY <1>1, <1>2, <1>3, <1>4 DEF Arrives

LEMMA ArrivesStep ==
  ASSUME StoreInv, NEW r \in Request, Arrives(r)
  PROVE  StoreInv'
  BY ArrivesAre, StartsStep

THEOREM StoreInvariant == Spec => []StoreInv
<1>1. Init => StoreInv
  BY EmptyDb DEF Init, StoreInv, TypeOK
<1>2. StoreInv /\ [Next]_vars => StoreInv'
  <2> SUFFICES ASSUME StoreInv, [Next]_vars PROVE StoreInv'  OBVIOUS
  <2>1. CASE Crash  BY <2>1, CrashStep
  <2>2. ASSUME NEW r \in Request, Arrives(r) PROVE StoreInv'  BY <2>2, ArrivesStep
  <2>3. ASSUME NEW r \in Request, Check(r) PROVE StoreInv'  BY <2>3, CheckStep
  <2>4. ASSUME NEW r \in Request, Collect(r) PROVE StoreInv'  BY <2>4, CollectStep
  <2>5. ASSUME NEW r \in Request, Write(r) PROVE StoreInv'  BY <2>5, WriteStep
  <2>6. ASSUME NEW r \in Request, Busy(r) PROVE StoreInv'
    BY <2>6, FailsStep DEF Busy
  <2>7. ASSUME NEW r \in Request, Commit(r) PROVE StoreInv'  BY <2>7, CommitStep
  <2>8. CASE UNCHANGED vars
    <3>1. TypeOK'  BY <2>8 DEF StoreInv, TypeOK, vars
    <3> QED  BY <2>8, <3>1 DEF StoreInv, vars
  <2> QED  BY <2>1, <2>2, <2>3, <2>4, <2>5, <2>6, <2>7, <2>8 DEF Next
<1> QED  BY <1>1, <1>2, PTL DEF Spec

\* No statement of a deletion or of a cleanup is refused.
THEOREM DeletionsCorrect == Spec => []DeletionsPass
<1>1. StoreInv => DeletionsPass
  <2> SUFFICES ASSUME StoreInv, NEW r \in Request, writer = r, task[r] # NoTask,
                      task[r].op \in {"deleteAgent", "deleteLink", "cleanUp"},
                      step[r] < Len(Program(task[r]))
               PROVE  Enforced(Effect(Statement(r), task[r], collected[r], work))
    BY DEF DeletionsPass
  <2>1. /\ task[r] \in Task /\ step[r] \in Nat /\ work \in Db
        /\ Enforced(work) /\ Swept(task[r], step[r], work)
    BY DEF StoreInv, TypeOK
  <2> QED  BY <2>1, DeletionPasses DEF Statement, Deletion
<1> QED  BY <1>1, StoreInvariant, PTL

----------------------------------------------------------------------------
(* A transaction's private view is what its statements have made of the    *)
(* committed database, which changes with a whole program only.            *)

Others(t, rows) == {x \in rows : ~Concerns(t, x)}

\* What the first n statements of task t have made of db.
Done(t, n, db, then) ==
    CASE t.op = "createAgent" ->
            then = IF n = 0 THEN db ELSE [db EXCEPT !.agents = @ \cup {t.agent}]
      [] t.op = "createLink" ->
            then = IF n = 0 THEN db ELSE [db EXCEPT !.links = @ \cup {t.link}]
      [] t.op = "createDirection" ->
            then = IF n <= 3 THEN db ELSE [db EXCEPT !.directions = @ \cup {t.row}]
      [] t.op = "savePing" ->
            then = IF n = 0 THEN db ELSE [db EXCEPT !.pings = @ \cup {t.row}]
      [] t.op = "saveRun" ->
            /\ n = 0 => then = db
            /\ n = 1 => then = [db EXCEPT !.runs = @ \cup {t.row}]
            /\ n >= 2 => then = [db EXCEPT !.runs = @ \cup {t.row}, !.hops = @ \cup {t.row}]
      [] t.op = "deleteAgent" ->
            /\ then.hops = IF n < 2 THEN db.hops ELSE Others(t, db.hops)
            /\ then.runs = IF n < 3 THEN db.runs ELSE Others(t, db.runs)
            /\ then.pings = IF n < 4 THEN db.pings ELSE Others(t, db.pings)
            /\ then.directions = IF n < 5 THEN db.directions ELSE Others(t, db.directions)
            /\ n < 7 => then.agents = db.agents
            /\ n >= 7 => t.agent \in db.agents /\ then.agents = db.agents \ {t.agent}
      [] t.op = "deleteLink" ->
            /\ then.agents = db.agents
            /\ then.hops = IF n < 1 THEN db.hops ELSE Others(t, db.hops)
            /\ then.runs = IF n < 2 THEN db.runs ELSE Others(t, db.runs)
            /\ then.pings = IF n < 3 THEN db.pings ELSE Others(t, db.pings)
            /\ then.directions = IF n < 4 THEN db.directions ELSE Others(t, db.directions)
            /\ then.links = IF n < 5 THEN db.links ELSE db.links \ {t.link}
      [] t.op = "cleanUp" ->
            /\ then.agents = db.agents /\ then.links = db.links
            /\ then.directions = db.directions
            /\ then.pings = IF n < 1 THEN db.pings ELSE Others(t, db.pings)
            /\ then.hops = IF n < 2 THEN db.hops ELSE Others(t, db.hops)
            /\ then.runs = IF n < 3 THEN db.runs ELSE Others(t, db.runs)

\* The first statement that writes finds the committed database.
LEMMA NothingDone ==
  ASSUME NEW t \in Task, NEW db \in Db, NEW k \in Nat, k < Len(Program(t)),
         Program(t)[k + 1] \notin Checks \cup {"collect"},
         t.op = "saveRun" => k = 0, t.op = "deleteAgent" => k <= 1,
         t.op \in {"deleteLink", "cleanUp"} => k = 0
  PROVE  Done(t, k, db, db)
<1>1. CASE t.op \in {"createAgent", "createLink", "savePing"}
  <2>1. k = 0
    BY <1>1, OnlyPosition DEF Program
  <2> QED  BY <1>1, <2>1 DEF Done
<1>2. CASE t.op = "createDirection"
  <2>1. Len(Program(t)) = 4
    BY <1>2 DEF Program
  <2> QED  BY <1>2, <2>1 DEF Done
<1>3. CASE t.op = "saveRun"  BY <1>3 DEF Done
<1>4. CASE t.op = "deleteAgent"  BY <1>4 DEF Done
<1>5. CASE t.op = "deleteLink"  BY <1>5 DEF Done
<1>6. CASE t.op = "cleanUp"  BY <1>6 DEF Done
<1> QED  BY <1>1, <1>2, <1>3, <1>4, <1>5, <1>6, Operations

\* What each statement of a deletion or a cleanup does to the tables.
LEMMA Deleting ==
  ASSUME NEW t, NEW ls, NEW db \in Db, Enforced(db), NEW then,
         NEW s \in {"hops", "runs", "pings", "directions", "links", "agent", "link"},
         then = Effect(s, t, ls, db)
  PROVE  /\ s = "hops" => then.hops = Others(t, db.hops)
         /\ s = "runs" => then.hops = Others(t, db.hops)
         /\ s \notin {"hops", "runs"} => then.hops = db.hops
         /\ then.runs = IF s = "runs" THEN Others(t, db.runs) ELSE db.runs
         /\ then.pings = IF s = "pings" THEN Others(t, db.pings) ELSE db.pings
         /\ s = "directions" => then.directions = Others(t, db.directions)
         /\ s = "link" => then.directions = {d \in db.directions : d.link # t.link}
         /\ s \notin {"directions", "link"} => then.directions = db.directions
         /\ s = "link" => then.links = db.links \ {t.link}
         /\ s \notin {"links", "link"} => then.links = db.links
         /\ s = "agent" => then.agents = db.agents \ {t.agent}
         /\ s # "agent" => then.agents = db.agents
<1>1. db.hops \subseteq db.runs
  BY DEF Enforced, ForeignKeys
<1>2. CASE s = "hops"  BY <1>1, <1>2 DEF Effect, Db, Others
<1>3. CASE s = "runs"  BY <1>1, <1>3 DEF Effect, Db, Others
<1>4. CASE s = "pings"  BY <1>4 DEF Effect, Db, Others
<1>5. CASE s = "directions"  BY <1>5 DEF Effect, Db, Others
<1>6. CASE s = "links"  BY <1>6 DEF Effect, Db, Others
<1>7. CASE s = "agent"  BY <1>7 DEF Effect, Db, Others
<1>8. CASE s = "link"  BY <1>8 DEF Effect, Db, Others
<1> QED  BY <1>2, <1>3, <1>4, <1>5, <1>6, <1>7, <1>8

LEMMA OthersTwice ==
  ASSUME NEW t, NEW rows
  PROVE  Others(t, Others(t, rows)) = Others(t, rows)
BY DEF Others

\* A statement more.
LEMMA DeleteAgentDoes ==
  ASSUME NEW t \in Task, t.op = "deleteAgent", NEW ls, NEW old \in Db, NEW db \in Db,
         Enforced(db), NEW k \in Nat, k < Len(Program(t)), k # 0, Done(t, k, old, db),
         Program(t)[k + 1] = "agent" => t.agent \in db.agents
  PROVE  Done(t, k + 1, old, Effect(Program(t)[k + 1], t, ls, db))
<1> DEFINE s == Program(t)[k + 1]
           then == Effect(s, t, ls, db)
<1>1. s \in {"hops", "runs", "pings", "directions", "links", "agent"}
  BY DeleteAgentStatement
<1>2. /\ db.hops = IF k < 2 THEN old.hops ELSE Others(t, old.hops)
      /\ db.runs = IF k < 3 THEN old.runs ELSE Others(t, old.runs)
      /\ db.pings = IF k < 4 THEN old.pings ELSE Others(t, old.pings)
      /\ db.directions = IF k < 5 THEN old.directions ELSE Others(t, old.directions)
      /\ k < 7 => db.agents = old.agents
  BY DEF Done
<1>3. \/ k = 1 /\ s = "hops"
      \/ k = 2 /\ s = "runs"
      \/ k = 3 /\ s = "pings"
      \/ k = 4 /\ s = "directions"
      \/ k = 5 /\ s = "links"
      \/ k = 6 /\ s = "agent"
  BY DeleteAgentStatement
<1> SUFFICES Done(t, k + 1, old, then)  OBVIOUS
<1>4. CASE k = 1
  BY <1>2, <1>3, <1>4, Deleting DEF Done
<1>5. CASE k = 2
  BY <1>2, <1>3, <1>5, Deleting, OthersTwice DEF Done
<1>6. CASE k = 3
  BY <1>2, <1>3, <1>6, Deleting DEF Done
<1>7. CASE k = 4
  BY <1>2, <1>3, <1>7, Deleting DEF Done
<1>8. CASE k = 5
  BY <1>2, <1>3, <1>8, Deleting DEF Done
<1>9. CASE k = 6
  BY <1>2, <1>3, <1>9, Deleting DEF Done
<1> QED  BY <1>3, <1>4, <1>5, <1>6, <1>7, <1>8, <1>9

LEMMA DeleteLinkDoes ==
  ASSUME NEW t \in Task, t.op = "deleteLink", NEW ls, NEW old \in Db, NEW db \in Db,
         Enforced(db), NEW k \in Nat, k < Len(Program(t)), Done(t, k, old, db)
  PROVE  Done(t, k + 1, old, Effect(Program(t)[k + 1], t, ls, db))
<1> DEFINE s == Program(t)[k + 1]
           then == Effect(s, t, ls, db)
<1>1. \/ k = 0 /\ s = "hops"
      \/ k = 1 /\ s = "runs"
      \/ k = 2 /\ s = "pings"
      \/ k = 3 /\ s = "directions"
      \/ k = 4 /\ s = "link"
  BY DeleteLinkStatement
<1>2. /\ db.agents = old.agents
      /\ db.hops = IF k < 1 THEN old.hops ELSE Others(t, old.hops)
      /\ db.runs = IF k < 2 THEN old.runs ELSE Others(t, old.runs)
      /\ db.pings = IF k < 3 THEN old.pings ELSE Others(t, old.pings)
      /\ db.directions = IF k < 4 THEN old.directions ELSE Others(t, old.directions)
      /\ k < 5 => db.links = old.links
  BY DEF Done
<1> SUFFICES Done(t, k + 1, old, then)  OBVIOUS
<1>3. CASE k = 0
  BY <1>1, <1>2, <1>3, Deleting DEF Done
<1>4. CASE k = 1
  BY <1>1, <1>2, <1>4, Deleting, OthersTwice DEF Done
<1>5. CASE k = 2
  BY <1>1, <1>2, <1>5, Deleting DEF Done
<1>6. CASE k = 3
  BY <1>1, <1>2, <1>6, Deleting DEF Done
<1>7. CASE k = 4
  <2>1. {d \in Others(t, old.directions) : d.link # t.link} = Others(t, old.directions)
    BY DEF Others, Concerns
  <2>2. /\ then.agents = old.agents /\ then.links = old.links \ {t.link}
        /\ then.hops = Others(t, old.hops) /\ then.runs = Others(t, old.runs)
        /\ then.pings = Others(t, old.pings)
        /\ then.directions = {d \in Others(t, old.directions) : d.link # t.link}
    BY <1>1, <1>2, <1>7, Deleting
  <2> QED  BY <1>7, <2>1, <2>2 DEF Done
<1> QED  BY <1>1, <1>3, <1>4, <1>5, <1>6, <1>7

LEMMA CleanUpDoes ==
  ASSUME NEW t \in Task, t.op = "cleanUp", NEW ls, NEW old \in Db, NEW db \in Db,
         Enforced(db), NEW k \in Nat, k < Len(Program(t)), Done(t, k, old, db)
  PROVE  Done(t, k + 1, old, Effect(Program(t)[k + 1], t, ls, db))
<1> DEFINE s == Program(t)[k + 1]
           then == Effect(s, t, ls, db)
<1>1. \/ k = 0 /\ s = "pings"
      \/ k = 1 /\ s = "hops"
      \/ k = 2 /\ s = "runs"
  BY CleanUpStatement
<1>2. /\ db.agents = old.agents /\ db.links = old.links /\ db.directions = old.directions
      /\ db.pings = IF k < 1 THEN old.pings ELSE Others(t, old.pings)
      /\ db.hops = IF k < 2 THEN old.hops ELSE Others(t, old.hops)
      /\ db.runs = IF k < 3 THEN old.runs ELSE Others(t, old.runs)
  BY DEF Done
<1> SUFFICES Done(t, k + 1, old, then)  OBVIOUS
<1>3. CASE k = 0
  BY <1>1, <1>2, <1>3, Deleting DEF Done
<1>4. CASE k = 1
  BY <1>1, <1>2, <1>4, Deleting DEF Done
<1>5. CASE k = 2
  BY <1>1, <1>2, <1>5, Deleting, OthersTwice DEF Done
<1> QED  BY <1>1, <1>3, <1>4, <1>5

LEMMA InsertDoes ==
  ASSUME NEW t \in Task, t.op \notin {"deleteAgent", "deleteLink", "cleanUp"}, NEW ls,
         NEW old \in Db, NEW db \in Db, NEW k \in Nat, k < Len(Program(t)),
         Done(t, k, old, db), Program(t)[k + 1] \notin Checks
  PROVE  Done(t, k + 1, old, Effect(Program(t)[k + 1], t, ls, db))
<1>1. CASE t.op = "createAgent"
  <2>1. k = 0 /\ Program(t)[k + 1] = "insertAgent"
    BY <1>1, OnlyPosition DEF Program
  <2> QED  BY <1>1, <2>1 DEF Done, Effect
<1>2. CASE t.op = "createLink"
  <2>1. k = 0 /\ Program(t)[k + 1] = "insertLink"
    BY <1>2, OnlyPosition DEF Program
  <2> QED  BY <1>2, <2>1 DEF Done, Effect
<1>3. CASE t.op = "createDirection"
  <2>1. Program(t) = <<"findLink", "findSource", "findDestination", "insertDirection">>
    BY <1>3 DEF Program
  <2>2. k = 3 /\ Program(t)[k + 1] = "insertDirection"
    BY <2>1, CreateDirectionPositions DEF Checks
  <2> QED  BY <1>3, <2>2 DEF Done, Effect
<1>4. CASE t.op = "savePing"
  <2>1. k = 0 /\ Program(t)[k + 1] = "insertPing"
    BY <1>4, OnlyPosition DEF Program
  <2> QED  BY <1>4, <2>1 DEF Done, Effect
<1>5. CASE t.op = "saveRun"
  <2>1. Program(t) = <<"insertRun", "insertHops">>
    BY <1>5 DEF Program
  <2>2. CASE k = 0
    <3>1. Program(t)[k + 1] = "insertRun"  BY <2>1, <2>2
    <3> QED  BY <1>5, <2>2, <3>1 DEF Done, Effect
  <2>3. CASE k = 1
    <3>1. Program(t)[k + 1] = "insertHops"  BY <2>1, <2>3
    <3>2. db = [old EXCEPT !.runs = @ \cup {t.row}]  BY <1>5, <2>3 DEF Done
    <3>3. [db EXCEPT !.hops = @ \cup {t.row}]
            = [old EXCEPT !.runs = @ \cup {t.row}, !.hops = @ \cup {t.row}]
      BY <3>2 DEF Db
    <3> QED  BY <1>5, <2>3, <3>1, <3>3 DEF Done, Effect
  <2> QED  BY <2>1, <2>2, <2>3, SaveRunPositions
<1> QED  BY <1>1, <1>2, <1>3, <1>4, <1>5, Operations

LEMMA DoneStep ==
  ASSUME NEW t \in Task, NEW ls, NEW old \in Db, NEW db \in Db, Enforced(db),
         NEW k \in Nat, k < Len(Program(t)), Done(t, k, old, db),
         Program(t)[k + 1] \notin Checks \cup {"collect"},
         Program(t)[k + 1] = "agent" => t.agent \in db.agents
  PROVE  Done(t, k + 1, old, Effect(Program(t)[k + 1], t, ls, db))
<1>1. CASE t.op = "deleteAgent"
  <2>1. k # 0  BY <1>1, DeleteAgentStatement
  <2> QED  BY <1>1, <2>1, DeleteAgentDoes
<1>2. CASE t.op = "deleteLink"  BY <1>2, DeleteLinkDoes
<1>3. CASE t.op = "cleanUp"  BY <1>3, CleanUpDoes
<1>4. CASE t.op \notin {"deleteAgent", "deleteLink", "cleanUp"}  BY <1>4, InsertDoes
<1> QED  BY <1>1, <1>2, <1>3, <1>4

\* The private view of the writing transaction; a run's transaction begins with
\* its first write.
WorkIsDone ==
    /\ writer # NoOne => Done(task[writer], step[writer], committed, work)
    /\ \A r \in Request :
          r # writer /\ task[r] # NoTask /\ task[r].op = "saveRun" => step[r] = 0

LEMMA FailsDone ==
  ASSUME StoreInv, WorkIsDone, NEW r \in Request, Fails(r), UNCHANGED committed
  PROVE  WorkIsDone'
<1>1. task'[r] = NoTask /\ writer' # r
  BY StoreAssumption DEF Fails, StoreInv, TypeOK
<1>2. \A q \in Request : q # r => task'[q] = task[q] /\ step'[q] = step[q]
  BY DEF Fails, StoreInv, TypeOK
<1>3. writer' # NoOne => writer' = writer /\ writer \in Request /\ work' = work
  BY DEF Fails, StoreInv, TypeOK
<1>4. writer' # NoOne => Done(task'[writer'], step'[writer'], committed', work')
  BY <1>1, <1>2, <1>3 DEF WorkIsDone
<1>5. \A q \in Request : q # r => (q = writer' <=> q = writer)
  BY StoreAssumption DEF Fails, StoreInv, TypeOK
<1> QED  BY <1>1, <1>2, <1>4, <1>5 DEF WorkIsDone

LEMMA WriteDone ==
  ASSUME StoreInv, WorkIsDone, NEW r \in Request, Write(r)
  PROVE  WorkIsDone'
<1>1. CASE Fails(r)
  BY <1>1, FailsDone DEF Write
<1>2. CASE ~Fails(r)
  <2>1. /\ work' = Effect(Statement(r), task[r], collected[r], Base(r)) /\ writer' = r
        /\ Statement(r) = "agent" => task[r].agent \in Base(r).agents
        /\ step' = [step EXCEPT ![r] = @ + 1]
        /\ UNCHANGED <<committed, task, reader, collected>>
    BY <1>2 DEF Write
  <2>2. /\ task[r] \in Task /\ step[r] \in Nat /\ step[r] < Len(Program(task[r]))
        /\ Statement(r) \notin Checks \cup {"collect"} /\ Running(r)
        /\ writer \in {r, NoOne}
    BY DEF StoreInv, TypeOK, Write, Running
  <2>3. committed \in Db /\ Base(r) \in Db /\ Enforced(Base(r))
    BY <2>2, SweptSoFar DEF StoreInv, TypeOK
  <2>4. Done(task[r], step[r], committed, Base(r))
    <3>1. CASE writer = r
      BY <3>1, StoreAssumption DEF WorkIsDone, Base
    <3>2. CASE writer # r
      <4>1. /\ task[r].op = "saveRun" => step[r] = 0
            /\ task[r].op = "deleteAgent" => step[r] <= 1
            /\ task[r].op \in {"deleteLink", "cleanUp"} => step[r] = 0
        BY <2>2, <3>2 DEF WorkIsDone, StoreInv, Running
      <4> QED  BY <2>2, <2>3, <3>2, <4>1, NothingDone DEF Base, Statement
    <3> QED  BY <3>1, <3>2
  <2>5. Done(task[r], step[r] + 1, committed, work')
    BY <2>1, <2>2, <2>3, <2>4, DoneStep DEF Statement
  <2>6. step'[r] = step[r] + 1 /\ \A q \in Request : q # r => step'[q] = step[q] /\ writer # q
    BY <2>1, <2>2, StoreAssumption DEF StoreInv, TypeOK
  <2> QED  BY <2>1, <2>5, <2>6 DEF WorkIsDone
<1> QED  BY <1>1, <1>2

LEMMA CheckDone ==
  ASSUME StoreInv, WorkIsDone, NEW r \in Request, Check(r)
  PROVE  WorkIsDone'
<1>1. CASE Fails(r)
  BY <1>1, FailsDone DEF Check
<1>2. CASE ~Fails(r)
  <2>1. /\ step' = [step EXCEPT ![r] = @ + 1]
        /\ UNCHANGED <<committed, work, writer, task>>
    BY <1>2 DEF Check
  <2>2. /\ task[r] \in Task /\ step[r] \in Nat /\ step[r] < Len(Program(task[r]))
        /\ Program(task[r])[step[r] + 1] \in Checks
    BY DEF StoreInv, TypeOK, Check, Running, Statement
  <2>3. task[r].op = "createDirection"
    <3>1. task[r].op \notin {"deleteAgent", "deleteLink", "cleanUp"}
      BY <2>2, DeleteAgentStatement, DeleteLinkStatement, CleanUpStatement DEF Checks
    <3>2. task[r].op \notin {"createAgent", "createLink", "savePing"}
      BY <2>2, OnlyPosition DEF Checks, Program
    <3>3. task[r].op # "saveRun"
      <4>1. task[r].op = "saveRun" => Program(task[r]) = <<"insertRun", "insertHops">>
        BY DEF Program
      <4> QED  BY <2>2, <4>1, SaveRunPositions DEF Checks
    <3> QED  BY <2>2, <3>1, <3>2, <3>3, Operations
  <2>4. step[r] <= 2
    <3>1. Program(task[r]) = <<"findLink", "findSource", "findDestination", "insertDirection">>
      BY <2>3 DEF Program
    <3> QED  BY <2>2, <3>1, CreateDirectionPositions DEF Checks
  <2>5. \A q \in Request : q # r => step'[q] = step[q]
    BY <2>1 DEF StoreInv, TypeOK
  <2>6. Done(task[r], step[r], committed, work) => Done(task[r], step[r] + 1, committed, work)
    BY <2>2, <2>3, <2>4 DEF Done
  <2>7. writer \in Request \cup {NoOne} /\ step'[r] = step[r] + 1
    BY <2>1 DEF StoreInv, TypeOK
  <2> QED  BY <2>1, <2>3, <2>5, <2>6, <2>7 DEF WorkIsDone
<1> QED  BY <1>1, <1>2

LEMMA CollectDone ==
  ASSUME StoreInv, WorkIsDone, NEW r \in Request, Collect(r)
  PROVE  WorkIsDone'
<1>1. /\ task[r] \in Task /\ step[r] \in Nat /\ step[r] < Len(Program(task[r]))
      /\ Program(task[r])[step[r] + 1] = "collect"
  BY DEF StoreInv, TypeOK, Collect, Running, Statement
<1>2. task[r].op = "deleteAgent" /\ step[r] = 0
  BY <1>1, DeleteAgentStatement, DeleteLinkStatement, CleanUpStatement, InsertStatement
     DEF Checks
<1>3. writer # r
  BY <1>2 DEF StoreInv, Swept
<1>4. /\ \A q \in Request : q # r => step'[q] = step[q]
      /\ UNCHANGED <<committed, work, writer, task>>
  BY DEF Collect, StoreInv, TypeOK
<1>5. writer \in Request \cup {NoOne}
  BY DEF StoreInv, TypeOK
<1> QED  BY <1>2, <1>3, <1>4, <1>5 DEF WorkIsDone

LEMMA CommitDone ==
  ASSUME StoreInv, WorkIsDone, NEW r \in Request, Commit(r)
  PROVE  WorkIsDone'
<1>1. writer' = NoOne /\ \A q \in Request : q # r => task'[q] = task[q] /\ step'[q] = step[q]
  BY DEF Commit, StoreInv, TypeOK
<1>2. task'[r] = NoTask /\ writer = r
  BY DEF Commit, StoreInv, TypeOK
<1> QED  BY <1>1, <1>2 DEF WorkIsDone

LEMMA StartsDone ==
  ASSUME StoreInv, WorkIsDone, NEW r \in Request, NEW t \in Task, Starts(r, t)
  PROVE  WorkIsDone'
<1>1. writer # r /\ step'[r] = 0
  BY DEF StoreInv, TypeOK, Starts
<1>2. /\ \A q \in Request : q # r => task'[q] = task[q] /\ step'[q] = step[q]
      /\ UNCHANGED <<committed, work, writer>>
  BY DEF Starts, StoreInv, TypeOK
<1>3. writer \in Request \cup {NoOne}
  BY DEF StoreInv, TypeOK
<1> QED  BY <1>1, <1>2, <1>3 DEF WorkIsDone

LEMMA WorkIsDoneStep ==
  ASSUME StoreInv, WorkIsDone, [Next]_vars
  PROVE  WorkIsDone'
<1>1. CASE Crash
  BY <1>1 DEF Crash, WorkIsDone
<1>2. ASSUME NEW r \in Request, Arrives(r) PROVE WorkIsDone'
  BY <1>2, ArrivesAre, StartsDone
<1>3. ASSUME NEW r \in Request, Check(r) PROVE WorkIsDone'
  BY <1>3, CheckDone
<1>4. ASSUME NEW r \in Request, Collect(r) PROVE WorkIsDone'
  BY <1>4, CollectDone
<1>5. ASSUME NEW r \in Request, Write(r) PROVE WorkIsDone'
  BY <1>5, WriteDone
<1>6. ASSUME NEW r \in Request, Busy(r) PROVE WorkIsDone'
  BY <1>6, FailsDone DEF Busy
<1>7. ASSUME NEW r \in Request, Commit(r) PROVE WorkIsDone'
  BY <1>7, CommitDone
<1>8. CASE UNCHANGED vars
  BY <1>8 DEF vars, WorkIsDone
<1> QED  BY <1>1, <1>2, <1>3, <1>4, <1>5, <1>6, <1>7, <1>8 DEF Next

\* The whole program keeps the handler's promise: what it inserted refers to what
\* is there, and what it deleted are the rows of its agent, link or age.
LEMMA DoneKeepsPromise ==
  ASSUME NEW t \in Task, NEW old \in Db, NEW new \in Db, Enforced(new),
         Done(t, Len(Program(t)), old, new)
  PROVE  Promises(t, old, new)
<1> DEFINE n == Len(Program(t))
<1>1. CASE t.op = "createAgent"
  <2>1. n = 1  BY <1>1 DEF Program
  <2> QED  BY <1>1, <2>1 DEF Done, Promises
<1>2. CASE t.op = "createDirection"
  <2>1. n = 4  BY <1>2 DEF Program
  <2>2. new = [old EXCEPT !.directions = @ \cup {t.row}]
    BY <1>2, <2>1 DEF Done
  <2>3. t.row \in new.directions /\ new.links = old.links /\ new.agents = old.agents
    BY <2>2 DEF Db
  <2>4. t.row.link \in old.links /\ Endpoints(t.row) \subseteq old.agents
    BY <2>3 DEF Enforced, ForeignKeys
  <2> QED  BY <1>2, <2>2, <2>4 DEF Promises
<1>3. CASE t.op = "savePing"
  <2>1. n = 1  BY <1>3 DEF Program
  <2>2. new = [old EXCEPT !.pings = @ \cup {t.row}]
    BY <1>3, <2>1 DEF Done
  <2>3. t.row \in new.pings /\ new.directions = old.directions
    BY <2>2 DEF Db
  <2>4. t.row \in old.directions
    BY <2>3 DEF Enforced, ForeignKeys
  <2> QED  BY <1>3, <2>2, <2>4 DEF Promises
<1>4. CASE t.op = "saveRun"
  <2>1. n = 2  BY <1>4 DEF Program
  <2>2. new = [old EXCEPT !.runs = @ \cup {t.row}, !.hops = @ \cup {t.row}]
    BY <1>4, <2>1 DEF Done
  <2>3. t.row \in new.runs /\ new.directions = old.directions
    BY <2>2 DEF Db
  <2>4. t.row \in old.directions
    BY <2>3 DEF Enforced, ForeignKeys
  <2> QED  BY <1>4, <2>2, <2>4 DEF Promises
<1>5. CASE t.op = "deleteAgent"
  <2>1. n = 7  BY <1>5 DEF Program
  <2>2. \A rows \in SUBSET Row :
          Others(t, rows) = rows \ {d \in Row : t.agent \in Endpoints(d)}
    BY <1>5 DEF Others, Concerns
  <2>3. /\ t.agent \in old.agents /\ new.agents = old.agents \ {t.agent}
        /\ new.hops = Others(t, old.hops) /\ new.runs = Others(t, old.runs)
        /\ new.pings = Others(t, old.pings) /\ new.directions = Others(t, old.directions)
    BY <1>5, <2>1 DEF Done
  <2>4. new = [Without(old, {d \in Row : t.agent \in Endpoints(d)})
                EXCEPT !.agents = @ \ {t.agent}, !.links = new.links]
    BY <2>2, <2>3 DEF Db, Without
  <2> QED  BY <1>5, <2>3, <2>4 DEF Promises
<1>6. CASE t.op = "deleteLink"
  <2>1. n = 5  BY <1>6 DEF Program
  <2>2. \A rows \in SUBSET Row : Others(t, rows) = rows \ {d \in Row : d.link = t.link}
    BY <1>6 DEF Others, Concerns
  <2>3. /\ new.agents = old.agents /\ new.links = old.links \ {t.link}
        /\ new.hops = Others(t, old.hops) /\ new.runs = Others(t, old.runs)
        /\ new.pings = Others(t, old.pings) /\ new.directions = Others(t, old.directions)
    BY <1>6, <2>1 DEF Done
  <2>4. new = [Without(old, {d \in Row : d.link = t.link}) EXCEPT !.links = @ \ {t.link}]
    BY <2>2, <2>3 DEF Db, Without
  <2> QED  BY <1>6, <2>4 DEF Promises
<1>7. CASE t.op = "cleanUp"
  <2>1. n = 3  BY <1>7 DEF Program
  <2>2. \A rows \in SUBSET Row : Others(t, rows) = rows \ t.old
    BY <1>7 DEF Others, Concerns
  <2>3. /\ new.agents = old.agents /\ new.links = old.links
        /\ new.directions = old.directions
        /\ new.hops = Others(t, old.hops) /\ new.runs = Others(t, old.runs)
        /\ new.pings = Others(t, old.pings)
    BY <1>7, <2>1 DEF Done
  <2>4. new = [old EXCEPT !.pings = @ \ t.old, !.runs = @ \ t.old, !.hops = @ \ t.old]
    BY <2>2, <2>3 DEF Db
  <2> QED  BY <1>7, <2>4 DEF Promises
<1>8. CASE t.op = "createLink"
  <2>1. n = 1  BY <1>8 DEF Program
  <2> QED  BY <1>8, <2>1 DEF Done, Promises
<1> QED  BY <1>1, <1>2, <1>3, <1>4, <1>5, <1>6, <1>7, <1>8, Operations

LEMMA AllOrNothingStep ==
  ASSUME StoreInv, WorkIsDone, [Next]_vars, committed' # committed
  PROVE  \E r \in Request : /\ task[r] # NoTask /\ task'[r] = NoTask
                            /\ Promises(task[r], committed, committed')
<1>1. PICK r \in Request : Commit(r)
  <2>1. \A r \in Request : Arrives(r) => committed' = committed
    BY ArrivesAre DEF Starts
  <2> QED  BY <2>1 DEF Next, Crash, Check, Collect, Write, Busy, vars
<1>2. /\ task[r] \in Task /\ task[r] # NoTask /\ task'[r] = NoTask
      /\ committed' = work /\ committed \in Db /\ work \in Db /\ Enforced(work)
  BY <1>1 DEF Commit, StoreInv, TypeOK
<1>3. Done(task[r], Len(Program(task[r])), committed, work)
  BY <1>1, StoreAssumption DEF Commit, WorkIsDone
<1> QED  BY <1>2, <1>3, DoneKeepsPromise

\* Readers see complete operations only, made on what they find committed.
THEOREM AllOrNothingCorrect == Spec => AllOrNothing
<1>1. Init => WorkIsDone
  BY DEF Init, WorkIsDone
<1>2. StoreInv /\ WorkIsDone /\ [Next]_vars => WorkIsDone'
  BY WorkIsDoneStep
<1> DEFINE Whole ==
      committed' # committed =>
         \E r \in Request : /\ task[r] # NoTask /\ task'[r] = NoTask
                            /\ Promises(task[r], committed, committed')
<1>3. StoreInv /\ WorkIsDone /\ [Next]_vars => [Whole]_vars
  BY AllOrNothingStep
<1> QED  BY <1>1, <1>2, <1>3, StoreInvariant, PTL DEF Spec, AllOrNothing

----------------------------------------------------------------------------
(* The links that a deleted agent takes with it.                           *)

Linked(t, db) == {d.link : d \in {x \in db.directions : Concerns(t, x)}}

\* What the first n statements of DeleteAgent have made of db's directions and
\* links.
Removed(t, n, ls, db, then) ==
    /\ then.directions = IF n < 5 THEN db.directions
                         ELSE {d \in db.directions : ~Concerns(t, d)}
    /\ then.links = IF n < 6 THEN db.links
                    ELSE {l \in db.links : l \in ls => \E d \in then.directions : d.link = l}

Deletes(r) == task[r] # NoTask /\ task[r].op = "deleteAgent"

\* Until its snapshot is stale, DeleteAgent has collected what is committed; and
\* it writes only while its snapshot is fresh.
CollectedIsTrue ==
    \A r \in Request : Deletes(r) =>
        /\ step[r] >= 1 => reader[r] # "none"
        /\ step[r] >= 1 /\ reader[r] = "fresh" => collected[r] = Linked(task[r], committed)
        /\ writer = r => /\ reader[r] = "fresh"
                        /\ step[r] >= 1
                        /\ Removed(task[r], step[r], collected[r], committed, work)

LEMMA DeleteAgentRemoves ==
  ASSUME NEW t, t.op = "deleteAgent", NEW ls, NEW old \in Db, NEW db \in Db,
         NEW k \in Nat, k < Len(Program(t)), k # 0, Removed(t, k, ls, old, db)
  PROVE  Removed(t, k + 1, ls, old, Effect(Program(t)[k + 1], t, ls, db))
<1> DEFINE s == Program(t)[k + 1]
           then == Effect(s, t, ls, db)
<1>1. s \in {"hops", "runs", "pings", "agent"} =>
        then.directions = db.directions /\ then.links = db.links
  BY DEF Effect, Db
<1>2. s = "directions" => /\ then.directions = {d \in db.directions : ~Concerns(t, d)}
                          /\ then.links = db.links
  BY DEF Effect, Db
<1>3. s = "links" =>
        /\ then.directions = db.directions
        /\ then.links = {l \in db.links : l \in ls => \E d \in db.directions : d.link = l}
  BY DEF Effect, Db
<1> SUFFICES Removed(t, k + 1, ls, old, then)  OBVIOUS
<1> HIDE DEF then
<1>4. CASE k \in {1, 2, 3}
  BY <1>1, <1>4, DeleteAgentStatement DEF Removed
<1>5. CASE k = 4
  BY <1>2, <1>5, DeleteAgentStatement DEF Removed
<1>6. CASE k = 5
  BY <1>3, <1>6, DeleteAgentStatement DEF Removed
<1>7. CASE k = 6
  BY <1>1, <1>7, DeleteAgentStatement DEF Removed
<1> QED  BY <1>4, <1>5, <1>6, <1>7, DeleteAgentStatement

LEMMA FailsCollected ==
  ASSUME StoreInv, CollectedIsTrue, NEW r \in Request, Fails(r), UNCHANGED committed
  PROVE  CollectedIsTrue'
<1> SUFFICES ASSUME NEW q \in Request, Deletes(q)'
             PROVE  /\ step'[q] >= 1 => reader'[q] # "none"
                    /\ step'[q] >= 1 /\ reader'[q] = "fresh"
                         => collected'[q] = Linked(task'[q], committed')
                    /\ writer' = q =>
                         /\ reader'[q] = "fresh" /\ step'[q] >= 1
                         /\ Removed(task'[q], step'[q], collected'[q], committed', work')
  BY DEF CollectedIsTrue
<1>1. q # r
  BY DEF Fails, Deletes, StoreInv, TypeOK
<1>2. /\ step'[q] = step[q] /\ reader'[q] = reader[q] /\ collected'[q] = collected[q]
      /\ task'[q] = task[q] /\ (writer' = q => writer = q /\ work' = work)
  BY <1>1, StoreAssumption DEF Fails, StoreInv, TypeOK
<1> QED  BY <1>2 DEF CollectedIsTrue, Deletes

LEMMA WriteCollected ==
  ASSUME StoreInv, CollectedIsTrue, NEW r \in Request, Write(r)
  PROVE  CollectedIsTrue'
<1>1. CASE Fails(r)
  BY <1>1, FailsCollected DEF Write
<1>2. CASE ~Fails(r)
  <2>1. /\ work' = Effect(Statement(r), task[r], collected[r], Base(r)) /\ writer' = r
        /\ step' = [step EXCEPT ![r] = @ + 1]
        /\ UNCHANGED <<committed, task, reader, collected>>
    BY <1>2 DEF Write
  <2>2. /\ task[r] \in Task /\ step[r] \in Nat /\ step[r] < Len(Program(task[r]))
        /\ Statement(r) # "collect" /\ Running(r) /\ writer \in {r, NoOne}
        /\ (writer = r \/ reader[r] # "stale")
        /\ reader[r] \in {"none", "fresh", "stale"}
    BY DEF StoreInv, TypeOK, Write, Running
  <2>3. committed \in Db /\ Base(r) \in Db
    BY DEF StoreInv, TypeOK, Base
  <2>4. step'[r] = step[r] + 1 /\ \A q \in Request : q # r => step'[q] = step[q] /\ writer # q
    BY <2>1, <2>2 DEF StoreInv, TypeOK
  <2>5. ASSUME Deletes(r)
        PROVE  /\ reader[r] = "fresh" /\ step[r] >= 1
               /\ Removed(task[r], step[r] + 1, collected[r], committed, work')
    <3>1. step[r] # 0
      BY <2>2, <2>5, DeleteAgentStatement DEF Deletes, Statement
    <3>2. step[r] >= 1 /\ reader[r] = "fresh"
      BY <2>2, <2>5, <3>1 DEF CollectedIsTrue
    <3>3. Removed(task[r], step[r], collected[r], committed, Base(r))
      <4>1. CASE writer = r
        BY <2>5, <4>1 DEF CollectedIsTrue, Base
      <4>2. CASE writer # r
        <5>1. step[r] <= 1
          BY <2>5, <4>2 DEF StoreInv, Deletes
        <5> QED  BY <2>2, <4>2, <5>1 DEF Removed, Base
      <4> QED  BY <4>1, <4>2
    <3> QED  BY <2>1, <2>2, <2>3, <2>5, <3>1, <3>2, <3>3, DeleteAgentRemoves
             DEF Deletes, Statement
  <2>6. \A q \in Request : Deletes(q)' => Deletes(q)
    BY <2>1 DEF Deletes
  <2> QED  BY <2>1, <2>2, <2>4, <2>5, <2>6 DEF CollectedIsTrue
<1> QED  BY <1>1, <1>2

LEMMA CollectCollected ==
  ASSUME StoreInv, CollectedIsTrue, NEW r \in Request, Collect(r)
  PROVE  CollectedIsTrue'
<1>1. /\ task[r] \in Task /\ step[r] \in Nat /\ step[r] < Len(Program(task[r]))
      /\ Program(task[r])[step[r] + 1] = "collect"
  BY DEF StoreInv, TypeOK, Collect, Running, Statement
<1>2. task[r].op = "deleteAgent" /\ step[r] = 0
  BY <1>1, DeleteAgentStatement, DeleteLinkStatement, CleanUpStatement, InsertStatement
     DEF Checks
<1>3. writer # r
  BY <1>2 DEF StoreInv, Swept
<1>4. /\ collected' = [collected EXCEPT ![r] = Linked(task[r], committed)]
      /\ reader' = [reader EXCEPT ![r] = "fresh"] /\ step' = [step EXCEPT ![r] = @ + 1]
      /\ UNCHANGED <<committed, work, writer, task>>
  BY DEF Collect, Linked
<1>5. /\ collected'[r] = Linked(task[r], committed) /\ reader'[r] = "fresh"
      /\ \A q \in Request : q # r => /\ step'[q] = step[q] /\ reader'[q] = reader[q]
                                     /\ collected'[q] = collected[q]
  BY <1>4 DEF StoreInv, TypeOK
<1> QED  BY <1>3, <1>4, <1>5 DEF CollectedIsTrue, Deletes

LEMMA CommitCollected ==
  ASSUME StoreInv, CollectedIsTrue, NEW r \in Request, Commit(r)
  PROVE  CollectedIsTrue'
<1>1. \A q \in Request : Deletes(q)' =>
         /\ q # r /\ Deletes(q) /\ writer' # q
         /\ step'[q] = step[q] /\ reader'[q] # "fresh"
         /\ reader'[q] = "none" => reader[q] = "none"
  BY StoreAssumption DEF Commit, Deletes, StoreInv, TypeOK
<1> QED  BY <1>1 DEF CollectedIsTrue

LEMMA StartsCollected ==
  ASSUME StoreInv, CollectedIsTrue, NEW r \in Request, NEW t \in Task, Starts(r, t)
  PROVE  CollectedIsTrue'
<1>1. writer # r
  BY DEF StoreInv, Starts
<1>2. /\ step'[r] = 0
      /\ \A q \in Request : q # r => task'[q] = task[q] /\ step'[q] = step[q]
      /\ UNCHANGED <<committed, work, writer, reader, collected>>
  BY DEF Starts, StoreInv, TypeOK
<1>3. \A q \in Request : q # r => (Deletes(q)' <=> Deletes(q))
  BY <1>2 DEF Deletes
<1> QED  BY <1>1, <1>2, <1>3 DEF CollectedIsTrue

LEMMA CheckCollected ==
  ASSUME StoreInv, CollectedIsTrue, NEW r \in Request, Check(r)
  PROVE  CollectedIsTrue'
<1>1. CASE Fails(r)
  BY <1>1, FailsCollected DEF Check
<1>2. CASE ~Fails(r)
  <2>1. /\ step' = [step EXCEPT ![r] = @ + 1]
        /\ UNCHANGED <<committed, work, writer, task, reader, collected>>
    BY <1>2 DEF Check
  <2>2. /\ task[r] \in Task /\ step[r] \in Nat /\ step[r] < Len(Program(task[r]))
        /\ Program(task[r])[step[r] + 1] \in Checks
    BY DEF StoreInv, TypeOK, Check, Running, Statement
  <2>3. ~Deletes(r)
    BY <2>2, DeleteAgentStatement DEF Deletes, Checks
  <2>4. \A q \in Request : Deletes(q)' => Deletes(q) /\ q # r /\ step'[q] = step[q]
    BY <2>1, <2>3 DEF Deletes, StoreInv, TypeOK
  <2> QED  BY <2>1, <2>4 DEF CollectedIsTrue
<1> QED  BY <1>1, <1>2

LEMMA CollectedStep ==
  ASSUME StoreInv, CollectedIsTrue, [Next]_vars
  PROVE  CollectedIsTrue'
<1>1. CASE Crash
  BY <1>1 DEF Crash, CollectedIsTrue, Deletes
<1>2. ASSUME NEW r \in Request, Arrives(r) PROVE CollectedIsTrue'
  BY <1>2, ArrivesAre, StartsCollected
<1>3. ASSUME NEW r \in Request, Check(r) PROVE CollectedIsTrue'
  BY <1>3, CheckCollected
<1>4. ASSUME NEW r \in Request, Collect(r) PROVE CollectedIsTrue'
  BY <1>4, CollectCollected
<1>5. ASSUME NEW r \in Request, Write(r) PROVE CollectedIsTrue'
  BY <1>5, WriteCollected
<1>6. ASSUME NEW r \in Request, Busy(r) PROVE CollectedIsTrue'
  BY <1>6, FailsCollected DEF Busy
<1>7. ASSUME NEW r \in Request, Commit(r) PROVE CollectedIsTrue'
  BY <1>7, CommitCollected
<1>8. CASE UNCHANGED vars
  BY <1>8 DEF vars, CollectedIsTrue, Deletes
<1> QED  BY <1>1, <1>2, <1>3, <1>4, <1>5, <1>6, <1>7, <1>8 DEF Next

\* The step of DeleteAgent that is seen is its commit.
LEMMA EmptiedLinksStep ==
  ASSUME StoreInv, CollectedIsTrue, [Next]_vars, NEW r \in Request, Deletes(r), writer = r,
         committed' # committed, NEW l \in committed.links
  PROVE  (l \notin committed'.links) <=>
            /\ \E d \in committed.directions : d.link = l /\ task[r].agent \in Endpoints(d)
            /\ \A d \in committed'.directions : d.link # l
<1>1. PICK q \in Request : Commit(q)
  <2>1. \A q \in Request : Arrives(q) => committed' = committed
    BY ArrivesAre DEF Starts
  <2> QED  BY <2>1 DEF Next, Crash, Check, Collect, Write, Busy, vars
<1>2. q = r /\ committed' = work /\ step[r] = Len(Program(task[r]))
  BY <1>1 DEF Commit
<1>3. step[r] = 7
  <2>1. Program(task[r]) = <<"collect", "hops", "runs", "pings", "directions", "links", "agent">>
    BY DEF Program, Deletes
  <2> QED  BY <1>2, <2>1
<1>4. /\ Removed(task[r], 7, collected[r], committed, work)
      /\ collected[r] = Linked(task[r], committed)
  BY <1>3 DEF CollectedIsTrue
<1>5. l \in collected[r] <=>
         \E d \in committed.directions : d.link = l /\ task[r].agent \in Endpoints(d)
  BY <1>4 DEF Linked, Concerns, Deletes
<1> QED  BY <1>2, <1>4, <1>5 DEF Removed

\* A deleted agent takes with it exactly the links that lose their last
\* direction, whatever is created and deleted at the same time.
THEOREM EmptiedLinksCorrect == Spec => EmptiedLinksGo
<1>1. Init => CollectedIsTrue
  BY DEF Init, CollectedIsTrue, Deletes
<1>2. StoreInv /\ CollectedIsTrue /\ [Next]_vars => CollectedIsTrue'
  BY CollectedStep
<1> DEFINE Emptied ==
      \A r \in Request :
        LET t == task[r] IN
        t # NoTask /\ t.op = "deleteAgent" /\ writer = r /\ committed' # committed =>
          \A l \in committed.links :
            (l \notin committed'.links) <=>
              /\ \E d \in committed.directions : d.link = l /\ t.agent \in Endpoints(d)
              /\ \A d \in committed'.directions : d.link # l
<1>3. StoreInv /\ CollectedIsTrue /\ [Next]_vars => [Emptied]_vars
  BY EmptiedLinksStep DEF Deletes
<1> QED  BY <1>1, <1>2, <1>3, StoreInvariant, PTL DEF Spec, EmptiedLinksGo
=============================================================================
