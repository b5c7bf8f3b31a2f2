------------------------------- MODULE Mirror -------------------------------
(***************************************************************************)
(* What the controller tells an external metrics backend (storage.Store,   *)
(* VMMStore): every result, after it was saved in the database, with names *)
(* that are looked up one by one, and every thirty seconds an inventory    *)
(* that is read table by table, while requests change the tables.  The     *)
(* backend may be down; nothing is written a second time.                  *)
(*                                                                         *)
(* One handler of results stands for all of them, and a request is one     *)
(* step: Store has the statements of requests and the tables of results.   *)
(***************************************************************************)
EXTENDS Naturals

CONSTANTS
    Agent, Link,   \* identities
    DirectionRow,  \* records of a link, a source and a destination
    NoResult,
    MaxFailures    \* bound: what fails by itself, the process included

ResultKind == {"result", "status"}   \* "status": a failed ping without a result
Result == [kind : ResultKind, of : DirectionRow]
Named  == {"link", "source", "destination"}

Inventory == [agents : SUBSET Agent, links : SUBSET Link, directions : SUBSET DirectionRow]
NoRows  == [agents |-> {}, links |-> {}, directions |-> {}]

ASSUME MirrorAssumption ==
    /\ DirectionRow \subseteq [link : Link, source : Agent, destination : Agent]
    /\ NoResult \notin Result
    /\ MaxFailures \in Nat

VARIABLES
    db,         \* the tables
    deleted,    \* ghost: what was deleted from them
    at,         \* handleResult: "idle", "save", a query of metricContext, "write"
    result,     \* the result it handles
    saved,      \* ghost: it is committed
    names,      \* the names metricContext has found for it
    missed,     \* ghost: those it missed because a query failed
    turn,       \* runMetricsExport: "waits", a query of ExportInventory, "write"
    read,       \* what ExportInventory has read
    created,    \* ghost: created since it began to read
    inventory,  \* the last inventory the backend has
    backend,    \* "up", "down"
    failures

mirrorVars == <<db, deleted, at, result, saved, names, missed, turn, read,
                created, inventory, backend, failures>>

tableVars   == <<db, deleted, created>>
handlerVars == <<at, result, saved, names, missed>>
exportVars  == <<turn, read, inventory>>

MirrorTypeOK ==
    /\ db \in Inventory
    /\ deleted \in Inventory
    /\ at \in {"idle", "save", "direction", "link", "source", "destination", "write"}
    /\ result \in Result \cup {NoResult}
    /\ saved \in BOOLEAN
    /\ names \subseteq Named
    /\ missed \subseteq Named
    /\ turn \in {"waits", "agents", "links", "directions", "write"}
    /\ read \in Inventory
    /\ created \in Inventory
    /\ inventory \in Inventory
    /\ backend \in {"up", "down"}
    /\ failures \in 0..MaxFailures
    /\ result = NoResult <=> at = "idle"

MirrorInit ==
    /\ db = NoRows
    /\ deleted = NoRows
    /\ at = "idle" /\ result = NoResult /\ saved = FALSE
    /\ names = {} /\ missed = {}
    /\ turn = "waits" /\ read = NoRows
    /\ created = NoRows
    /\ inventory = NoRows
    /\ backend = "up"
    /\ failures = 0

Fails == failures < MaxFailures /\ failures' = failures + 1

----------------------------------------------------------------------------
(* Requests.  Identities are fresh.                                        *)

Requested == UNCHANGED <<handlerVars, exportVars, backend, failures>>

Creates(table, x) ==
    /\ x \notin db[table] \cup deleted[table]
    /\ db' = [db EXCEPT ![table] = @ \cup {x}]
    /\ created' = IF turn = "waits" THEN created ELSE [created EXCEPT ![table] = @ \cup {x}]
    /\ UNCHANGED deleted
    /\ Requested

CreateAgent(a) == Creates("agents", a)
CreateLink(l)  == Creates("links", l)

CreateDirection(d) ==
    /\ d.link \in db.links
    /\ {d.source, d.destination} \subseteq db.agents
    /\ Creates("directions", d)

Deletes(agents, links, directions) ==
    /\ db' = [agents |-> db.agents \ agents, links |-> db.links \ links,
              directions |-> db.directions \ directions]
    /\ deleted' = [agents |-> deleted.agents \cup agents,
                   links |-> deleted.links \cup links,
                   directions |-> deleted.directions \cup directions]
    /\ UNCHANGED created
    /\ Requested

\* With its directions, and the links that lose their last one.
DeleteAgent(a) ==
    LET gone == {d \in db.directions : a \in {d.source, d.destination}} IN
    /\ a \in db.agents
    /\ Deletes({a}, {d.link : d \in gone} \ {d.link : d \in db.directions \ gone}, gone)

DeleteLink(l) == l \in db.links /\ Deletes({}, {l}, {d \in db.directions : d.link = l})

----------------------------------------------------------------------------
(* handleResult: SavePingResult, SaveMTRRun or WriteProbeStatus.           *)

Handled == UNCHANGED <<tableVars, exportVars, backend>>

\* The handler has written or given up, and logs why.
Answered ==
    /\ at' = "idle" /\ result' = NoResult /\ saved' = FALSE
    /\ names' = {} /\ missed' = {}

\* A result of a direction that there is, or was when its job was sent.
Arrives(r) ==
    /\ at = "idle"
    /\ r.of \in db.directions \cup deleted.directions
    /\ at' = IF r.kind = "status" THEN "direction" ELSE "save"
    /\ result' = r
    /\ UNCHANGED <<saved, names, missed, failures>>
    /\ Handled

\* Mutant of Save: the metrics are written even when the insert is refused.
SaveOrNot ==
    /\ at = "save"
    /\ at' = "direction"
    /\ saved' = (result.of \in db.directions)
    /\ UNCHANGED <<result, names, missed, failures>>
    /\ Handled

\* Inserted, or refused by the constraints.
Save ==
    /\ at = "save"
    /\ IF result.of \in db.directions
       THEN at' = "direction" /\ saved' = TRUE /\ UNCHANGED <<result, names, missed>>
       ELSE Answered
    /\ UNCHANGED failures
    /\ Handled

SaveFails == at = "save" /\ Fails /\ Answered /\ Handled

\* GetDirectionByID.  The link of a direction that is not found is not looked
\* for.
FindDirection ==
    /\ at = "direction"
    /\ at' = IF result.of \in db.directions THEN "link" ELSE "source"
    /\ UNCHANGED <<result, saved, names, missed, failures>>
    /\ Handled

\* Mutant of Known: the names come from the last inventory.
KnownFromInventory(name) ==
    CASE name = "link"        -> result.of.link \in inventory.links
      [] name = "source"      -> result.of.source \in inventory.agents
      [] name = "destination" -> result.of.destination \in inventory.agents

\* GetLinkByID or GetAgentByID finds a row.
Known(name) ==
    CASE name = "link"        -> result.of.link \in db.links
      [] name = "source"      -> result.of.source \in db.agents
      [] name = "destination" -> result.of.destination \in db.agents

Following == CASE at \in {"direction", "link"} -> "source"
               [] at = "source"              -> "destination"
               [] at = "destination"         -> "write"

\* What is not found is called by its identity, a link by nothing.
FindName ==
    /\ at \in Named
    /\ names' = IF Known(at) THEN names \cup {at} ELSE names
    /\ at' = Following
    /\ UNCHANGED <<result, saved, missed, failures>>
    /\ Handled

\* Any error is taken for a row that is not there.
FindFails ==
    /\ at \in {"direction"} \cup Named
    /\ Fails
    /\ missed' = missed \cup {IF at = "direction" THEN "link" ELSE at}
    /\ at' = Following
    /\ UNCHANGED <<result, saved, names>>
    /\ Handled

\* The sample, with its names; a backend that is down does not get it.
WriteSample == at = "write" /\ Answered /\ UNCHANGED failures /\ Handled

----------------------------------------------------------------------------
(* runMetricsExport and ExportInventory.                                   *)

Exported == UNCHANGED <<db, deleted, handlerVars, backend>>

\* At the start of the controller, and at every tick.
Tick ==
    /\ turn = "waits"
    /\ turn' = "agents"
    /\ UNCHANGED <<read, created, inventory, failures>>
    /\ Exported

Lists(table, then) ==
    /\ turn = table
    /\ turn' = then
    /\ read' = [read EXCEPT ![table] = db[table]]
    /\ UNCHANGED <<created, inventory, failures>>
    /\ Exported

ListAgents     == Lists("agents", "links")
ListLinks      == Lists("links", "directions")
ListDirections == Lists("directions", "write")

Waits == turn' = "waits" /\ read' = NoRows /\ created' = NoRows

\* An error is logged and the next tick begins anew.
ListFails ==
    /\ turn \in {"agents", "links", "directions"}
    /\ Fails
    /\ Waits
    /\ UNCHANGED inventory
    /\ Exported

\* Mutant of WriteInventory: a failed write is repeated with what was read.
WriteInventoryAgain ==
    /\ turn = "write"
    /\ IF backend = "up" THEN inventory' = read /\ turn' = "directions"
                         ELSE UNCHANGED <<inventory, turn>>
    /\ UNCHANGED <<read, created, failures>>
    /\ Exported

WriteInventory ==
    /\ turn = "write"
    /\ inventory' = IF backend = "up" THEN read ELSE inventory
    /\ Waits
    /\ UNCHANGED failures
    /\ Exported

----------------------------------------------------------------------------

\* The backend goes down or comes back.
BackendChanges ==
    /\ backend' = IF backend = "up" THEN "down" ELSE "up"
    /\ UNCHANGED <<tableVars, handlerVars, exportVars, failures>>

\* The process ends and starts again: what it was about to write is lost.
Restart ==
    /\ Fails
    /\ Answered
    /\ Waits
    /\ UNCHANGED <<db, deleted, inventory, backend>>

Request ==
    \/ \E a \in Agent : CreateAgent(a) \/ DeleteAgent(a)
    \/ \E l \in Link : CreateLink(l) \/ DeleteLink(l)
    \/ \E d \in DirectionRow : CreateDirection(d)

Handler ==
    \/ \E r \in Result : Arrives(r)
    \/ Save \/ SaveFails \/ FindDirection \/ FindName \/ FindFails \/ WriteSample

Export == Tick \/ ListAgents \/ ListLinks \/ ListDirections \/ ListFails \/ WriteInventory

MirrorNext == Request \/ Handler \/ Export \/ BackendChanges \/ Restart

MirrorSpec == MirrorInit /\ [][MirrorNext]_mirrorVars

\* The ticker goes on, and a write ends by its timeout.
FairMirrorSpec == MirrorSpec /\ WF_mirrorVars(Export)

----------------------------------------------------------------------------
(* Properties.                                                             *)

\* What is written for a result was committed first, and lacks a name only of
\* what has been deleted or could not be read, however the queries and the
\* deletions interleave.
SamplesAreTrue ==
    at = "write" =>
        /\ result.kind = "result" => saved
        /\ "link" \in names \cup missed \/ result.of \in deleted.directions
        /\ "source" \in names \cup missed \/ result.of.source \in deleted.agents
        /\ "destination" \in names \cup missed \/ result.of.destination \in deleted.agents

\* Although the three tables are read at different times, a direction is
\* exported without the name of its link or of an agent only when that was
\* created since the export began, and never because it was deleted.
ExportsAreWhole ==
    turn = "write" =>
        \A d \in read.directions :
            /\ d.link \in read.links \cup created.links
            /\ {d.source, d.destination} \subseteq read.agents \cup created.agents

MirrorInv == MirrorTypeOK /\ SamplesAreTrue /\ ExportsAreWhole

\* When the backend stays up, the inventory it has comes to be the tables, no
\* matter which exports, queries and processes failed before.
ExportCatchesUp == <>[](backend = "up") => <>[](inventory = db)
=============================================================================
