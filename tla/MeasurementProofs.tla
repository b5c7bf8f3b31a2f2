-------------------------- MODULE MeasurementProofs --------------------------
(***************************************************************************)
(* What becomes of measurements, for any directions, settings, requests    *)
(* and bounds: what late results and deletions may do to the history and   *)
(* the status of a link (History), and what the metrics backend is told    *)
(* while the tables change (Mirror).                                       *)
(***************************************************************************)
EXTENDS History, Mirror, TLAPS

USE HistoryAssumption, MirrorAssumption

LEMMA Fields ==
  ASSUME NEW s \in Sample
  PROVE  s.id \in Nat /\ s.time \in Nat /\ s.kind \in Kind /\ s.direction \in Direction
BY DEF Sample, Time, Kind

\* With ids of their own, of two samples one is before the other, and never
\* both.
LEMMA Ordered ==
  ASSUME NEW r \in Sample, NEW s \in Sample, NEW t \in Sample
  PROVE  /\ r.id # s.id => Before(r, s) \/ Before(s, r)
         /\ ~(Before(r, s) /\ Before(s, r))
         /\ Before(r, s) /\ Before(s, t) => Before(r, t)
         /\ Before(r, s) => r.time <= s.time
BY Fields DEF Before

----------------------------------------------------------------------------
(* The invariant.                                                          *)

\* What the invariant says of the cleanups that a zero overtook.
CleanupsInv ==
    /\ settings \in Settings
    /\ cleaning \in [Cleaner -> Settings \cup {Idle}]
    /\ overtaken \in [Kind -> SUBSET Cleaner]
    /\ \A k \in Kind : \A c \in Cleaner :
          /\ c \in overtaken[k] => cleaning[c] # Idle
          /\ settings[k] = 0 /\ cleaning[c] # Idle /\ cleaning[c][k] > 0
                => c \in overtaken[k]

\* The hourly loop goes by what is saved.
LEMMA ReadsSettings ==
  ASSUME CleanupsInv, GetRetentionSettings
  PROVE  CleanupsInv'
BY DEF CleanupsInv, GetRetentionSettings

\* A save overtakes the others, and its own cleanup goes by what it saved.
LEMMA SavesSettings ==
  ASSUME CleanupsInv, NEW c \in Cleaner, NEW s \in Settings, UpdateRetentionSettings(c, s)
  PROVE  CleanupsInv'
<1>1. /\ cleaning[c] = Idle /\ settings' = s
      /\ cleaning' = [cleaning EXCEPT ![c] = s] /\ overtaken' = OvertakenBy(s)
  BY DEF UpdateRetentionSettings
<1>2. overtaken' \in [Kind -> SUBSET Cleaner]
  BY <1>1 DEF OvertakenBy, CleanupsInv
<1>3. ASSUME NEW k \in Kind, NEW q \in Cleaner
      PROVE  /\ q \in overtaken'[k] => cleaning'[q] # Idle
             /\ settings'[k] = 0 /\ cleaning'[q] # Idle /\ cleaning'[q][k] > 0
                   => q \in overtaken'[k]
  <2>1. overtaken'[k] = IF s[k] # 0 THEN {}
                        ELSE IF settings[k] = 0 THEN overtaken[k]
                        ELSE {x \in Cleaner : cleaning[x] # Idle}
    BY <1>1 DEF OvertakenBy
  <2>2. CASE q = c
    <3>1. cleaning'[q] = s  BY <1>1, <2>2 DEF CleanupsInv
    <3>2. s # Idle /\ s[k] \in Nat  BY HistoryAssumption
    <3> QED  BY <1>1, <3>1, <3>2
  <2>3. CASE q # c
    <3>1. cleaning'[q] = cleaning[q]  BY <1>1, <2>3 DEF CleanupsInv
    <3> QED  BY <1>1, <2>1, <3>1 DEF CleanupsInv
  <2> QED  BY <2>2, <2>3
<1> QED  BY <1>1, <1>2, <1>3 DEF CleanupsInv

\* A cleanup ends.
LEMMA CleanupEnds ==
  ASSUME CleanupsInv, NEW c \in Cleaner, Ends(c), UNCHANGED settings
  PROVE  CleanupsInv'
<1>1. /\ cleaning' = [cleaning EXCEPT ![c] = Idle]
      /\ overtaken' = [k \in Kind |-> overtaken[k] \ {c}]
  BY DEF Ends
<1>2. \A q \in Cleaner : cleaning'[q] = IF q = c THEN Idle ELSE cleaning[q]
  BY <1>1 DEF CleanupsInv
<1>3. cleaning' \in [Cleaner -> Settings \cup {Idle}] /\ overtaken' \in [Kind -> SUBSET Cleaner]
  BY <1>1 DEF CleanupsInv
<1> QED  BY <1>1, <1>2, <1>3 DEF CleanupsInv

LEMMA InvStep ==
  ASSUME HistoryInv, [Next]_vars
  PROVE  HistoryInv'
<1> USE DEF HistoryInv
<1>0. CleanupsInv  BY DEF CleanupsInv
<1>1. ASSUME TimePasses PROVE HistoryInv'
  BY <1>1 DEF TimePasses, Time
<1>2. ASSUME NEW s \in Sample, SaveResult(s) PROVE HistoryInv'
  <2>1. s.id \in 1..MaxSamples /\ s.id = nextId  BY <1>2 DEF SaveResult, KeepsLocally, Sample
  <2>2. nextId' \in 1..(MaxSamples + 1)  BY <1>2, <2>1 DEF SaveResult
  <2>3. \A r \in samples : r.id \in Nat /\ r.id < nextId  BY Fields
  <2>4. samples' = samples \cup {s} /\ nextId' = nextId + 1  BY <1>2 DEF SaveResult, KeepsLocally
  <2>5. \A q, r \in samples' : q.id = r.id => q = r  BY <2>1, <2>3, <2>4
  <2>6. \A r \in samples' : r.id < nextId'  BY <2>1, <2>3, <2>4
  <2>7. samples' \subseteq Sample  BY <2>4
  <2> QED  BY <1>2, <2>2, <2>5, <2>6, <2>7 DEF SaveResult
<1>3. ASSUME NEW d \in Direction, UpdateAgentStatus(d) PROVE HistoryInv'
  BY <1>3 DEF UpdateAgentStatus
<1>4. ASSUME NEW d \in Direction, UpdateDirection(d) PROVE HistoryInv'
  BY <1>4 DEF UpdateDirection
<1>5. ASSUME GetRetentionSettings PROVE HistoryInv'
  BY <1>0, <1>5, ReadsSettings DEF GetRetentionSettings, CleanupsInv
<1>6. ASSUME NEW c \in Cleaner, NEW s \in Settings, UpdateRetentionSettings(c, s)
      PROVE HistoryInv'
  BY <1>0, <1>6, SavesSettings DEF UpdateRetentionSettings, CleanupsInv
<1>7. ASSUME NEW c \in Cleaner, CleanupExpiredProbeHistory(c) PROVE HistoryInv'
  BY <1>0, <1>7, CleanupEnds DEF CleanupExpiredProbeHistory, CleanupsInv
<1>8. ASSUME NEW c \in Cleaner, CleanupFails(c) PROVE HistoryInv'
  BY <1>0, <1>8, CleanupEnds DEF CleanupFails, CleanupsInv
<1>9. ASSUME Crash PROVE HistoryInv'
  BY <1>9 DEF Crash
<1>10. ASSUME UNCHANGED vars PROVE HistoryInv'
  BY <1>10 DEF vars
<1> QED  BY <1>1, <1>2, <1>3, <1>4, <1>5, <1>6, <1>7, <1>8, <1>9, <1>10 DEF Next

\* The inductive invariant: every id is given once.
THEOREM HistoryInvariant == Spec => []HistoryInv
<1>1. Init => HistoryInv  BY DEF Init, HistoryInv, Time
<1>2. HistoryInv /\ [Next]_vars => HistoryInv'  BY InvStep
<1> QED  BY <1>1, <1>2, PTL DEF Spec

----------------------------------------------------------------------------
(* Steps, as far as samples go.                                            *)

LEMMA Steps ==
  ASSUME [Next]_vars
  PROVE  \/ samples' = samples
         \/ \E s \in Sample : SaveResult(s)
         \/ \E c \in Cleaner : CleanupExpiredProbeHistory(c)
BY DEF Next, vars, TimePasses, UpdateAgentStatus, UpdateDirection, GetRetentionSettings,
       UpdateRetentionSettings, CleanupFails, Crash

LEMMA OneLatest ==
  ASSUME HistoryInv, NEW d \in Direction, NEW s \in Latest(d), NEW r \in Latest(d)
  PROVE  s = r
<1>1. r \in Sample /\ s \in Sample  BY DEF HistoryInv, Latest, Pings
<1>2. s # r => Before(s, r) /\ Before(r, s)  BY DEF Latest
<1> QED  BY <1>1, <1>2, Ordered

\* A cleanup leaves the latest sample of a direction, or no sample.
LEMMA CleanupLatest ==
  ASSUME HistoryInv, NEW c \in Cleaner, CleanupExpiredProbeHistory(c), NEW d \in Direction
  PROVE  Latest(d)' = {} \/ Latest(d)' = Latest(d)
<1> DEFINE keep == cleaning[c]
<1>1. keep \in [Kind -> Nat] /\ now \in Nat
  BY DEF HistoryInv, CleanupExpiredProbeHistory, Time
<1>2. samples \subseteq Sample  BY DEF HistoryInv
<1>3. samples' = samples \ Expired(keep)  BY DEF CleanupExpiredProbeHistory
<1> HIDE DEF keep
<1>4. Pings(d)' \subseteq Pings(d)  BY <1>3 DEF Pings
<1>5. ASSUME NEW x \in Latest(d)' PROVE x \in Latest(d)
  <2>1. x \in Pings(d)' /\ \A r \in Pings(d)' \ {x} : Before(r, x)
    BY DEF Latest, Before
  <2>2. ASSUME NEW r \in Pings(d), r \notin Pings(d)' PROVE Before(r, x)
    <3>1. r \in samples /\ r.kind = "ping" /\ x \in samples /\ x.kind = "ping"
      BY <2>1, <1>4 DEF Pings
    <3>2. r \in Expired(keep) /\ x \notin Expired(keep)
      BY <1>3, <2>1, <2>2 DEF Pings
    <3>3. keep["ping"] \in Nat  BY <1>1 DEF Kind
    <3>4. keep["ping"] > 0 /\ r.time + keep["ping"] < now
      BY <3>1, <3>2 DEF Expired
    <3>5. ~(x.time + keep["ping"] < now)  BY <3>1, <3>2, <3>4 DEF Expired
    <3>6. r.time \in Nat /\ x.time \in Nat  BY <1>2, <3>1, Fields
    <3>7. r.time < x.time  BY <1>1, <3>3, <3>4, <3>5, <3>6
    <3> QED  BY <3>7 DEF Before
  <2> QED  BY <1>4, <2>1, <2>2 DEF Latest
<1>6. ASSUME NEW x \in Latest(d)', NEW y \in Latest(d) PROVE y \in Latest(d)'
  <2>1. x = y  BY <1>5, OneLatest
  <2> QED  BY <2>1
<1> QED  BY <1>5, <1>6

\* A result leaves the latest sample of a direction, or is the latest.
LEMMA SaveLatest ==
  ASSUME HistoryInv, NEW n \in Sample, SaveResult(n), NEW d \in Direction,
         Latest(d)' # Latest(d)
  PROVE  /\ n \in Latest(d)' /\ n \notin samples
         /\ n.direction = d
         /\ \A r \in Pings(d) : r.time <= n.time /\ Before(r, n)
<1>1. samples \subseteq Sample /\ \A r \in samples : r.id < n.id /\ r.id # n.id
  BY Fields DEF HistoryInv, SaveResult, KeepsLocally
<1>2. n \notin samples /\ samples' = samples \cup {n}  BY <1>1 DEF SaveResult, KeepsLocally
<1>3. Pings(d)' = Pings(d) \/ (n.kind = "ping" /\ n.direction = d /\ Pings(d)' = Pings(d) \cup {n})
  BY <1>2 DEF Pings
<1>4. Pings(d)' # Pings(d)  BY DEF Latest, Before
<1>5. n.direction = d /\ Pings(d)' = Pings(d) \cup {n}  BY <1>3, <1>4
<1>6. Pings(d) \subseteq samples /\ n \notin Pings(d)  BY <1>2 DEF Pings
<1>7. CASE \A r \in Pings(d) : Before(r, n)
  <2>1. n \in Latest(d)'  BY <1>5, <1>6, <1>7 DEF Latest, Before
  <2> QED  BY <1>1, <1>2, <1>5, <1>6, <1>7, <2>1, Ordered
<1>8. CASE \E r \in Pings(d) : ~Before(r, n)
  <2>1. PICK q \in Pings(d) : ~Before(q, n)  BY <1>8
  <2>2. q \in Sample /\ Before(n, q)  BY <1>1, <1>6, <2>1, Ordered
  <2>3. ASSUME NEW x \in Latest(d) PROVE x \in Latest(d)'
    <3>1. x \in Pings(d) /\ x \in Sample /\ \A r \in Pings(d) \ {x} : Before(r, x)
      BY <1>1, <1>6 DEF Latest
    <3>2. Before(n, x)  BY <2>2, <3>1, Ordered
    <3> QED  BY <1>5, <3>1, <3>2 DEF Latest, Before
  <2>4. ASSUME NEW x \in Latest(d)' PROVE x \in Latest(d)
    <3>1. x \in Pings(d) \cup {n} /\ \A r \in (Pings(d) \cup {n}) \ {x} : Before(r, x)
      BY <1>5 DEF Latest, Before
    <3>2. x # n  BY <1>6, <2>1, <2>2, <3>1, Ordered
    <3> QED  BY <3>1, <3>2 DEF Latest
  <2> QED  BY <2>3, <2>4
<1> QED  BY <1>7, <1>8

\* What every step makes of a direction's latest sample.
LEMMA LatestStep ==
  ASSUME HistoryInv, [Next]_vars, NEW d \in Direction
  PROVE  \/ Latest(d)' = Latest(d)
         \/ Latest(d)' = {}
         \/ \E n \in Latest(d)' : /\ n \notin samples
                                  /\ \A r \in Pings(d) : r.time <= n.time
<1>1. CASE samples' = samples  BY <1>1 DEF Latest, Pings, Before
<1>2. CASE \E s \in Sample : SaveResult(s)  BY <1>2, SaveLatest
<1>3. CASE \E c \in Cleaner : CleanupExpiredProbeHistory(c)  BY <1>3, CleanupLatest
<1> QED  BY <1>1, <1>2, <1>3, Steps

\* A direction's latest sample never goes back in time.
THEOREM LatestCorrect == Spec => LatestMovesForward
<1> DEFINE Forward ==
      \A d \in Direction : \A s \in Latest(d) :
          \/ Latest(d)' = {}
          \/ s \in Latest(d)'
          \/ \E r \in Latest(d)' : r.time >= s.time /\ r \notin samples
<1>1. ASSUME HistoryInv, [Next]_vars PROVE Forward
  <2> SUFFICES ASSUME NEW d \in Direction, NEW s \in Latest(d),
                      Latest(d)' # {}, s \notin Latest(d)'
               PROVE  \E r \in Latest(d)' : r.time >= s.time /\ r \notin samples
    OBVIOUS
  <2>1. PICK n \in Latest(d)' : n \notin samples /\ \A r \in Pings(d) : r.time <= n.time
    BY <1>1, LatestStep
  <2>2. s \in Pings(d) /\ s \in Sample  BY <1>1 DEF Latest, Pings, HistoryInv
  <2>3. n \in Sample  BY <1>1, InvStep DEF Latest, Pings, HistoryInv
  <2>4. s.time <= n.time /\ s.time \in Nat /\ n.time \in Nat  BY <2>1, <2>2, <2>3, Fields
  <2> QED  BY <2>1, <2>4
<1>2. HistoryInv /\ [Next]_vars => [Forward]_vars  BY <1>1
<1> QED  BY <1>2, HistoryInvariant, PTL DEF Spec, LatestMovesForward

\* Where the latest samples of the directions that count stay, so does the
\* status.
LEMMA StatusStays ==
  ASSUME UNCHANGED <<online, enabled>>,
         \A d \in online \cap enabled : Latest(d)' = Latest(d)
  PROVE  LinkStatus' = LinkStatus
<1>1. Down' = Down
  BY DEF Down
<1>2. Degraded' = Degraded
  BY DEF Degraded
<1> QED  BY <1>1, <1>2 DEF LinkStatus

\* Neither deleting history nor a result from the past makes a link healthy.
THEOREM OnlyNewsCorrect == Spec => OnlyNewsHeals
<1> DEFINE News ==
      LinkStatus # "healthy" /\ LinkStatus' = "healthy" =>
          \/ online' # online \/ enabled' # enabled
          \/ \E d \in Direction : \E s \in Latest(d)' :
                /\ s \notin samples /\ s.loss = "none"
                /\ \A r \in Pings(d) : r.time <= s.time
<1>1. ASSUME HistoryInv, [Next]_vars PROVE News
  <2> SUFFICES ASSUME LinkStatus # "healthy", LinkStatus' = "healthy",
                      UNCHANGED <<online, enabled>>
               PROVE  \E d \in Direction : \E s \in Latest(d)' :
                         /\ s \notin samples /\ s.loss = "none"
                         /\ \A r \in Pings(d) : r.time <= s.time
    OBVIOUS
  <2>1. HistoryInv'  BY <1>1, InvStep
  <2>2. PICK d \in online \cap enabled : Latest(d)' # Latest(d)  BY StatusStays
  <2>3. d \in Direction  BY <1>1 DEF HistoryInv
  <2>4. ASSUME NEW e \in online \cap enabled
        PROVE  Latest(e)' # {} /\ \A s \in Latest(e)' : s.loss = "none"
    <3>1. e \in (online \cap enabled)'  OBVIOUS
    <3>2. (Down = {} /\ Degraded = {})'  BY DEF LinkStatus
    <3>3. Latest(e)' # {}  BY <3>1, <3>2 DEF Degraded
    <3>4. ASSUME NEW s \in Latest(e)' PROVE s.loss = "none"
      <4>1. s \in Sample  BY <2>1 DEF Latest, Pings, HistoryInv
      <4>2. s.loss \in {"none", "partial", "total"}  BY <4>1 DEF Sample
      <4>3. s.loss # "total"  BY <3>1, <3>2 DEF Down
      <4>4. s.loss # "partial"  BY <3>1, <3>2 DEF Degraded
      <4> QED  BY <4>2, <4>3, <4>4
    <3> QED  BY <3>3, <3>4
  <2>5. PICK n \in Latest(d)' : n \notin samples /\ \A r \in Pings(d) : r.time <= n.time
    BY <1>1, <2>2, <2>3, <2>4, LatestStep
  <2>6. n.loss = "none"  BY <2>2, <2>4, <2>5
  <2> QED  BY <2>3, <2>5, <2>6
<1>2. HistoryInv /\ [Next]_vars => [News]_vars  BY <1>1
<1> QED  BY <1>2, HistoryInvariant, PTL DEF Spec, OnlyNewsHeals

\* A retention of zero keeps everything, but for the cleanups under way when it
\* was saved, each of which deletes once.
THEOREM ZeroKeepsCorrect == Spec => ZeroKeeps
<1> DEFINE Kept ==
      \A k \in Kind : \A s \in samples :
          s.kind = k /\ s \notin samples' /\ settings[k] = 0 =>
             \E c \in overtaken[k] : c \notin overtaken'[k]
<1>1. ASSUME HistoryInv, [Next]_vars PROVE Kept
  <2> SUFFICES ASSUME NEW k \in Kind, NEW s \in samples, s.kind = k, s \notin samples',
                      settings[k] = 0
               PROVE  \E c \in overtaken[k] : c \notin overtaken'[k]
    OBVIOUS
  <2>1. PICK c \in Cleaner : CleanupExpiredProbeHistory(c)
    BY <1>1, Steps DEF SaveResult, KeepsLocally
  <2>2. /\ cleaning[c] # Idle /\ cleaning[c][k] > 0
        /\ overtaken'[k] = overtaken[k] \ {c}
    BY <2>1 DEF CleanupExpiredProbeHistory, Expired, Ends
  <2>3. c \in overtaken[k]
    BY <1>1, <2>2 DEF HistoryInv
  <2> QED  BY <2>2, <2>3
<1>2. HistoryInv /\ [Next]_vars => [Kept]_vars  BY <1>1
<1> QED  BY <1>2, HistoryInvariant, PTL DEF Spec, ZeroKeeps

----------------------------------------------------------------------------
(* Mirror.  SamplesAreTrue and ExportsAreWhole speak of the states in      *)
(* which something is about to be written; MirrorInductive says what holds *)
(* between the queries that lead to them.                                  *)

\* A direction in the tables refers to rows of theirs, and one that was
\* deleted to rows that there are or were.
Referential ==
    /\ \A d \in db.directions :
          d.link \in db.links /\ d.source \in db.agents /\ d.destination \in db.agents
    /\ \A d \in db.directions \cup deleted.directions :
          /\ d.source \in db.agents \cup deleted.agents
          /\ d.destination \in db.agents \cup deleted.agents

\* A query that was made has found its name or missed it, or what it asked for
\* is deleted for good.
Asked ==
    /\ at # "idle" => result.of \in db.directions \cup deleted.directions
    /\ at \notin {"idle", "save"} /\ result.kind = "result" => saved
    /\ at \in {"source", "destination", "write"} =>
          "link" \in names \cup missed \/ result.of \in deleted.directions
    /\ at \in {"destination", "write"} =>
          "source" \in names \cup missed \/ result.of.source \in deleted.agents
    /\ at = "write" =>
          "destination" \in names \cup missed \/ result.of.destination \in deleted.agents

\* A table that was read lacks only what was created since.
Listed ==
    /\ turn \in {"links", "directions"} => db.agents \subseteq read.agents \cup created.agents
    /\ turn = "directions" => db.links \subseteq read.links \cup created.links

MirrorInductive ==
    /\ MirrorTypeOK
    /\ Referential /\ Asked /\ Listed /\ ExportsAreWhole

----------------------------------------------------------------------------
(* What the requests do to the tables.                                     *)

LEMMA FailuresType ==
  ASSUME MirrorInductive, Fails
  PROVE  failures' \in 0..MaxFailures
BY DEF MirrorInductive, MirrorTypeOK, Fails

LEMMA CreatesEffect ==
  ASSUME MirrorInductive, NEW table \in DOMAIN db, NEW x,
         table = "agents" => x \in Agent, table = "links" => x \in Link,
         table = "directions" => x \in DirectionRow, Creates(table, x)
  PROVE  /\ db' \in Inventory /\ created' \in Inventory /\ deleted' = deleted
         /\ db'.agents = db.agents \cup (IF table = "agents" THEN {x} ELSE {})
         /\ db'.links = db.links \cup (IF table = "links" THEN {x} ELSE {})
         /\ db'.directions = db.directions \cup (IF table = "directions" THEN {x} ELSE {})
         /\ created.agents \subseteq created'.agents /\ created.links \subseteq created'.links
         /\ turn # "waits" /\ table = "agents" => x \in created'.agents
         /\ turn # "waits" /\ table = "links" => x \in created'.links
         /\ Requested
BY DEF MirrorInductive, MirrorTypeOK, Inventory, Creates

LEMMA DeletesEffect ==
  ASSUME MirrorInductive,
         NEW a \in SUBSET Agent, NEW l \in SUBSET Link, NEW d \in SUBSET DirectionRow,
         Deletes(a, l, d)
  PROVE  /\ db' \in Inventory /\ deleted' \in Inventory /\ created' = created
         /\ db'.agents = db.agents \ a /\ db'.links = db.links \ l
         /\ db'.directions = db.directions \ d
         /\ deleted'.agents = deleted.agents \cup a
         /\ deleted'.directions = deleted.directions \cup d
         /\ Requested
BY DEF MirrorInductive, MirrorTypeOK, Inventory, Deletes

LEMMA CreatesStep ==
  ASSUME MirrorInductive, NEW table \in {"agents", "links", "directions"}, NEW x,
         table = "agents" => x \in Agent, table = "links" => x \in Link,
         table = "directions" => /\ x \in DirectionRow /\ x.link \in db.links
                                 /\ x.source \in db.agents /\ x.destination \in db.agents,
         Creates(table, x)
  PROVE  MirrorInductive'
<1>1. table \in DOMAIN db  BY DEF MirrorInductive, MirrorTypeOK, Inventory
<1>2. /\ db' \in Inventory /\ created' \in Inventory /\ deleted' = deleted
      /\ db'.agents = db.agents \cup (IF table = "agents" THEN {x} ELSE {})
      /\ db'.links = db.links \cup (IF table = "links" THEN {x} ELSE {})
      /\ db'.directions = db.directions \cup (IF table = "directions" THEN {x} ELSE {})
      /\ created.agents \subseteq created'.agents /\ created.links \subseteq created'.links
      /\ turn # "waits" /\ table = "agents" => x \in created'.agents
      /\ turn # "waits" /\ table = "links" => x \in created'.links
      /\ Requested
  BY <1>1, CreatesEffect
<1>3. MirrorTypeOK'
  BY <1>2 DEF MirrorInductive, MirrorTypeOK, Requested, handlerVars, exportVars
<1>4. Referential'  BY <1>2 DEF MirrorInductive, Referential
<1>5. Asked'  BY <1>2 DEF MirrorInductive, Asked, Requested, handlerVars
<1>6. Listed'  BY <1>2 DEF MirrorInductive, Listed, Requested, exportVars
<1>7. ExportsAreWhole'  BY <1>2 DEF MirrorInductive, ExportsAreWhole, Requested, exportVars
<1> QED  BY <1>3, <1>4, <1>5, <1>6, <1>7 DEF MirrorInductive

\* Deletions keep the references when they take every direction of what they
\* delete.
LEMMA DeletesStep ==
  ASSUME MirrorInductive,
         NEW a \in SUBSET Agent, NEW l \in SUBSET Link, NEW d \in SUBSET DirectionRow,
         Deletes(a, l, d),
         \A e \in db.directions \ d :
             e.link \notin l /\ e.source \notin a /\ e.destination \notin a,
         d \subseteq db.directions
  PROVE  MirrorInductive'
<1>1. /\ db' \in Inventory /\ deleted' \in Inventory /\ created' = created
      /\ db'.agents = db.agents \ a /\ db'.links = db.links \ l
      /\ db'.directions = db.directions \ d
      /\ deleted'.agents = deleted.agents \cup a
      /\ deleted'.directions = deleted.directions \cup d
      /\ Requested
  BY DeletesEffect
<1>3. MirrorTypeOK'
  BY <1>1 DEF MirrorInductive, MirrorTypeOK, Requested, handlerVars, exportVars
<1>4. Referential'  BY <1>1 DEF MirrorInductive, Referential
<1>5. Asked'  BY <1>1 DEF MirrorInductive, Asked, Requested, handlerVars
<1>6. Listed'  BY <1>1 DEF MirrorInductive, Listed, Requested, exportVars
<1>7. ExportsAreWhole'  BY <1>1 DEF MirrorInductive, ExportsAreWhole, Requested, exportVars
<1> QED  BY <1>3, <1>4, <1>5, <1>6, <1>7 DEF MirrorInductive

LEMMA RequestStep ==
  ASSUME MirrorInductive, Request
  PROVE  MirrorInductive'
<1>1. /\ db.directions \subseteq DirectionRow
      /\ \A d \in DirectionRow : d.link \in Link /\ d.source \in Agent /\ d.destination \in Agent
  BY DEF MirrorInductive, MirrorTypeOK, Inventory
<1>2. ASSUME NEW a \in Agent, CreateAgent(a) PROVE MirrorInductive'
  BY <1>2, CreatesStep DEF CreateAgent
<1>3. ASSUME NEW l \in Link, CreateLink(l) PROVE MirrorInductive'
  BY <1>3, CreatesStep DEF CreateLink
<1>4. ASSUME NEW d \in DirectionRow, CreateDirection(d) PROVE MirrorInductive'
  BY <1>4, CreatesStep DEF CreateDirection
<1>5. ASSUME NEW a \in Agent, DeleteAgent(a) PROVE MirrorInductive'
  <2> DEFINE gone == {d \in db.directions : a \in {d.source, d.destination}}
             links == {d.link : d \in gone} \ {d.link : d \in db.directions \ gone}
  <2>1. Deletes({a}, links, gone)  BY <1>5 DEF DeleteAgent
  <2>2. links \subseteq Link /\ gone \subseteq DirectionRow  BY <1>1
  <2>3. \A e \in db.directions \ gone :
           e.link \notin links /\ e.source \notin {a} /\ e.destination \notin {a}
    OBVIOUS
  <2>4. gone \subseteq db.directions  OBVIOUS
  <2> HIDE DEF gone, links
  <2> QED  BY <2>1, <2>2, <2>3, <2>4, DeletesStep
<1>6. ASSUME NEW l \in Link, DeleteLink(l) PROVE MirrorInductive'
  <2> DEFINE gone == {d \in db.directions : d.link = l}
  <2>1. Deletes({}, {l}, gone)  BY <1>6 DEF DeleteLink
  <2>2. gone \subseteq db.directions /\ gone \subseteq DirectionRow  BY <1>1
  <2>3. \A e \in db.directions \ gone : e.link \notin {l}  OBVIOUS
  <2> HIDE DEF gone
  <2> QED  BY <2>1, <2>2, <2>3, DeletesStep
<1> QED  BY <1>2, <1>3, <1>4, <1>5, <1>6 DEF Request

----------------------------------------------------------------------------
(* The handler of results.                                                 *)

LEMMA HandlerStep ==
  ASSUME MirrorInductive, Handler
  PROVE  MirrorInductive'
<1>1. \A d \in DirectionRow : d.link \in Link /\ d.source \in Agent /\ d.destination \in Agent
  BY DEF MirrorInductive, MirrorAssumption
<1>2. /\ UNCHANGED <<db, deleted, created, turn, read, inventory, backend>>
      => Referential' /\ Listed' /\ ExportsAreWhole'
  BY DEF MirrorInductive, Referential, Listed, ExportsAreWhole
<1> USE DEF Handled, tableVars, exportVars
<1>3. ASSUME NEW r \in Result, Arrives(r) PROVE MirrorInductive'
  <2>1. MirrorTypeOK'  BY <1>3 DEF MirrorInductive, MirrorTypeOK, Arrives
  <2>2. Asked'  BY <1>3 DEF MirrorInductive, Asked, Arrives, Result, ResultKind
  <2> QED  BY <1>2, <1>3, <2>1, <2>2 DEF MirrorInductive, Arrives
<1>4. ASSUME Save PROVE MirrorInductive'
  <2>1. MirrorTypeOK'  BY <1>4 DEF MirrorInductive, MirrorTypeOK, Save, Answered
  <2>2. Asked'  BY <1>4 DEF MirrorInductive, Asked, Save, Answered
  <2> QED  BY <1>2, <1>4, <2>1, <2>2 DEF MirrorInductive, Save
<1>5. ASSUME SaveFails PROVE MirrorInductive'
  <2>0. failures' \in 0..MaxFailures  BY <1>5, FailuresType DEF SaveFails
  <2>1. MirrorTypeOK'  BY <1>5, <2>0 DEF MirrorInductive, MirrorTypeOK, SaveFails, Answered
  <2>2. Asked'  BY <1>5 DEF MirrorInductive, Asked, SaveFails, Answered
  <2> QED  BY <1>2, <1>5, <2>1, <2>2 DEF MirrorInductive, SaveFails
<1>6. ASSUME FindDirection PROVE MirrorInductive'
  <2>1. MirrorTypeOK'  BY <1>6 DEF MirrorInductive, MirrorTypeOK, FindDirection
  <2>2. Asked'  BY <1>6 DEF MirrorInductive, Asked, FindDirection
  <2> QED  BY <1>2, <1>6, <2>1, <2>2 DEF MirrorInductive, FindDirection
<1>7. ASSUME FindName PROVE MirrorInductive'
  <2>1. /\ at \in Named /\ names' = (IF Known(at) THEN names \cup {at} ELSE names)
        /\ at' = Following /\ UNCHANGED <<db, deleted, created, turn, read, inventory, backend,
                                          result, saved, missed, failures>>
    BY <1>7 DEF FindName
  <2>2. MirrorTypeOK'  BY <2>1 DEF MirrorInductive, MirrorTypeOK, Following, Named
  <2>3. Asked'
    <3>1. CASE at = "link"
      <4>1. at' = "source"  BY <2>1, <3>1 DEF Following
      <4>2. "link" \in names' \/ result.of \in deleted.directions
        BY <2>1, <3>1 DEF Known, MirrorInductive, Asked, Referential
      <4> QED  BY <2>1, <3>1, <4>1, <4>2 DEF MirrorInductive, Asked
    <3>2. CASE at = "source"
      <4>1. at' = "destination" /\ names \subseteq names'  BY <2>1, <3>2 DEF Following
      <4>2. "source" \in names' \/ result.of.source \in deleted.agents
        BY <2>1, <3>2 DEF Known, MirrorInductive, Asked, Referential
      <4> QED  BY <2>1, <3>2, <4>1, <4>2 DEF MirrorInductive, Asked
    <3>3. CASE at = "destination"
      <4>1. at' = "write" /\ names \subseteq names'  BY <2>1, <3>3 DEF Following
      <4>2. "destination" \in names' \/ result.of.destination \in deleted.agents
        BY <2>1, <3>3 DEF Known, MirrorInductive, Asked, Referential
      <4> QED  BY <2>1, <3>3, <4>1, <4>2 DEF MirrorInductive, Asked
    <3> QED  BY <2>1, <3>1, <3>2, <3>3 DEF Named
  <2> QED  BY <1>2, <2>1, <2>2, <2>3 DEF MirrorInductive
<1>8. ASSUME FindFails PROVE MirrorInductive'
  <2>1. MirrorTypeOK'
    BY <1>8 DEF MirrorInductive, MirrorTypeOK, FindFails, Fails, Following, Named
  <2>2. Asked'  BY <1>8 DEF MirrorInductive, Asked, FindFails, Following, Named
  <2> QED  BY <1>2, <1>8, <2>1, <2>2 DEF MirrorInductive, FindFails
<1>9. ASSUME WriteSample PROVE MirrorInductive'
  <2>1. MirrorTypeOK'  BY <1>9 DEF MirrorInductive, MirrorTypeOK, WriteSample, Answered
  <2>2. Asked'  BY <1>9 DEF MirrorInductive, Asked, WriteSample, Answered
  <2> QED  BY <1>2, <1>9, <2>1, <2>2 DEF MirrorInductive, WriteSample
<1> QED  BY <1>3, <1>4, <1>5, <1>6, <1>7, <1>8, <1>9 DEF Handler

----------------------------------------------------------------------------
(* The export.                                                             *)

LEMMA ListsEffect ==
  ASSUME MirrorInductive, NEW table \in {"agents", "links", "directions"}, NEW then,
         Lists(table, then)
  PROVE  /\ read' \in Inventory
         /\ read'.agents = IF table = "agents" THEN db.agents ELSE read.agents
         /\ read'.links = IF table = "links" THEN db.links ELSE read.links
         /\ read'.directions = IF table = "directions" THEN db.directions ELSE read.directions
         /\ turn = table /\ turn' = then
         /\ UNCHANGED <<db, deleted, created, at, result, saved, names, missed,
                        inventory, backend, failures>>
BY DEF MirrorInductive, MirrorTypeOK, Inventory, Lists, Exported, handlerVars

LEMMA ExportStep ==
  ASSUME MirrorInductive, Export
  PROVE  MirrorInductive'
<1> USE DEF Exported, handlerVars
<1>0. UNCHANGED <<db, deleted, at, result, saved, names, missed>> => Referential' /\ Asked'
  BY DEF MirrorInductive, Referential, Asked
<1>1. ASSUME Tick PROVE MirrorInductive'
  BY <1>0, <1>1 DEF MirrorInductive, MirrorTypeOK, Listed, ExportsAreWhole, Tick
<1>2. ASSUME ListAgents PROVE MirrorInductive'
  <2>1. /\ read' \in Inventory /\ read'.agents = db.agents /\ turn' = "links"
        /\ UNCHANGED <<db, deleted, created, at, result, saved, names, missed,
                       inventory, backend, failures>>
    BY <1>2, ListsEffect DEF ListAgents
  <2> QED  BY <1>0, <2>1 DEF MirrorInductive, MirrorTypeOK, Listed, ExportsAreWhole
<1>3. ASSUME ListLinks PROVE MirrorInductive'
  <2>1. /\ read' \in Inventory /\ read'.links = db.links /\ read'.agents = read.agents
        /\ turn = "links" /\ turn' = "directions"
        /\ UNCHANGED <<db, deleted, created, at, result, saved, names, missed,
                       inventory, backend, failures>>
    BY <1>3, ListsEffect DEF ListLinks
  <2> QED  BY <1>0, <2>1 DEF MirrorInductive, MirrorTypeOK, Listed, ExportsAreWhole
<1>4. ASSUME ListDirections PROVE MirrorInductive'
  <2>1. /\ read' \in Inventory /\ read'.links = read.links /\ read'.agents = read.agents
        /\ read'.directions = db.directions /\ turn = "directions" /\ turn' = "write"
        /\ UNCHANGED <<db, deleted, created, at, result, saved, names, missed,
                       inventory, backend, failures>>
    BY <1>4, ListsEffect DEF ListDirections
  <2>2. MirrorTypeOK'  BY <2>1 DEF MirrorInductive, MirrorTypeOK
  <2>3. Listed'  BY <2>1 DEF Listed
  <2>4. ExportsAreWhole'  BY <2>1 DEF MirrorInductive, Listed, Referential, ExportsAreWhole
  <2> QED  BY <1>0, <2>1, <2>2, <2>3, <2>4 DEF MirrorInductive
<1>5. NoRows \in Inventory  BY DEF NoRows, Inventory
<1>6. ASSUME ListFails PROVE MirrorInductive'
  BY <1>0, <1>5, <1>6
     DEF MirrorInductive, MirrorTypeOK, Listed, ExportsAreWhole, ListFails, Fails, Waits
<1>7. ASSUME WriteInventory PROVE MirrorInductive'
  BY <1>0, <1>5, <1>7
     DEF MirrorInductive, MirrorTypeOK, Listed, ExportsAreWhole, WriteInventory, Waits
<1> QED  BY <1>1, <1>2, <1>3, <1>4, <1>6, <1>7 DEF Export

LEMMA MirrorStep ==
  ASSUME MirrorInductive, [MirrorNext]_mirrorVars
  PROVE  MirrorInductive'
<1>1. ASSUME BackendChanges PROVE MirrorInductive'
  BY <1>1 DEF BackendChanges, tableVars, handlerVars, exportVars, MirrorInductive, MirrorTypeOK,
              Referential, Asked, Listed, ExportsAreWhole
<1>2. ASSUME Restart PROVE MirrorInductive'
  <2>1. NoRows \in Inventory  BY DEF NoRows, Inventory
  <2>2. failures' \in 0..MaxFailures  BY <1>2, FailuresType DEF Restart
  <2>3. MirrorTypeOK'
    BY <1>2, <2>1, <2>2 DEF Restart, Answered, Waits, MirrorInductive, MirrorTypeOK
  <2>4. Referential' /\ Asked'
    BY <1>2 DEF Restart, Answered, MirrorInductive, Referential, Asked
  <2>5. Listed' /\ ExportsAreWhole'
    BY <1>2 DEF Restart, Waits, MirrorInductive, Listed, ExportsAreWhole
  <2> QED  BY <2>3, <2>4, <2>5 DEF MirrorInductive
<1>3. ASSUME UNCHANGED mirrorVars PROVE MirrorInductive'
  BY <1>3
     DEF mirrorVars, MirrorInductive, MirrorTypeOK, Referential, Asked, Listed, ExportsAreWhole
<1> QED  BY <1>1, <1>2, <1>3, RequestStep, HandlerStep, ExportStep DEF MirrorNext

\* However queries, deletions, creations and crashes interleave, a sample is
\* true and an inventory is whole.
THEOREM MirrorCorrect == MirrorSpec => []MirrorInv
<1>1. MirrorInit => MirrorInductive
  <2>1. NoRows \in Inventory  BY DEF NoRows, Inventory
  <2>2. MirrorInit => failures \in 0..MaxFailures  BY DEF MirrorInit, MirrorAssumption
  <2>3. NoResult \notin Result  BY DEF MirrorAssumption
  <2>4. MirrorInit => MirrorTypeOK  BY <2>1, <2>2, <2>3 DEF MirrorInit, MirrorTypeOK
  <2> QED
    BY <2>4 DEF MirrorInit, NoRows, MirrorInductive, Referential, Asked, Listed, ExportsAreWhole
<1>2. MirrorInductive => MirrorInv
  BY DEF MirrorInductive, MirrorInv, SamplesAreTrue, Asked
<1> QED  BY <1>1, <1>2, MirrorStep, PTL DEF MirrorSpec
=============================================================================
