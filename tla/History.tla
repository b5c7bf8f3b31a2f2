------------------------------ MODULE History ------------------------------
(***************************************************************************)
(* The history of one link: results come in late and out of order         *)
(* (Hub.handleResult), retention deletes them (the hourly                  *)
(* runRetentionCleanup and the administrator's saves, each of which reads  *)
(* or writes the settings in one commit and deletes in the next), and the  *)
(* link's status is derived from what is left.  How rows refer to each     *)
(* other is in Store.                                                      *)
(***************************************************************************)
EXTENDS Naturals, FiniteSets

CONSTANTS
    Direction,    \* the link's directions
    Cleaner,      \* administrators' requests and the hourly loop:
    Hourly,
    Settings,     \* retentions the administrator may choose: days by kind
    Loss,         \* packet loss of a sample: "none", "partial", "total"
    MaxTime,      \* bound: days
    MaxSamples,   \* bound: samples ever saved
    Idle

Kind == {"ping", "mtr"}

Forever == [k \in Kind |-> 0]

ASSUME HistoryAssumption ==
    /\ Hourly \in Cleaner
    /\ Settings \subseteq [Kind -> Nat]
    /\ Forever \in Settings
    /\ Idle \notin Settings
    /\ Loss \subseteq {"none", "partial", "total"}
    /\ MaxTime \in Nat /\ MaxSamples \in Nat

Time == 0..MaxTime

\* A row of ping_results, or of mtr_runs (nobody asks what it lost).
Sample ==
    [id : 1..MaxSamples, kind : {"ping"}, direction : Direction, time : Time, loss : Loss]
    \cup [id : 1..MaxSamples, kind : {"mtr"}, direction : Direction, time : Time, loss : {"none"}]

VARIABLES
    now,        \* the controller's clock
    settings,   \* the row of retention_settings
    samples,    \* the rows of ping_results and mtr_runs
    nextId,     \* the next AUTOINCREMENT value
    online,     \* directions whose source agent is online
    enabled,    \* directions with ping enabled
    cleaning,   \* Cleaner -> Idle, or the settings its cleanup goes by
    overtaken   \* history variable, Kind -> the cleanups that were under way
                \* when a retention of zero was saved for it

vars == <<now, settings, samples, nextId, online, enabled, cleaning, overtaken>>

Init ==
    /\ now = 0
    /\ settings = Forever
    /\ samples = {}
    /\ nextId = 1
    /\ online = {}
    /\ enabled \in SUBSET Direction
    /\ cleaning = [c \in Cleaner |-> Idle]
    /\ overtaken = [k \in Kind |-> {}]

----------------------------------------------------------------------------
(* The status of the link (linkStatsQuery and classifiedLinkQuery).        *)

Pings(d) == {s \in samples : s.kind = "ping" /\ s.direction = d}

\* Mutant of Before: the result that came in last.
BeforeByArrival(r, s) == r.id < s.id

\* r comes after s in ORDER BY timestamp DESC, id DESC.
Before(r, s) == r.time < s.time \/ (r.time = s.time /\ r.id < s.id)

\* The newest sample, if there is one.
Latest(d) == {s \in Pings(d) : \A r \in Pings(d) \ {s} : Before(r, s)}

Down == {d \in online \cap enabled : \E s \in Latest(d) : s.loss = "total"}

\* Mutant of Degraded: a direction without samples is taken for a good one.
DegradedIfSampled == {d \in online \cap enabled : \E s \in Latest(d) : s.loss = "partial"}

Degraded ==
    {d \in online \cap enabled : Latest(d) = {} \/ \E s \in Latest(d) : s.loss = "partial"}

LinkStatus ==
    IF online = {} THEN "inactive"
    ELSE IF Down # {} THEN "down"
    ELSE IF online # Direction \/ Degraded # {} THEN "degraded"
    ELSE "healthy"

----------------------------------------------------------------------------

TimePasses ==
    /\ now < MaxTime
    /\ now' = now + 1
    /\ UNCHANGED <<settings, samples, nextId, online, enabled, cleaning, overtaken>>

\* Store.SavePingResult and SaveMTRRun keep the row in SQLite (the mirror that
\* may follow is out of the model).
KeepsLocally(s) ==
    /\ s.id = nextId
    /\ samples' = samples \cup {s}

\* handleResult: a result with the time its agent put on it.  The agent's
\* clock is its own and the result may have been under way for long.
SaveResult(s) ==
    /\ KeepsLocally(s)
    /\ nextId' = nextId + 1
    /\ UNCHANGED <<now, settings, online, enabled, cleaning, overtaken>>

\* The source agent of a direction connects or leaves.
UpdateAgentStatus(d) ==
    /\ online' = IF d \in online THEN online \ {d} ELSE online \cup {d}
    /\ UNCHANGED <<now, settings, samples, nextId, enabled, cleaning, overtaken>>

\* HandleUpdateDirection switches ping on or off.
UpdateDirection(d) ==
    /\ enabled' = IF d \in enabled THEN enabled \ {d} ELSE enabled \cup {d}
    /\ UNCHANGED <<now, settings, samples, nextId, online, cleaning, overtaken>>

\* The hourly loop reads the settings.
GetRetentionSettings ==
    /\ cleaning[Hourly] = Idle
    /\ cleaning' = [cleaning EXCEPT ![Hourly] = settings]
    /\ UNCHANGED <<now, settings, samples, nextId, online, enabled, overtaken>>

\* The settings s are saved: a kind's new zero overtakes the cleanups under way.
OvertakenBy(s) ==
    [k \in Kind |->
        IF s[k] # 0 THEN {}
        ELSE IF settings[k] = 0 THEN overtaken[k]
        ELSE {c \in Cleaner : cleaning[c] # Idle}]

\* Mutant of UpdateRetentionSettings: cleaned up by the settings read before the
\* save.
UpdateRetentionSettingsStale(c, s) ==
    /\ c # Hourly
    /\ cleaning[c] = Idle
    /\ settings' = s
    /\ cleaning' = [cleaning EXCEPT ![c] = settings]
    /\ overtaken' = OvertakenBy(s)
    /\ UNCHANGED <<now, samples, nextId, online, enabled>>

\* HandleUpdateRetentionSettings: saved first, cleaned up after by what was
\* saved.
UpdateRetentionSettings(c, s) ==
    /\ c # Hourly
    /\ cleaning[c] = Idle
    /\ settings' = s
    /\ cleaning' = [cleaning EXCEPT ![c] = s]
    /\ overtaken' = OvertakenBy(s)
    /\ UNCHANGED <<now, samples, nextId, online, enabled>>

\* Mutant of Expired: zero ends the cleanup instead of skipping one table.
ExpiredUnlessZero(keep) ==
    {s \in samples : keep["ping"] > 0 /\ keep[s.kind] > 0 /\ s.time + keep[s.kind] < now}

\* DELETE ... WHERE timestamp < now - days, for the kinds with a limit.
Expired(keep) == {s \in samples : keep[s.kind] > 0 /\ s.time + keep[s.kind] < now}

Ends(c) ==
    /\ cleaning' = [cleaning EXCEPT ![c] = Idle]
    /\ overtaken' = [k \in Kind |-> overtaken[k] \ {c}]

\* One transaction; it reads nothing before its first write.  Its cutoff is
\* taken from the clock just before; that the day may have changed since is
\* left out.
CleanupExpiredProbeHistory(c) ==
    /\ cleaning[c] # Idle
    /\ samples' = samples \ Expired(cleaning[c])
    /\ Ends(c)
    /\ UNCHANGED <<now, settings, nextId, online, enabled>>

\* It fails (the database is locked for more than five seconds, say).
CleanupFails(c) ==
    /\ cleaning[c] # Idle
    /\ Ends(c)
    /\ UNCHANGED <<now, settings, samples, nextId, online, enabled>>

\* The process ends between two commits.  It leaves the online column as it
\* is (Hub has what becomes of it).
Crash ==
    /\ cleaning' = [c \in Cleaner |-> Idle]
    /\ overtaken' = [k \in Kind |-> {}]
    /\ UNCHANGED <<now, settings, samples, nextId, online, enabled>>

Next ==
    \/ TimePasses
    \/ \E s \in Sample : SaveResult(s)
    \/ \E d \in Direction : UpdateAgentStatus(d) \/ UpdateDirection(d)
    \/ GetRetentionSettings
    \/ \E c \in Cleaner :
          \/ \E s \in Settings : UpdateRetentionSettings(c, s)
          \/ CleanupExpiredProbeHistory(c)
          \/ CleanupFails(c)
    \/ Crash

Spec == Init /\ [][Next]_vars

\* The hourly loop goes on after a failure, and does not fail for ever.
FairSpec ==
    /\ Spec
    /\ WF_vars(GetRetentionSettings)
    /\ SF_vars(CleanupExpiredProbeHistory(Hourly))

----------------------------------------------------------------------------
(* Properties.                                                             *)

HistoryInv ==
    /\ now \in Time
    /\ settings \in Settings
    /\ samples \subseteq Sample
    /\ nextId \in 1..(MaxSamples + 1)
    /\ online \subseteq Direction
    /\ enabled \subseteq Direction
    /\ cleaning \in [Cleaner -> Settings \cup {Idle}]
    /\ \A r, s \in samples : r.id = s.id => r = s
    /\ \A s \in samples : s.id < nextId
    /\ overtaken \in [Kind -> SUBSET Cleaner]
    /\ \A k \in Kind : \A c \in Cleaner :
          /\ c \in overtaken[k] => cleaning[c] # Idle
          /\ settings[k] = 0 /\ cleaning[c] # Idle /\ cleaning[c][k] > 0
                => c \in overtaken[k]

\* What a direction reports last only moves forward, whatever comes in late
\* and whatever is deleted: a deletion leaves it or leaves nothing.
LatestMovesForward ==
    [][\A d \in Direction : \A s \in Latest(d) :
          \/ Latest(d)' = {}
          \/ s \in Latest(d)'
          \/ \E r \in Latest(d)' : r.time >= s.time /\ r \notin samples]_vars

\* A link becomes healthy by news: an agent connects or leaves, a ping is
\* switched, or a newer sample without loss arrives.  Deleting history or
\* hearing of the past never heals it.
OnlyNewsHeals ==
    [][LinkStatus # "healthy" /\ LinkStatus' = "healthy" =>
          \/ online' # online \/ enabled' # enabled
          \/ \E d \in Direction : \E s \in Latest(d)' :
                /\ s \notin samples /\ s.loss = "none"
                /\ \A r \in Pings(d) : r.time <= s.time]_vars

\* "A value of 0 keeps that history forever": while a kind's retention is zero,
\* only a cleanup that was under way when that zero was saved deletes of it, and
\* does so once.  Neither the save's own cleanup nor an hourly one that starts
\* later, between any saves of others, goes by what was kept before.
ZeroKeeps ==
    [][\A k \in Kind : \A s \in samples :
          s.kind = k /\ s \notin samples' /\ settings[k] = 0 =>
             \E c \in overtaken[k] : c \notin overtaken'[k]]_vars

\* Under settings that stay, the cleanup catches up with the expired samples,
\* those that come in late too, again and again.
ExpiredGo ==
    \A keep \in Settings :
        <>[](settings = keep) =>
            []<>(\A s \in samples : keep[s.kind] = 0 \/ s.time + keep[s.kind] >= now)
=============================================================================
