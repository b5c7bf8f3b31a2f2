----------------------------- MODULE Scheduler -----------------------------
(***************************************************************************)
(* The probe scheduler (internal/scheduler/scheduler.go).  Two goroutines  *)
(* share the map `directions` under Scheduler.mu: refreshLoop lists the    *)
(* enabled directions outside the lock and then swaps a new map in; the    *)
(* tick reads the clock, takes the lock, stamps every probe that is due    *)
(* and dispatches the jobs after it has released the lock.                 *)
(*                                                                         *)
(* Time is kept as the age of each stamp, which saturates at Horizon: no   *)
(* interval and no delay of a tick is longer, so an older stamp, like the  *)
(* zero time of a new entry, is due whatever its exact age.                *)
(***************************************************************************)
EXTENDS Naturals

CONSTANTS
    Direction,   \* identities of directions
    Probe,       \* {"ping", "mtr"}
    Interval,    \* the intervals an administrator chooses from
    Config,      \* the settings a direction may have
    NoRow,       \* "no such direction"
    Horizon,     \* bound: ages saturate here
    MaxLag       \* bound: how late a tick gets the lock

ASSUME SchedulerAssumption ==
    /\ Interval \subseteq Nat \ {0}
    /\ Config \subseteq [on : SUBSET Probe, every : [Probe -> Interval]]
    /\ NoRow \notin Config
    /\ Horizon \in Nat
    /\ MaxLag \in Nat
    /\ \A i \in Interval : i + MaxLag <= Horizon

VARIABLES
    row,         \* the directions table: Direction -> Config or NoRow
    online,      \* Hub.IsAgentOnline of the direction's source
    schedule,    \* Scheduler.directions: the settings it works with
    age,         \* age of lastPing and lastMTR in its entries
    refreshing,  \* refreshDirections is between its list and its swap
    listed,      \* what it listed
    tick,        \* checkSchedules: "idle", "due" (now is read), "dispatch"
    lag,         \* the age of its `now`
    pending,     \* the jobs it has collected and not yet dispatched
    since,       \* ghost: time since the probe's last stamp, whatever
                 \* happened to the entry
    left         \* ghost: probes whose direction left the schedule since then

vars == <<row, online, schedule, age, refreshing, listed, tick, lag, pending,
          since, left>>

Ages    == [Direction -> [Probe -> 0..Horizon]]
Rows    == [Direction -> Config \cup {NoRow}]
Pending == [direction : Direction, probe : Probe, config : Config]

TypeOK ==
    /\ row \in Rows
    /\ online \in [Direction -> BOOLEAN]
    /\ schedule \in Rows
    /\ age \in Ages
    /\ refreshing \in BOOLEAN
    /\ listed \in Rows
    /\ tick \in {"idle", "due", "dispatch"}
    /\ lag \in 0..MaxLag
    /\ pending \in SUBSET Pending
    /\ since \in Ages
    /\ left \in SUBSET (Direction \X Probe)

Nowhere == [d \in Direction |-> NoRow]
Never   == [p \in Probe |-> Horizon]

Init ==
    /\ row \in Rows
    /\ online = [d \in Direction |-> FALSE]
    /\ schedule = Nowhere
    /\ age = [d \in Direction |-> Never]
    /\ refreshing = FALSE
    /\ listed = Nowhere
    /\ tick = "idle"
    /\ lag = 0
    /\ pending = {}
    /\ since = [d \in Direction |-> Never]
    /\ left = {}

----------------------------------------------------------------------------
(* The environment: administrators, agents, time.                          *)

\* HandleCreateDirection, HandleUpdateDirection and the deletions.
Edit(d, c) ==
    /\ row[d] # c
    /\ row' = [row EXCEPT ![d] = c]
    /\ UNCHANGED <<online, schedule, age, refreshing, listed, tick, lag,
                   pending, since, left>>

\* The source agent connects or is gone.
SourceChanges(d) ==
    /\ online' = [online EXCEPT ![d] = ~@]
    /\ UNCHANGED <<row, schedule, age, refreshing, listed, tick, lag, pending,
                   since, left>>

Older(ages) ==
    [d \in Direction |-> [p \in Probe |->
        IF ages[d][p] < Horizon THEN ages[d][p] + 1 ELSE Horizon]]

TimePasses ==
    /\ tick = "due" => lag < MaxLag
    /\ lag' = IF tick = "due" THEN lag + 1 ELSE lag
    /\ age' = Older(age)
    /\ since' = Older(since)
    /\ UNCHANGED <<row, online, schedule, refreshing, listed, tick, pending, left>>

----------------------------------------------------------------------------
(* refreshDirections.                                                      *)

\* ListDirectionsForScheduling, outside the lock.  (A list that fails keeps
\* the old map: nothing happens.)
RefreshLists ==
    /\ ~refreshing
    /\ refreshing' = TRUE
    /\ listed' = [d \in Direction |->
                    IF row[d] # NoRow /\ row[d].on # {} THEN row[d] ELSE NoRow]
    /\ UNCHANGED <<row, online, schedule, age, tick, lag, pending, since, left>>

\* Mutant of RefreshSwaps: an edited direction starts over.
RefreshRestartsEdited ==
    /\ refreshing
    /\ refreshing' = FALSE
    /\ schedule' = listed
    /\ age' = [d \in Direction |-> IF schedule[d] = listed[d] THEN age[d] ELSE Never]
    /\ left' = left \cup {d \in Direction : listed[d] = NoRow} \X Probe
    /\ listed' = Nowhere
    /\ UNCHANGED <<row, online, tick, lag, pending, since>>

\* Mutant of RefreshSwaps: entries that are no longer listed are kept.
RefreshKeepsUnlisted ==
    /\ refreshing
    /\ refreshing' = FALSE
    /\ schedule' = [d \in Direction |->
                      IF listed[d] = NoRow THEN schedule[d] ELSE listed[d]]
    /\ listed' = Nowhere
    /\ UNCHANGED <<row, online, age, tick, lag, pending, since, left>>

\* The new map, under the lock: a direction that stays keeps its stamps, a new
\* one starts with zero times and one that is gone loses them.
RefreshSwaps ==
    /\ refreshing
    /\ refreshing' = FALSE
    /\ schedule' = listed
    /\ age' = [d \in Direction |->
                 IF schedule[d] # NoRow /\ listed[d] # NoRow THEN age[d] ELSE Never]
    /\ left' = left \cup {d \in Direction : listed[d] = NoRow} \X Probe
    /\ listed' = Nowhere
    /\ UNCHANGED <<row, online, tick, lag, pending, since>>

----------------------------------------------------------------------------
(* checkSchedules.                                                         *)

\* now := time.Now(), before the lock.
TickReadsClock ==
    /\ tick = "idle"
    /\ tick' = "due"
    /\ lag' = 0
    /\ UNCHANGED <<row, online, schedule, age, refreshing, listed, pending,
                   since, left>>

\* Mutant of Due: a probe of a direction that was never probed is not due.
DueOnlyAgain(d, p) ==
    /\ schedule[d] # NoRow
    /\ online[d]
    /\ p \in schedule[d].on
    /\ schedule[d].every[p] + lag <= age[d][p]
    /\ age[d][p] < Horizon

\* now.Sub(last) >= interval, for an enabled probe of an online source.
Due(d, p) ==
    /\ schedule[d] # NoRow
    /\ online[d]
    /\ p \in schedule[d].on
    /\ schedule[d].every[p] + lag <= age[d][p]

Stamp(ages) ==
    [d \in Direction |-> [p \in Probe |-> IF Due(d, p) THEN lag ELSE ages[d][p]]]

\* The loop under the lock.
TickCollects ==
    LET due == {s \in Direction \X Probe : Due(s[1], s[2])} IN
    /\ tick = "due"
    /\ age' = Stamp(age)
    /\ since' = Stamp(since)
    /\ left' = left \ due
    /\ pending' = {[direction |-> s[1], probe |-> s[2], config |-> schedule[s[1]]] :
                     s \in due}
    /\ tick' = IF due = {} THEN "idle" ELSE "dispatch"
    /\ lag' = 0
    /\ UNCHANGED <<row, online, schedule, refreshing, listed>>

\* One dispatchJob after the lock.  Whether the hub takes the job or refuses it
\* (the source is gone or its queue full), the stamp stays as it is.
TickDispatches(j) ==
    /\ tick = "dispatch"
    /\ j \in pending
    /\ pending' = pending \ {j}
    /\ tick' = IF pending' = {} THEN "idle" ELSE "dispatch"
    /\ UNCHANGED <<row, online, schedule, age, refreshing, listed, lag, since, left>>

----------------------------------------------------------------------------

Dispatches == \E j \in pending : TickDispatches(j)
Ticks      == TickReadsClock \/ TickCollects \/ Dispatches

Next ==
    \/ \E d \in Direction, c \in Config \cup {NoRow} : Edit(d, c)
    \/ \E d \in Direction : SourceChanges(d)
    \/ TimePasses
    \/ RefreshLists
    \/ RefreshSwaps
    \/ Ticks

Spec == Init /\ [][Next]_vars

\* Both tickers keep firing, the lock is handed on, and time goes by.  Edits
\* and the comings and goings of agents are left to themselves.
Fairness ==
    /\ WF_vars(TimePasses)
    /\ WF_vars(RefreshLists)
    /\ WF_vars(RefreshSwaps)
    /\ WF_vars(Ticks)

FairSpec == Spec /\ Fairness

----------------------------------------------------------------------------
(* Properties.                                                             *)

\* Two probes of a direction are stamped at least its interval apart, by the
\* clock the ticks read and by the interval in force at the second stamp,
\* however refreshes, edits and late ticks interleave; only a direction that
\* left the schedule in between may be probed sooner.
Spacing ==
    [][\A d \in Direction, p \in Probe :
         (tick = "due" /\ \E j \in pending' : j.direction = d /\ j.probe = p) =>
            \/ schedule[d].every[p] + lag <= since[d][p]
            \/ <<d, p>> \in left]_vars

\* While an entry stays in the map its stamps are the true ones, and a probe
\* without an entry has never been stamped or its entry was dropped.
StampsAreTrue ==
    \A d \in Direction, p \in Probe :
        \/ <<d, p>> \in left
        \/ since[d][p] = IF schedule[d] # NoRow THEN age[d][p] ELSE Horizon

\* The inductive invariant: jobs wait only for the tick that collected them.
SchedulerInv ==
    /\ TypeOK
    /\ StampsAreTrue
    /\ tick # "dispatch" => pending = {}

\* A direction that stays enabled while its source stays online is probed over
\* and over: no edit, refresh or failed dispatch starves it.
ProbedForever ==
    \A d \in Direction, p \in Probe :
        <>[](row[d] # NoRow /\ p \in row[d].on /\ online[d])
            => []<>(\E j \in pending : j.direction = d /\ j.probe = p)

\* Once the administrator stops editing, jobs carry the settings in the table:
\* those of a deleted or disabled direction die out.
EditsReachJobs ==
    <>[][UNCHANGED row]_vars => <>[](\A j \in pending : row[j.direction] = j.config)
=============================================================================
