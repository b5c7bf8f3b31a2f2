-------------------------- MODULE SchedulerProofs --------------------------
(***************************************************************************)
(* The spacing of probes, for any directions, probes, intervals and        *)
(* delays: SchedulerInv is inductive, and a probe that is due by its true  *)
(* stamp is spaced.                                                        *)
(***************************************************************************)
EXTENDS Scheduler, TLAPS

USE SchedulerAssumption

\* Aging by one tick of the clock and stamping a probe stay within Horizon.
LEMMA OlderType ==
  ASSUME NEW ages \in Ages
  PROVE  Older(ages) \in Ages
BY DEF Ages, Older

LEMMA StampType ==
  ASSUME TypeOK, NEW ages \in Ages, tick = "due"
  PROVE  Stamp(ages) \in Ages
<1>1. ASSUME NEW d \in Direction, NEW p \in Probe, Due(d, p)
      PROVE  lag \in 0..Horizon
  <2>1. schedule[d] \in Config  BY <1>1 DEF TypeOK, Rows, Due
  <2>2. schedule[d].every[p] \in Interval  BY <2>1
  <2>3. schedule[d].every[p] \in Nat /\ schedule[d].every[p] + MaxLag <= Horizon
    BY <2>2
  <2> QED  BY <2>3 DEF TypeOK
<1> QED  BY <1>1 DEF Ages, Stamp

LEMMA NeverType == Never \in [Probe -> 0..Horizon]
BY DEF Never

LEMMA TypeStep ==
  ASSUME TypeOK, [Next]_vars
  PROVE  TypeOK'
<1> USE DEF TypeOK
<1>1. ASSUME NEW d \in Direction, NEW c \in Config \cup {NoRow}, Edit(d, c) PROVE TypeOK'
  BY <1>1 DEF Edit, Rows
<1>2. ASSUME NEW d \in Direction, SourceChanges(d) PROVE TypeOK'
  BY <1>2 DEF SourceChanges
<1>3. ASSUME TimePasses PROVE TypeOK'
  <2>1. age' \in Ages /\ since' \in Ages  BY <1>3, OlderType DEF TimePasses
  <2> QED  BY <1>3, <2>1 DEF TimePasses
<1>4. ASSUME RefreshLists PROVE TypeOK'
  BY <1>4 DEF RefreshLists, Rows
<1>5. ASSUME RefreshSwaps PROVE TypeOK'
  <2>1. age' \in Ages  BY <1>5, NeverType DEF RefreshSwaps, Ages
  <2> QED  BY <1>5, <2>1 DEF RefreshSwaps, Rows, Nowhere
<1>6. ASSUME TickReadsClock PROVE TypeOK'
  BY <1>6 DEF TickReadsClock
<1>7. ASSUME TickCollects PROVE TypeOK'
  <2>1. age' \in Ages /\ since' \in Ages  BY <1>7, StampType DEF TickCollects
  <2>2. pending' \in SUBSET Pending
    BY <1>7 DEF TickCollects, Due, Pending, Rows
  <2> QED  BY <1>7, <2>1, <2>2 DEF TickCollects
<1>8. ASSUME NEW j \in pending, TickDispatches(j) PROVE TypeOK'
  BY <1>8 DEF TickDispatches
<1>9. ASSUME UNCHANGED vars PROVE TypeOK'
  BY <1>9 DEF vars
<1> QED  BY <1>1, <1>2, <1>3, <1>4, <1>5, <1>6, <1>7, <1>8, <1>9
         DEF Next, Ticks, Dispatches

\* A refresh keeps the stamps of the entries it keeps, and the tick stamps
\* entry and ghost alike.
LEMMA StampsStep ==
  ASSUME SchedulerInv, [Next]_vars
  PROVE  StampsAreTrue'
<1> USE DEF SchedulerInv, TypeOK, StampsAreTrue
<1>1. ASSUME NEW d \in Direction, NEW c \in Config \cup {NoRow}, Edit(d, c) PROVE StampsAreTrue'
  BY <1>1 DEF Edit
<1>2. ASSUME NEW d \in Direction, SourceChanges(d) PROVE StampsAreTrue'
  BY <1>2 DEF SourceChanges
<1>3. ASSUME TimePasses PROVE StampsAreTrue'
  <2>1. ASSUME NEW d \in Direction, NEW p \in Probe
        PROVE  /\ age'[d][p] = IF age[d][p] < Horizon THEN age[d][p] + 1 ELSE Horizon
               /\ since'[d][p] = IF since[d][p] < Horizon THEN since[d][p] + 1 ELSE Horizon
    BY <1>3 DEF TimePasses, Older
  <2>2. schedule' = schedule /\ left' = left  BY <1>3 DEF TimePasses
  <2>3. ~(Horizon < Horizon)  OBVIOUS
  <2>4. ASSUME NEW d \in Direction, NEW p \in Probe, <<d, p>> \notin left
        PROVE  since'[d][p] = IF schedule'[d] # NoRow THEN age'[d][p] ELSE Horizon
    <3>1. CASE schedule[d] # NoRow  BY <2>1, <2>2, <2>4, <3>1
    <3>2. CASE schedule[d] = NoRow  BY <2>1, <2>2, <2>3, <2>4, <3>2
    <3> QED  BY <3>1, <3>2
  <2> QED  BY <2>2, <2>4
<1>4. ASSUME RefreshLists PROVE StampsAreTrue'
  BY <1>4 DEF RefreshLists
<1>5. ASSUME RefreshSwaps PROVE StampsAreTrue'
  <2> SUFFICES ASSUME NEW d \in Direction, NEW p \in Probe, <<d, p>> \notin left'
               PROVE  since'[d][p] = IF schedule'[d] # NoRow THEN age'[d][p] ELSE Horizon
    OBVIOUS
  <2>1. listed[d] # NoRow /\ <<d, p>> \notin left
    BY <1>5 DEF RefreshSwaps
  <2>2. CASE schedule[d] # NoRow  BY <1>5, <2>1, <2>2 DEF RefreshSwaps
  <2>3. CASE schedule[d] = NoRow  BY <1>5, <2>1, <2>3 DEF RefreshSwaps, Never
  <2> QED  BY <2>2, <2>3
<1>6. ASSUME TickReadsClock PROVE StampsAreTrue'
  BY <1>6 DEF TickReadsClock
<1>7. ASSUME TickCollects PROVE StampsAreTrue'
  <2> SUFFICES ASSUME NEW d \in Direction, NEW p \in Probe, <<d, p>> \notin left'
               PROVE  since'[d][p] = IF schedule'[d] # NoRow THEN age'[d][p] ELSE Horizon
    OBVIOUS
  <2>1. CASE Due(d, p)  BY <1>7, <2>1 DEF TickCollects, Stamp, Due
  <2>2. CASE ~Due(d, p)
    <3>1. <<d, p>> \notin left  BY <1>7, <2>2 DEF TickCollects
    <3> QED  BY <1>7, <2>2, <3>1 DEF TickCollects, Stamp
  <2> QED  BY <2>1, <2>2
<1>8. ASSUME NEW j \in pending, TickDispatches(j) PROVE StampsAreTrue'
  BY <1>8 DEF TickDispatches
<1>9. ASSUME UNCHANGED vars PROVE StampsAreTrue'
  BY <1>9 DEF vars
<1> QED  BY <1>1, <1>2, <1>3, <1>4, <1>5, <1>6, <1>7, <1>8, <1>9
         DEF Next, Ticks, Dispatches

\* Jobs are collected and dispatched within one tick.
LEMMA PendingStep ==
  ASSUME SchedulerInv, [Next]_vars
  PROVE  tick' # "dispatch" => pending' = {}
<1>1. CASE TickCollects
  BY <1>1 DEF TickCollects
<1>2. ASSUME NEW j \in pending, TickDispatches(j) PROVE tick' # "dispatch" => pending' = {}
  BY <1>2 DEF TickDispatches
<1>3. CASE TickReadsClock
  BY <1>3 DEF TickReadsClock, SchedulerInv
<1>4. CASE TimePasses \/ RefreshLists \/ RefreshSwaps \/ UNCHANGED vars
  BY <1>4 DEF TimePasses, RefreshLists, RefreshSwaps, vars, SchedulerInv
<1>5. ASSUME NEW d \in Direction,
             SourceChanges(d) \/ \E c \in Config \cup {NoRow} : Edit(d, c)
      PROVE  tick' # "dispatch" => pending' = {}
  BY <1>5 DEF SourceChanges, Edit, SchedulerInv
<1> QED  BY <1>1, <1>2, <1>3, <1>4, <1>5 DEF Next, Ticks, Dispatches

\* The stamps the scheduler decides by are the true ones, for as long as the
\* direction stays in its map.
THEOREM StampsCorrect == Spec => []SchedulerInv
<1>1. Init => SchedulerInv
  <2> SUFFICES ASSUME Init PROVE SchedulerInv
    OBVIOUS
  <2>1. age \in Ages /\ since \in Ages  BY NeverType DEF Init, Ages
  <2>2. schedule \in Rows /\ listed \in Rows /\ row \in Rows
    BY DEF Init, Rows, Nowhere
  <2>3. lag \in 0..MaxLag  BY DEF Init
  <2>4. TypeOK  BY <2>1, <2>2, <2>3 DEF Init, TypeOK
  <2>5. StampsAreTrue  BY DEF Init, StampsAreTrue, Nowhere, Never
  <2> QED  BY <2>4, <2>5 DEF Init, SchedulerInv
<1>2. SchedulerInv /\ [Next]_vars => SchedulerInv'
  BY TypeStep, StampsStep, PendingStep DEF SchedulerInv
<1> QED  BY <1>1, <1>2, PTL DEF Spec

\* Probes of one direction are spaced by its interval, however refreshes,
\* edits and late ticks interleave.
THEOREM SpacingCorrect == Spec => Spacing
<1> DEFINE Spaced == \A d \in Direction, p \in Probe :
         (tick = "due" /\ \E j \in pending' : j.direction = d /\ j.probe = p) =>
            \/ schedule[d].every[p] + lag <= since[d][p]
            \/ <<d, p>> \in left
<1>1. SchedulerInv /\ [Next]_vars => [Spaced]_vars
  <2> SUFFICES ASSUME SchedulerInv, Next, tick = "due",
                      NEW d \in Direction, NEW p \in Probe, NEW j \in pending',
                      j.direction = d, j.probe = p
               PROVE  \/ schedule[d].every[p] + lag <= since[d][p]
                      \/ <<d, p>> \in left
    OBVIOUS
  <2>1. TickCollects
    <3>1. pending = {}  BY DEF SchedulerInv
    <3>2. pending' # pending  BY <3>1
    <3> QED  BY <3>1, <3>2 DEF Next, Ticks, Dispatches, Edit, SourceChanges, TimePasses,
                RefreshLists, RefreshSwaps, TickReadsClock
  <2>2. Due(d, p)  BY <2>1 DEF TickCollects
  <2>3. schedule[d].every[p] + lag <= age[d][p] /\ schedule[d] # NoRow
    BY <2>2 DEF Due
  <2> QED  BY <2>3 DEF SchedulerInv, StampsAreTrue
<1> QED  BY StampsCorrect, <1>1, PTL DEF Spec, Spacing
=============================================================================
