---------------------------- MODULE MCScheduler ----------------------------
(* Instances of Scheduler for TLC.                                         *)
EXTENDS Scheduler

\* Off; ping alone or both probes, with a short or a long interval.
SomeConfigs ==
    {[on |-> {}, every |-> [p \in Probe |-> 1]]} \cup
    {[on |-> s, every |-> [p \in Probe |-> i]] : s \in {{"ping"}, Probe}, i \in Interval}
=============================================================================
