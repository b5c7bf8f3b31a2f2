SPECIFICATION FairSpec
CONSTANTS
    Direction = {d1}
    Probe = {"ping", "mtr"}
    Interval = {1, 2}
    Config <- SomeConfigs
    NoRow = NoRow
    Horizon = 3
    MaxLag = 1
INVARIANTS
    SchedulerInv
PROPERTIES
    Spacing
    ProbedForever
    EditsReachJobs
