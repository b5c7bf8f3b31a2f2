SPECIFICATION FairSpec
CONSTANTS
    Job = {j1, j2}
    Garbled = {j1}
    Slot = {w1}
    QueueSize = 1
    MaxConns = 2
    NoJob = NoJob
    NoOne = NoOne
INVARIANTS
    AgentInv
    OneGeneration
    JobsAccounted
PROPERTIES
    ShutdownTerminates
    LossIsNoticed
    JobIsAnswered
