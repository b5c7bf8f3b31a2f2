SPECIFICATION Spec
SYMMETRY JobSymmetry
CONSTANTS
    Me = Me
    Job = {j1, j2}
    Slot = {w1}
    QueueSize = 1
    MaxConns = 2
    NoJob = NoJob
    NoOne = NoOne
    NoAgent = NoAgent
    NoConn = NoConn
    NoMsg = NoMsg
    Pong = Pong
    QueueCap = 1
    Hello = Hello
    HelloOK = HelloOK
    MaxLosses = 1
INVARIANTS
    SystemInv
PROPERTIES
    ImplementsJobs
