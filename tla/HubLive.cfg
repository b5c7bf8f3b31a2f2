SPECIFICATION FairSpec
CONSTANTS
    Agent = {a1}
    Conn = {c1, c2}
    Job = {j1}
    NoAgent = NoAgent
    NoConn = NoConn
    NoMsg = NoMsg
    Pong = Pong
    QueueCap = 1
    Occurs = {"ping", "shutdown"}
    MaxDowns = 0
PROPERTIES
    EndedFinishes
    LiveIsListed
    CloseTerminates
    QueuedJobIsWritten
