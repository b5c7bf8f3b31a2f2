SPECIFICATION Spec
SYMMETRY FullSymmetry
CONSTANTS
    Agent = {a1, a2}
    Conn = {c1, c2}
    Job = {}
    NoAgent = NoAgent
    NoConn = NoConn
    NoMsg = NoMsg
    Pong = Pong
    QueueCap = 1
    Occurs = {"status write fails", "delete", "shutdown"}
    MaxDowns = 1
INVARIANTS
    HubInv
    PresenceAgrees
    SupersededIsStopped
PROPERTIES
    EntriesChangeInTurn
    ImplementsPresence
