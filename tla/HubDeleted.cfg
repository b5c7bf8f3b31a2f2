SPECIFICATION FairSpec
CONSTANTS
    Agent = {a1}
    Conn = {c1}
    Job = {}
    NoAgent = NoAgent
    NoConn = NoConn
    NoMsg = NoMsg
    Pong = Pong
    QueueCap = 1
    Occurs = {"delete"}
    MaxDowns = 0
PROPERTIES
    DeletedIsDisconnected
