SPECIFICATION KeepaliveSpec
CONSTANTS
    Period = 6
    Deadline = 12
    Latency = 1
    Busy = 6
INVARIANTS
    KeepaliveInv
