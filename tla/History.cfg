SPECIFICATION FairSpec
CONSTANTS
    Direction = {"ab", "ba"}
    Cleaner = {"hourly", "save"}
    Hourly = "hourly"
    Settings <- Chosen
    Loss = {"none", "total"}
    MaxTime = 2
    MaxSamples = 2
    Idle = Idle
PROPERTIES
    LatestMovesForward
    OnlyNewsHeals
    ZeroKeeps
    ExpiredGo
