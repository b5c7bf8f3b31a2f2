SPECIFICATION FairSpec
CONSTANTS
    Agent = {a, b}
    Link = {l1}
    Id = {1}
    Found <- OldDatabases
    Last = 10
    Cleanup = 9
    Repeatable = {9, 10}
    MaxFailures = 2
INVARIANTS
    StartupInv
PROPERTIES
    OrphansOnly
    ServesAgain
