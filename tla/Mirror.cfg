SPECIFICATION FairMirrorSpec
CONSTANTS
    Agent = {"a", "b"}
    Link = {"l"}
    DirectionRow <- OneDirection
    NoResult = NoResult
    MaxFailures = 1
INVARIANTS
    MirrorInv
PROPERTIES
    ExportCatchesUp
