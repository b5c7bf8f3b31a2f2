SPECIFICATION FairSpec
CONSTANTS
    Token = {"t", "u"}
    Instance = {"a", "b"}
    Id = {i1, i2, i3, i4, i5}
    Process = {1, 2, 3}
    Credentials <- Shared
    Unset = Unset
    NoRow = NoRow
    NoId = NoId
    NoOne = NoOne
INVARIANTS
    EnrollmentInv
    SameIdentity
PROPERTIES
    IdentityIsKept
    DeadTokensStayDead
    Enrolled
