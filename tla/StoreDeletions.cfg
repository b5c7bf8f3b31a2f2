SPECIFICATION Spec
CONSTANTS
    Agent = {a, b}
    Link = {l1, l2}
    Id = {1, 2}
    Request = {r1, r2}
    NoTask = NoTask
    NoOne = NoOne
SYMMETRY Same
INVARIANTS
    StoreInv
    DeletionsPass
PROPERTIES
    AllOrNothing
    EmptiedLinksGo
