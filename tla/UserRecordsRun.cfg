\* One or two apl-server processes on one database.
CONSTANTS
    Servers = {apl1, apl2}
    Users = {u1}
    Sellers = {s1, s2}
    Plates = {p1, p2}
    Favorites = {f1}
    Ids = {i1, i2}
    None = None
    MaxCars = 2
SPECIFICATION MCSpec
INVARIANTS NotifiedIsRecorded AcknowledgedIsKept RemovedIsGone
SYMMETRY Symmetry
