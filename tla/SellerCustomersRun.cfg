\* One or two apl-server processes on one database.
CONSTANTS
    Servers = {apl1, apl2}
    Sellers = {s1}
    Users = {u1, u2}
    Names = {n1, n2}
    GroupIds = {g1, g2}
    MsgIds = {m1}
    None = None
    MaxGroups = 2
    MaxMembers = 2
SPECIFICATION MCSpec
INVARIANTS FiledIsListed NotifiedIsStored
PROPERTIES CustomersAreKept NoMessageToRemovedGroup
SYMMETRY Symmetry
