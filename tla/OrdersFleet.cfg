\* Two apl-server processes over one MongoDB.
CONSTANTS
    Servers = {apl1, apl2}
    Users = {u1, u2}
    Sellers = {s1}
    OrderIds = {o1}
    NoId = NoId
    MaxReplies = 1
SPECIFICATION Spec
INVARIANTS OwnerIsNotified
PROPERTIES NeverResurrected
SYMMETRY Symmetry
VIEW WithoutAnswers
