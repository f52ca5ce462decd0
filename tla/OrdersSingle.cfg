\* One apl-server process, as docs/nginx.conf deploys it.
CONSTANTS
    Servers = {apl}
    Users = {u1, u2}
    Sellers = {s1, s2}
    OrderIds = {o1}
    NoId = NoId
    MaxReplies = 2
SPECIFICATION Spec
INVARIANTS TypeOK AnnouncedOffersAreRecorded
PROPERTIES OkMeansDone LifecycleImplemented RepliesKept ListedUntilAnswered
SYMMETRY Symmetry
