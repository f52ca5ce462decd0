\* One process of each server; two users, one of whom is also the seller; two
\* devices; one order, two messages.
CONSTANTS
    Servers = {apl}
    Users = {a, b}
    Sellers = {b}
    OrderIds = {o1}
    NoId = NoId
    MaxReplies = 1
    Channels = {c1, c2}
    NoChannel = NoChannel
    NoSession = NoSession
    MaxMessages = 2
SPECIFICATION MCSpec
INVARIANTS PushedOffersAreRecorded OrdersAreAnnouncedFirst
PROPERTY PushedToTheAddressee
SYMMETRY Devices
VIEW WithoutAnswers
CHECK_DEADLOCK FALSE
