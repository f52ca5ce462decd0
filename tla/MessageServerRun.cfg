\* Somebody who is a user and a seller, and another seller; two messages.
CONSTANTS
    Users = {a}
    Sellers = {a, b}
    Channels = {c}
    NoChannel = NoChannel
    NoSession = NoSession
    MaxMessages = 2
SPECIFICATION FairSpec
INVARIANTS Accounted OnceAndInOrder
PROPERTY HandledOrLost
