\* Idle timeouts, failing pthread_create, rubbish or zeros read from an empty
\* queue.
CONSTANTS
    Workers = {w1, w2, w3}
    Items = {d1, d2, d3}
    MaxThreads = 2
    Null = Null
    Unwritten = {Null, Junk}
    MaxUnderflow = 3
    IdleTimeouts = TRUE
    CreateFails = TRUE
SPECIFICATION FairSpec
INVARIANTS CountersExact FreedWhenAllLeft NoOverrunWithoutTimeout EachItemOnce
PROPERTIES AcceptedIsHandled DestroyReturns
CHECK_DEADLOCK FALSE
