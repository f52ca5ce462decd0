CONSTANTS
    Files <- MCFiles
    Requests <- MCRequests
    MaxRuns = 2
    MaxFaults = 2
    MaxStarts = 2
    Conns = {c1, c2}
SPECIFICATION MCSpec
INVARIANTS FreshStartUsesPublished NewPortMeansNewOptions AnsweredFromOneDatabase
PROPERTY ServableIsAnswered
CHECK_DEADLOCK FALSE
