\* Two threads, two writes, one fault.
CONSTANTS
    t1 = t1
    t2 = t2
    u1 = u1
    u2 = u2
    p1 = p1
    All = All
    Nobody = Nobody
    Threads <- TwoThreads
    Users <- OneUser
    Posts <- OnePost
    Traits = {"a", "b"}
    UserQueries = {"a"}
    PostQueries <- Everything
    MaxWrites = 2
    MaxFaults = 1
SPECIFICATION FairSpec
INVARIANTS
    StaleIsExplained
PROPERTY
    StaleEnds
\* The writes and the documents are bounded.
CHECK_DEADLOCK FALSE
