\* Nothing fails, one write.
CONSTANTS
    t1 = t1
    t2 = t2
    u1 = u1
    u2 = u2
    p1 = p1
    All = All
    Nobody = Nobody
    Threads <- TwoThreads
    Users <- OneUser
    Posts <- OnePost
    Traits = {"a", "b"}
    UserQueries = {"a"}
    PostQueries <- Everything
    MaxWrites = 1
    MaxFaults = 0
SPECIFICATION Spec
INVARIANT
    FreshWhenIdle
CHECK_DEADLOCK FALSE
