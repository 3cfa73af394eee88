\* Two handlers at once, failing statements, self messages, unknown users.
CONSTANTS
    t1 = t1
    t2 = t2
    a = a
    b = b
    d = d
    x = x
    Users <- ThreeUsers
    Strangers <- OneStranger
    SeedChats <- Seeds
    Tasks <- TwoTasks
    MaxPosts = 3
    MaxFaults = 1
SPECIFICATION Spec
SYMMETRY Symmetry
INVARIANTS
    PartiesSee
    NobodyElseSees
    SelfMessageShared
    OneChatPerPair
\* The requests are bounded.
CHECK_DEADLOCK FALSE
