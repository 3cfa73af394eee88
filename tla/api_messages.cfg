\* Three requests of any kind, one stored user and one stored message.
CONSTANTS
    t1 = t1
    t2 = t2
    t3 = t3
    u1 = u1
    m1 = m1
    NoDoc = NoDoc
    Threads <- ThreeThreads
    SeedUsers <- OneUser
    SeedMessages <- OneMessage
    MaxFaults = 1
SYMMETRY Symmetry
SPECIFICATION Spec
INVARIANTS
    TypeOK
    RefusedHasNoEffect
    ErrorIsExplained
    DeletedOnce
    SentIsKept
    PartiesExisted
\* Every request comes once.
CHECK_DEADLOCK FALSE
