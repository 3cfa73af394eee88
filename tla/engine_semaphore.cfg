\* One task with a deadline, one that blocks cancellation, one that does neither.
CONSTANTS
    t1 = t1
    t2 = t2
    t3 = t3
    Tasks <- ThreeTasks
    Timed <- OnlyT1
    Blockers <- OnlyT2
    InitialCapacity = 1
    Capacities = {0, 2}
    MaxResizes = 1
    MaxLocks = 1
    Cancelled <- T1AndT2
SPECIFICATION FairSpec
INVARIANTS
    TypeOK
    AcquiredExact
    ScheduledOnce
    NoLostWakeup
    AsleepIsListed
    CancelDelivered
    TimeoutIsOwn
PROPERTY
    LockEnds
\* The lock calls are bounded.
CHECK_DEADLOCK FALSE
