\* Two requests share one connection, or two after an update of the settings.
CONSTANTS
    r1 = r1
    r2 = r2
    Requests <- TwoRequests
    InitialSettings <- Small
    NewSettings <- LargeSettings
    CcLimits = {1}
    RecentErrorsThreshold = 1
    PendingConnectsMax = 0
    IdleDropLimit = 1
    MaxUpdates = 1
    MaxFaults = 1
SPECIFICATION FairSpec
INVARIANTS
    TypeOK
    OneOwner
    AccountsExact
    IdleIsOffered
    LeakIsLatePush
PROPERTIES
    WaitEnds
    DestroyEnds
\* The pool may be destroyed, and every request comes once.
CHECK_DEADLOCK FALSE
