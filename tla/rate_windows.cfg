\* Three threads of any slowness; two failing Redis calls.
CONSTANTS
    t1 = t1
    t2 = t2
    t3 = t3
    Threads <- ThreeThreads
    RATE_LIMIT = 2
    RATE_WINDOW = 2
    MaxWindow = 2
    MaxArrivals = 3
    MaxFaults = 2
SPECIFICATION Spec
SYMMETRY Symmetry
INVARIANTS
    LimitUnlessLate
    NoLockout
    OrphansFromFailures
\* The clock and the requests are bounded.
CHECK_DEADLOCK FALSE
