\* Two concurrent runs of the producer, started by the runbook; one fault.
CONSTANTS
    p1 = p1
    p2 = p2
    c1 = c1
    Producers <- TwoProducers
    Consumers <- OneConsumer
    MaxFaults = 1
    Runbook = TRUE
SPECIFICATION Spec
SYMMETRY Symmetry
INVARIANTS
    CountersExact
    ViewComplete
\* A consumer waits for events for ever.
CHECK_DEADLOCK FALSE
