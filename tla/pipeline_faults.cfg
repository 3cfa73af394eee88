\* The shipped deployment: one consumer; any three faults; any start-up order.
CONSTANTS
    p1 = p1
    p2 = p2
    c1 = c1
    Producers <- OneProducer
    Consumers <- OneConsumer
    MaxFaults = 3
    Runbook = FALSE
SPECIFICATION FairSpec
INVARIANTS
    AcknowledgedIsRecorded
    RecordedInOrder
PROPERTIES
    ReadModelSpec
    QueueDrains
    ReadModelCatchesUp
\* A consumer waits for events for ever.
CHECK_DEADLOCK FALSE
