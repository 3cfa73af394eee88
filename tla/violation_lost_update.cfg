\* A crash between insert_one and update_one.
CONSTANTS
    p1 = p1
    p2 = p2
    c1 = c1
    Producers <- OneProducer
    Consumers <- OneConsumer
    MaxFaults = 1
    Runbook = TRUE
SPECIFICATION Spec
INVARIANTS
    AcknowledgedIsProjected
\* A consumer waits for events for ever.
CHECK_DEADLOCK FALSE
