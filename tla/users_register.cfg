\* Any bodies, any two failing statements, two concurrent requests.
CONSTANTS
    t1 = t1
    t2 = t2
    t3 = t3
    alice = alice
    bob = bob
    mail1 = mail1
    mail2 = mail2
    Logins <- TwoLogins
    Emails <- TwoEmails
    Tasks <- TwoTasks
    Bodies <- BodyKinds
    MaxFaults = 2
SPECIFICATION Spec
SYMMETRY Symmetry
INVARIANTS
    RegisteredIsComplete
    HalfRegisteredIsExplained
    BrokenIsPermanent
