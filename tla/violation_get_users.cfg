\* A listing that runs between the two INSERTs of a registration.
CONSTANTS
    t1 = t1
    t2 = t2
    t3 = t3
    alice = alice
    bob = bob
    mail1 = mail1
    mail2 = mail2
    Logins <- TwoLogins
    Emails <- TwoEmails
    Tasks <- TwoTasks
    Bodies <- ValidBodies
    MaxFaults = 0
SPECIFICATION Spec
SYMMETRY Symmetry
INVARIANTS
    GetUsersSucceeds
