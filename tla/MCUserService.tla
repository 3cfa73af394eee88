---------------------------- MODULE MCUserService ----------------------------
(* Small instances of UserService for TLC. *)
EXTENDS UserService, TLC

CONSTANTS t1, t2, t3, alice, bob, mail1, mail2

TwoTasks   == {t1, t2}
ThreeTasks == {t1, t2, t3}
TwoLogins  == {alice, bob}
TwoEmails  == {mail1, mail2}

ValidBodies == {"complete"}

Symmetry == Permutations(Tasks) \cup Permutations(Logins) \cup Permutations(Emails)
=============================================================================
