-------------------------- MODULE MCEngineSemaphore --------------------------
(* Small instances of EngineSemaphore for TLC. *)
EXTENDS EngineSemaphore, TLC

CONSTANTS t1, t2, t3

ThreeTasks == {t1, t2, t3}
OnlyT1     == {t1}
OnlyT2     == {t2}
T1AndT2    == {t1, t2}
=============================================================================
