---------------------------- MODULE MCRateLimiter ----------------------------
(* Small instances of RateLimiter for TLC. *)
EXTENDS RateLimiter, TLC

CONSTANTS t1, t2, t3

ThreeThreads == {t1, t2, t3}
Symmetry == Permutations(Threads)
=============================================================================
