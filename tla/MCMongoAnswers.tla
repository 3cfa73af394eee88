--------------------------- MODULE MCMongoAnswers ---------------------------
(* Small instances of MongoAnswers for TLC. *)
EXTENDS MongoAnswers, TLC

CONSTANTS t1, t2, t3, u1, m1

ThreeThreads == {t1, t2, t3}
OneUser      == {u1}
OneMessage   == {m1}
Symmetry     == Permutations(ThreeThreads)
=============================================================================
