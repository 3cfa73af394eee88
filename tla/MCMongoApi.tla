----------------------------- MODULE MCMongoApi -----------------------------
(* Small instances of MongoApi for TLC. *)
EXTENDS MongoApi, TLC

CONSTANTS t1, t2, u1, u2, p1

OneUser    == {u1}
TwoUsers   == {u1, u2}
OnePost    == {p1}
Everything == {All}
TwoThreads == {t1, t2}
=============================================================================
