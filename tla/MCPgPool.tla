------------------------------ MODULE MCPgPool ------------------------------
(* Small instances of PgPool for TLC. *)
EXTENDS PgPool, TLC

CONSTANTS r1, r2

TwoRequests  == {r1, r2}
Small        == [min_size |-> 0, max_size |-> 1, max_queue_size |-> 2, connecting_limit |-> 1]
LargeSettings == {[min_size |-> 1, max_size |-> 2, max_queue_size |-> 1, connecting_limit |-> 0]}
=============================================================================
