------------------------- MODULE MCApplicationSQLite -------------------------
(* Two writes, a read and a reset on a queue of two, so that a failing       *)
(* worker may find the queue full, and two callers of aclose.                *)
EXTENDS ApplicationSQLite, TLC
CONSTANTS w1, w2, r1, s1, k1, k2

MCClosers == {k1, k2}
MCRequests == {w1, w2, r1, s1}
MCKind == [r \in MCRequests |-> CASE r = r1 -> "read" [] r = s1 -> "reset" [] OTHER -> "write"]

=============================================================================
