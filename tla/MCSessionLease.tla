--------------------------- MODULE MCSessionLease ---------------------------
(* Two leases of one process id, or of two processes that have it in turn,   *)
(* and one of another.                                                      *)
EXTENDS SessionLease, TLC

CONSTANTS l1, l2, l3, p, q

Three == {l1, l2, l3}
Shared == l1 :> p @@ l2 :> q @@ l3 :> p
=============================================================================
