--------------------------- MODULE MCTurnPermits ---------------------------
(* Model-checking instances of TurnPermits. *)
EXTENDS TurnPermits

\* A turn whose agent is the parent of the other's.
Pair  == {"p", "c"}
Below == [t \in Pair |-> IF t = "p" THEN {"c"} ELSE {}]
=============================================================================
