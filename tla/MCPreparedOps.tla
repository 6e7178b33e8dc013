--------------------------- MODULE MCPreparedOps ---------------------------
(* Instances of PreparedOps for TLC.                                        *)
EXTENDS PreparedOps, TLC

Symmetry == Permutations(Ops \ Turned)
=============================================================================
