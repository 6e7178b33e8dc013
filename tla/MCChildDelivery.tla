-------------------------- MODULE MCChildDelivery --------------------------
(* Instances of ChildDelivery for TLC.                                      *)
EXTENDS ChildDelivery, TLC

Symmetry == Permutations(Reports)
=============================================================================
