---------------------------- MODULE MCTurnInbox ----------------------------
(* Instances of TurnInbox for TLC.                                          *)
EXTENDS TurnInbox, TLC

Symmetry == Permutations(Batchable \cap Constrained)
            \cup Permutations(Batchable \ Constrained)
=============================================================================
