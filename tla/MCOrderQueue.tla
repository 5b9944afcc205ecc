---------------------------- MODULE MCOrderQueue ----------------------------
(* Small instances of the order queue. *)
EXTENDS OrderQueue, TLC

Symmetry == Permutations(Slots)
=============================================================================
