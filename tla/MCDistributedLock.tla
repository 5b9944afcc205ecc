------------------------- MODULE MCDistributedLock -------------------------
(* The lock of one order, taken by two workers in turn. *)
EXTENDS DistributedLock
=============================================================================
