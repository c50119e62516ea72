--------------------------- MODULE MCManagedPool ---------------------------
(* Instances of ManagedPool for TLC. *)
EXTENDS ManagedPool, MCLeaseSystem
=============================================================================
