---------------------------- MODULE MCPodMachine ----------------------------
(* Instances of PodServer, and so of PodMachine, for TLC. *)
EXTENDS PodServer
=============================================================================
