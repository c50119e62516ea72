--------------------------- MODULE MCLeaseSystem ---------------------------
(* Instances of LeaseSystem for TLC: nodes of one GPU or two, all pods on one. *)
EXTENDS LeaseSystem

OneNodeTwoGPUs == [n \in Nodes |-> 2]

AllOnOneNode == [p \in Pods |-> CHOOSE n \in Nodes : TRUE]

OneNodeOneGPU == [n \in Nodes |-> 1]
=============================================================================
