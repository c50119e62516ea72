----------------------------- MODULE GPULedger -----------------------------
(***************************************************************************)
(* What the lease protocol promises of the GPUs, without Workloads, labels,*)
(* finalizers or workers: a ledger of who owns each GPU.  A GPU is granted *)
(* when it is free, used by its owner and by nobody else, and revoked only *)
(* when nobody uses it.                                                    *)
(***************************************************************************)
CONSTANTS GPUs, Owners, NoOwner

VARIABLES
  owner,    \* who each GPU is granted to, or NoOwner
  users     \* who uses each GPU

Init ==
  /\ owner = [g \in GPUs |-> NoOwner]
  /\ users = [g \in GPUs |-> {}]

Grant(g, o) ==
  /\ owner[g] = NoOwner
  /\ owner' = [owner EXCEPT ![g] = o]
  /\ UNCHANGED users

Use(g) ==
  /\ owner[g] # NoOwner /\ users[g] = {}
  /\ users' = [users EXCEPT ![g] = {owner[g]}]
  /\ UNCHANGED owner

Stop(g) ==
  /\ users' = [users EXCEPT ![g] = {}]
  /\ UNCHANGED owner

Revoke(g) ==
  /\ users[g] = {}
  /\ owner' = [owner EXCEPT ![g] = NoOwner]
  /\ UNCHANGED users

Next ==
  \E g \in GPUs :
    (\E o \in Owners : Grant(g, o)) \/ Use(g) \/ Stop(g) \/ Revoke(g)

Spec == Init /\ [][Next]_<<owner, users>>
=============================================================================
