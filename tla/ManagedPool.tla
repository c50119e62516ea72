---------------------------- MODULE ManagedPool ----------------------------
(***************************************************************************)
(* LeaseSystem with a Deployment that may be deleted or lose its managed   *)
(* annotation.  The WarmPool reconciler then returns at the top of         *)
(* Reconcile, before the sweep of Failed and orphaned leases; a reconcile  *)
(* that is under way runs to its end, and the GPULease reconciler, which   *)
(* never looks at the Deployment, goes on.                                 *)
(***************************************************************************)
EXTENDS LeaseSystem

VARIABLE managed    \* the Deployment exists and is annotated managed

PoolInit == Init /\ managed = TRUE

\* Only a managed Deployment's reconcile gets past IsManaged.
IsManaged == managed \/ wp.pc # "idle"

Unmanage ==
  /\ managed /\ managed' = FALSE
  /\ UNCHANGED vars

PoolNext ==
  \/ /\ (GLNext /\ UNCHANGED wp) \/ (IsManaged /\ WPNext /\ UNCHANGED gl) \/ Environment
     /\ UNCHANGED managed
  \/ Unmanage

PoolSpec == PoolInit /\ [][PoolNext]_<<vars, managed>>

\* LeaseSystem's fairness, of which the WarmPool worker's holds while it works.
PoolFairness ==
  /\ WF_vars(GLCall /\ UNCHANGED <<wp, managed>>)
  /\ \A s \in Slot : SF_vars(GLStart(s) /\ UNCHANGED <<wp, managed>>)
  /\ SF_vars(activationTimeout /\ UNCHANGED <<wp, managed>>)
  /\ WF_vars(IsManaged /\ WPCall /\ UNCHANGED <<gl, managed>>)
  /\ \A s \in Slot : SF_vars(reclaimFailedLease(s) /\ UNCHANGED <<gl, managed>>)
  /\ \A p \in Pods : /\ WF_vars(WarmupDone(p) /\ UNCHANGED managed)
                     /\ WF_vars(TeardownDone(p) /\ UNCHANGED managed)
                     /\ WF_vars(PodGone(p) /\ UNCHANGED managed)
  /\ WF_vars(SyncLeases /\ UNCHANGED managed)
  /\ WF_vars(SyncWorkloads /\ UNCHANGED managed)
  /\ WF_vars(SyncPods /\ UNCHANGED managed)

FairPoolSpec == PoolSpec /\ PoolFairness
-----------------------------------------------------------------------------
(* Properties *)

\* No lease is left half way, also when the Deployment goes away under it: a
\* lease ends up Bound or is removed, and its GPU index becomes free.  The one
\* exception is what IsManaged's early return leaves behind, a Failed lease that
\* nobody has deleted.
PoolSettles ==
  \A s \in Slot :
    Exists(s) /\ lease[s].phase # "Bound" ~>
      \/ ~Exists(s) \/ lease[s].phase = "Bound"
      \/ ~managed /\ lease[s].phase = "Failed" /\ ~lease[s].del
=============================================================================
