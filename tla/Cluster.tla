------------------------------ MODULE Cluster ------------------------------
(***************************************************************************)
(* The state the two reconcilers share: GPULease objects, Kueue Workloads  *)
(* and pods in the API server, the machine inside each pod, and the        *)
(* manager's informer caches, with the API verbs the controllers use.      *)
(*                                                                         *)
(* A GPULease is named after its (node, GPU index) pair, so leases are a   *)
(* function of the pair.  A pod stands for one incarnation (name and UID): *)
(* the code treats a claimed pod whose UID differs exactly as an absent    *)
(* one.  Pods are numbered in creation order and never change node.        *)
(***************************************************************************)
EXTENDS PodProtocol, Integers, FiniteSets

CONSTANTS
  Nodes,         \* nodes that carry the gpu-count label
  Capacity,      \* gpu-count label of each node
  Quota,         \* Kueue's nominal quota of each node's flavor
  Pods,          \* pods of the managed Deployment, numbered by age
  NodeOf,        \* the node each pod is scheduled to
  NoPod,
  Stale,         \* the kinds whose informer cache may trail the API server
  FaultKinds,    \* the faults this instance may meet
  MaxFaults      \* bound: how many faults one behaviour meets

\* A GPU: LeaseName(node, index) for every index below the node's capacity.
Slot == UNION {{n} \X (0 .. Capacity[n] - 1) : n \in Nodes}

Kinds == {"lease", "workload", "pod"}

AllFaults == {"apiError", "lostDelete", "lostPost", "lostReply", "lostPatch",
              "restart", "inadmissible", "evict", "operator"}

ASSUME ClusterAssumption ==
  /\ Pods \subseteq Nat /\ IsFiniteSet(Pods) /\ NoPod \notin Pods /\ NoLease \notin Slot
  /\ Capacity \in [Nodes -> Nat] /\ Quota \in [Nodes -> Nat]
  /\ NodeOf \in [Pods -> Nodes]
  /\ Stale \subseteq Kinds /\ FaultKinds \subseteq AllFaults /\ MaxFaults \in Nat

VARIABLES
  lease,      \* GPULease of each slot
  wl,         \* Kueue Workload of each slot's lease
  pod,        \* API object of each pod: status and state label
  machine,    \* the Machine in each pod's process
  cache,      \* what the manager's informers last saw of lease, wl and pod
  current,    \* who holds a copy of a slot's lease at its resourceVersion
  faults      \* faults met so far

cluster == <<lease, wl, pod, machine, cache, current, faults>>

Phase == {"Pending", "Admitted", "Activating", "Bound", "Failed", "Releasing"}

Absent == [phase |-> "none", claim |-> NoPod,
           fin |-> FALSE, del |-> FALSE, named |-> FALSE]

\* claim: spec.claimRef.  fin: the finalizer is set.  del: deletionTimestamp
\* is set.  named: status.workloadName is recorded.
Stored == [phase : Phase, claim : Pods, fin : BOOLEAN, del : BOOLEAN, named : BOOLEAN]

LeaseObj == {Absent} \cup Stored

\* owned: the lease that the Workload's ownerReference names still exists.
WorkloadObj == [st : {"none", "pending", "admitted", "inadmissible"},
                owned : BOOLEAN]

NoWorkload == [st |-> "none", owned |-> FALSE]

\* st: "ready" is Running, Ready and not terminating; label "" is unset.
PodObj == [st : {"none", "unready", "ready", "terminating", "gone"},
           label : PodState \cup {""}]

Holder == {"gl", "wp", "cache"}

Exists(s) == lease[s].phase # "none"

Alive(p) == pod[p].st \in {"unready", "ready", "terminating"}

-----------------------------------------------------------------------------
(* Reads: the controllers read through the informer caches. *)

SeenLease(s) == IF "lease" \in Stale THEN cache.lease[s] ELSE lease[s]

SeenWorkload(s) == IF "workload" \in Stale THEN cache.wl[s] ELSE wl[s]

SeenPod(p) == IF "pod" \in Stale THEN cache.pod[p] ELSE pod[p]

\* Holder h copies the leases of the slots S from the cache: the copy has the
\* current resourceVersion exactly when the cache has.
Copied(h, S) ==
  [s \in Slot |-> IF s \notin S THEN current[s]
                  ELSE IF "lease" \in Stale /\ "cache" \notin current[s]
                    THEN current[s] \ {h}
                  ELSE current[s] \cup {h}]

-----------------------------------------------------------------------------
(* Writes.  A write leaves the holders H with the new version and everyone  *)
(* else with an old one, so that their next Update conflicts.  Deleting the *)
(* owner of a Workload orphans it.                                          *)

PutLease(s, l, H) ==
  /\ lease' = [lease EXCEPT ![s] = l]
  /\ current' = [current EXCEPT ![s] = H]
  /\ wl' = IF l.phase = "none" THEN [wl EXCEPT ![s].owned = FALSE] ELSE wl

\* DELETE on a GPULease carries no precondition: it hits whatever lease has
\* the name now.  The finalizer defers removal; a repeated DELETE is a no-op.
DeleteLease(s) ==
  IF ~Exists(s) \/ lease[s].del
    THEN UNCHANGED <<lease, current, wl>>
    ELSE PutLease(s, IF lease[s].fin THEN [lease[s] EXCEPT !.del = TRUE] ELSE Absent, {})

\* A merge patch from a copy that shows label seen: it carries the label only
\* when the copy differs, and has no resourceVersion to conflict on.
PatchLabel(p, seen, label) ==
  pod' = IF seen = label THEN pod ELSE [pod EXCEPT ![p].label = label]

Fault(kind) ==
  /\ kind \in FaultKinds
  /\ faults < MaxFaults
  /\ faults' = faults + 1
=============================================================================
