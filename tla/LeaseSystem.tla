---------------------------- MODULE LeaseSystem ----------------------------
(***************************************************************************)
(* The two reconcilers running concurrently in one manager, with what they *)
(* drive and react to: Kueue, the kubelet and ReplicaSet, the pods'        *)
(* machines (the PodLifecycle each PodMachine implements), garbage         *)
(* collection, the informers and an operator.                              *)
(***************************************************************************)
EXTENDS GPULeaseReconciler, WarmPoolReconciler

CONSTANTS
  InitialPods,     \* pods that run before the manager starts
  TemplateLabel    \* state label in the Deployment's pod template, or ""

ASSUME SystemAssumption ==
  InitialPods \subseteq Pods /\ TemplateLabel \in {"", "warm"}

vars == <<lease, wl, pod, machine, cache, current, faults, gl, wp>>

Init ==
  /\ lease = NoLeases
  /\ wl = [s \in Slot |-> NoWorkload]
  /\ pod = [p \in Pods |-> [st    |-> IF p \in InitialPods THEN "ready" ELSE "none",
                            label |-> TemplateLabel]]
  /\ machine = [p \in Pods |-> WarmMachine]
  /\ cache = [lease |-> lease, wl |-> wl, pod |-> pod]
  /\ current = [s \in Slot |-> IF "lease" \in Stale THEN {"cache"} ELSE {}]
  /\ faults = 0
  /\ gl = GLIdle
  /\ wp = WPIdle

-----------------------------------------------------------------------------
(* Kueue and the garbage collector *)

QuotaUsed(n) == Cardinality({s \in Slot : s[1] = n /\ wl[s].st = "admitted"})

KueueAdmit(s) ==
  /\ wl[s].st = "pending" /\ QuotaUsed(s[1]) < Quota[s[1]]
  /\ wl' = [wl EXCEPT ![s].st = "admitted"]
  /\ UNCHANGED <<lease, pod, machine, cache, current, faults, gl, wp>>

KueueInadmissible(s) ==
  /\ wl[s].st = "pending" /\ Fault("inadmissible")
  /\ wl' = [wl EXCEPT ![s].st = "inadmissible"]
  /\ UNCHANGED <<lease, pod, machine, cache, current, gl, wp>>

\* Kueue takes the quota of an admitted Workload back and queues it again.
KueueEvict(s) ==
  /\ wl[s].st = "admitted" /\ Fault("evict")
  /\ wl' = [wl EXCEPT ![s].st = "pending"]
  /\ UNCHANGED <<lease, pod, machine, cache, current, gl, wp>>

CollectWorkload(s) ==
  /\ wl[s].st # "none" /\ ~wl[s].owned
  /\ wl' = [wl EXCEPT ![s] = NoWorkload]
  /\ UNCHANGED <<lease, pod, machine, cache, current, faults, gl, wp>>

-----------------------------------------------------------------------------
(* Pods *)

SetPod(p, st) ==
  /\ pod' = [pod EXCEPT ![p].st = st]
  /\ UNCHANGED <<lease, wl, cache, current, gl, wp>>

PodCreate(p) ==
  /\ pod[p].st = "none" /\ \A q \in Pods : q < p => pod[q].st # "none"
  /\ SetPod(p, "unready") /\ UNCHANGED <<machine, faults>>

PodReady(p) ==
  /\ pod[p].st = "unready"
  /\ SetPod(p, "ready") /\ UNCHANGED <<machine, faults>>

PodDelete(p) ==
  /\ pod[p].st \in {"unready", "ready"}
  /\ SetPod(p, "terminating") /\ UNCHANGED <<machine, faults>>

PodGone(p) ==
  /\ pod[p].st = "terminating"
  /\ SetPod(p, "gone")
  /\ machine' = [machine EXCEPT ![p] = WarmMachine] /\ UNCHANGED faults

\* The container restarts: a new process starts warm, the API object stays.
ContainerRestart(p) ==
  /\ pod[p].st = "ready" /\ Fault("restart")
  /\ SetPod(p, "unready")
  /\ machine' = [machine EXCEPT ![p] = WarmMachine]

WarmupDone(p) ==
  /\ machine[p].state = "activating"
  /\ machine' = [machine EXCEPT ![p] = WarmedUp(@)]
  /\ UNCHANGED <<lease, wl, pod, cache, current, faults, gl, wp>>

TeardownDone(p) ==
  /\ machine[p].state = "releasing"
  /\ machine' = [machine EXCEPT ![p] = TornDown(@)]
  /\ UNCHANGED <<lease, wl, pod, cache, current, faults, gl, wp>>

-----------------------------------------------------------------------------
(* Informers and operators *)

\* A watch delivers one kind's changes in order: its cache catches up.
SyncLeases ==
  /\ "lease" \in Stale /\ cache' = [cache EXCEPT !.lease = lease]
  /\ current' = [s \in Slot |-> current[s] \cup {"cache"}]
  /\ UNCHANGED <<lease, wl, pod, machine, faults, gl, wp>>

SyncWorkloads ==
  /\ "workload" \in Stale /\ cache' = [cache EXCEPT !.wl = wl]
  /\ UNCHANGED <<lease, wl, pod, machine, current, faults, gl, wp>>

SyncPods ==
  /\ "pod" \in Stale /\ cache' = [cache EXCEPT !.pod = pod]
  /\ UNCHANGED <<lease, wl, pod, machine, current, faults, gl, wp>>

\* An operator deletes a Failed lease by hand.
OperatorDelete(s) ==
  /\ lease[s].phase = "Failed" /\ ~lease[s].del /\ Fault("operator")
  /\ DeleteLease(s)
  /\ UNCHANGED <<pod, machine, cache, gl, wp>>

Environment ==
  \/ \E s \in Slot : KueueAdmit(s) \/ KueueInadmissible(s) \/ KueueEvict(s)
                     \/ CollectWorkload(s) \/ OperatorDelete(s)
  \/ \E p \in Pods : PodCreate(p) \/ PodReady(p) \/ PodDelete(p) \/ PodGone(p)
                     \/ ContainerRestart(p) \/ WarmupDone(p) \/ TeardownDone(p)
  \/ SyncLeases \/ SyncWorkloads \/ SyncPods

Next ==
  \/ GLNext /\ UNCHANGED wp
  \/ WPNext /\ UNCHANGED gl
  \/ Environment

Spec == Init /\ [][Next]_vars

\* The workers never stop, and their queues serve every lease: a lease with
\* something to do is reconciled eventually, since Pending, Admitted and
\* Activating requeue after pollInterval and Bound after boundPollInterval.
\* Clocks advance, so an activation that keeps polling times out and a Failed
\* lease that keeps being swept outlives its retention.  A machine's timers
\* fire, a terminating pod goes away, and watches deliver.
Fairness ==
  /\ WF_vars(GLCall /\ UNCHANGED wp)
  /\ \A s \in Slot : SF_vars(GLStart(s) /\ UNCHANGED wp)
  /\ SF_vars(activationTimeout /\ UNCHANGED wp)
  /\ WF_vars(WPCall /\ UNCHANGED gl)
  /\ \A s \in Slot : SF_vars(reclaimFailedLease(s) /\ UNCHANGED gl)
  /\ \A p \in Pods : WF_vars(WarmupDone(p)) /\ WF_vars(TeardownDone(p))
                       /\ WF_vars(PodGone(p))
  /\ WF_vars(SyncLeases) /\ WF_vars(SyncWorkloads) /\ WF_vars(SyncPods)

FairSpec == Spec /\ Fairness
-----------------------------------------------------------------------------
(* Properties *)

\* The types; a machine names a lease exactly while it is not warm.
TypeOK ==
  /\ lease \in [Slot -> LeaseObj]
  /\ wl \in [Slot -> WorkloadObj]
  /\ pod \in [Pods -> PodObj]
  /\ machine \in [Pods -> Machine(Slot)]
  /\ cache \in [lease : [Slot -> LeaseObj], wl : [Slot -> WorkloadObj],
                pod : [Pods -> PodObj]]
  /\ current \in [Slot -> SUBSET Holder]
  /\ faults \in 0 .. MaxFaults
  /\ gl \in GLState /\ wp \in WPState

\* No GPU is used by two pods: no two machines warm up or serve under the
\* lease of the same (node, index).
GPUExclusive ==
  \A p, q \in Pods, s \in Slot :
    Uses(machine[p], s) /\ Uses(machine[q], s) => p = q

\* A pod warms up or serves only under a lease that exists, claims that pod and
\* has not failed: no cleanup path forgets a pod that is still using its GPU.
GPUUseLeased ==
  \A p \in Pods, s \in Slot :
    Uses(machine[p], s) =>
      /\ lease[s].claim = p
      /\ lease[s].phase \in {"Admitted", "Activating", "Bound", "Releasing"}

\* A pod warms up or serves only on a GPU of the node it runs on, whatever the
\* caches show: leaseOrphanReason never meets a claim on another node.
UsesOwnNode ==
  \A p \in Pods, s \in Slot : Uses(machine[p], s) => s[1] = NodeOf[p]

\* No node has more pods warming up or serving than its gpu-count label says.
WithinCapacity ==
  \A n \in Nodes :
    Cardinality({p \in Pods : NodeOf[p] = n /\ machine[p].state \in {"activating", "hot"}})
      <= Capacity[n]

\* Who owns and who uses each GPU, in this system.
claims == [s \in Slot |-> lease[s].claim]

users == [s \in Slot |-> {p \in Pods : Uses(machine[p], s)}]

Ledger == INSTANCE GPULedger WITH
            GPUs <- Slot, Owners <- Pods, NoOwner <- NoPod, owner <- claims, users <- users

\* The reconcilers, Kueue, the pods and every fault together implement a plain
\* ledger: a GPU is granted when free, used by its owner alone, and taken back
\* only when nobody uses it.
ImplementsLedger == Ledger!Spec

\* The finalizer's purpose: a lease leaves etcd only after its Workload, and
\* the quota it reserved, is gone.
QuotaFreedFirst == \A s \in Slot : wl[s].st # "none" => Exists(s)

\* transitionToFailed never records Failed with a Workload left behind.
FailedHoldsNoQuota == \A s \in Slot : lease[s].phase = "Failed" => wl[s].st = "none"

\* Kueue gates every activation: a lease is admitted only while Kueue has its
\* Workload admitted, however long ago reconcilePending read it.
AdmittedUnderQuota ==
  [][\A s \in Slot : lease[s].phase = "Pending" /\ lease'[s].phase = "Admitted"
                       => wl[s].st = "admitted"]_vars

\* A pod carries the hot label, which is what the Service routes traffic by,
\* only while a lease that claims it has asked it to activate and has neither
\* failed nor been removed since.
HotLabelBacked ==
  \A p \in Pods : Alive(p) /\ pod[p].label = "hot" =>
    \E s \in Slot : /\ lease[s].claim = p
                    /\ lease[s].phase \in {"Activating", "Bound", "Releasing"}

\* The phases a lease may go through in one step.
PhaseEdge ==
  {<<"none", "Pending">>, <<"Pending", "Admitted">>, <<"Admitted", "Activating">>,
   <<"Activating", "Bound">>, <<"Releasing", "none">>, <<"Failed", "none">>}
  \cup {"Pending", "Admitted", "Activating", "Bound"} \X {"Failed"}

LeaseStep(old, new) ==
  /\ \/ old.phase = new.phase
     \/ <<old.phase, new.phase>> \in PhaseEdge
     \/ new.phase = "Releasing" /\ old.del
  /\ old.phase # "none" /\ new.phase # "none" =>
       old.claim = new.claim /\ (old.del => new.del)

\* However stale the copies the workers act on, a lease follows its state
\* machine, keeps its claim for life, never comes back from deletion, and is
\* marked Releasing only when it is being deleted.
LeaseLifecycle == [][\A s \in Slot : LeaseStep(lease[s], lease'[s])]_vars

\* Bound means what its comment says: a lease does not stay Bound for ever to a
\* pod that is not hot under it.
BoundBacked ==
  \A s \in Slot :
    lease[s].phase = "Bound" ~>
      \/ lease[s].phase # "Bound"
      \/ machine[lease[s].claim] = [state |-> "hot", lease |-> s]

\* releaseClaimPod is a no-op for a pod that has moved on: cleaning up one
\* lease leaves the pod of another, Bound lease alone.
ReleaseIsOwn ==
  [][\A s \in Slot :
       /\ gl.pc = "releasePod" /\ gl.slot # s
       /\ lease[s].phase = "Bound" /\ Uses(machine[lease[s].claim], s)
       => Uses(machine'[lease[s].claim], s)]_vars

\* The pool heals: no ready pod stays activating or releasing for ever, labels
\* under which promote and demote leave it alone.
TransitionsEnd ==
  \A p \in Pods, label \in {"activating", "releasing"} :
    pod[p].st = "ready" /\ pod[p].label = label
      ~> pod[p].st # "ready" \/ pod[p].label # label
=============================================================================
