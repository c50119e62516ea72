------------------------- MODULE WarmPoolReconciler -------------------------
(***************************************************************************)
(* The WarmPool reconciler (internal/controller/warmpool_controller.go,    *)
(* pods.go and inventory/inventory.go) for one managed Deployment.  Its    *)
(* worker sweeps Failed and orphaned leases, then compares the held pods   *)
(* with the target and promotes or demotes the difference.  Each API call  *)
(* that writes is a step, after which others may act.                      *)
(***************************************************************************)
EXTENDS Cluster, PoolMath

CONSTANTS
  WarmReplicas,      \* annotation warm-replicas
  MinHotReplicas     \* annotation min-hot-replicas

ASSUME PoolAssumption == WarmReplicas \in Nat /\ MinHotReplicas \in Nat

VARIABLE wp   \* the worker: where it is and the lists it works through

WPPc == {"idle", "sweep", "deleteFailed", "promote", "labelActivating",
         "demote", "deleteLease"}

WPState == [pc : WPPc, leases : [Slot -> LeaseObj], cands : SUBSET Pods,
            free : [Nodes -> Nat], need : Int, pod : Pods \cup {NoPod},
            slot : Slot \cup {NoLease}]

NoLeases == [s \in Slot |-> Absent]

NoFree == [n \in Nodes |-> 0]

WPIdle == [pc |-> "idle", leases |-> NoLeases, cands |-> {}, free |-> NoFree,
           need |-> 0, pod |-> NoPod, slot |-> NoLease]

WPReturn ==
  /\ wp' = WPIdle
  /\ current' = [s \in Slot |-> current[s] \ {"wp"}]

-----------------------------------------------------------------------------
(* reconcileOrphans *)

\* List the Deployment's leases; those being deleted are skipped.
listLeases ==
  /\ wp.pc = "idle"
  /\ LET todo == {s \in Slot : SeenLease(s).phase # "none" /\ ~SeenLease(s).del}
     IN /\ wp' = [WPIdle EXCEPT !.pc = "sweep",
                    !.leases = [s \in Slot |-> IF s \in todo THEN SeenLease(s) ELSE Absent]]
        /\ current' = Copied("wp", todo)
  /\ UNCHANGED <<lease, wl, pod, machine, cache, faults>>

Listed(s) == wp.pc = "sweep" /\ wp.leases[s].phase # "none"

\* The loop is done with lease s.
Swept(s) == [wp EXCEPT !.pc = "sweep", !.leases[s] = Absent, !.slot = NoLease]

\* reclaimFailedLease, once the retention has passed: strip the finalizer from
\* the listed copy.  A lease gone meanwhile is fine, a conflict is an error.
reclaimFailedLease(s) ==
  /\ Listed(s) /\ wp.leases[s].phase = "Failed"
  /\ IF ~wp.leases[s].fin
       THEN /\ wp' = [wp EXCEPT !.pc = "deleteFailed", !.slot = s]
            /\ UNCHANGED <<lease, wl, current>>
     ELSE IF "wp" \in current[s]
       THEN /\ PutLease(s, [wp.leases[s] EXCEPT !.fin = FALSE], {"wp"})
            /\ wp' = [wp EXCEPT !.pc = "deleteFailed", !.slot = s, !.leases[s].fin = FALSE]
     ELSE IF ~Exists(s)
       THEN wp' = Swept(s) /\ UNCHANGED <<lease, wl, current>>
       ELSE WPReturn /\ UNCHANGED <<lease, wl>>
  /\ UNCHANGED <<pod, machine, cache, faults>>

\* Mutant: the finalizer is stripped and the lease is not deleted.
deleteFailedLeaseSkipped ==
  /\ wp.pc = "deleteFailed"
  /\ wp' = Swept(wp.slot)
  /\ current' = [current EXCEPT ![wp.slot] = @ \ {"wp"}]
  /\ UNCHANGED <<lease, wl, pod, machine, cache, faults>>

\* ... and then delete it.
deleteFailedLease ==
  /\ wp.pc = "deleteFailed"
  /\ DeleteLease(wp.slot)
  /\ wp' = Swept(wp.slot)
  /\ UNCHANGED <<pod, machine, cache, faults>>

\* A lease whose claim pod is absent, terminating or not Ready is deleted.
deleteOrphan(s) ==
  /\ Listed(s) /\ SeenPod(wp.leases[s].claim).st # "ready"
  /\ DeleteLease(s)
  /\ wp' = Swept(s)
  /\ UNCHANGED <<pod, machine, cache, faults>>

\* A valid claim, or a Failed lease within its retention: nothing to do.
keepLease(s) ==
  /\ Listed(s) /\ SeenPod(wp.leases[s].claim).st = "ready"
  /\ wp' = Swept(s)
  /\ current' = [current EXCEPT ![s] = @ \ {"wp"}]
  /\ UNCHANGED <<lease, wl, pod, machine, cache, faults>>

-----------------------------------------------------------------------------
(* The promotion decision *)

\* Mutant: the free GPUs of every node are offered.
FreeGPUIDsAnyNode(n) == {s \in Slot : SeenLease(s).phase = "none"}

FreeGPUIDs(n) == {s \in Slot : s[1] = n /\ SeenLease(s).phase = "none"}

NodeFreeCounts == [n \in Nodes |-> Cardinality(FreeGPUIDs(n))]

\* listDeploymentPods, of which the unlabelled are patched warm (and read back).
Unlabelled ==
  {p \in Pods : SeenPod(p).st \notin {"none", "gone"} /\ SeenPod(p).label = ""}

PodView(p) ==
  IF p \in Unlabelled THEN [pod[p] EXCEPT !.label = "warm"] ELSE SeenPod(p)

\* isPodConsidered, and the considered pods in one of the states S.
Considered(S) == {p \in Pods : PodView(p).st = "ready" /\ PodView(p).label \in S}

held == Cardinality(Considered({"hot", "activating"}))

target == targetHot(Cardinality(Considered(PodState)), WarmReplicas, MinHotReplicas)

PlanPromotion ==
  LET free == NodeFreeCounts
      cands == {p \in Considered({"warm"}) : free[NodeOf[p]] > 0}
  IN IF cands = {} THEN WPIdle
     ELSE [WPIdle EXCEPT !.pc = "promote", !.cands = cands, !.free = free,
                         !.need = target - held]

PlanDemotion ==
  LET cands == Considered({"hot"})
  IN IF cands = {} THEN WPIdle
     ELSE [WPIdle EXCEPT !.pc = "demote", !.cands = cands,
                         !.leases = [s \in Slot |-> SeenLease(s)],
                         !.need = held - target]

\* The sweep is over: label the unlabelled pods and compare held with target.
\* Patching a pod that is gone is an error.
decide ==
  /\ wp.pc = "sweep" /\ \A s \in Slot : ~Listed(s)
  /\ pod' = [p \in Pods |-> IF p \in Unlabelled /\ Alive(p)
                              THEN [pod[p] EXCEPT !.label = "warm"] ELSE pod[p]]
  /\ wp' = IF \E p \in Unlabelled : ~Alive(p) THEN WPIdle
           ELSE IF held < target THEN PlanPromotion
           ELSE IF held > target THEN PlanDemotion
           ELSE WPIdle
  /\ UNCHANGED <<lease, wl, machine, cache, current, faults>>

-----------------------------------------------------------------------------
(* promote and demote *)

\* sortPromotionCandidates: most free GPUs first, then the oldest.
FirstToPromote(p) ==
  \A q \in wp.cands \ {p} :
    \/ wp.free[NodeOf[p]] > wp.free[NodeOf[q]]
    \/ wp.free[NodeOf[p]] = wp.free[NodeOf[q]] /\ p < q

\* sortDemotionCandidates: the newest first.
FirstToDemote(p) == \A q \in wp.cands : q <= p

NewLease(p) == [phase |-> "Pending", claim |-> p,
                fin |-> TRUE, del |-> FALSE, named |-> FALSE]

\* acquireLeaseOnNode for the next candidate p: of the ids the cache shows
\* free, the lowest whose name is not taken in the API server; with none left
\* the candidate after p is tried.
acquireLeaseOnNode(p) ==
  LET open == {s \in FreeGPUIDs(NodeOf[p]) : ~Exists(s)}
      rest == wp.cands \ {p}
  IN /\ wp.pc = "promote" /\ FirstToPromote(p)
     /\ \/ \E s \in open :
             /\ \A t \in open : s[2] <= t[2]
             /\ PutLease(s, NewLease(p), {})
             /\ wp' = [wp EXCEPT !.pc = "labelActivating", !.cands = rest, !.pod = p]
        \/ /\ open = {}
           /\ wp' = IF rest = {} THEN WPIdle ELSE [wp EXCEPT !.cands = rest]
           /\ UNCHANGED <<lease, wl, current>>
     /\ UNCHANGED <<pod, machine, cache, faults>>

\* The worker after one more pod: the next iteration of the loop, or its end.
NextCandidate(pc) ==
  IF wp.need = 1 \/ wp.cands = {} THEN WPIdle
  ELSE [wp EXCEPT !.pc = pc, !.need = @ - 1, !.pod = NoPod, !.slot = NoLease]

\* patchPodStateLabel after the lease is created; a pod that is gone is an error.
labelActivating ==
  /\ wp.pc = "labelActivating"
  /\ IF Alive(wp.pod)
       THEN PatchLabel(wp.pod, "warm", "activating") /\ wp' = NextCandidate("promote")
       ELSE wp' = WPIdle /\ UNCHANGED pod
  /\ UNCHANGED <<lease, wl, machine, cache, current, faults>>

\* findLeaseForPod: the first listed lease that claims p, in whatever order the
\* cache lists them, or none.
LeaseForPod(p) ==
  LET found == {s \in Slot : wp.leases[s].claim = p}
  IN IF found = {} THEN {NoLease} ELSE found

\* demote labels the pod releasing ...
labelReleasing(p) ==
  /\ wp.pc = "demote" /\ FirstToDemote(p)
  /\ IF Alive(p)
       THEN /\ PatchLabel(p, "hot", "releasing")
            /\ \E s \in LeaseForPod(p) :
                 wp' = [wp EXCEPT !.pc = "deleteLease", !.cands = @ \ {p}, !.slot = s]
       ELSE wp' = WPIdle /\ UNCHANGED pod
  /\ UNCHANGED <<lease, wl, machine, cache, current, faults>>

\* ... and then deletes its lease, if it found one.
deleteLease ==
  /\ wp.pc = "deleteLease"
  /\ IF wp.slot = NoLease THEN UNCHANGED <<lease, wl, current>> ELSE DeleteLease(wp.slot)
  /\ wp' = NextCandidate("demote")
  /\ UNCHANGED <<pod, machine, cache, faults>>

wpAbort ==
  /\ wp.pc # "idle"
  /\ Fault("apiError")
  /\ WPReturn
  /\ UNCHANGED <<lease, wl, pod, machine, cache>>

WPCall ==
  \/ listLeases
  \/ \E s \in Slot : reclaimFailedLease(s) \/ deleteOrphan(s) \/ keepLease(s)
  \/ deleteFailedLease
  \/ decide
  \/ \E p \in wp.cands : acquireLeaseOnNode(p) \/ labelReleasing(p)
  \/ labelActivating \/ deleteLease

WPNext == WPCall \/ wpAbort
=============================================================================
