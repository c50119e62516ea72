------------------------- MODULE LeaseSafetyProofs -------------------------
(***************************************************************************)
(* Proofs that leases protect GPUs and quota, for every cluster, pool and  *)
(* set of faults and however far the Workload and pod caches trail, when   *)
(* the lease cache is current; the GPUs also need DELETE /lease to arrive. *)
(* Both hypotheses are needed: runs of LeaseSystem with a lease cache that *)
(* trails, or with "lostDelete", break what is proved here.                *)
(***************************************************************************)
EXTENDS LeaseInvariant

-----------------------------------------------------------------------------
(* Steps that leave every lease alone *)

Serving == {"Admitted", "Activating", "Bound", "Releasing"}

\* The worker moves on, or ends, and the lease it works on stays as it is.
LEMMA InStepMove ==
  ASSUME Safe, lease' = lease,
         gl'.pc \notin {"idle", "addFinalizer"} =>
           gl'.slot = gl.slot /\ gl'.lease = gl.lease /\ gl.pc \notin {"idle", "addFinalizer"}
  PROVE  InStep'
  BY DEF Safe, InStep

\* Quota is reserved for stored, unfailed leases only.
LEMMA QuotaMove ==
  ASSUME Safe, lease' = lease,
         \A s \in Slot : wl'[s].st # "none" =>
           wl[s].st # "none" \/ lease[s].phase \notin {"none", "Failed"},
         gl'.pc \in {"releasePod", "revertPod", "setFailed", "removeFinalizer"} => wl'[gl'.slot].st = "none"
  PROVE  QuotaReleased' /\ QuotaFreedFirst' /\ FailedHoldsNoQuota'
  BY DEF Safe, QuotaReleased, QuotaFreedFirst, FailedHoldsNoQuota, Exists

\* A GPU comes into use only under its serving lease.
LEMMA GPUMove ==
  ASSUME Safe, "lostDelete" \notin FaultKinds, lease' = lease,
         \A p \in Pods, s \in Slot : Uses(machine[p], s)' =>
           Uses(machine[p], s) \/ (lease[s].claim = p /\ lease[s].phase \in Serving),
         gl'.pc \in {"revertPod", "setFailed", "removeFinalizer"} =>
           \A p \in Pods : ~Uses(machine[p], gl.slot)'
  PROVE  PodReleased' /\ GPUUseLeased'
  BY DEF Safe, GPUsProtected, PodReleased, GPUUseLeased, Serving

\* Pods come and go, labels change: nothing runs in a pod that is not there.
LEMMA PodMove ==
  ASSUME Safe, machine' = machine, \A p \in Pods : Vacant(p)' => Vacant(p)
  PROVE  VacantIsWarm'
  BY DEF Safe, VacantIsWarm

\* No pod becomes vacant in a step that no cache sees and that changes no status.
LEMMA VacantKept ==
  ASSUME UNCHANGED cache, \A p \in Pods : pod'[p].st = pod[p].st
  PROVE  \A p \in Pods : Vacant(p)' => Vacant(p)
  BY DEF Vacant, SeenPod

\* A label patch changes no pod's status.
LEMMA PatchKeepsStatus ==
  ASSUME TypeOK, NEW p \in Pods, NEW seen, NEW l, PatchLabel(p, seen, l)
  PROVE  \A q \in Pods : pod'[q].st = pod[q].st
  <1>1. pod \in [Pods -> PodObj]
    BY DEF TypeOK
  <1>2. [pod[p] EXCEPT !.label = l].st = pod[p].st
    BY <1>1 DEF PodObj
  <1>3. pod' = pod \/ pod' = [pod EXCEPT ![p] = [pod[p] EXCEPT !.label = l]]
    BY DEF PatchLabel
  <1> QED BY Zenon, <1>1, <1>2, <1>3

\* A step that touches neither leases, Workloads nor machines.
LEMMA QuietSafe ==
  ASSUME Safe, Base', UNCHANGED <<lease, wl, machine>>,
         gl'.pc \notin {"idle", "addFinalizer"} =>
           gl'.slot = gl.slot /\ gl'.lease = gl.lease /\ gl.pc \notin {"idle", "addFinalizer"},
         gl'.pc \in {"releasePod", "revertPod", "setFailed", "removeFinalizer"} =>
           gl'.pc = gl.pc \/ (gl.pc = "revertPod" /\ gl'.pc \in {"setFailed", "removeFinalizer"}),
         \A p \in Pods : Vacant(p)' => Vacant(p)
  PROVE  Safe'
  <1>1. InStep'
    BY InStepMove
  <1>2. QuotaReleased' /\ QuotaFreedFirst' /\ FailedHoldsNoQuota'
    <2>1. gl'.pc \in {"releasePod", "revertPod", "setFailed", "removeFinalizer"} => wl'[gl'.slot].st = "none"
      BY DEF Safe, QuotaReleased
    <2> QED BY <2>1, QuotaMove
  <1>3. ASSUME "lostDelete" \notin FaultKinds PROVE PodReleased' /\ GPUUseLeased'
    <2>1. gl'.pc \in {"revertPod", "setFailed", "removeFinalizer"} =>
            \A p \in Pods : ~Uses(machine[p], gl.slot)'
      BY <1>3 DEF Safe, GPUsProtected, PodReleased, Uses
    <2>2. \A p \in Pods, s \in Slot : Uses(machine[p], s)' =>
            Uses(machine[p], s) \/ (lease[s].claim = p /\ lease[s].phase \in Serving)
      BY DEF Uses
    <2> QED BY <1>3, <2>1, <2>2, GPUMove
  <1>4. VacantIsWarm'
    BY PodMove
  <1> QED BY <1>1, <1>2, <1>3, <1>4 DEF Safe, GPUsProtected

-----------------------------------------------------------------------------
(* The GPULease worker *)

\* Every start reads the stored lease.
LEMMA GLStartSafe ==
  ASSUME "lease" \notin Stale, Safe, Base', NEW s \in Slot, GLStart(s)
  PROVE  Safe'
  <1>1. PICK pc \in {"setReleasing", "deleteWorkload", "addFinalizer", "createWorkload", "admitLease",
                     "activatePod", "pollState"} :
          \E label, failing : GLBegin(s, pc, label, failing)
    BY DEF GLStart, beginDeletion, beginAddFinalizer, reconcilePending, admissionTimeout,
           reconcileAdmitted, reconcileActivating, reconcileBound, GLBeginFailing
  <1>2. /\ gl'.pc = pc /\ gl'.slot = s /\ gl'.lease = lease[s]
        /\ UNCHANGED <<lease, wl, pod, machine, cache>>
    BY <1>1 DEF GLBegin, SeenLease
  <1>3. InStep'
    BY <1>1, <1>2 DEF InStep, Base, GLPlan, Planned
  <1>4. QuotaReleased' /\ QuotaFreedFirst' /\ FailedHoldsNoQuota'
    BY <1>1, <1>2, QuotaMove
  <1>5. ASSUME "lostDelete" \notin FaultKinds PROVE PodReleased' /\ GPUUseLeased'
    <2>1. \A p \in Pods, t \in Slot : Uses(machine[p], t)' =>
            Uses(machine[p], t) \/ (lease[t].claim = p /\ lease[t].phase \in Serving)
      BY <1>2 DEF Uses
    <2> QED BY <1>1, <1>2, <1>5, <2>1, GPUMove
  <1>6. VacantIsWarm'
    BY <1>2, VacantKept, PodMove
  <1> QED BY <1>3, <1>4, <1>5, <1>6 DEF Safe, GPUsProtected

\* A lease update keeps the claim; it fails or removes a lease only after its
\* Workload is deleted and its pod released.
LEMMA GLUpdateSafe ==
  ASSUME Safe, Base', NEW at, NEW new, NEW then \in {"idle", "deleteWorkload"},
         GLUpdate(at, new, then), at # "idle",
         new.phase # "none" => new.claim = gl.lease.claim /\ new.fin,
         new.phase \in Serving \cup {gl.lease.phase} \/ at \in {"setFailed", "removeFinalizer"}
  PROVE  Safe'
  <1>1. gl.pc = at /\ gl.slot \in Slot /\ UNCHANGED <<pod, machine, cache>> /\ gl.lease.phase # "none"
    BY DEF GLUpdate, Safe, Base, GLPlan, Planned
  <1>2. VacantIsWarm'
    BY <1>1, VacantKept, PodMove
  <1>3. CASE ~GLFresh
    <2>1. gl'.pc = "idle" /\ UNCHANGED <<lease, wl>>
      <3>1. GLReturn /\ UNCHANGED <<lease, wl>>
        BY <1>3 DEF GLUpdate
      <3> QED BY <3>1 DEF GLReturn, GLIdle
    <2>2. \A p \in Pods : Vacant(p)' => Vacant(p)
      BY <1>1, VacantKept
    <2>3. gl'.pc \notin {"releasePod", "revertPod", "setFailed", "removeFinalizer"}
      BY <2>1
    <2> QED BY <1>1, <2>1, <2>2, <2>3, QuietSafe
  <1>4. CASE GLFresh
    <2>1. gl.lease = lease[gl.slot] /\ lease \in [Slot -> LeaseObj] /\ wl \in [Slot -> WorkloadObj] /\ gl \in GLState
      BY <1>1, <1>4 DEF GLFresh, Safe, Base, Copies, TypeOK
    <2>2. PICK H : PutLease(gl.slot, new, H)
      BY <1>4 DEF GLUpdate
    <2>3. \/ gl'.pc = "idle"
          \/ gl'.pc = "deleteWorkload" /\ gl'.slot = gl.slot /\ gl'.lease = new
      <3>1. \/ gl' = GLIdle
            \/ gl' = [gl EXCEPT !.pc = "deleteWorkload", !.lease = new]
        BY Zenon, <1>4 DEF GLUpdate
      <3>2. GLIdle.pc = "idle"
        BY DEF GLIdle
      <3>3. CASE gl' = [gl EXCEPT !.pc = "deleteWorkload", !.lease = new]
        BY <2>1, <3>3 DEF GLState
      <3> QED BY <3>1, <3>2, <3>3
    <2>4. \A t \in Slot : lease'[t] = IF t = gl.slot THEN new ELSE lease[t]
      BY <2>1, <2>2 DEF PutLease
    <2>5. \A t \in Slot : wl'[t].st = wl[t].st
      BY <1>1, <2>1, <2>2 DEF PutLease, WorkloadObj
    <2>6. InStep'
      <3>1. gl'.pc = "deleteWorkload" => new.phase # "none"
        BY <2>3 DEF Base, GLPlan, Planned
      <3> QED BY <1>1, <2>3, <2>4, <3>1 DEF InStep
    <2>7. at \in {"setFailed", "removeFinalizer"} =>
            /\ wl[gl.slot].st = "none"
            /\ "lostDelete" \notin FaultKinds => \A p \in Pods : ~Uses(machine[p], gl.slot)
      BY <1>1 DEF Safe, QuotaReleased, GPUsProtected, PodReleased
    <2>8. QuotaReleased' /\ QuotaFreedFirst' /\ FailedHoldsNoQuota'
      <3>1. QuotaReleased'
        BY <2>3 DEF QuotaReleased
      <3>2. ASSUME NEW t \in Slot, wl'[t].st # "none" PROVE lease'[t].phase \notin {"none", "Failed"}
        <4>1. wl[t].st # "none" /\ lease[t].phase \notin {"none", "Failed"}
          BY <2>5, <3>2 DEF Safe, QuotaFreedFirst, FailedHoldsNoQuota, Exists
        <4> QED BY <1>1, <2>1, <2>4, <2>7, <4>1 DEF Serving
      <3> QED BY <3>1, <3>2 DEF QuotaFreedFirst, FailedHoldsNoQuota, Exists
    <2>9. ASSUME "lostDelete" \notin FaultKinds PROVE PodReleased' /\ GPUUseLeased'
      <3>1. PodReleased'
        BY <2>3 DEF PodReleased
      <3>2. ASSUME NEW p \in Pods, NEW t \in Slot, Uses(machine[p], t)
            PROVE  lease'[t].claim = p /\ lease'[t].phase \in Serving
        <4>1. lease[t].claim = p /\ lease[t].phase \in Serving
          BY <2>9, <3>2 DEF Safe, GPUsProtected, GPUUseLeased, Serving
        <4>2. CASE t # gl.slot
          BY <2>4, <4>1, <4>2
        <4>3. CASE t = gl.slot
          <5>1. new.phase \in Serving
            BY <2>1, <2>7, <2>9, <3>2, <4>1, <4>3
          <5>2. new.phase # "none"
            BY <5>1 DEF Serving
          <5> QED BY <2>1, <2>4, <4>1, <4>3, <5>1, <5>2
        <4> QED BY <4>2, <4>3
      <3>3. GPUUseLeased'
        BY <1>1, <3>2 DEF GPUUseLeased, Serving, Uses
      <3> QED BY <3>1, <3>3
    <2> QED BY <1>2, <2>6, <2>8, <2>9 DEF Safe, GPUsProtected
  <1> QED BY <1>3, <1>4

\* Every lease update the GPULease worker makes preserves the invariant.
LEMMA GLUpdatesSafe ==
  ASSUME Safe, Base',
         \/ addFinalizer \/ recordWorkload \/ admitLease \/ setActivating \/ setBound
         \/ setFailed \/ setReleasing \/ removeFinalizer
  PROVE  Safe'
  <1> DEFINE l == gl.lease
  <1>1. gl.pc # "idle"
    BY DEF addFinalizer, recordWorkload, admitLease, setActivating, setBound,
           setFailed, setReleasing, removeFinalizer, GLUpdate
  <1>2. gl \in GLState /\ Planned(gl.pc, l, gl.failing)
    BY <1>1 DEF Safe, Base, TypeOK, GLPlan
  <1>3. l \in Stored /\ l.phase # "none" /\ (gl.pc # "addFinalizer" => l.fin)
    BY <1>2, LeaseEdit DEF GLState, Planned
  <1> HIDE DEF l
  <1>4. CASE addFinalizer
    <2>1. GLUpdate("addFinalizer", [l EXCEPT !.fin = TRUE], "idle")
      BY <1>4 DEF addFinalizer, l
    <2>2. [l EXCEPT !.fin = TRUE].phase = l.phase /\ [l EXCEPT !.fin = TRUE].claim = l.claim
          /\ [l EXCEPT !.fin = TRUE].fin
      BY <1>3 DEF Stored
    <2> QED BY Zenon, <2>1, <2>2, GLUpdateSafe DEF l
  <1>5. CASE recordWorkload
    <2>1. GLUpdate("recordWorkload", [l EXCEPT !.named = TRUE], "idle") /\ gl.pc = "recordWorkload"
      BY <1>5 DEF recordWorkload, GLUpdate, l
    <2>2. [l EXCEPT !.named = TRUE].phase = l.phase /\ [l EXCEPT !.named = TRUE].claim = l.claim
          /\ [l EXCEPT !.named = TRUE].fin
      BY <1>3, <2>1 DEF Stored
    <2> QED BY Zenon, <2>1, <2>2, GLUpdateSafe DEF l
  <1>6. ASSUME NEW at \in {"admitLease", "setActivating", "setBound", "setFailed", "setReleasing"},
               NEW ph, NEW then \in {"idle", "deleteWorkload"},
               GLUpdate(at, [l EXCEPT !.phase = ph], then),
               ph \in Serving \/ at = "setFailed"
        PROVE  Safe'
    <2>1. gl.pc = at
      BY <1>6 DEF GLUpdate
    <2>2. [l EXCEPT !.phase = ph].phase = ph /\ [l EXCEPT !.phase = ph].claim = l.claim
          /\ [l EXCEPT !.phase = ph].fin
      BY <1>3, <2>1 DEF Stored
    <2> QED BY Zenon, <1>6, <2>2, GLUpdateSafe DEF l
  <1>7. CASE admitLease
    BY <1>6, <1>7 DEF admitLease, Serving, l
  <1>8. CASE setActivating
    BY <1>6, <1>8 DEF setActivating, Serving, l
  <1>9. CASE setBound
    BY <1>6, <1>9 DEF setBound, Serving, l
  <1>10. CASE setFailed
    BY <1>6, <1>10 DEF setFailed, l
  <1>11. CASE setReleasing
    BY <1>6, <1>11 DEF setReleasing, Serving, l
  <1>12. CASE removeFinalizer
    <2>1. Absent.phase = "none"
      BY DEF Absent
    <2> QED BY <1>12, <2>1, GLUpdateSafe DEF removeFinalizer
  <1> QED BY <1>4, <1>5, <1>7, <1>8, <1>9, <1>10, <1>11, <1>12

\* What the two pod calls do to who uses which GPU.
LEMMA UsesAfter ==
  ASSUME NEW m \in Machine(Slot), NEW s \in Slot, NEW t \in Slot
  PROVE  /\ Uses(Activated(m, s), t) => Uses(m, t) \/ t = s
         /\ ~Uses(Released(m), t)
         /\ ~Uses(WarmMachine, t)
         /\ Uses(WarmedUp(m), t) /\ m.state = "activating" => Uses(m, t)
  BY DEF Uses, Activated, Released, WarmedUp, WarmMachine, Machine, PodState

\* Where the worker's next position and its copy of the lease are after a move.
LEMMA GLMoves ==
  ASSUME gl \in GLState
  PROVE  /\ \A pc, label, failing : gl' = [gl EXCEPT !.pc = pc, !.label = label, !.failing = failing] =>
              gl'.pc = pc /\ gl'.slot = gl.slot /\ gl'.lease = gl.lease
         /\ GLReturn => gl'.pc = "idle"
         /\ GLFail => gl'.pc = "deleteWorkload" /\ gl'.slot = gl.slot /\ gl'.lease = gl.lease
         /\ \A pc : GLGoto(pc) => gl'.pc = pc /\ gl'.slot = gl.slot /\ gl'.lease = gl.lease
         /\ AfterRelease \in {"setFailed", "removeFinalizer"}
  <1>1. ASSUME NEW pc, NEW label, NEW failing,
               gl' = [gl EXCEPT !.pc = pc, !.label = label, !.failing = failing]
        PROVE  gl'.pc = pc /\ gl'.slot = gl.slot /\ gl'.lease = gl.lease
    BY <1>1 DEF GLState
  <1>2. GLReturn => gl'.pc = "idle"
    <2>1. GLReturn => gl' = GLIdle
      BY DEF GLReturn
    <2>2. GLIdle.pc = "idle"
      BY DEF GLIdle
    <2> QED BY <2>1, <2>2
  <1>3. GLFail => gl'.pc = "deleteWorkload" /\ gl'.slot = gl.slot /\ gl'.lease = gl.lease
    BY Zenon, <1>1 DEF GLFail
  <1>4. ASSUME NEW pc, GLGoto(pc) PROVE gl'.pc = pc /\ gl'.slot = gl.slot /\ gl'.lease = gl.lease
    BY <1>4 DEF GLGoto, GLState
  <1>5. AfterRelease \in {"setFailed", "removeFinalizer"}
    BY DEF AfterRelease
  <1> QED BY Zenon, <1>1, <1>2, <1>3, <1>4, <1>5

\* A worker amid a reconcile agrees with the stored lease.
LEMMA GLAgrees ==
  ASSUME Safe, gl.pc # "idle"
  PROVE  /\ gl.slot \in Slot /\ Planned(gl.pc, gl.lease, gl.failing) /\ gl.lease.claim \in Pods
         /\ gl.pc # "addFinalizer" => /\ lease[gl.slot].phase = gl.lease.phase
                                      /\ lease[gl.slot].claim = gl.lease.claim
  <1>1. gl \in GLState
    BY DEF Safe, Base, TypeOK
  <1>2. gl.slot \in Slot /\ Planned(gl.pc, gl.lease, gl.failing)
    BY DEF Safe, Base, GLPlan
  <1>3. gl.lease.claim \in Pods
    BY <1>1, <1>2, LeaseEdit DEF GLState, Planned, Stored
  <1> QED BY <1>2, <1>3 DEF Safe, InStep

\* The Workload is created for a Pending lease.
LEMMA createWorkloadSafe ==
  ASSUME "lease" \notin Stale, Safe, Base', createWorkload
  PROVE  Safe'
  <1>a. /\ wl \in [Slot -> WorkloadObj] /\ pod \in [Pods -> PodObj] /\ gl \in GLState
        /\ machine \in [Pods -> Machine(Slot)]
    BY DEF Safe, Base, TypeOK
  <1>b. gl.pc # "idle" /\ UNCHANGED lease
    BY DEF createWorkload
  <1>c. /\ gl.slot \in Slot /\ Planned(gl.pc, gl.lease, gl.failing) /\ gl.lease.claim \in Pods
        /\ gl.pc # "addFinalizer" => /\ lease[gl.slot].phase = gl.lease.phase
                                     /\ lease[gl.slot].claim = gl.lease.claim
    BY <1>b, GLAgrees
  <1>1. gl.pc = "createWorkload" /\ UNCHANGED <<pod, machine, cache>> /\ lease[gl.slot].phase = "Pending"
    BY <1>c DEF createWorkload, Planned
  <1>2. gl'.pc = "idle" \/ (gl'.pc = "recordWorkload" /\ gl'.slot = gl.slot /\ gl'.lease = gl.lease)
    BY Zenon, <1>a, GLMoves DEF createWorkload
  <1>3. \A s \in Slot : wl'[s].st # "none" => wl[s].st # "none" \/ s = gl.slot
    BY <1>a DEF createWorkload
  <1>4. InStep'
    BY <1>b, <1>1, <1>2, InStepMove
  <1>5. QuotaReleased' /\ QuotaFreedFirst' /\ FailedHoldsNoQuota'
    BY <1>b, <1>1, <1>2, <1>3, QuotaMove
  <1>6. ASSUME "lostDelete" \notin FaultKinds PROVE PodReleased' /\ GPUUseLeased'
    <2>1. \A p \in Pods, s \in Slot : Uses(machine[p], s)' => Uses(machine[p], s)
      BY <1>1 DEF Uses
    <2> QED BY <1>b, <1>2, <1>6, <2>1, GPUMove
  <1>7. VacantIsWarm'
    BY <1>1, VacantKept, PodMove
  <1> QED BY <1>4, <1>5, <1>6, <1>7 DEF Safe, GPUsProtected

\* The Workload is deleted.
LEMMA deleteWorkloadSafe ==
  ASSUME "lease" \notin Stale, Safe, Base', deleteWorkload
  PROVE  Safe'
  <1>a. /\ wl \in [Slot -> WorkloadObj] /\ pod \in [Pods -> PodObj] /\ gl \in GLState
        /\ machine \in [Pods -> Machine(Slot)]
    BY DEF Safe, Base, TypeOK
  <1>b. gl.pc # "idle" /\ UNCHANGED lease
    BY DEF deleteWorkload
  <1>c. /\ gl.slot \in Slot /\ Planned(gl.pc, gl.lease, gl.failing) /\ gl.lease.claim \in Pods
        /\ gl.pc # "addFinalizer" => /\ lease[gl.slot].phase = gl.lease.phase
                                     /\ lease[gl.slot].claim = gl.lease.claim
    BY <1>b, GLAgrees
  <1>1. gl.pc = "deleteWorkload" /\ UNCHANGED <<pod, machine, cache>>
    BY DEF deleteWorkload
  <1>2. gl'.pc = "releasePod" /\ gl'.slot = gl.slot /\ gl'.lease = gl.lease
    BY Zenon, <1>a, GLMoves DEF deleteWorkload
  <1>3. wl'[gl.slot].st = "none" /\ \A s \in Slot : wl'[s].st # "none" => wl[s].st # "none"
    BY <1>a, <1>c DEF deleteWorkload, NoWorkload
  <1>4. InStep'
    BY <1>b, <1>1, <1>2, InStepMove
  <1>5. QuotaReleased' /\ QuotaFreedFirst' /\ FailedHoldsNoQuota'
    BY <1>b, <1>2, <1>3, QuotaMove
  <1>6. ASSUME "lostDelete" \notin FaultKinds PROVE PodReleased' /\ GPUUseLeased'
    <2>1. \A p \in Pods, s \in Slot : Uses(machine[p], s)' => Uses(machine[p], s)
      BY <1>1 DEF Uses
    <2> QED BY <1>b, <1>2, <1>6, <2>1, GPUMove
  <1>7. VacantIsWarm'
    BY <1>1, VacantKept, PodMove
  <1> QED BY <1>4, <1>5, <1>6, <1>7 DEF Safe, GPUsProtected

\* POST /lease reaches a pod only for an Admitted lease that claims it.
LEMMA activatePodSafe ==
  ASSUME "lease" \notin Stale, Safe, Placed, Base', activatePod
  PROVE  Safe'
  <1>a. /\ wl \in [Slot -> WorkloadObj] /\ pod \in [Pods -> PodObj] /\ gl \in GLState
        /\ machine \in [Pods -> Machine(Slot)]
    BY DEF Safe, Base, TypeOK
  <1>b. gl.pc # "idle" /\ UNCHANGED lease
    BY DEF activatePod
  <1>c. /\ gl.slot \in Slot /\ Planned(gl.pc, gl.lease, gl.failing) /\ gl.lease.claim \in Pods
        /\ gl.pc # "addFinalizer" => /\ lease[gl.slot].phase = gl.lease.phase
                                     /\ lease[gl.slot].claim = gl.lease.claim
    BY <1>b, GLAgrees
  <1> DEFINE p == gl.lease.claim
  <1>1. gl.pc = "activatePod" /\ UNCHANGED <<wl, pod, cache>> /\ lease[gl.slot].phase = "Admitted"
        /\ lease[gl.slot].claim = p
    BY <1>c DEF activatePod, Planned
  <1>2. gl'.pc \in {"deleteWorkload", "setActivating"} /\ gl'.slot = gl.slot /\ gl'.lease = gl.lease
    BY Zenon, <1>a, GLMoves DEF activatePod
  <1>3. \/ machine' = machine
        \/ Alive(p) /\ machine' = [machine EXCEPT ![p] = Activated(machine[p], gl.slot)]
    BY DEF activatePod
  <1>4. InStep'
    BY <1>b, <1>1, <1>2, InStepMove
  <1>5. QuotaReleased' /\ QuotaFreedFirst' /\ FailedHoldsNoQuota'
    BY <1>b, <1>1, <1>2, QuotaMove
  <1>6. ASSUME NEW q \in Pods, NEW s \in Slot, Uses(machine'[q], s)
        PROVE  Uses(machine[q], s) \/ (lease[s].claim = q /\ lease[s].phase \in Serving)
    <2>1. CASE machine'[q] = machine[q]
      BY <1>6, <2>1
    <2>2. CASE q = p /\ machine'[q] = Activated(machine[q], gl.slot)
      <3>1. Uses(machine[q], s) \/ s = gl.slot
        <4>1. machine[q] \in Machine(Slot) /\ Uses(Activated(machine[q], gl.slot), s)
          BY <1>a, <1>6, <2>2
        <4> QED BY <1>c, <4>1, UsesAfter
      <3> QED BY <1>1, <2>2, <3>1 DEF Serving
    <2> QED BY <1>a, <1>c, <1>3, <2>1, <2>2
  <1>7. ASSUME "lostDelete" \notin FaultKinds PROVE PodReleased' /\ GPUUseLeased'
    BY <1>b, <1>2, <1>6, <1>7, GPUMove
  <1>8. VacantIsWarm'
    <2>1. \A q \in Pods : Vacant(q)' => Vacant(q)
      BY <1>1, VacantKept
    <2>2. Alive(p) => ~Vacant(p)
      BY <1>c, <1>1 DEF Placed, Fits, Vacant, Alive
    <2> QED BY <1>a, <1>c, <1>3, <2>1, <2>2 DEF Safe, VacantIsWarm
  <1> QED BY <1>4, <1>5, <1>7, <1>8 DEF Safe, GPUsProtected

\* The pod is labelled hot.
LEMMA markPodHotSafe ==
  ASSUME "lease" \notin Stale, Safe, Base', markPodHot
  PROVE  Safe'
  <1>a. /\ wl \in [Slot -> WorkloadObj] /\ pod \in [Pods -> PodObj] /\ gl \in GLState
        /\ machine \in [Pods -> Machine(Slot)]
    BY DEF Safe, Base, TypeOK
  <1>b. gl.pc # "idle" /\ UNCHANGED lease
    BY DEF markPodHot
  <1>c. /\ gl.slot \in Slot /\ Planned(gl.pc, gl.lease, gl.failing) /\ gl.lease.claim \in Pods
        /\ gl.pc # "addFinalizer" => /\ lease[gl.slot].phase = gl.lease.phase
                                     /\ lease[gl.slot].claim = gl.lease.claim
    BY <1>b, GLAgrees
  <1>1. gl.pc = "markPodHot" /\ UNCHANGED <<wl, machine, cache>>
    BY DEF markPodHot
  <1>2. gl'.pc = "idle" \/ (gl'.pc = "setBound" /\ gl'.slot = gl.slot /\ gl'.lease = gl.lease)
    <2>1. GLReturn \/ gl' = [gl EXCEPT !.pc = "setBound", !.label = "", !.failing = gl.failing]
      BY <1>a DEF markPodHot, GLState
    <2> QED BY Zenon, <1>a, GLMoves, <2>1
  <1>3. \A q \in Pods : pod'[q].st = pod[q].st
    <2>1. PatchLabel(gl.lease.claim, gl.label, "hot") \/ pod' = pod
      BY DEF markPodHot
    <2> QED BY <1>c, <2>1, PatchKeepsStatus DEF Safe, Base
  <1> QED BY <1>b, <1>1, <1>2, <1>3, VacantKept, QuietSafe

\* DELETE /lease frees the GPU: this is where it must not be lost.
LEMMA releasePodSafe ==
  ASSUME "lease" \notin Stale, Safe, Placed, Base', releasePod
  PROVE  Safe'
  <1>a. /\ wl \in [Slot -> WorkloadObj] /\ pod \in [Pods -> PodObj] /\ gl \in GLState
        /\ machine \in [Pods -> Machine(Slot)]
    BY DEF Safe, Base, TypeOK
  <1>b. gl.pc # "idle" /\ UNCHANGED lease
    BY DEF releasePod
  <1>c. /\ gl.slot \in Slot /\ Planned(gl.pc, gl.lease, gl.failing) /\ gl.lease.claim \in Pods
        /\ gl.pc # "addFinalizer" => /\ lease[gl.slot].phase = gl.lease.phase
                                     /\ lease[gl.slot].claim = gl.lease.claim
    BY <1>b, GLAgrees
  <1> DEFINE p == gl.lease.claim
  <1>1. gl.pc = "releasePod" /\ UNCHANGED <<wl, pod, cache>> /\ lease[gl.slot].claim = p
    BY <1>c DEF releasePod
  <1>2. gl'.pc \in {"revertPod", "setFailed", "removeFinalizer"} /\ gl'.slot = gl.slot /\ gl'.lease = gl.lease
    <2>1. \/ GLGoto(AfterRelease)
          \/ gl' = [gl EXCEPT !.pc = "revertPod", !.label = SeenPod(p).label, !.failing = gl.failing]
      BY <1>a DEF releasePod, GLState
    <2>2. CASE GLGoto(AfterRelease)
      BY ZenonT(30), <1>a, GLMoves, <2>2
    <2>3. CASE gl' = [gl EXCEPT !.pc = "revertPod", !.label = SeenPod(p).label, !.failing = gl.failing]
      BY Zenon, <1>a, GLMoves, <2>3
    <2> QED BY <2>1, <2>2, <2>3
  <1>3. \/ machine' = machine
        \/ machine' = [machine EXCEPT ![p] = Released(machine[p])]
    BY DEF releasePod
  <1>4. ASSUME "lostDelete" \notin FaultKinds PROVE \A s \in Slot : ~Uses(machine'[p], s)
    <2>1. SeenPod(p).st \in {"none", "gone"} => machine[p] = WarmMachine
      BY <1>c DEF Safe, VacantIsWarm, Vacant, Placed, PodsSeen
    <2>2. \/ SeenPod(p).st \in {"none", "gone"} /\ machine' = machine
          \/ machine' = [machine EXCEPT ![p] = Released(machine[p])]
      BY <1>4 DEF releasePod, Fault
    <2>3. machine'[p] \in {WarmMachine, Released(machine[p])}
      BY <1>a, <1>c, <2>1, <2>2
    <2>4. machine[p] \in Machine(Slot)
      BY <1>a, <1>c
    <2>5. \A s \in Slot : ~Uses(Released(machine[p]), s) /\ ~Uses(WarmMachine, s)
      BY <1>c, <2>4, UsesAfter
    <2> QED BY <2>3, <2>5
  <1>5. \A q \in Pods \ {p} : machine'[q] = machine[q]
    BY <1>a, <1>3
  <1>6. InStep'
    BY <1>b, <1>1, <1>2, InStepMove
  <1>7. QuotaReleased' /\ QuotaFreedFirst' /\ FailedHoldsNoQuota'
    <2>1. wl[gl.slot].st = "none"
      BY <1>1 DEF Safe, QuotaReleased
    <2> QED BY <1>b, <1>1, <1>2, <2>1, QuotaMove
  <1>8. ASSUME "lostDelete" \notin FaultKinds PROVE PodReleased' /\ GPUUseLeased'
    <2>1. \A q \in Pods, s \in Slot : Uses(machine'[q], s) => Uses(machine[q], s)
      BY <1>4, <1>5, <1>8
    <2>2. \A q \in Pods : ~Uses(machine'[q], gl.slot)
      BY <1>c, <1>1, <1>4, <1>5, <1>8 DEF Safe, GPUsProtected, GPUUseLeased
    <2> QED BY <1>b, <1>2, <1>8, <2>1, <2>2, GPUMove
  <1>9. VacantIsWarm'
    <2>1. Released(WarmMachine) = WarmMachine
      BY DEF Released, WarmMachine
    <2>2. \A q \in Pods : Vacant(q)' => Vacant(q)
      BY <1>1, VacantKept
    <2> QED BY <1>a, <1>c, <1>3, <2>1, <2>2 DEF Safe, VacantIsWarm
  <1> QED BY <1>6, <1>7, <1>8, <1>9 DEF Safe, GPUsProtected

\* The pod is labelled warm.
LEMMA revertPodSafe ==
  ASSUME "lease" \notin Stale, Safe, Base', revertPod
  PROVE  Safe'
  <1>a. /\ wl \in [Slot -> WorkloadObj] /\ pod \in [Pods -> PodObj] /\ gl \in GLState
        /\ machine \in [Pods -> Machine(Slot)]
    BY DEF Safe, Base, TypeOK
  <1>b. gl.pc # "idle" /\ UNCHANGED lease
    BY DEF revertPod
  <1>c. /\ gl.slot \in Slot /\ Planned(gl.pc, gl.lease, gl.failing) /\ gl.lease.claim \in Pods
        /\ gl.pc # "addFinalizer" => /\ lease[gl.slot].phase = gl.lease.phase
                                     /\ lease[gl.slot].claim = gl.lease.claim
    BY <1>b, GLAgrees
  <1>1. gl.pc = "revertPod" /\ UNCHANGED <<wl, machine, cache>>
    BY DEF revertPod
  <1>2. gl'.pc \in {"setFailed", "removeFinalizer"} /\ gl'.slot = gl.slot /\ gl'.lease = gl.lease
    <2>1. gl' = [gl EXCEPT !.pc = AfterRelease, !.label = "", !.failing = gl.failing]
      BY <1>a DEF revertPod, GLState
    <2> QED BY Zenon, <1>a, GLMoves, <2>1
  <1>3. \A q \in Pods : pod'[q].st = pod[q].st
    <2>1. PatchLabel(gl.lease.claim, gl.label, "warm") \/ pod' = pod
      BY DEF revertPod
    <2> QED BY <1>c, <2>1, PatchKeepsStatus DEF Safe, Base
  <1> QED BY <1>b, <1>1, <1>2, <1>3, VacantKept, QuietSafe

\* The calls of the GPULease worker that are no lease updates.
LEMMA GLCallsSafe ==
  ASSUME "lease" \notin Stale, Safe, Placed, Base',
         \/ createWorkload \/ deleteWorkload \/ activatePod \/ pollState \/ activationTimeout
         \/ markPodHot \/ releasePod \/ revertPod \/ glAbort
  PROVE  Safe'
  <1>1. gl \in GLState
    BY DEF Safe, Base, TypeOK
  <1>2. CASE pollState \/ activationTimeout \/ glAbort
    <2>1. gl.pc # "idle" /\ UNCHANGED <<lease, wl, pod, machine, cache>> /\ (glAbort \/ gl.pc = "pollState")
      BY <1>2 DEF pollState, activationTimeout, glAbort
    <2>2. \/ gl'.pc = "idle"
          \/ /\ gl'.pc \in {"markPodHot", "deleteWorkload"} /\ gl.pc = "pollState"
             /\ gl'.slot = gl.slot /\ gl'.lease = gl.lease
      BY Zenon, <1>1, <1>2, <2>1, GLMoves DEF pollState, activationTimeout, glAbort
    <2> QED BY <2>1, <2>2, VacantKept, QuietSafe
  <1> QED BY <1>2, createWorkloadSafe, deleteWorkloadSafe, activatePodSafe, markPodHotSafe,
             releasePodSafe, revertPodSafe

-----------------------------------------------------------------------------
(* Writes by others than the GPULease worker *)

\* Others mark a lease deleted, create one in a free slot, or touch a Failed
\* one that the GPULease worker is not releasing.
LEMMA WriteSafe ==
  ASSUME Safe, Base', UNCHANGED <<gl, machine, cache>>, \A p \in Pods : pod'[p].st = pod[p].st,
         NEW s \in Slot, NEW new, NEW H, PutLease(s, new, H),
         \/ /\ new.phase = lease[s].phase /\ new.claim = lease[s].claim
            /\ new.fin /\ new.del
         \/ lease[s].phase = "none" /\ new.phase = "Pending"
         \/ lease[s].phase = "Failed" /\ ~(lease[s].fin /\ lease[s].del) /\ new.phase \in {"none", "Failed"}
  PROVE  Safe'
  <1>1. lease \in [Slot -> LeaseObj] /\ wl \in [Slot -> WorkloadObj]
    BY DEF Safe, Base, TypeOK
  <1>2. \A t \in Slot : lease'[t] = IF t = s THEN new ELSE lease[t]
    BY <1>1 DEF PutLease
  <1>3. \A t \in Slot : wl'[t].st = wl[t].st
    BY <1>1 DEF PutLease, WorkloadObj
  <1>4. InStep'
    <2> SUFFICES ASSUME gl.pc \notin {"idle", "addFinalizer"}
                 PROVE  /\ lease'[gl.slot].phase = gl.lease.phase
                        /\ lease'[gl.slot].claim = gl.lease.claim
                        /\ lease'[gl.slot].fin
                        /\ gl.lease.del => lease'[gl.slot].del
      BY DEF InStep
    <2>1. /\ lease[gl.slot].phase = gl.lease.phase
          /\ lease[gl.slot].claim = gl.lease.claim
          /\ lease[gl.slot].fin
          /\ gl.lease.del => lease[gl.slot].del
      BY DEF Safe, InStep
    <2>2. gl.slot \in Slot /\ gl.lease.phase # "none"
      BY DEF Safe, Base, GLPlan, Planned
    <2>3. gl.lease.phase = "Failed" => gl.lease.del
      <3>1. gl.pc \in GLPc /\ gl.failing \in BOOLEAN
        BY DEF Safe, Base, TypeOK, GLState
      <3>2. Planned(gl.pc, gl.lease, gl.failing)
        BY DEF Safe, Base, GLPlan
      <3> QED BY <3>1, <3>2 DEF GLPc, Planned, Cleanup
    <2>4. CASE gl.slot # s
      BY <1>2, <2>1, <2>2, <2>4
    <2>5. CASE gl.slot = s
      <3>1. new.phase = lease[s].phase /\ new.claim = lease[s].claim /\ new.fin /\ new.del
        BY <2>1, <2>2, <2>3, <2>5
      <3> QED BY <1>2, <2>1, <2>5, <3>1
    <2> QED BY <2>4, <2>5
  <1>5. QuotaReleased'
    BY <1>3 DEF Safe, Base, GLPlan, QuotaReleased
  <1>6. QuotaFreedFirst' /\ FailedHoldsNoQuota'
    <2>1. ASSUME NEW t \in Slot, wl'[t].st # "none" PROVE lease'[t].phase \notin {"none", "Failed"}
      <3>1. wl[t].st # "none" /\ lease[t].phase \notin {"none", "Failed"}
        BY <1>3, <2>1 DEF Safe, QuotaFreedFirst, FailedHoldsNoQuota, Exists
      <3> QED BY <1>2, <3>1
    <2> QED BY <2>1 DEF QuotaFreedFirst, FailedHoldsNoQuota, Exists
  <1>7. ASSUME "lostDelete" \notin FaultKinds PROVE PodReleased'
    BY <1>7 DEF Safe, GPUsProtected, PodReleased, Uses
  <1>8. ASSUME "lostDelete" \notin FaultKinds PROVE GPUUseLeased'
    <2>1. ASSUME NEW p \in Pods, NEW t \in Slot, Uses(machine[p], t)
          PROVE  lease'[t].claim = p /\ lease'[t].phase \in Serving
      <3>1. lease[t].claim = p /\ lease[t].phase \in Serving
        BY <1>8, <2>1 DEF Safe, GPUsProtected, GPUUseLeased, Serving
      <3>2. lease[t].phase \notin {"none", "Failed"}
        BY <3>1 DEF Serving
      <3> QED BY <1>2, <3>1, <3>2
    <2> QED BY <2>1 DEF GPUUseLeased, Serving, Uses
  <1>9. VacantIsWarm'
    BY VacantKept, PodMove
  <1> QED BY <1>4, <1>5, <1>6, <1>7, <1>8, <1>9 DEF Safe, GPUsProtected

\* The same for a DELETE.
LEMMA DeleteSafe ==
  ASSUME Safe, Base', UNCHANGED <<gl, machine, cache>>, \A p \in Pods : pod'[p].st = pod[p].st,
         NEW s \in Slot, DeleteLease(s)
  PROVE  Safe'
  <1>1. Base
    BY DEF Safe
  <1>2. CASE UNCHANGED <<lease, current, wl>>
    BY <1>2, VacantKept, QuietSafe
  <1>3. CASE \E new \in LeaseObj :
               /\ PutLease(s, new, {})
               /\ \/ /\ new.fin /\ new.del
                     /\ new.phase = lease[s].phase /\ new.claim = lease[s].claim
                  \/ ~lease[s].fin /\ lease[s].phase = "Failed" /\ new = Absent
    <2>1. Absent.phase = "none"
      BY DEF Absent
    <2> QED BY <1>3, <2>1, WriteSafe
  <1> QED BY <1>1, <1>2, <1>3, DeleteLeaseStep

\* The WarmPool worker.
LEMMA PoolSafe ==
  ASSUME "lease" \notin Stale, Safe, Base', UNCHANGED gl, WPNext
  PROVE  Safe'
  <1>1. Base /\ pod \in [Pods -> PodObj]
    BY DEF Safe, Base, TypeOK
  <1>a. UNCHANGED cache
    BY Zenon DEF WPNext, WPCall, listLeases, reclaimFailedLease, deleteOrphan, keepLease,
                 deleteFailedLease,
           decide, acquireLeaseOnNode, labelReleasing, labelActivating, deleteLease, wpAbort
  <1>2. ASSUME UNCHANGED <<lease, wl, machine>>, \A p \in Pods : pod'[p].st = pod[p].st
        PROVE  Safe'
    BY <1>a, <1>2, VacantKept, QuietSafe
  <1>3. CASE listLeases \/ wpAbort \/ \E s \in Slot : keepLease(s)
    BY <1>2, <1>3 DEF listLeases, wpAbort, keepLease
  <1>4. ASSUME NEW s \in Slot, reclaimFailedLease(s) PROVE Safe'
    <2>1. UNCHANGED <<pod, machine>> /\ wp.pc = "sweep" /\ wp.leases[s].phase = "Failed"
      BY <1>4 DEF reclaimFailedLease, Listed
    <2>2. CASE UNCHANGED <<lease, wl>>
      BY <1>2, <2>1, <2>2
    <2>3. CASE "wp" \in current[s] /\ PutLease(s, [wp.leases[s] EXCEPT !.fin = FALSE], {"wp"})
      <3>1. wp.leases[s] = lease[s] /\ ~wp.leases[s].del
        BY <1>1, <2>1, <2>3 DEF Base, Copies, WPPlan
      <3>2. lease[s] \in LeaseObj
        BY <1>1 DEF Base, TypeOK
      <3>3. [wp.leases[s] EXCEPT !.fin = FALSE].phase = "Failed"
        BY <2>1, <3>1, <3>2 DEF LeaseObj, Absent, Stored
      <3> QED BY Zenon, <1>a, <2>1, <2>3, <3>1, <3>3, WriteSafe
    <2> QED BY <1>4, <2>2, <2>3 DEF reclaimFailedLease
  <1>5. CASE deleteFailedLease
    <2>1. wp.slot \in Slot
      BY <1>1, <1>5 DEF Base, WPPlan, deleteFailedLease
    <2> QED BY <1>a, <1>5, <2>1, DeleteSafe DEF deleteFailedLease
  <1>6. ASSUME NEW s \in Slot, deleteOrphan(s) PROVE Safe'
    BY <1>a, <1>6, DeleteSafe DEF deleteOrphan
  <1>7. CASE decide
    <2>1. ASSUME NEW p \in Pods PROVE pod'[p].st = pod[p].st
      <3>1. pod'[p] \in {pod[p], [pod[p] EXCEPT !.label = "warm"]}
        BY <1>7 DEF decide
      <3>2. [pod[p] EXCEPT !.label = "warm"].st = pod[p].st
        BY <1>1 DEF PodObj
      <3> QED BY Zenon, <3>1, <3>2
    <2>2. UNCHANGED <<lease, wl, machine>>
      BY <1>7 DEF decide
    <2> QED BY <1>2, <2>1, <2>2
  <1>8. wp.cands \subseteq Pods
    BY <1>1 DEF Base, TypeOK, WPState
  <1>9. ASSUME NEW p \in wp.cands, acquireLeaseOnNode(p) PROVE Safe'
    <2>1. UNCHANGED <<pod, machine>>
      BY <1>9 DEF acquireLeaseOnNode
    <2>2. CASE UNCHANGED <<lease, wl>>
      BY <1>2, <2>1, <2>2
    <2>3. CASE \E s \in Slot : ~Exists(s) /\ PutLease(s, NewLease(p), {})
      BY <1>a, <2>1, <2>3, WriteSafe DEF Exists, NewLease
    <2> QED BY <1>9, <2>2, <2>3 DEF acquireLeaseOnNode, FreeGPUIDs
  <1>10. ASSUME NEW p \in wp.cands, labelReleasing(p) PROVE Safe'
    <2>1. UNCHANGED <<lease, wl, machine>> /\ (PatchLabel(p, "hot", "releasing") \/ pod' = pod)
      BY Zenon, <1>10 DEF labelReleasing
    <2>2. \A q \in Pods : pod'[q].st = pod[q].st
      BY <1>1, <1>8, <2>1, PatchKeepsStatus DEF Base
    <2> QED BY <1>2, <2>1, <2>2
  <1>11. CASE labelActivating
    <2>1. UNCHANGED <<lease, wl, machine>> /\ (PatchLabel(wp.pod, "warm", "activating") \/ pod' = pod)
      BY <1>11 DEF labelActivating
    <2>2. wp.pod \in Pods
      BY <1>1, <1>11 DEF Base, WPPlan, labelActivating
    <2>3. \A q \in Pods : pod'[q].st = pod[q].st
      BY <1>1, <2>1, <2>2, PatchKeepsStatus DEF Base
    <2> QED BY <1>2, <2>1, <2>3
  <1>12. CASE deleteLease
    <2>1. UNCHANGED <<pod, machine>>
      BY <1>12 DEF deleteLease
    <2>2. wp.slot \in Slot \cup {NoLease}
      BY <1>1 DEF Base, TypeOK, WPState
    <2>3. UNCHANGED <<lease, wl>> \/ (wp.slot # NoLease /\ DeleteLease(wp.slot))
      BY <1>12 DEF deleteLease
    <2> QED BY <1>a, <1>2, <2>1, <2>2, <2>3, DeleteSafe
  <1> QED BY <1>3, <1>4, <1>5, <1>6, <1>7, <1>9, <1>10, <1>11, <1>12 DEF WPNext, WPCall

-----------------------------------------------------------------------------
(* The environment *)

\* What Kueue, the kubelet, timers, informers and operators do preserves it.
LEMMA EnvironmentSafe ==
  ASSUME "lease" \notin Stale, Safe, Placed, Base', Environment
  PROVE  Safe'
  <1>1. /\ wl \in [Slot -> WorkloadObj] /\ pod \in [Pods -> PodObj]
        /\ machine \in [Pods -> Machine(Slot)]
    BY DEF Safe, Base, TypeOK
  <1>2. UNCHANGED gl
    BY DEF Environment, KueueAdmit, KueueInadmissible, KueueEvict, CollectWorkload, OperatorDelete, SetPod,
           PodCreate, PodReady, PodDelete, PodGone, ContainerRestart, WarmupDone, TeardownDone,
           SyncLeases, SyncWorkloads, SyncPods
  <1>3. ASSUME NEW s \in Slot, KueueAdmit(s) \/ KueueInadmissible(s) \/ KueueEvict(s) \/ CollectWorkload(s)
        PROVE  Safe'
    <2>1. UNCHANGED <<lease, pod, machine, cache>>
      BY <1>3 DEF KueueAdmit, KueueInadmissible, KueueEvict, CollectWorkload
    <2>2. \A t \in Slot : wl'[t].st # "none" => wl[t].st # "none"
      BY <1>1, <1>3 DEF KueueAdmit, KueueInadmissible, KueueEvict, CollectWorkload, NoWorkload, WorkloadObj
    <2>3. gl.pc \in {"releasePod", "revertPod", "setFailed", "removeFinalizer"} => wl'[gl.slot].st = "none"
      BY <2>2 DEF Safe, QuotaReleased, Base, GLPlan
    <2>4. QuotaReleased' /\ QuotaFreedFirst' /\ FailedHoldsNoQuota'
      BY <1>2, <2>1, <2>2, <2>3, QuotaMove
    <2>5. InStep' /\ VacantIsWarm'
      BY <1>2, <2>1, InStepMove, VacantKept, PodMove
    <2>6. GPUsProtected'
      BY <1>2, <2>1 DEF Safe, GPUsProtected, PodReleased, GPUUseLeased, Uses
    <2> QED BY <2>4, <2>5, <2>6 DEF Safe
  <1>4. ASSUME NEW s \in Slot, OperatorDelete(s) PROVE Safe'
    BY <1>4, DeleteSafe DEF OperatorDelete
  <1>5. ASSUME NEW p \in Pods, NEW m, UNCHANGED <<lease, wl>>,
               machine' = machine \/ machine' = [machine EXCEPT ![p] = m],
               \A s \in Slot : Uses(m, s) => Uses(machine[p], s), VacantIsWarm'
        PROVE  Safe'
    <2>1. \A q \in Pods, s \in Slot : Uses(machine'[q], s) => Uses(machine[q], s)
      BY <1>1, <1>5
    <2>2. "lostDelete" \notin FaultKinds /\ gl.pc \in {"revertPod", "setFailed", "removeFinalizer"} =>
            \A q \in Pods : ~Uses(machine'[q], gl.slot)
      BY <2>1 DEF Safe, GPUsProtected, PodReleased, Base, GLPlan
    <2>3. GPUsProtected'
      BY <1>2, <1>5, <2>1, <2>2, GPUMove DEF GPUsProtected
    <2>4. QuotaReleased' /\ QuotaFreedFirst' /\ FailedHoldsNoQuota'
      BY <1>2, <1>5 DEF Safe, QuotaReleased, QuotaFreedFirst, FailedHoldsNoQuota, Exists
    <2>5. InStep'
      BY <1>2, <1>5, InStepMove
    <2> QED BY <1>5, <2>3, <2>4, <2>5 DEF Safe
  <1>6. ASSUME NEW p \in Pods, PodCreate(p) \/ PodReady(p) \/ PodDelete(p) PROVE Safe'
    <2>1. UNCHANGED <<lease, wl, machine, cache>>
      BY <1>6 DEF PodCreate, PodReady, PodDelete, SetPod
    <2>2. \A q \in Pods : Vacant(q)' => Vacant(q)
      <3>1. PICK st \in {"unready", "ready", "terminating"} : pod' = [pod EXCEPT ![p].st = st]
        BY <1>6 DEF PodCreate, PodReady, PodDelete, SetPod
      <3>2. \A q \in Pods : pod'[q].st = IF q = p THEN st ELSE pod[q].st
        BY <1>1, <3>1 DEF PodObj
      <3> QED BY <2>1, <3>1, <3>2 DEF Vacant, SeenPod
    <2> QED BY <1>2, <2>1, <2>2, QuietSafe
  <1>7. ASSUME NEW p \in Pods, PodGone(p) \/ ContainerRestart(p) PROVE Safe'
    <2>1. UNCHANGED <<lease, wl, cache>> /\ machine' = [machine EXCEPT ![p] = WarmMachine]
      BY <1>7 DEF PodGone, ContainerRestart, SetPod
    <2>2. \A q \in Pods \ {p} : pod'[q] = pod[q]
      BY <1>1, <1>7 DEF PodGone, ContainerRestart, SetPod
    <2>3. \A q \in Pods \ {p} : Vacant(q)' => Vacant(q)
      BY <2>1, <2>2 DEF Vacant, SeenPod
    <2>4. VacantIsWarm'
      BY <1>1, <2>1, <2>3 DEF Safe, VacantIsWarm
    <2>5. \A s \in Slot : ~Uses(WarmMachine, s)
      BY DEF Uses, WarmMachine
    <2> QED BY Zenon, <1>5, <2>1, <2>4, <2>5
  <1>8. ASSUME NEW p \in Pods, WarmupDone(p) PROVE Safe'
    <2>1. /\ UNCHANGED <<lease, wl, pod, cache>> /\ machine[p].state = "activating"
          /\ machine' = [machine EXCEPT ![p] = WarmedUp(machine[p])]
      BY <1>8 DEF WarmupDone
    <2>2. \A s \in Slot : Uses(WarmedUp(machine[p]), s) => Uses(machine[p], s)
      BY <1>1, <2>1, UsesAfter
    <2>3. machine[p] # WarmMachine
      BY <2>1 DEF WarmMachine
    <2>4. VacantIsWarm'
      <3>1. \A q \in Pods : Vacant(q)' => Vacant(q)
        BY <2>1, VacantKept
      <3> QED BY <1>1, <2>1, <2>3, <3>1 DEF Safe, VacantIsWarm
    <2> QED BY Zenon, <1>5, <2>1, <2>2, <2>4
  <1>9. ASSUME NEW p \in Pods, TeardownDone(p) PROVE Safe'
    <2>1. /\ UNCHANGED <<lease, wl, pod, cache>> /\ machine[p].state = "releasing"
          /\ machine' = [machine EXCEPT ![p] = TornDown(machine[p])]
      BY <1>9 DEF TeardownDone
    <2>2. TornDown(machine[p]) = WarmMachine
      BY <2>1 DEF TornDown
    <2>3. VacantIsWarm'
      <3>1. \A q \in Pods : Vacant(q)' => Vacant(q)
        BY <2>1, VacantKept
      <3> QED BY <1>1, <2>1, <2>2, <3>1 DEF Safe, VacantIsWarm
    <2>4. \A s \in Slot : ~Uses(WarmMachine, s)
      BY DEF Uses, WarmMachine
    <2> QED BY ZenonT(30), <1>5, <2>1, <2>2, <2>3, <2>4
  <1>10. CASE SyncWorkloads \/ SyncPods
    <2>1. UNCHANGED <<lease, wl, pod, machine>>
      BY <1>10 DEF SyncWorkloads, SyncPods
    <2>2. cache'.pod \in {cache.pod, pod}
      <3>1. cache \in [lease : [Slot -> LeaseObj], wl : [Slot -> WorkloadObj], pod : [Pods -> PodObj]]
        BY DEF Safe, Base, TypeOK
      <3> QED BY <1>10, <3>1 DEF SyncWorkloads, SyncPods
    <2>3. \A q \in Pods : Vacant(q)' => Vacant(q)
      BY <2>1, <2>2 DEF Vacant, SeenPod, Placed, PodsSeen
    <2> QED BY <1>2, <2>1, <2>3, QuietSafe
  <1> QED BY <1>3, <1>4, <1>6, <1>7, <1>8, <1>9, <1>10 DEF Environment, SyncLeases

-----------------------------------------------------------------------------
(* Theorems *)

\* The initial state satisfies it.
LEMMA InitSafe == Init => Safe
  <1> SUFFICES ASSUME Init PROVE Safe
    OBVIOUS
  <1>1. Base
    BY InitBase
  <1>2. gl.pc = "idle" /\ \A s \in Slot : lease[s].phase = "none" /\ wl[s].st = "none"
    BY DEF Init, GLIdle, NoLeases, Absent, NoWorkload
  <1>3. \A p \in Pods : machine[p] = WarmMachine
    BY DEF Init
  <1>4. \A s \in Slot : ~Uses(WarmMachine, s)
    BY DEF Uses, WarmMachine
  <1> QED BY <1>1, <1>2, <1>3, <1>4 DEF Safe, InStep, VacantIsWarm, QuotaReleased, GPUsProtected,
           PodReleased, GPUUseLeased, QuotaFreedFirst, FailedHoldsNoQuota

\* So does every step, while the lease cache is current.
LEMMA NextSafe ==
  ASSUME "lease" \notin Stale, Safe, Placed, Base', [Next]_vars
  PROVE  Safe'
  <1>1. CASE GLNext
    BY <1>1, GLStartSafe, GLUpdatesSafe, GLCallsSafe DEF GLNext, GLCall
  <1>2. CASE WPNext /\ UNCHANGED gl
    BY <1>2, PoolSafe
  <1>3. CASE Environment
    BY <1>3, EnvironmentSafe
  <1>4. CASE UNCHANGED vars
    BY <1>4, VacantKept, QuietSafe DEF vars
  <1> QED BY <1>1, <1>2, <1>3, <1>4 DEF Next
=============================================================================
