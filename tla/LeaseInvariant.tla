--------------------------- MODULE LeaseInvariant ---------------------------
(***************************************************************************)
(* The invariant Base of LeaseSystem, which holds for every cluster, pool  *)
(* and set of faults and however far the caches trail, and its             *)
(* preservation by everything but the two workers; then the invariants     *)
(* Placed, Safe (preserved: LeaseSafetyProofs) and Gated that build on it. *)
(***************************************************************************)
EXTENDS LeaseSystem, TLAPS

-----------------------------------------------------------------------------
(* The inductive invariant Base *)

\* A copy whose resourceVersion is current equals the stored lease.
Copies ==
  \A s \in Slot :
    /\ "cache" \in current[s] => "lease" \in Stale /\ cache.lease[s] = lease[s]
    /\ "gl" \in current[s] => gl.pc # "idle" /\ gl.slot = s /\ gl.lease = lease[s]
    /\ "wp" \in current[s] =>
         wp.pc \in {"sweep", "deleteFailed"} /\ wp.leases[s] = lease[s] /\ Exists(s)

Cleanup == {"deleteWorkload", "releasePod", "revertPod", "setFailed", "removeFinalizer"}

\* Where the GPULease worker is tells the phase of its copy.
Planned(pc, l, failing) ==
  /\ l.phase # "none"
  /\ pc # "addFinalizer" => l.fin
  /\ pc \in {"createWorkload", "recordWorkload", "admitLease"} => l.phase = "Pending"
  /\ pc \in {"activatePod", "setActivating"} => l.phase = "Admitted"
  /\ pc \in {"pollState", "markPodHot", "setBound"} => l.phase = "Activating"
  /\ pc = "setReleasing" => l.del /\ ~failing
  /\ pc \in Cleanup /\ failing => l.phase \in {"Pending", "Admitted", "Activating", "Bound"}
  /\ pc \in Cleanup /\ ~failing => l.phase = "Releasing" /\ l.del
  /\ pc = "setFailed" => failing
  /\ pc = "removeFinalizer" => ~failing

GLPlan == gl.pc # "idle" => gl.slot \in Slot /\ Planned(gl.pc, gl.lease, gl.failing)

\* The WarmPool worker sweeps no lease that it saw being deleted.
WPPlan ==
  /\ wp.pc \in {"sweep", "deleteFailed"} => \A s \in Slot : ~wp.leases[s].del
  /\ wp.pc = "deleteFailed" => wp.slot \in Slot /\ wp.leases[wp.slot].phase = "Failed"
  /\ wp.pc = "labelActivating" => wp.pod \in Pods

\* Only a Failed lease is ever without its finalizer.
FinalizerKept == \A s \in Slot : Exists(s) /\ ~lease[s].fin => lease[s].phase = "Failed"

Base == TypeOK /\ Copies /\ GLPlan /\ WPPlan /\ FinalizerKept

-----------------------------------------------------------------------------
(* Types *)

\* The objects that operators build have their types.
LEMMA Objects ==
  /\ Absent \in LeaseObj /\ NoWorkload \in WorkloadObj
  /\ \A p \in Pods : NewLease(p) \in LeaseObj
  /\ NoLeases \in [Slot -> LeaseObj] /\ NoFree \in [Nodes -> Nat]
  BY DEF Absent, LeaseObj, Stored, NoWorkload, WorkloadObj, NewLease, Phase, NoLeases, NoFree

\* The two workers between reconciles are well typed.
LEMMA IdleWorkers ==
  GLIdle \in GLState /\ WPIdle \in WPState
  BY Objects DEF GLIdle, GLState, GLPc, WPIdle, WPState, WPPc

\* The initial state is well typed.
LEMMA InitType == Init => TypeOK
  <1> SUFFICES ASSUME Init PROVE TypeOK
    OBVIOUS
  <1>1. lease \in [Slot -> LeaseObj] /\ wl \in [Slot -> WorkloadObj]
    BY Objects DEF Init
  <1>2. pod \in [Pods -> PodObj]
    BY SystemAssumption DEF Init, PodObj, PodState
  <1>3. machine \in [Pods -> Machine(Slot)]
    BY DEF Init, Machine
  <1>4. cache \in [lease : [Slot -> LeaseObj], wl : [Slot -> WorkloadObj], pod : [Pods -> PodObj]]
    BY <1>1, <1>2 DEF Init
  <1>5. current \in [Slot -> SUBSET Holder]
    BY DEF Init, Holder
  <1>6. faults \in 0 .. MaxFaults
    BY ClusterAssumption DEF Init
  <1> QED BY <1>1, <1>2, <1>3, <1>4, <1>5, <1>6, IdleWorkers DEF Init, TypeOK

\* What the pods' machines may become.
LEMMA MachineType ==
  ASSUME NEW m \in Machine(Slot), NEW s \in Slot
  PROVE  /\ {Activated(m, s), Released(m)} \subseteq
              Machine(Slot)
         /\ m.state = "activating" => WarmedUp(m) \in Machine(Slot)
  BY DEF Machine, Activated, Released, WarmedUp, WarmMachine, PodState

\* Reading the cache gives objects of the same types.
LEMMA SeenType ==
  ASSUME TypeOK
  PROVE  /\ \A s \in Slot : SeenLease(s) \in LeaseObj /\ SeenWorkload(s) \in WorkloadObj
         /\ \A p \in Pods : SeenPod(p) \in PodObj
  BY DEF TypeOK, SeenLease, SeenWorkload, SeenPod

\* Copying leases from the cache keeps the type of current.
LEMMA CopiedType ==
  ASSUME TypeOK, NEW h \in Holder, NEW S
  PROVE  Copied(h, S) \in [Slot -> SUBSET Holder]
  BY DEF TypeOK, Copied

\* The writes keep the types of what they write.
LEMMA PutLeaseType ==
  ASSUME TypeOK, NEW s \in Slot, NEW l \in LeaseObj, NEW H \in SUBSET Holder, PutLease(s, l, H)
  PROVE  lease' \in [Slot -> LeaseObj] /\ current' \in [Slot -> SUBSET Holder]
         /\ wl' \in [Slot -> WorkloadObj]
  <1>1. lease \in [Slot -> LeaseObj] /\ current \in [Slot -> SUBSET Holder]
        /\ wl \in [Slot -> WorkloadObj]
    BY DEF TypeOK
  <1>2. [wl[s] EXCEPT !.owned = FALSE] \in WorkloadObj
    BY Zenon, <1>1 DEF WorkloadObj
  <1>3. wl' = wl \/ wl' = [wl EXCEPT ![s] = [wl[s] EXCEPT !.owned = FALSE]]
    BY DEF PutLease
  <1>4. wl' \in [Slot -> WorkloadObj]
    BY Zenon, <1>1, <1>2, <1>3
  <1>5. lease' \in [Slot -> LeaseObj] /\ current' \in [Slot -> SUBSET Holder]
    BY <1>1 DEF PutLease
  <1> QED BY <1>4, <1>5

\* Changing a field of a stored lease gives a stored lease.
LEMMA LeaseEdit ==
  ASSUME NEW l \in LeaseObj, l.phase # "none"
  PROVE  /\ l \in Stored
         /\ \A b \in BOOLEAN : {[l EXCEPT !.fin = b], [l EXCEPT !.del = b], [l EXCEPT !.named = b]}
                                 \subseteq Stored
         /\ \A ph \in Phase : [l EXCEPT !.phase = ph] \in Stored
  BY DEF LeaseObj, Absent, Stored

\* DELETE on a lease keeps the types.
LEMMA DeleteLeaseType ==
  ASSUME TypeOK, NEW s \in Slot, DeleteLease(s)
  PROVE  lease' \in [Slot -> LeaseObj] /\ current' \in [Slot -> SUBSET Holder]
         /\ wl' \in [Slot -> WorkloadObj]
  <1>1. CASE ~Exists(s) \/ lease[s].del
    BY <1>1 DEF DeleteLease, TypeOK
  <1>2. CASE ~(~Exists(s) \/ lease[s].del)
    <2> DEFINE l == IF lease[s].fin THEN [lease[s] EXCEPT !.del = TRUE] ELSE Absent
    <2>1. lease[s] \in LeaseObj /\ lease[s].phase # "none"
      BY <1>2 DEF TypeOK, Exists
    <2>2. l \in LeaseObj
      BY Zenon, <2>1, LeaseEdit DEF LeaseObj
    <2>3. PutLease(s, l, {})
      BY <1>2 DEF DeleteLease
    <2> QED BY <2>2, <2>3, PutLeaseType
  <1> QED BY <1>1, <1>2

\* A label patch keeps the type of the pods.
LEMMA PatchLabelType ==
  ASSUME TypeOK, NEW p \in Pods, NEW seen, NEW l \in PodState \cup {""}, PatchLabel(p, seen, l)
  PROVE  pod' \in [Pods -> PodObj]
  <1>1. pod \in [Pods -> PodObj]
    BY DEF TypeOK
  <1>2. [pod[p] EXCEPT !.label = l] \in PodObj
    BY <1>1 DEF PodObj
  <1> QED BY <1>1, <1>2 DEF PatchLabel

\* The fault budget is never exceeded.
LEMMA FaultType ==
  ASSUME TypeOK, NEW k, Fault(k)
  PROVE  faults' \in 0 .. MaxFaults
  <1>1. faults \in 0 .. MaxFaults /\ MaxFaults \in Nat
    BY ClusterAssumption DEF TypeOK
  <1> QED BY <1>1 DEF Fault

-----------------------------------------------------------------------------
(* Steps of leases *)

LeaseSteps == \A s \in Slot : LeaseStep(lease[s], lease[s]')

\* A step that touches no lease keeps every lease on its state machine.
LEMMA NoLeaseStep == lease' = lease => LeaseSteps
  BY DEF LeaseSteps, LeaseStep

\* Writing one lease is a step of that lease alone.
LEMMA OneLeaseStep ==
  ASSUME TypeOK, NEW s \in Slot, NEW l, lease' = [lease EXCEPT ![s] = l], LeaseStep(lease[s], l)
  PROVE  LeaseSteps
  <1>1. lease \in [Slot -> LeaseObj]
    BY DEF TypeOK
  <1>2. \A t \in Slot : lease'[t] = IF t = s THEN l ELSE lease[t]
    BY <1>1
  <1>3. \A t \in Slot : LeaseStep(lease[t], lease[t])
    BY DEF LeaseStep
  <1> QED BY <1>2, <1>3 DEF LeaseSteps

\* A cached lease is the stored one if the cache is current.
LEMMA SeenCurrent ==
  ASSUME Base, NEW s \in Slot, "lease" \in Stale => "cache" \in current[s]
  PROVE  SeenLease(s) = lease[s]
  BY DEF Base, Copies, SeenLease

\* A step that writes one lease, with or without the worker keeping a copy.
LEMMA WPWriteBase ==
  ASSUME Base, UNCHANGED <<gl, cache>>, NEW s \in Slot, NEW new \in LeaseObj, NEW H \in {{}, {"wp"}},
         lease' = [lease EXCEPT ![s] = new], current' = [current EXCEPT ![s] = H],
         LeaseStep(lease[s], new), new.phase # "none" /\ ~new.fin => new.phase = "Failed",
         H # {} => wp'.pc \in {"sweep", "deleteFailed"} /\ wp'.leases[s] = new /\ new.phase # "none",
         \A t \in Slot \ {s} : "wp" \in current[t] =>
           wp'.pc \in {"sweep", "deleteFailed"} /\ wp'.leases[t] = wp.leases[t]
  PROVE  Copies' /\ GLPlan' /\ FinalizerKept' /\ LeaseSteps
  <1>1. lease \in [Slot -> LeaseObj] /\ current \in [Slot -> SUBSET Holder]
    BY DEF Base, TypeOK
  <1>2. ASSUME NEW t \in Slot
        PROVE  (/\ "cache" \in current[t] => "lease" \in Stale /\ cache.lease[t] = lease[t]
                /\ "gl" \in current[t] => gl.pc # "idle" /\ gl.slot = t /\ gl.lease = lease[t]
                /\ "wp" \in current[t] =>
                     wp.pc \in {"sweep", "deleteFailed"} /\ wp.leases[t] = lease[t] /\ Exists(t))'
    <2>1. CASE t # s
      <3>1. lease'[t] = lease[t] /\ current'[t] = current[t]
        BY <1>1, <2>1
      <3> QED BY <2>1, <3>1 DEF Base, Copies, Exists
    <2>2. CASE t = s
      <3>1. lease'[t] = new /\ current'[t] = H /\ "gl" \notin H /\ "cache" \notin H
        BY <1>1, <2>2
      <3> QED BY <2>2, <3>1 DEF Exists
    <2> QED BY <2>1, <2>2
  <1>3. Copies'
    BY <1>2 DEF Copies
  <1>4. FinalizerKept'
    BY <1>1 DEF Base, FinalizerKept, Exists
  <1>5. LeaseSteps
    BY Zenon, OneLeaseStep DEF Base
  <1> QED BY <1>3, <1>4, <1>5 DEF Base, GLPlan

\* A DELETE either finds nothing to do, or marks the lease, or removes a Failed
\* one that has no finalizer any more.
LEMMA DeleteLeaseStep ==
  ASSUME Base, NEW s \in Slot, DeleteLease(s)
  PROVE  \/ UNCHANGED <<lease, current, wl>> /\ (~Exists(s) \/ lease[s].del)
         \/ \E new \in LeaseObj :
              /\ PutLease(s, new, {}) /\ LeaseStep(lease[s], new)
              /\ new.phase # "none" => new.fin
              /\ \/ /\ Exists(s) /\ lease[s].fin /\ new.fin /\ new.del
                    /\ new.phase = lease[s].phase /\ new.claim = lease[s].claim
                 \/ ~lease[s].fin /\ lease[s].phase = "Failed" /\ new = Absent
  <1>1. CASE ~Exists(s) \/ lease[s].del
    BY <1>1 DEF DeleteLease
  <1>2. CASE ~(~Exists(s) \/ lease[s].del)
    <2>1. lease[s] \in LeaseObj /\ lease[s].phase # "none"
      BY <1>2 DEF Base, TypeOK, Exists
    <2>2. lease[s] \in Stored
      BY <2>1, LeaseEdit
    <2>3. CASE lease[s].fin
      <3> DEFINE new == [lease[s] EXCEPT !.del = TRUE]
      <3>1. new \in LeaseObj /\ new.fin /\ new.del /\ new.phase = lease[s].phase
            /\ new.claim = lease[s].claim
        BY Zenon, <2>2, <2>3 DEF LeaseObj, Stored
      <3>2. PutLease(s, new, {})
        BY <1>2, <2>3 DEF DeleteLease
      <3> HIDE DEF new
      <3>3. LeaseStep(lease[s], new)
        BY <3>1 DEF LeaseStep
      <3> QED BY <1>2, <2>3, <3>1, <3>2, <3>3
    <2>4. CASE ~lease[s].fin
      <3>1. lease[s].phase = "Failed"
        BY <1>2, <2>4 DEF Base, FinalizerKept
      <3>2. PutLease(s, Absent, {})
        BY <1>2, <2>4 DEF DeleteLease
      <3>3. LeaseStep(lease[s], Absent) /\ Absent.phase = "none"
        BY <3>1 DEF LeaseStep, PhaseEdge, Absent
      <3> QED BY <2>4, <3>1, <3>2, <3>3, Objects
    <2> QED BY <2>3, <2>4
  <1> QED BY <1>1, <1>2

-----------------------------------------------------------------------------
(* Initial states and everything but the workers *)

\* The initial state satisfies Base.
LEMMA InitBase == Init => Base
  <1> SUFFICES ASSUME Init PROVE Base
    OBVIOUS
  <1>1. lease = NoLeases /\ cache.lease = lease /\ gl.pc = "idle" /\ wp.pc = "idle"
        /\ \A s \in Slot : current[s] \subseteq {"cache"} /\ ("lease" \notin Stale => current[s] = {})
    BY DEF Init, GLIdle, WPIdle
  <1>2. \A s \in Slot : ~Exists(s)
    BY <1>1 DEF Exists, NoLeases, Absent
  <1>3. Copies
    BY <1>1 DEF Copies
  <1>4. GLPlan /\ WPPlan /\ FinalizerKept
    BY <1>1, <1>2 DEF GLPlan, WPPlan, FinalizerKept
  <1> QED BY <1>3, <1>4, InitType DEF Base

\* What the rest of the cluster does preserves Base.
LEMMA EnvironmentBase ==
  ASSUME Base, Environment
  PROVE  Base' /\ LeaseSteps
  <1>1. /\ lease \in [Slot -> LeaseObj] /\ wl \in [Slot -> WorkloadObj] /\ pod \in [Pods -> PodObj]
        /\ machine \in [Pods -> Machine(Slot)] /\ faults \in 0 .. MaxFaults
        /\ current \in [Slot -> SUBSET Holder]
        /\ cache \in [lease : [Slot -> LeaseObj], wl : [Slot -> WorkloadObj], pod : [Pods -> PodObj]]
    BY DEF Base, TypeOK
  <1>2. UNCHANGED <<gl, wp>>
    BY DEF Environment, KueueAdmit, KueueInadmissible, KueueEvict, CollectWorkload, OperatorDelete, SetPod,
           PodCreate, PodReady, PodDelete, PodGone, ContainerRestart, WarmupDone, TeardownDone,
           SyncLeases, SyncWorkloads, SyncPods
  <1>3. ASSUME UNCHANGED <<lease, cache, current>>, wl' \in [Slot -> WorkloadObj],
               pod' \in [Pods -> PodObj], machine' \in [Pods -> Machine(Slot)], faults' \in 0 .. MaxFaults
        PROVE  Base' /\ LeaseSteps
    <2>1. TypeOK'
      BY <1>2, <1>3 DEF Base, TypeOK
    <2>2. Copies' /\ GLPlan' /\ WPPlan' /\ FinalizerKept'
      BY <1>2, <1>3 DEF Base, Copies, GLPlan, WPPlan, FinalizerKept, Exists
    <2> QED BY <1>3, <2>1, <2>2, NoLeaseStep DEF Base
  <1>4. ASSUME NEW s \in Slot, KueueAdmit(s) \/ KueueInadmissible(s) \/ KueueEvict(s) \/ CollectWorkload(s)
        PROVE  Base' /\ LeaseSteps
    <2>1. \A st \in {"pending", "admitted", "inadmissible"} : [wl[s] EXCEPT !.st = st] \in WorkloadObj
      BY <1>1 DEF WorkloadObj
    <2>2. \/ \E st \in {"pending", "admitted", "inadmissible"} :
               wl' = [wl EXCEPT ![s] = [wl[s] EXCEPT !.st = st]]
          \/ wl' = [wl EXCEPT ![s] = NoWorkload]
      BY <1>4 DEF KueueAdmit, KueueInadmissible, KueueEvict, CollectWorkload
    <2>3. wl' \in [Slot -> WorkloadObj]
      BY <1>1, <2>1, <2>2, Objects
    <2>4. faults' \in 0 .. MaxFaults /\ UNCHANGED <<lease, cache, current, pod, machine>>
      BY <1>1, <1>4, FaultType DEF KueueAdmit, KueueInadmissible, KueueEvict, CollectWorkload, Base
    <2> QED BY <1>1, <1>3, <2>3, <2>4
  <1>5. ASSUME NEW s \in Slot, OperatorDelete(s) PROVE Base' /\ LeaseSteps
    <2>1. DeleteLease(s) /\ UNCHANGED <<pod, machine, cache>> /\ faults' \in 0 .. MaxFaults
      BY <1>5, FaultType DEF OperatorDelete, Base
    <2>2. TypeOK'
      BY <1>2, <2>1, DeleteLeaseType DEF Base, TypeOK
    <2>3. CASE UNCHANGED <<lease, current, wl>>
      BY <1>2, <2>1, <2>2, <2>3, NoLeaseStep DEF Base, Copies, GLPlan, WPPlan, FinalizerKept, Exists
    <2>4. ASSUME NEW new \in LeaseObj, PutLease(s, new, {}), LeaseStep(lease[s], new),
                 new.phase # "none" => new.fin
          PROVE  Base' /\ LeaseSteps
      <3>1. lease' = [lease EXCEPT ![s] = new] /\ current' = [current EXCEPT ![s] = {}]
        BY <2>4 DEF PutLease
      <3>2. \A t \in Slot : "wp" \in current[t] =>
              wp'.pc \in {"sweep", "deleteFailed"} /\ wp'.leases[t] = wp.leases[t]
        BY <1>2 DEF Base, Copies
      <3>3. Copies' /\ GLPlan' /\ FinalizerKept' /\ LeaseSteps
        BY Zenon, <1>2, <2>1, <2>4, <3>1, <3>2, WPWriteBase
      <3> QED BY <1>2, <2>2, <3>3 DEF Base, WPPlan
    <2> QED BY <2>1, <2>3, <2>4, DeleteLeaseStep
  <1>6. ASSUME NEW p \in Pods,
               \/ PodCreate(p) \/ PodReady(p) \/ PodDelete(p) \/ PodGone(p)
               \/ ContainerRestart(p) \/ WarmupDone(p) \/ TeardownDone(p)
        PROVE  Base' /\ LeaseSteps
    <2>1. \A st \in {"unready", "ready", "terminating", "gone"} : [pod[p] EXCEPT !.st = st] \in PodObj
      BY <1>1 DEF PodObj
    <2>2. \/ pod' = pod
          \/ \E st \in {"unready", "ready", "terminating", "gone"} :
               pod' = [pod EXCEPT ![p] = [pod[p] EXCEPT !.st = st]]
      BY <1>6 DEF PodCreate, PodReady, PodDelete, PodGone, ContainerRestart, WarmupDone, TeardownDone, SetPod
    <2>3. pod' \in [Pods -> PodObj]
      BY <1>1, <2>1, <2>2
    <2>4. \/ machine' = machine
          \/ machine' = [machine EXCEPT ![p] = WarmMachine]
          \/ machine' = [machine EXCEPT ![p] = WarmedUp(machine[p])] /\ machine[p].state = "activating"
      BY <1>6 DEF PodCreate, PodReady, PodDelete, PodGone, ContainerRestart, WarmupDone, TeardownDone, TornDown
    <2>5. /\ WarmMachine \in Machine(Slot)
          /\ machine[p].state = "activating" => WarmedUp(machine[p]) \in Machine(Slot)
      BY <1>1 DEF Machine, WarmMachine, WarmedUp, PodState
    <2>6. machine' \in [Pods -> Machine(Slot)]
      BY <1>1, <2>4, <2>5
    <2>7. faults' \in 0 .. MaxFaults /\ UNCHANGED <<lease, cache, current, wl>>
      BY <1>1, <1>6, FaultType DEF PodCreate, PodReady, PodDelete, PodGone, ContainerRestart,
                                   WarmupDone, TeardownDone, SetPod, Base
    <2> QED BY <1>1, <1>3, <2>3, <2>6, <2>7
  <1>7. CASE SyncWorkloads \/ SyncPods
    <2>1. UNCHANGED <<lease, wl, pod, machine, current, faults>>
      BY <1>7 DEF SyncWorkloads, SyncPods
    <2>2. /\ cache' \in [lease : [Slot -> LeaseObj], wl : [Slot -> WorkloadObj], pod : [Pods -> PodObj]]
          /\ cache'.lease = cache.lease
      BY <1>1, <1>7 DEF SyncWorkloads, SyncPods
    <2>3. TypeOK'
      BY <1>2, <2>1, <2>2 DEF Base, TypeOK
    <2>4. Copies'
      BY <1>2, <2>1, <2>2 DEF Base, Copies, Exists
    <2> QED BY <1>2, <2>1, <2>3, <2>4, NoLeaseStep DEF Base, GLPlan, WPPlan, FinalizerKept, Exists
  <1>8. CASE SyncLeases
    <2>1. UNCHANGED <<lease, wl, pod, machine, faults>> /\ "lease" \in Stale
          /\ current' = [s \in Slot |-> current[s] \cup {"cache"}]
      BY <1>8 DEF SyncLeases
    <2>2. /\ cache' \in [lease : [Slot -> LeaseObj], wl : [Slot -> WorkloadObj], pod : [Pods -> PodObj]]
          /\ cache'.lease = lease
      BY <1>1, <1>8 DEF SyncLeases
    <2>3. current' \in [Slot -> SUBSET Holder]
      BY <1>1, <2>1 DEF Holder
    <2>4. TypeOK'
      BY <1>2, <2>1, <2>2, <2>3 DEF Base, TypeOK
    <2>5. \A t \in Slot : /\ "gl" \in current'[t] => "gl" \in current[t]
                          /\ "wp" \in current'[t] => "wp" \in current[t]
      BY <2>1
    <2>6. Copies'
      BY <1>2, <2>1, <2>2, <2>5 DEF Base, Copies, Exists
    <2> QED BY <1>2, <2>1, <2>4, <2>6, NoLeaseStep DEF Base, GLPlan, WPPlan, FinalizerKept, Exists
  <1> QED BY <1>4, <1>5, <1>6, <1>7, <1>8 DEF Environment

-----------------------------------------------------------------------------
(* The inductive invariant Placed, which holds however far the caches trail *)

\* The pod cache trails the pods in their own order.
PodsSeen ==
  \A p \in Pods : /\ SeenPod(p).st = "gone" => pod[p].st = "gone"
                  /\ pod[p].st = "none" => SeenPod(p).st = "none"

\* A lease l of slot s claims a pod of its own node that the cache has shown.
Fits(s, l) == l.phase # "none" => NodeOf[l.claim] = s[1] /\ SeenPod(l.claim).st # "none"

\* So do the copies of it that workers act on; a machine uses its node's GPUs.
Placed ==
  /\ PodsSeen
  /\ \A s \in Slot : Fits(s, lease[s]) /\ Fits(s, cache.lease[s])
  /\ gl.pc # "idle" => Fits(gl.slot, gl.lease)
  /\ \A p \in wp.cands : SeenPod(p).st # "none"
  /\ UsesOwnNode

\* A step that unsees no pod, creates leases only in their place, and gives no
\* worker a copy or candidate, and no machine a GPU, out of place.
LEMMA PlacedMove ==
  ASSUME Base, Base', Placed, LeaseSteps, PodsSeen',
         \A p \in Pods : SeenPod(p)'.st = "none" => SeenPod(p).st = "none",
         \A s \in Slot : ~Exists(s) => Fits(s, lease'[s]),
         cache'.lease \in {cache.lease, lease},
         gl'.pc # "idle" => Fits(gl'.slot, gl'.lease),
         \A p \in wp'.cands : SeenPod(p).st # "none",
         \A p \in Pods, s \in Slot : Uses(machine'[p], s) => Uses(machine[p], s) \/ s[1] = NodeOf[p]
  PROVE  Placed'
  <1>1. ASSUME NEW s \in Slot PROVE Fits(s, lease[s])'
    <2>1. lease'[s] \in LeaseObj /\ LeaseStep(lease[s], lease'[s])
      BY DEF Base, TypeOK, LeaseSteps
    <2>2. Fits(s, lease'[s])
      BY <2>1 DEF Placed, Fits, Exists, LeaseStep
    <2>3. lease'[s].phase # "none" => lease'[s].claim \in Pods
      BY <2>1, LeaseEdit DEF Stored
    <2> QED BY <2>2, <2>3 DEF Fits, SeenPod
  <1>2. ASSUME NEW s \in Slot PROVE Fits(s, cache.lease[s])'
    <2>1. cache'.lease[s] \in LeaseObj /\ Fits(s, cache'.lease[s])
      <3>1. cache'.lease[s] = cache.lease[s] \/ cache'.lease[s] = lease[s]
        OBVIOUS
      <3> QED BY <3>1 DEF Base, TypeOK, Placed
    <2>2. cache'.lease[s].phase # "none" => cache'.lease[s].claim \in Pods
      BY <2>1, LeaseEdit DEF Stored
    <2> QED BY <2>1, <2>2 DEF Fits, SeenPod
  <1>3. (gl.pc # "idle" => Fits(gl.slot, gl.lease))'
    <2>1. gl'.lease \in LeaseObj
      BY DEF Base, TypeOK, GLState
    <2>2. gl'.lease.phase # "none" => gl'.lease.claim \in Pods
      BY <2>1, LeaseEdit DEF Stored
    <2> QED BY <2>2 DEF Fits, SeenPod
  <1>4. \A p \in wp'.cands : SeenPod(p)'.st # "none"
    BY DEF Base, TypeOK, WPState
  <1>5. UsesOwnNode'
    BY DEF Placed, UsesOwnNode
  <1> QED BY <1>1, <1>2, <1>3, <1>4, <1>5 DEF Placed, SeenPod

\* Nothing a worker does changes which pods the cache shows.
LEMMA SeenKept ==
  ASSUME Placed, UNCHANGED cache, \A p \in Pods : pod'[p].st = pod[p].st
  PROVE  PodsSeen' /\ \A p \in Pods : SeenPod(p)'.st = SeenPod(p).st
  BY DEF Placed, PodsSeen, SeenPod

\* Pods never go back to not existing, caches only catch up, and no machine
\* takes a GPU of its own accord.
LEMMA EnvironmentPlaced ==
  ASSUME Base, Base', Placed, LeaseSteps, Environment
  PROVE  Placed'
  <1>1. /\ TypeOK /\ pod \in [Pods -> PodObj] /\ machine \in [Pods -> Machine(Slot)]
        /\ PodsSeen
    BY DEF Base, TypeOK, Placed
  <1>2. UNCHANGED <<gl, wp>>
    BY DEF Environment, KueueAdmit, KueueInadmissible, KueueEvict, CollectWorkload, OperatorDelete,
           PodCreate, PodReady, PodDelete, PodGone, ContainerRestart, WarmupDone, TeardownDone, SetPod,
           SyncLeases, SyncWorkloads, SyncPods
  <1>3. PodsSeen' /\ \A p \in Pods : SeenPod(p)'.st = "none" => SeenPod(p).st = "none"
    <2>1. CASE UNCHANGED <<pod, cache>>
      BY <1>1, <2>1 DEF PodsSeen, SeenPod
    <2>2. ASSUME NEW p \in Pods, NEW st, SetPod(p, st),
                 st \in {"unready", "ready", "terminating", "gone"}, pod[p].st # "gone"
          PROVE  PodsSeen' /\ \A q \in Pods : SeenPod(q)'.st = "none" => SeenPod(q).st = "none"
      <3>1. \A q \in Pods : pod'[q].st = IF q = p THEN st ELSE pod[q].st
        BY <1>1, <2>2 DEF SetPod, PodObj
      <3>2. cache' = cache
        BY <2>2 DEF SetPod
      <3> QED BY <1>1, <2>2, <3>1, <3>2 DEF PodsSeen, SeenPod
    <2>3. ASSUME NEW p \in Pods,
                 PodCreate(p) \/ PodReady(p) \/ PodDelete(p) \/ PodGone(p) \/ ContainerRestart(p)
          PROVE  PodsSeen' /\ \A q \in Pods : SeenPod(q)'.st = "none" => SeenPod(q).st = "none"
      BY <2>2, <2>3 DEF PodCreate, PodReady, PodDelete, PodGone, ContainerRestart
    <2>4. CASE SyncLeases \/ SyncWorkloads
      <3>1. pod' = pod /\ cache'.pod = cache.pod
        BY <1>1, <2>4 DEF SyncLeases, SyncWorkloads, TypeOK
      <3> QED BY <1>1, <3>1 DEF PodsSeen, SeenPod
    <2>5. CASE SyncPods
      <3>1. pod' = pod /\ cache'.pod = pod /\ "pod" \in Stale
        BY <1>1, <2>5 DEF SyncPods, TypeOK
      <3> QED BY <1>1, <3>1 DEF PodsSeen, SeenPod
    <2> QED BY <2>1, <2>3, <2>4, <2>5
            DEF Environment, KueueAdmit, KueueInadmissible, KueueEvict, CollectWorkload,
                OperatorDelete, WarmupDone, TeardownDone
  <1>4. ASSUME NEW s \in Slot, ~Exists(s) PROVE Fits(s, lease'[s])
    <2>1. CASE lease'[s] = lease[s]
      BY <2>1 DEF Placed
    <2>2. ASSUME NEW t \in Slot, OperatorDelete(t) PROVE lease'[s] = lease[s]
      BY <1>1, <1>4, <2>2 DEF OperatorDelete, DeleteLease, PutLease, TypeOK
    <2> QED BY <2>1, <2>2
            DEF Environment, KueueAdmit, KueueInadmissible, KueueEvict, CollectWorkload,
                PodCreate, PodReady, PodDelete, PodGone, ContainerRestart, WarmupDone,
                TeardownDone, SetPod, SyncLeases, SyncWorkloads, SyncPods
  <1>5. cache'.lease \in {cache.lease, lease}
    <2>1. CASE SyncLeases \/ SyncWorkloads \/ SyncPods
      BY <1>1, <2>1 DEF SyncLeases, SyncWorkloads, SyncPods, TypeOK
    <2> QED BY <2>1 DEF Environment, KueueAdmit, KueueInadmissible, KueueEvict, CollectWorkload,
                OperatorDelete, PodCreate, PodReady, PodDelete, PodGone, ContainerRestart, WarmupDone,
                TeardownDone, SetPod
  <1>6. ASSUME NEW p \in Pods, NEW s \in Slot, Uses(machine'[p], s) PROVE Uses(machine[p], s)
    <2>1. CASE machine' = machine
      BY <1>6, <2>1
    <2>2. ASSUME NEW q \in Pods, PodGone(q) \/ ContainerRestart(q) \/ WarmupDone(q) \/ TeardownDone(q)
          PROVE  Uses(machine[p], s)
      <3>1. \/ machine'[p] = machine[p] \/ machine'[p] = WarmMachine
            \/ machine[p].state = "activating" /\ machine'[p] = WarmedUp(machine[p])
        BY <1>1, <2>2 DEF PodGone, ContainerRestart, WarmupDone, TeardownDone, TornDown
      <3> QED BY <1>1, <1>6, <3>1 DEF Uses, WarmedUp, WarmMachine, Machine, PodState
    <2> QED BY <2>1, <2>2
            DEF Environment, KueueAdmit, KueueInadmissible, KueueEvict, CollectWorkload,
                OperatorDelete, PodCreate, PodReady, PodDelete, SetPod, SyncLeases, SyncWorkloads, SyncPods
  <1>7. gl'.pc # "idle" => Fits(gl'.slot, gl'.lease)
    BY <1>2 DEF Placed
  <1>8. \A p \in wp'.cands : SeenPod(p).st # "none"
    BY <1>2 DEF Placed
  <1> QED BY ZenonT(30), <1>3, <1>4, <1>5, <1>6, <1>7, <1>8, PlacedMove

-----------------------------------------------------------------------------
(* The inductive invariant Safe, for a current lease cache *)

\* Under the GPULease worker nobody else moves its lease to another phase.
InStep ==
  gl.pc \notin {"idle", "addFinalizer"} =>
    /\ lease[gl.slot].phase = gl.lease.phase
    /\ lease[gl.slot].claim = gl.lease.claim
    /\ lease[gl.slot].fin
    /\ gl.lease.del => lease[gl.slot].del

\* A pod that is gone, or that the cache has not shown yet, runs nothing.
Vacant(p) == SeenPod(p).st = "none" \/ pod[p].st = "gone"

VacantIsWarm == \A p \in Pods : Vacant(p) => machine[p] = WarmMachine

\* Past deleteWorkload the quota is free, past releasePod the GPU is.
QuotaReleased ==
  gl.pc \in {"releasePod", "revertPod", "setFailed", "removeFinalizer"} => wl[gl.slot].st = "none"

PodReleased ==
  gl.pc \in {"revertPod", "setFailed", "removeFinalizer"} =>
    \A p \in Pods : ~Uses(machine[p], gl.slot)

\* What needs every DELETE /lease to arrive; the quota does not.
GPUsProtected == "lostDelete" \notin FaultKinds => PodReleased /\ GPUUseLeased

Safe ==
  /\ Base /\ InStep /\ VacantIsWarm /\ QuotaReleased
  /\ GPUsProtected /\ QuotaFreedFirst /\ FailedHoldsNoQuota

-----------------------------------------------------------------------------
(* The inductive invariant Gated: quota gates activation *)

\* The Workload that admits a lease stays admitted until the lease is written,
\* and no Workload is left to the garbage collector.
Gated ==
  /\ gl.pc = "admitLease" => wl[gl.slot].st = "admitted"
  /\ \A s \in Slot : wl[s].st # "none" => wl[s].owned

\* A step keeps Gated and admits no lease whose Workload is not admitted.
GateHolds ==
  /\ Gated'
  /\ \A s \in Slot : lease[s].phase = "Pending" /\ lease'[s].phase = "Admitted"
                       => wl[s].st = "admitted"

\* A lease that a step stores or removes keeps its Workload's state, and leaves
\* it owned while there is one.
LEMMA PutGated ==
  ASSUME Base, Safe', Gated, NEW s \in Slot, NEW l, NEW H, PutLease(s, l, H)
  PROVE  \A t \in Slot : wl'[t].st = wl[t].st /\ (wl'[t].st # "none" => wl'[t].owned)
  <1>1. wl \in [Slot -> WorkloadObj] /\ lease \in [Slot -> LeaseObj]
    BY DEF Base, TypeOK
  <1>2. CASE l.phase # "none"
    BY <1>2 DEF PutLease, Gated
  <1>3. CASE l.phase = "none"
    <2>1. wl' = [wl EXCEPT ![s].owned = FALSE] /\ lease'[s] = l
      BY <1>1, <1>3 DEF PutLease
    <2>2. \A t \in Slot : wl'[t].st = wl[t].st /\ (t # s => wl'[t] = wl[t])
      BY <1>1, <2>1 DEF WorkloadObj
    <2>3. wl'[s].st = "none"
      BY <1>3, <2>1 DEF Safe, QuotaFreedFirst, Exists
    <2> QED BY <2>2, <2>3 DEF Gated
  <1> QED BY <1>2, <1>3

\* So does DELETE on a lease, which admits none.
LEMMA DeleteGated ==
  ASSUME Base, Safe', Gated, NEW s \in Slot, DeleteLease(s), UNCHANGED gl
  PROVE  GateHolds
  <1>1. lease \in [Slot -> LeaseObj] /\ (gl.pc # "idle" => gl.slot \in Slot)
    BY DEF Base, TypeOK, GLPlan
  <1>2. \A t \in Slot : wl'[t].st = wl[t].st /\ (wl'[t].st # "none" => wl'[t].owned)
    BY PutGated DEF DeleteLease, Gated
  <1>3. \A t \in Slot : lease'[t].phase = lease[t].phase \/ lease'[t].phase = "none"
    <2>1. CASE lease' = lease
      BY <2>1
    <2>2. CASE lease' = [lease EXCEPT ![s] = Absent]
      BY <1>1, <2>2 DEF Absent
    <2>3. CASE lease' = [lease EXCEPT ![s] = [lease[s] EXCEPT !.del = TRUE]]
      BY <1>1, <2>3 DEF LeaseObj, Absent, Stored
    <2> QED BY <2>1, <2>2, <2>3 DEF DeleteLease, PutLease
  <1> QED BY <1>1, <1>2, <1>3 DEF Gated, GateHolds

\* Kueue admits but does not evict, and an owned Workload is not collected.
LEMMA EnvironmentGated ==
  ASSUME "evict" \notin FaultKinds, Base, Safe', Gated, Environment
  PROVE  GateHolds
  <1>1. wl \in [Slot -> WorkloadObj] /\ (gl.pc # "idle" => gl.slot \in Slot)
    BY DEF Base, TypeOK, GLPlan
  <1>2. ASSUME UNCHANGED <<lease, wl, gl>> PROVE GateHolds
    BY <1>2 DEF Gated, GateHolds
  <1>3. ASSUME NEW s \in Slot, KueueAdmit(s) \/ KueueInadmissible(s) PROVE GateHolds
    <2>1. UNCHANGED <<lease, gl>> /\ wl[s].st = "pending"
      BY <1>3 DEF KueueAdmit, KueueInadmissible
    <2>2. \A t \in Slot : (t # s => wl'[t] = wl[t]) /\ wl'[t].owned = wl[t].owned
      BY <1>1, <1>3 DEF KueueAdmit, KueueInadmissible, WorkloadObj
    <2> QED BY <1>1, <2>1, <2>2 DEF Gated, GateHolds
  <1>4. ASSUME NEW s \in Slot PROVE ~KueueEvict(s) /\ ~CollectWorkload(s)
    BY DEF KueueEvict, CollectWorkload, Fault, Gated
  <1>5. ASSUME NEW s \in Slot, OperatorDelete(s) PROVE GateHolds
    BY <1>5, DeleteGated DEF OperatorDelete
  <1> QED BY <1>2, <1>3, <1>4, <1>5
          DEF Environment, PodCreate, PodReady, PodDelete, PodGone, ContainerRestart, WarmupDone,
              TeardownDone, SetPod, SyncLeases, SyncWorkloads, SyncPods
=============================================================================
