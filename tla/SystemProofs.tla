---------------------------- MODULE SystemProofs ----------------------------
(***************************************************************************)
(* How every step of LeaseSystem moves the GPU ledger and the hot labels,  *)
(* for every cluster and pool.  LeaseTheorems draws the conclusions.       *)
(***************************************************************************)
EXTENDS LeaseInvariant

-----------------------------------------------------------------------------
(* The shape of a step: it writes one lease or moves one machine. *)

OneLease == machine' = machine /\ \E s \in Slot : \A t \in Slot \ {s} : lease'[t] = lease[t]

\* A machine that comes to use a GPU used none before.
OneMachine ==
  /\ lease' = lease
  /\ \E p \in Pods :
       /\ \A q \in Pods \ {p} : machine'[q] = machine[q]
       /\ \A s \in Slot : Uses(machine'[p], s) =>
            Uses(machine[p], s) \/ \A t \in Slot : ~Uses(machine[p], t)

Shaped == UNCHANGED <<lease, machine>> \/ OneLease \/ OneMachine

\* A write to one lease has the shape.
LEMMA PutShape ==
  ASSUME TypeOK, NEW s \in Slot, NEW l, NEW H, PutLease(s, l, H), machine' = machine
  PROVE  Shaped
  BY DEF TypeOK, PutLease, Shaped, OneLease

\* So has DELETE on a lease.
LEMMA DeleteShape ==
  ASSUME TypeOK, NEW s \in Slot, DeleteLease(s), machine' = machine
  PROVE  Shaped
  <1>1. CASE UNCHANGED lease
    BY <1>1 DEF Shaped
  <1>2. CASE \E l, H : PutLease(s, l, H)
    BY <1>2, PutShape
  <1> QED BY <1>1, <1>2 DEF DeleteLease

\* So has a call that moves the machine of pod p to one of these.
LEMMA MachineShape ==
  ASSUME TypeOK, NEW p \in Pods, NEW s \in Slot, lease' = lease,
         \/ machine' = [machine EXCEPT ![p] = Activated(machine[p], s)]
         \/ machine' = [machine EXCEPT ![p] = Released(machine[p])]
         \/ machine' = [machine EXCEPT ![p] = WarmMachine]
         \/ machine[p].state = "activating" /\ machine' = [machine EXCEPT ![p] = WarmedUp(machine[p])]
  PROVE  Shaped
  <1>1. PICK m : /\ machine' = [machine EXCEPT ![p] = m]
                 /\ \/ m = Activated(machine[p], s) \/ m = Released(machine[p]) \/ m = WarmMachine
                    \/ machine[p].state = "activating" /\ m = WarmedUp(machine[p])
    OBVIOUS
  <1>2. machine \in [Pods -> Machine(Slot)]
    BY DEF TypeOK
  <1>3. machine'[p] = m /\ \A q \in Pods \ {p} : machine'[q] = machine[q]
    BY <1>1, <1>2
  <1>4. machine[p] \in Machine(Slot)
    BY <1>2
  <1>5. ASSUME NEW t \in Slot, Uses(m, t)
        PROVE  Uses(machine[p], t) \/ \A u \in Slot : ~Uses(machine[p], u)
    BY <1>1, <1>4, <1>5 DEF Uses, Activated, Released, WarmedUp, WarmMachine, Machine, PodState
  <1> QED BY <1>3, <1>5 DEF Shaped, OneMachine

\* Every step of the GPULease worker has the shape.
LEMMA GLShape == ASSUME Base, GLNext PROVE Shaped
  <1>1. CASE UNCHANGED <<lease, machine>>
    BY <1>1 DEF Shaped
  <1>2. TypeOK /\ (gl.pc # "idle" => gl.slot \in Slot)
    BY DEF Base, GLPlan
  <1>3. gl.pc # "idle" => gl.lease.claim \in Pods
    <2>1. gl.pc # "idle" => gl.lease.phase # "none" /\ gl.lease \in LeaseObj
      BY DEF Base, GLPlan, Planned, TypeOK, GLState
    <2> QED BY <2>1 DEF LeaseObj, Absent, Stored
  <1>4. ASSUME NEW s \in Slot, GLStart(s) PROVE UNCHANGED <<lease, machine>>
    BY <1>4 DEF GLStart, beginDeletion, beginAddFinalizer, reconcilePending, admissionTimeout,
                reconcileAdmitted, reconcileActivating, reconcileBound, GLBeginFailing, GLBegin
  <1>5. ASSUME NEW at, NEW new, NEW then, at # "idle", GLUpdate(at, new, then) PROVE Shaped
    <2>1. machine' = machine /\ gl.slot \in Slot
      BY <1>2, <1>5 DEF GLUpdate
    <2>2. lease' = lease \/ \E H : PutLease(gl.slot, new, H)
      BY <1>5 DEF GLUpdate
    <2> QED BY <1>1, <1>2, <2>1, <2>2, PutShape
  <1>6. CASE \/ addFinalizer \/ recordWorkload \/ admitLease \/ setActivating \/ setBound
             \/ setFailed \/ setReleasing \/ removeFinalizer
    BY <1>5, <1>6 DEF addFinalizer, recordWorkload, admitLease, setActivating, setBound,
                      setFailed, setReleasing, removeFinalizer
  <1>7. CASE \/ createWorkload \/ deleteWorkload \/ pollState \/ activationTimeout \/ markPodHot
             \/ revertPod \/ glAbort
    BY <1>1, <1>7 DEF createWorkload, deleteWorkload, pollState, activationTimeout, markPodHot,
                      revertPod, glAbort
  <1>8. CASE activatePod
    <2>1. gl.slot \in Slot /\ gl.lease.claim \in Pods /\ lease' = lease
      BY <1>2, <1>3, <1>8 DEF activatePod
    <2>2. \/ machine' = machine
          \/ machine' = [machine EXCEPT ![gl.lease.claim] = Activated(machine[gl.lease.claim], gl.slot)]
      BY <1>8 DEF activatePod
    <2> QED BY <1>1, <1>2, <2>1, <2>2, MachineShape
  <1>9. CASE releasePod
    <2>1. gl.slot \in Slot /\ gl.lease.claim \in Pods /\ lease' = lease
      BY <1>2, <1>3, <1>9 DEF releasePod
    <2>2. \/ machine' = machine
          \/ machine' = [machine EXCEPT ![gl.lease.claim] = Released(machine[gl.lease.claim])]
      BY <1>9 DEF releasePod
    <2> QED BY <1>1, <1>2, <2>1, <2>2, MachineShape
  <1> QED BY <1>1, <1>4, <1>6, <1>7, <1>8, <1>9 DEF GLNext, GLCall

\* Every step of the WarmPool worker has the shape: it moves no machine.
LEMMA WPShape == ASSUME Base, WPNext PROVE Shaped
  <1>1. CASE UNCHANGED <<lease, machine>>
    BY <1>1 DEF Shaped
  <1>2. TypeOK
    BY DEF Base
  <1>3. machine' = machine
    BY Zenon DEF WPNext, WPCall, listLeases, reclaimFailedLease, deleteOrphan, keepLease,
                 deleteFailedLease,
           decide, acquireLeaseOnNode, labelReleasing, labelActivating, deleteLease, wpAbort
  <1>4. ASSUME NEW s \in Slot, reclaimFailedLease(s) PROVE Shaped
    <2>1. lease' = lease \/ \E l, H : PutLease(s, l, H)
      BY <1>4 DEF reclaimFailedLease
    <2> QED BY <1>1, <1>2, <1>3, <2>1, PutShape
  <1>5. ASSUME NEW s \in Slot, deleteOrphan(s) \/ keepLease(s) PROVE Shaped
    <2>1. lease' = lease \/ DeleteLease(s)
      BY <1>5 DEF deleteOrphan, keepLease
    <2> QED BY <1>1, <1>2, <1>3, <2>1, DeleteShape
  <1>6. CASE deleteFailedLease
    <2>1. DeleteLease(wp.slot) /\ wp.slot \in Slot
      BY <1>6 DEF deleteFailedLease, Base, WPPlan
    <2> QED BY <1>2, <1>3, <2>1, DeleteShape
  <1>7. CASE deleteLease
    <2>1. wp.slot \in Slot \cup {NoLease}
      BY <1>2 DEF TypeOK, WPState
    <2>2. lease' = lease \/ (wp.slot # NoLease /\ DeleteLease(wp.slot))
      BY <1>7 DEF deleteLease
    <2> QED BY <1>1, <1>2, <1>3, <2>1, <2>2, DeleteShape
  <1>8. ASSUME NEW p, acquireLeaseOnNode(p) PROVE Shaped
    <2>1. lease' = lease \/ \E s \in Slot : PutLease(s, NewLease(p), {})
      BY <1>8 DEF acquireLeaseOnNode, FreeGPUIDs
    <2> QED BY <1>1, <1>2, <1>3, <2>1, PutShape
  <1>9. CASE listLeases \/ decide \/ labelActivating \/ wpAbort
    BY <1>1, <1>9 DEF listLeases, decide, labelActivating, wpAbort
  <1>10. ASSUME NEW p, labelReleasing(p) PROVE Shaped
    BY Zenon, <1>1, <1>10 DEF labelReleasing
  <1> QED BY <1>4, <1>5, <1>6, <1>7, <1>8, <1>9, <1>10 DEF WPNext, WPCall

\* Every step of the environment has the shape.
LEMMA EnvironmentShape == ASSUME Base, Environment PROVE Shaped
  <1>1. CASE UNCHANGED <<lease, machine>>
    BY <1>1 DEF Shaped
  <1>2. TypeOK
    BY DEF Base
  <1>3. ASSUME NEW s \in Slot,
               KueueAdmit(s) \/ KueueInadmissible(s) \/ KueueEvict(s) \/ CollectWorkload(s)
        PROVE  Shaped
    BY <1>1, <1>3 DEF KueueAdmit, KueueInadmissible, KueueEvict, CollectWorkload
  <1>4. ASSUME NEW s \in Slot, OperatorDelete(s) PROVE Shaped
    BY <1>2, <1>4, DeleteShape DEF OperatorDelete
  <1>5. ASSUME NEW p \in Pods, PodCreate(p) \/ PodReady(p) \/ PodDelete(p) PROVE Shaped
    BY <1>1, <1>5 DEF PodCreate, PodReady, PodDelete, SetPod
  <1>6. ASSUME NEW p \in Pods,
               PodGone(p) \/ ContainerRestart(p) \/ WarmupDone(p) \/ TeardownDone(p)
        PROVE  Shaped
    <2>1. lease' = lease
      BY <1>6 DEF PodGone, ContainerRestart, WarmupDone, TeardownDone, SetPod
    <2>2. \/ machine' = [machine EXCEPT ![p] = WarmMachine]
          \/ machine[p].state = "activating" /\ machine' = [machine EXCEPT ![p] = WarmedUp(machine[p])]
      BY <1>6 DEF PodGone, ContainerRestart, WarmupDone, TeardownDone, TornDown
    <2>3. CASE Slot = {}
      BY <1>2, <2>1, <2>2, <2>3 DEF TypeOK, Shaped, OneMachine
    <2>4. CASE Slot # {}
      BY <1>2, <2>1, <2>2, <2>4, MachineShape
    <2> QED BY <2>3, <2>4
  <1>7. CASE SyncLeases \/ SyncWorkloads \/ SyncPods
    BY <1>1, <1>7 DEF SyncLeases, SyncWorkloads, SyncPods
  <1> QED BY <1>3, <1>4, <1>5, <1>6, <1>7 DEF Environment

-----------------------------------------------------------------------------
(* The refinement *)

\* A write to one lease grants its GPU, revokes it, or leaves its owner alone.
LEMMA LeaseLedger ==
  ASSUME "lostDelete" \notin FaultKinds, Safe, Safe', LeaseSteps, OneLease
  PROVE  [Ledger!Next]_<<claims, users>>
  <1>1. PICK s \in Slot : \A t \in Slot \ {s} : lease'[t] = lease[t]
    BY DEF OneLease
  <1>2. users' = users
    BY DEF OneLease, users
  <1>3. claims' = [claims EXCEPT ![s] = lease'[s].claim]
    BY ZenonT(30), <1>1 DEF claims
  <1>4. lease[s] \in LeaseObj /\ lease'[s] \in LeaseObj /\ LeaseStep(lease[s], lease'[s])
    BY DEF Safe, Base, TypeOK, LeaseSteps
  <1>5. claims[s] = lease[s].claim
    BY DEF claims
  <1>6. CASE lease'[s].claim = lease[s].claim
    <2>1. claims' = claims
      BY <1>1, <1>6 DEF claims
    <2> QED BY <1>2, <2>1
  <1>7. CASE lease[s].phase = "none" /\ lease'[s].phase # "none"
    <2>1. lease[s].claim = NoPod /\ lease'[s].claim \in Pods
      BY <1>4, <1>7 DEF LeaseObj, Absent, Stored, Phase
    <2>2. Ledger!Grant(s, lease'[s].claim)
      BY <1>2, <1>3, <1>5, <2>1 DEF Ledger!Grant
    <2> QED BY <2>1, <2>2 DEF Ledger!Next
  <1>8. CASE lease'[s].phase = "none"
    <2>1. lease'[s].claim = NoPod
      BY <1>4, <1>8 DEF LeaseObj, Absent, Stored, Phase
    <2>2. \A p \in Pods : ~Uses(machine'[p], s)
      BY <2>1, ClusterAssumption DEF Safe, GPUsProtected, GPUUseLeased
    <2>3. users[s] = {}
      BY <2>2 DEF users, OneLease
    <2>4. Ledger!Revoke(s)
      BY <1>2, <1>3, <2>1, <2>3 DEF Ledger!Revoke
    <2> QED BY <2>4 DEF Ledger!Next
  <1> QED BY <1>4, <1>6, <1>7, <1>8 DEF LeaseStep

\* A machine's step begins the use of a GPU, ends it, or changes no user.
LEMMA MachineLedger ==
  ASSUME "lostDelete" \notin FaultKinds, Safe, Safe', OneMachine
  PROVE  [Ledger!Next]_<<claims, users>>
  <1>1. claims' = claims
    BY DEF OneMachine, claims
  <1>2. PICK p \in Pods :
          /\ \A q \in Pods \ {p} : machine'[q] = machine[q]
          /\ \A s \in Slot : Uses(machine'[p], s) =>
               Uses(machine[p], s) \/ \A t \in Slot : ~Uses(machine[p], t)
    BY DEF OneMachine
  <1>3. \A q \in Pods, s \in Slot : /\ Uses(machine[q], s) => claims[s] = q
                                    /\ Uses(machine'[q], s) => claims[s] = q
    BY <1>1 DEF Safe, GPUsProtected, GPUUseLeased, claims
  <1>4. \A s, t \in Slot : /\ Uses(machine[p], s) /\ Uses(machine[p], t) => s = t
                           /\ Uses(machine'[p], s) /\ Uses(machine'[p], t) => s = t
    BY DEF Uses
  <1>5. CASE \A s \in Slot : Uses(machine'[p], s) <=> Uses(machine[p], s)
    <2>1. users' = users
      BY <1>2, <1>5 DEF users
    <2> QED BY <1>1, <2>1
  <1>6. ASSUME NEW s \in Slot, Uses(machine'[p], s), ~Uses(machine[p], s)
        PROVE  Ledger!Next
    <2>1. claims[s] = p /\ \A q \in Pods : ~Uses(machine[q], s)
      <3>1. claims[s] = p
        BY <1>3, <1>6
      <3>2. ASSUME NEW q \in Pods, Uses(machine[q], s) PROVE FALSE
        <4>1. claims[s] = q
          BY <1>3, <3>2
        <4> QED BY <1>6, <3>1, <3>2, <4>1
      <3> QED BY <3>1, <3>2
    <2>2. \A t \in Slot \ {s}, q \in Pods : Uses(machine'[q], t) <=> Uses(machine[q], t)
      BY <1>2, <1>4, <1>6
    <2>3. \A q \in Pods : Uses(machine'[q], s) <=> q = p
      BY <1>3, <1>6, <2>1
    <2>4. users[s] = {} /\ users' = [users EXCEPT ![s] = {p}]
      BY Zenon, <2>1, <2>2, <2>3 DEF users
    <2>5. Ledger!Use(s)
      BY <1>1, <2>1, <2>4, ClusterAssumption DEF Ledger!Use
    <2> QED BY <2>5 DEF Ledger!Next
  <1>7. ASSUME NEW s \in Slot, Uses(machine[p], s), ~Uses(machine'[p], s)
        PROVE  Ledger!Next
    <2>1. ASSUME NEW q \in Pods, Uses(machine'[q], s) PROVE FALSE
      <3>1. claims[s] = p
        BY <1>3, <1>7
      <3>2. claims[s] = q
        BY <1>3, <2>1
      <3> QED BY <1>7, <2>1, <3>1, <3>2
    <2>2. \A t \in Slot \ {s}, q \in Pods : Uses(machine'[q], t) <=> Uses(machine[q], t)
      BY <1>2, <1>4, <1>7
    <2>3. users' = [users EXCEPT ![s] = {}]
      BY ZenonT(30), <2>1, <2>2 DEF users
    <2>4. Ledger!Stop(s)
      BY <1>1, <2>3 DEF Ledger!Stop
    <2> QED BY <2>4 DEF Ledger!Next
  <1> QED BY <1>5, <1>6, <1>7

-----------------------------------------------------------------------------
(* The hot label *)

Served == {"Activating", "Bound", "Releasing"}

\* Lease s stands behind the hot label of pod p: it has asked the pod to
\* activate, and its worker is not past reverting the label.
Backing(s, p) ==
  /\ lease[s].claim = p /\ lease[s].phase \in Served
  /\ ~(gl.slot = s /\ gl.pc \in {"setFailed", "removeFinalizer"})

HotBacked ==
  \A p \in Pods : Alive(p) /\ pod[p].label = "hot" => \E s \in Slot : Backing(s, p)

\* A pod is not created hot, and revertPodToWarm leaves the label alone only
\* when it has read warm, which nobody but its own worker turns into hot.
HotNone == \A p \in Pods : pod[p].st = "none" => pod[p].label # "hot"

RevertReads ==
  gl.pc = "revertPod" /\ gl.label = "warm" => pod[gl.lease.claim].label # "hot"

HotInv == Safe /\ HotBacked /\ HotNone /\ RevertReads

\* A step that labels no pod hot and takes no backing lease away.
LEMMA HotMove ==
  ASSUME HotInv, Safe',
         \A p \in Pods : /\ pod'[p].label = "hot" => pod[p].label = "hot"
                         /\ pod'[p].st = "none" => pod[p].st = "none"
                         /\ Alive(p)' => Alive(p) \/ pod[p].st = "none",
         \A p \in Pods, s \in Slot : Backing(s, p) => Backing(s, p)',
         gl'.pc = "revertPod" => gl' = gl /\ gl.lease.claim \in Pods
  PROVE  HotInv'
  <1>1. HotBacked'
    <2> SUFFICES ASSUME NEW p \in Pods, Alive(p)', pod'[p].label = "hot"
                 PROVE  \E s \in Slot : Backing(s, p)'
      BY DEF HotBacked
    <2>1. Alive(p) /\ pod[p].label = "hot"
      BY DEF HotInv, HotNone
    <2> QED BY <2>1 DEF HotInv, HotBacked
  <1>2. HotNone'
    BY DEF HotInv, HotNone
  <1>3. RevertReads'
    BY DEF HotInv, RevertReads
  <1> QED BY <1>1, <1>2, <1>3 DEF HotInv

\* A write to one lease that keeps it backing if it was.
LEMMA WriteBacking ==
  ASSUME TypeOK, NEW s \in Slot, NEW new, NEW H, PutLease(s, new, H),
         gl' = gl \/ gl'.pc \notin {"setFailed", "removeFinalizer"},
         \A p \in Pods : Backing(s, p) => new.claim = p /\ new.phase \in Served,
         NEW p \in Pods, NEW t \in Slot, Backing(t, p)
  PROVE  Backing(t, p)'
  <1>1. lease' = [lease EXCEPT ![s] = new] /\ lease \in [Slot -> LeaseObj]
    BY DEF PutLease, TypeOK
  <1>2. CASE t = s
    BY <1>1, <1>2 DEF Backing
  <1>3. CASE t # s
    BY <1>1, <1>3 DEF Backing
  <1> QED BY <1>2, <1>3

\* DELETE on a lease takes no backing away: only a Failed lease has no
\* finalizer to keep it.
LEMMA DeleteBacking ==
  ASSUME Base, NEW s \in Slot, DeleteLease(s), gl' = gl,
         NEW p \in Pods, NEW t \in Slot, Backing(t, p)
  PROVE  Backing(t, p)'
  <1>1. CASE UNCHANGED lease
    BY <1>1 DEF Backing
  <1>2. CASE Exists(s) /\ PutLease(s, IF lease[s].fin THEN [lease[s] EXCEPT !.del = TRUE] ELSE Absent, {})
    <2>1. lease[s] \in Stored
      BY <1>2, LeaseEdit DEF Base, TypeOK, Exists
    <2>2. CASE lease[s].fin
      <3> DEFINE new == [lease[s] EXCEPT !.del = TRUE]
      <3>1. PutLease(s, new, {})
        BY <1>2, <2>2
      <3>2. new.claim = lease[s].claim /\ new.phase = lease[s].phase
        BY <2>1 DEF Stored
      <3> HIDE DEF new
      <3>3. \A q \in Pods : Backing(s, q) => new.claim = q /\ new.phase \in Served
        BY <3>2 DEF Backing
      <3> QED BY <3>1, <3>3, WriteBacking DEF Base
    <2>3. CASE ~lease[s].fin
      <3>1. PutLease(s, Absent, {}) /\ lease[s].phase = "Failed"
        BY <1>2, <2>3 DEF Base, FinalizerKept
      <3> QED BY <3>1, WriteBacking DEF Backing, Base, Served
    <2> QED BY <2>2, <2>3
  <1> QED BY <1>1, <1>2 DEF DeleteLease

\* The claim of the lease the worker holds is a pod.
LEMMA GLClaim ==
  ASSUME Base, gl.pc # "idle"
  PROVE  gl.slot \in Slot /\ gl.lease.claim \in Pods
  <1>1. gl.slot \in Slot /\ gl.lease.phase # "none" /\ gl.lease \in LeaseObj
    BY DEF Base, GLPlan, Planned, TypeOK, GLState
  <1> QED BY <1>1 DEF LeaseObj, Absent, Stored

\* The worker between reconciles is at "idle".
LEMMA IdlePc == GLIdle.pc = "idle"
  BY DEF GLIdle

\* The calls of the GPULease worker that only a lease it has let go of reaches.
Past == {"revertPod", "setFailed", "removeFinalizer"}

\* A step of the worker that writes neither lease nor pod.
LEMMA GLQuietHot ==
  ASSUME HotInv, Safe', UNCHANGED <<lease, pod>>, gl'.pc \notin Past
  PROVE  HotInv'
  <1>1. \A p \in Pods, s \in Slot : Backing(s, p) => Backing(s, p)'
    BY DEF Backing, Past
  <1> QED BY <1>1, HotMove DEF Alive, Past

\* A lease update that keeps a backing lease backing, or follows the revert.
LEMMA GLUpdateHot ==
  ASSUME HotInv, Safe', NEW at, NEW new, NEW then, at # "idle", then \notin Past,
         GLUpdate(at, new, then),
         gl.lease.phase \in Served /\ at \notin {"setFailed", "removeFinalizer"} =>
           new.phase \in Served /\ new.claim = gl.lease.claim
  PROVE  HotInv'
  <1>1. TypeOK /\ gl.slot \in Slot /\ gl.pc = at /\ pod' = pod
    BY GLClaim DEF GLUpdate, HotInv, Safe, Base
  <1>2. gl'.pc \in {"idle", then}
    <2>1. gl \in GLState
      BY Zenon DEF HotInv, Safe, Base, TypeOK
    <2>2. gl' = GLIdle \/ gl' = [gl EXCEPT !.pc = then, !.lease = new]
      BY DEF GLUpdate, GLReturn
    <2> QED BY <2>1, <2>2, IdlePc DEF GLState
  <1>3. CASE lease' = lease
    BY <1>1, <1>2, <1>3, GLQuietHot DEF Past
  <1>4. ASSUME GLFresh, NEW H, PutLease(gl.slot, new, H) PROVE HotInv'
    <2>1. gl.lease = lease[gl.slot]
      BY <1>1, <1>4 DEF GLFresh, HotInv, Safe, Base, Copies
    <2>2. \A p \in Pods : Backing(gl.slot, p) => new.claim = p /\ new.phase \in Served
      BY <1>1, <2>1 DEF Backing
    <2>3. gl'.pc \notin Past
      BY <1>2 DEF Past
    <2>4. \A p \in Pods, s \in Slot : Backing(s, p) => Backing(s, p)'
      BY <1>1, <1>4, <2>2, <2>3, WriteBacking DEF Past
    <2> QED BY <1>1, <2>3, <2>4, HotMove DEF Alive, Past
  <1>5. lease' = lease \/ (GLFresh /\ \E H : PutLease(gl.slot, new, H))
    BY DEF GLUpdate
  <1> QED BY <1>3, <1>4, <1>5

\* The lease updates of the GPULease worker keep the label backed.
LEMMA GLUpdatesHot ==
  ASSUME HotInv, Safe',
         \/ addFinalizer \/ recordWorkload \/ admitLease \/ setActivating \/ setBound
         \/ setFailed \/ setReleasing \/ removeFinalizer
  PROVE  HotInv'
  <1>1. gl.pc # "idle" => gl.lease \in Stored
    BY LeaseEdit DEF HotInv, Safe, Base, GLPlan, Planned, TypeOK, GLState
  <1>2. ASSUME NEW ph \in Phase, gl.pc # "idle"
        PROVE  [gl.lease EXCEPT !.phase = ph].phase = ph /\ [gl.lease EXCEPT !.phase = ph].claim = gl.lease.claim
    BY <1>1, <1>2 DEF Stored
  <1>3. gl.pc \in {"recordWorkload", "admitLease"} => gl.lease.phase = "Pending"
    BY DEF HotInv, Safe, Base, GLPlan, Planned
  <1>4. CASE addFinalizer
    <2> DEFINE new == [gl.lease EXCEPT !.fin = TRUE]
    <2>1. GLUpdate("addFinalizer", new, "idle") /\ gl.pc = "addFinalizer"
      BY <1>4 DEF addFinalizer, GLUpdate
    <2>2. new.phase = gl.lease.phase /\ new.claim = gl.lease.claim
      BY <1>1, <2>1 DEF Stored
    <2> HIDE DEF new
    <2> QED BY <2>1, <2>2, GLUpdateHot DEF Past
  <1>5. CASE recordWorkload
    <2> DEFINE new == [gl.lease EXCEPT !.named = TRUE]
    <2>1. GLUpdate("recordWorkload", new, "idle") /\ gl.pc = "recordWorkload"
      BY <1>5 DEF recordWorkload, GLUpdate
    <2>2. gl.lease.phase \notin Served
      BY <1>3, <2>1 DEF Served
    <2> HIDE DEF new
    <2> QED BY <2>1, <2>2, GLUpdateHot DEF Past
  <1>6. CASE admitLease
    <2> DEFINE new == [gl.lease EXCEPT !.phase = "Admitted"]
    <2>1. GLUpdate("admitLease", new, "idle") /\ gl.pc = "admitLease"
      BY <1>6 DEF admitLease, GLUpdate
    <2>2. gl.lease.phase \notin Served
      BY <1>3, <2>1 DEF Served
    <2> HIDE DEF new
    <2> QED BY <2>1, <2>2, GLUpdateHot DEF Past
  <1>7. CASE setActivating
    <2> DEFINE new == [gl.lease EXCEPT !.phase = "Activating"]
    <2>1. GLUpdate("setActivating", new, "idle") /\ gl.pc = "setActivating"
      BY <1>7 DEF setActivating, GLUpdate
    <2>2. new.phase \in Served /\ new.claim = gl.lease.claim
      BY <1>2, <2>1 DEF Served, Phase
    <2> HIDE DEF new
    <2> QED BY <2>1, <2>2, GLUpdateHot DEF Past
  <1>8. CASE setBound
    <2> DEFINE new == [gl.lease EXCEPT !.phase = "Bound"]
    <2>1. GLUpdate("setBound", new, "idle") /\ gl.pc = "setBound"
      BY <1>8 DEF setBound, GLUpdate
    <2>2. new.phase \in Served /\ new.claim = gl.lease.claim
      BY <1>2, <2>1 DEF Served, Phase
    <2> HIDE DEF new
    <2> QED BY <2>1, <2>2, GLUpdateHot DEF Past
  <1>9. CASE setReleasing
    <2> DEFINE new == [gl.lease EXCEPT !.phase = "Releasing"]
    <2>1. GLUpdate("setReleasing", new, "deleteWorkload") /\ gl.pc = "setReleasing"
      BY <1>9 DEF setReleasing, GLUpdate
    <2>2. new.phase \in Served /\ new.claim = gl.lease.claim
      BY <1>2, <2>1 DEF Served, Phase
    <2> HIDE DEF new
    <2> QED BY <2>1, <2>2, GLUpdateHot DEF Past
  <1>10. CASE setFailed
    BY <1>10, GLUpdateHot DEF setFailed, Past
  <1>11. CASE removeFinalizer
    BY <1>11, GLUpdateHot DEF removeFinalizer, Past
  <1> QED BY <1>4, <1>5, <1>6, <1>7, <1>8, <1>9, <1>10, <1>11

\* So do its other calls, of which markPodHot is the one that sets the label.
LEMMA GLCallsHot ==
  ASSUME "pod" \notin Stale, "lostPatch" \notin FaultKinds, HotInv, Safe',
         \/ \E s \in Slot : GLStart(s)
         \/ createWorkload \/ deleteWorkload \/ activatePod \/ pollState \/ activationTimeout
         \/ markPodHot \/ releasePod \/ revertPod \/ glAbort
  PROVE  HotInv'
  <1>1. Safe /\ Base /\ gl \in GLState /\ pod \in [Pods -> PodObj]
    BY DEF HotInv, Safe, Base, TypeOK
  <1>2. ASSUME NEW s \in Slot, GLStart(s) PROVE HotInv'
    <2>1. UNCHANGED <<lease, pod>>
      BY Zenon, <1>2 DEF GLStart, beginDeletion, beginAddFinalizer, reconcilePending, admissionTimeout,
                  reconcileAdmitted, reconcileActivating, reconcileBound, GLBeginFailing, GLBegin
    <2>2. ASSUME NEW pc, NEW label, NEW failing, GLBegin(s, pc, label, failing), pc \notin Past
          PROVE  gl'.pc \notin Past
      BY <2>2 DEF GLBegin
    <2>3. ASSUME beginDeletion(s) \/ beginAddFinalizer(s) PROVE gl'.pc \notin Past
      BY <2>2, <2>3 DEF beginDeletion, beginAddFinalizer, Past
    <2>4. ASSUME reconcilePending(s) \/ admissionTimeout(s) PROVE gl'.pc \notin Past
      BY <2>2, <2>4 DEF reconcilePending, admissionTimeout, GLBeginFailing, Past
    <2>5. ASSUME reconcileAdmitted(s) \/ reconcileActivating(s) \/ reconcileBound(s)
          PROVE  gl'.pc \notin Past
      BY <2>2, <2>5 DEF reconcileAdmitted, reconcileActivating, reconcileBound, GLBeginFailing, Past
    <2>6. gl'.pc \notin Past
      BY <1>2, <2>3, <2>4, <2>5 DEF GLStart
    <2> QED BY <2>1, <2>6, GLQuietHot
  <1>3. CASE createWorkload \/ deleteWorkload \/ activatePod \/ pollState \/ activationTimeout \/ glAbort
    <2>1. UNCHANGED <<lease, pod>>
      BY ZenonT(30), <1>3 DEF createWorkload, deleteWorkload, activatePod, pollState,
                              activationTimeout, glAbort
    <2>2. \/ GLReturn \/ GLFail
          \/ \E pc \in {"recordWorkload", "releasePod", "setActivating", "markPodHot"} : GLGoto(pc)
      BY Zenon, <1>3 DEF createWorkload, deleteWorkload, activatePod, pollState, activationTimeout,
                         glAbort
    <2>3. gl'.pc \notin Past
      BY <1>1, <2>2, IdlePc DEF GLGoto, GLReturn, GLFail, GLState, Past
    <2> QED BY <2>1, <2>3, GLQuietHot
  <1>4. CASE markPodHot
    <2>1. PICK p \in Pods, g \in Slot : p = gl.lease.claim /\ g = gl.slot /\ lease' = lease
      BY <1>1, <1>4, GLClaim DEF markPodHot
    <2>2. CASE UNCHANGED pod
      <3>1. gl' = GLIdle \/ gl' = [gl EXCEPT !.pc = "setBound", !.label = ""]
        BY <1>4 DEF markPodHot, GLReturn
      <3>2. gl'.pc \in {"idle", "setBound"}
        BY <1>1, <3>1, IdlePc DEF GLState
      <3> QED BY <2>1, <2>2, <3>2, GLQuietHot DEF Past
    <2>3. CASE pod' # pod
      <3>1. pod' = [pod EXCEPT ![p].label = "hot"] /\ gl' = [gl EXCEPT !.pc = "setBound", !.label = ""] /\ Alive(p)
        BY <1>4, <2>1, <2>3 DEF markPodHot, PatchLabel
      <3>2. gl'.pc = "setBound"
        BY <1>1, <3>1 DEF GLState
      <3>3. lease[g].claim = p /\ lease[g].phase = "Activating"
        BY <1>1, <1>4, <2>1 DEF markPodHot, Safe, InStep, Base, GLPlan, Planned
      <3>4. \A q \in Pods, s \in Slot : Backing(s, q) => Backing(s, q)'
        BY Zenon, <2>1, <3>2 DEF Backing
      <3>5. Backing(g, p)'
        BY <2>1, <3>2, <3>3 DEF Backing, Served
      <3>6. \A q \in Pods : /\ pod'[q].st = pod[q].st
                            /\ q # p => pod'[q].label = pod[q].label
        BY <1>1, <2>1, <3>1 DEF PodObj
      <3>7. HotBacked'
        BY <2>1, <3>4, <3>5, <3>6 DEF HotInv, HotBacked, Alive
      <3>8. HotNone'
        BY <2>1, <3>1, <3>6 DEF HotInv, HotNone, Alive
      <3> QED BY <3>2, <3>7, <3>8 DEF HotInv, RevertReads
    <2> QED BY <2>2, <2>3
  <1>5. ASSUME NEW p \in Pods, lease' = lease, p = gl.lease.claim, gl.slot \in Slot,
               gl'.pc \in {"setFailed", "removeFinalizer"}, gl'.slot = gl.slot,
               gl.pc \notin {"idle", "addFinalizer"},
               ~Alive(p)' \/ pod'[p].label # "hot",
               \A q \in Pods : pod'[q].st = pod[q].st /\ (pod'[q].label = "hot" => pod[q].label = "hot")
        PROVE  HotInv'
    <2>1. lease[gl.slot].claim = p
      BY <1>1, <1>5 DEF Safe, InStep
    <2>2. \A q \in Pods \ {p}, s \in Slot : Backing(s, q) => Backing(s, q)'
      BY <1>5, <2>1 DEF Backing
    <2>3. HotBacked'
      BY ZenonT(30), <1>5, <2>2 DEF HotInv, HotBacked, Alive
    <2>4. HotNone'
      BY Zenon, <1>5 DEF HotInv, HotNone
    <2> QED BY <1>5, <2>3, <2>4 DEF HotInv, RevertReads
  <1>6. AfterRelease \in {"setFailed", "removeFinalizer"}
    BY DEF AfterRelease
  <1>7. CASE releasePod
    <2>1. PICK p \in Pods : /\ p = gl.lease.claim /\ gl.slot \in Slot
                            /\ UNCHANGED <<lease, pod>> /\ gl.pc = "releasePod"
      BY <1>1, <1>7, GLClaim DEF releasePod
    <2>2. SeenPod(p) = pod[p]
      BY DEF SeenPod
    <2>3. CASE pod[p].st \in {"none", "gone"}
      <3>1. gl'.pc = AfterRelease /\ gl'.slot = gl.slot
        BY <1>1, <1>7, <2>1, <2>2, <2>3 DEF releasePod, GLGoto, GLState
      <3>2. ~Alive(p)'
        BY <2>1, <2>3 DEF Alive
      <3> QED BY <1>5, <1>6, <2>1, <3>1, <3>2
    <2>4. CASE pod[p].st \notin {"none", "gone"}
      <3>1. gl' = [gl EXCEPT !.pc = "revertPod", !.label = pod[p].label]
        BY <1>7, <2>1, <2>2, <2>4 DEF releasePod
      <3>2. /\ gl'.pc = "revertPod" /\ gl'.slot = gl.slot /\ gl'.lease = gl.lease
            /\ gl'.label = pod[p].label
        BY <1>1, <3>1 DEF GLState
      <3>3. \A q \in Pods, s \in Slot : Backing(s, q) => Backing(s, q)'
        BY <2>1, <3>2 DEF Backing
      <3>4. HotBacked' /\ HotNone'
        BY <2>1, <3>3 DEF HotInv, HotBacked, HotNone, Alive
      <3>5. RevertReads'
        BY <2>1, <3>2 DEF RevertReads
      <3> QED BY <3>4, <3>5 DEF HotInv
    <2> QED BY <2>3, <2>4
  <1>8. CASE revertPod
    <2>1. PICK p \in Pods : /\ p = gl.lease.claim /\ gl.slot \in Slot
                            /\ lease' = lease /\ gl.pc = "revertPod"
      BY <1>1, <1>8, GLClaim DEF revertPod
    <2>2. gl'.pc = AfterRelease /\ gl'.slot = gl.slot
      BY <1>1, <1>8 DEF revertPod, GLState
    <2>3. IF Alive(p) THEN PatchLabel(p, gl.label, "warm") ELSE pod' = pod
      BY <1>8, <2>1 DEF revertPod, Fault
    <2>4. CASE pod' = pod
      <3>1. ~Alive(p)' \/ pod'[p].label # "hot"
        <4>1. CASE gl.label = "warm"
          BY <2>1, <2>4, <4>1 DEF HotInv, RevertReads
        <4>2. CASE gl.label # "warm" /\ Alive(p)
          <5>1. pod' = [pod EXCEPT ![p].label = "warm"]
            BY <2>3, <4>2 DEF PatchLabel
          <5> QED BY <1>1, <2>1, <5>1 DEF PodObj
        <4>3. CASE ~Alive(p)
          BY <2>4, <4>3 DEF Alive
        <4> QED BY <4>1, <4>2, <4>3
      <3> QED BY <1>5, <1>6, <2>1, <2>2, <2>4, <3>1
    <2>5. CASE pod' = [pod EXCEPT ![p].label = "warm"]
      <3>1. \A q \in Pods : /\ pod'[q].st = pod[q].st
                            /\ pod'[q].label = IF q = p THEN "warm" ELSE pod[q].label
        BY <1>1, <2>1, <2>5 DEF PodObj
      <3> QED BY <1>5, <1>6, <2>1, <2>2, <3>1
    <2> QED BY <2>3, <2>4, <2>5 DEF PatchLabel
  <1> QED BY <1>2, <1>3, <1>4, <1>7, <1>8

\* The WarmPool worker labels no pod hot and removes no backing lease.
LEMMA WPHot ==
  ASSUME HotInv, Safe', WPNext, UNCHANGED gl
  PROVE  HotInv'
  <1>1. Base /\ TypeOK /\ pod \in [Pods -> PodObj] /\ wp \in WPState
    BY DEF HotInv, Safe, Base, TypeOK
  <1>2. gl'.pc = "revertPod" => gl' = gl /\ gl.lease.claim \in Pods
    BY <1>1, GLClaim
  <1>3. ASSUME \A p \in Pods : pod'[p].st = pod[p].st /\ (pod'[p].label = "hot" => pod[p].label = "hot"),
               \A p \in Pods, s \in Slot : Backing(s, p) => Backing(s, p)'
        PROVE  HotInv'
    <2>1. \A p \in Pods : Alive(p)' => Alive(p)
      BY <1>3 DEF Alive
    <2> QED BY <1>2, <1>3, <2>1, HotMove
  <1>4. ASSUME lease' = lease,
               \A p \in Pods : pod'[p].st = pod[p].st /\ (pod'[p].label = "hot" => pod[p].label = "hot")
        PROVE  HotInv'
    <2>1. \A p \in Pods, s \in Slot : Backing(s, p) => Backing(s, p)'
      BY <1>4 DEF Backing
    <2> QED BY <1>3, <1>4, <2>1
  <1>5. ASSUME NEW s \in Slot, DeleteLease(s), pod' = pod PROVE HotInv'
    <2>1. \A p \in Pods, t \in Slot : Backing(t, p) => Backing(t, p)'
      BY <1>1, <1>5, DeleteBacking
    <2> QED BY <1>3, <1>5, <2>1
  <1>6. ASSUME NEW s \in Slot, NEW l, NEW H, PutLease(s, l, H), pod' = pod, lease[s].phase \notin Served
        PROVE  HotInv'
    <2>1. \A p \in Pods : ~Backing(s, p)
      BY <1>6 DEF Backing
    <2>2. \A p \in Pods, t \in Slot : Backing(t, p) => Backing(t, p)'
      BY <1>1, <1>6, <2>1, WriteBacking
    <2> QED BY <1>3, <1>6, <2>2
  <1>7. ASSUME NEW p \in Pods, NEW seen, NEW label, label # "hot", PatchLabel(p, seen, label), lease' = lease
        PROVE  HotInv'
    <2>1. \A q \in Pods : pod'[q].st = pod[q].st /\ (pod'[q].label = "hot" => pod[q].label = "hot")
      BY <1>1, <1>7 DEF PatchLabel, PodObj
    <2> QED BY <1>4, <1>7, <2>1
  <1>8. ASSUME NEW s \in Slot, reclaimFailedLease(s) PROVE HotInv'
    <2>1. pod' = pod /\ wp.leases[s].phase = "Failed"
      BY <1>8 DEF reclaimFailedLease
    <2>2. lease' = lease \/ ("wp" \in current[s] /\ \E l, H : PutLease(s, l, H))
      BY <1>8 DEF reclaimFailedLease
    <2>3. "wp" \in current[s] => lease[s].phase = "Failed"
      BY <1>1, <2>1 DEF Base, Copies
    <2> QED BY <1>4, <1>6, <2>1, <2>2, <2>3 DEF Served
  <1>9. ASSUME NEW s \in Slot, deleteOrphan(s) \/ keepLease(s) PROVE HotInv'
    <2>1. pod' = pod /\ (lease' = lease \/ DeleteLease(s))
      BY <1>9 DEF deleteOrphan, keepLease
    <2> QED BY <1>4, <1>5, <2>1
  <1>10. CASE deleteFailedLease
    <2>1. pod' = pod /\ DeleteLease(wp.slot) /\ wp.slot \in Slot
      BY <1>1, <1>10 DEF deleteFailedLease, Base, WPPlan
    <2> QED BY <1>5, <2>1
  <1>11. CASE deleteLease
    <2>1. pod' = pod /\ wp.slot \in Slot \cup {NoLease}
      BY <1>1, <1>11 DEF deleteLease, WPState
    <2>2. lease' = lease \/ (wp.slot # NoLease /\ DeleteLease(wp.slot))
      BY <1>11 DEF deleteLease
    <2> QED BY <1>4, <1>5, <2>1, <2>2
  <1>12. ASSUME NEW p, acquireLeaseOnNode(p) PROVE HotInv'
    <2>1. pod' = pod /\ (lease' = lease \/ \E s \in Slot : ~Exists(s) /\ PutLease(s, NewLease(p), {}))
      BY <1>12 DEF acquireLeaseOnNode, FreeGPUIDs
    <2> QED BY <1>4, <1>6, <2>1 DEF Exists, Served
  <1>13. ASSUME NEW p \in wp.cands, labelReleasing(p) PROVE HotInv'
    <2>1. lease' = lease /\ p \in Pods /\ (PatchLabel(p, "hot", "releasing") \/ pod' = pod)
      BY Zenon, <1>1, <1>13 DEF labelReleasing, WPState
    <2> QED BY <1>4, <1>7, <2>1
  <1>14. CASE labelActivating
    <2>1. lease' = lease /\ wp.pod \in Pods /\ (PatchLabel(wp.pod, "warm", "activating") \/ pod' = pod)
      BY <1>1, <1>14 DEF labelActivating, Base, WPPlan
    <2> QED BY <1>4, <1>7, <2>1
  <1>15. CASE decide
    <2>1. lease' = lease
      BY <1>15 DEF decide
    <2>2. \A p \in Pods : pod'[p] = pod[p] \/ pod'[p] = [pod[p] EXCEPT !.label = "warm"]
      BY <1>15 DEF decide
    <2>3. ASSUME NEW p \in Pods
          PROVE  pod'[p].st = pod[p].st /\ (pod'[p].label = "hot" => pod[p].label = "hot")
      <3>1. pod[p] \in PodObj
        BY <1>1
      <3>2. CASE pod'[p] = [pod[p] EXCEPT !.label = "warm"]
        BY <3>1, <3>2 DEF PodObj
      <3> QED BY <2>2, <3>2
    <2> QED BY <1>4, <2>1, <2>3
  <1>16. CASE listLeases \/ wpAbort
    BY <1>4, <1>16 DEF listLeases, wpAbort
  <1> QED BY <1>8, <1>9, <1>10, <1>11, <1>12, <1>13, <1>14, <1>15, <1>16 DEF WPNext, WPCall

\* Neither does the environment: a pod is never created hot.
LEMMA EnvironmentHot ==
  ASSUME HotInv, Safe', Environment
  PROVE  HotInv'
  <1>1. Base /\ TypeOK /\ pod \in [Pods -> PodObj]
    BY DEF HotInv, Safe, Base, TypeOK
  <1>2. UNCHANGED gl
    BY DEF Environment, KueueAdmit, KueueInadmissible, KueueEvict, CollectWorkload, OperatorDelete, SetPod,
           PodCreate, PodReady, PodDelete, PodGone, ContainerRestart, WarmupDone, TeardownDone,
           SyncLeases, SyncWorkloads, SyncPods
  <1>3. gl'.pc = "revertPod" => gl' = gl /\ gl.lease.claim \in Pods
    BY <1>1, <1>2, GLClaim
  <1>4. CASE UNCHANGED <<lease, pod>>
    <2>1. \A p \in Pods, s \in Slot : Backing(s, p) => Backing(s, p)'
      BY <1>2, <1>4 DEF Backing
    <2> QED BY Zenon, <1>3, <1>4, <2>1, HotMove DEF Alive
  <1>5. ASSUME NEW s \in Slot, OperatorDelete(s) PROVE HotInv'
    <2>1. pod' = pod /\ DeleteLease(s)
      BY <1>5 DEF OperatorDelete
    <2>2. \A p \in Pods, t \in Slot : Backing(t, p) => Backing(t, p)'
      BY <1>1, <1>2, <2>1, DeleteBacking
    <2> QED BY <1>3, <2>1, <2>2, HotMove DEF Alive
  <1>6. ASSUME NEW s \in Slot,
               KueueAdmit(s) \/ KueueInadmissible(s) \/ KueueEvict(s) \/ CollectWorkload(s)
        PROVE  HotInv'
    BY <1>4, <1>6 DEF KueueAdmit, KueueInadmissible, KueueEvict, CollectWorkload
  <1>7. ASSUME NEW p \in Pods,
               PodCreate(p) \/ PodReady(p) \/ PodDelete(p) \/ PodGone(p) \/ ContainerRestart(p)
        PROVE  HotInv'
    <2>1. PICK st \in {"unready", "ready", "terminating", "gone"} :
               lease' = lease /\ pod' = [pod EXCEPT ![p].st = st]
      BY <1>7 DEF PodCreate, PodReady, PodDelete, PodGone, ContainerRestart, SetPod
    <2>2. pod[p].st \in {"none", "unready", "ready", "terminating"}
      BY <1>7 DEF PodCreate, PodReady, PodDelete, PodGone, ContainerRestart
    <2>3. pod'[p] = [pod[p] EXCEPT !.st = st] /\ \A q \in Pods \ {p} : pod'[q] = pod[q]
      BY <1>1, <2>1
    <2>4. pod[p] \in PodObj
      BY <1>1
    <2>5. pod'[p].st = st /\ pod'[p].label = pod[p].label
      BY <2>3, <2>4 DEF PodObj
    <2>6. \A q \in Pods : /\ pod'[q].st = "none" => pod[q].st = "none"
                          /\ Alive(q)' => Alive(q) \/ pod[q].st = "none"
      BY Zenon, <2>2, <2>3, <2>5 DEF Alive
    <2>7. \A q \in Pods, s \in Slot : Backing(s, q) => Backing(s, q)'
      BY <1>2, <2>1 DEF Backing
    <2>8. \A q \in Pods : pod'[q].label = "hot" => pod[q].label = "hot"
      BY Zenon, <2>3, <2>5
    <2> QED BY <1>3, <2>6, <2>7, <2>8, HotMove
  <1>8. ASSUME NEW p \in Pods, WarmupDone(p) \/ TeardownDone(p) PROVE HotInv'
    BY <1>4, <1>8 DEF WarmupDone, TeardownDone
  <1>9. CASE SyncLeases \/ SyncWorkloads \/ SyncPods
    BY <1>4, <1>9 DEF SyncLeases, SyncWorkloads, SyncPods
  <1> QED BY <1>5, <1>6, <1>7, <1>8, <1>9 DEF Environment
=============================================================================
